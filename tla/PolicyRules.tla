------------------------------ MODULE PolicyRules ------------------------------
(***************************************************************************)
(* policy/engine.py: the sixteen rules, and what the engine makes of their *)
(* verdicts on one action in one context.                                  *)
(*                                                                         *)
(* Time is counted in half hours of UTC, which India's offset of eleven of *)
(* them keeps aligned with its hours; delays of minutes are rounded up.    *)
(* Money is in paise.  A verdict's reason is left out.                     *)
(***************************************************************************)
EXTENDS Integers, Sequences, FiniteSets, FiniteSetsExt

CONSTANTS
    None,                      \* Python's None
    max_contacts_per_subject,  \* PolicyConfig
    max_contacts_per_customer,
    contact_window,
    quiet_hours_start_ist,
    quiet_hours_end_ist,
    approval_threshold,
    cost_per_contact,
    cost_per_retry,
    min_expected_margin

\* None is no moment, the caps are counts, and the quiet hours run over midnight.
ASSUME PolicyAssumption ==
    /\ None \notin Int
    /\ max_contacts_per_subject \in Nat /\ max_contacts_per_customer \in Nat
    /\ contact_window \in Nat
    /\ quiet_hours_start_ist \in 1 .. 23 /\ quiet_hours_end_ist \in 0 .. 22
    /\ quiet_hours_end_ist < quiet_hours_start_ist
-------------------------------------------------------------------------------
(* The domain the rules read *)

CHARGING_ACTIONS == {"retry_payment", "switch_route"}
CONTACT_ACTIONS == {"send_dunning", "regenerate_payment_link",
                    "request_mandate_reregistration", "offer_part_payment"}
INERT_ACTIONS == {"wait", "do_nothing", "escalate_to_human", "escalate_to_risk"}

Channel == {"email", "sms", "whatsapp", "voice"}

\* The fields of an action that a rule reads; the moment is scheduled_at.
Action == [type : CHARGING_ACTIONS \cup CONTACT_ACTIONS \cup INERT_ACTIONS,
           channel : Channel \cup {None}, at : Int]

is_charging(a) == a.type \in CHARGING_ACTIONS
is_contact(a) == a.type \in CONTACT_ACTIONS
is_inert(a) == a.type \in INERT_ACTIONS

Decline(retry_class, max_retries, min_retry_delay, dunning_allowed) ==
    [retry_class |-> retry_class, max_retries |-> max_retries,
     min_retry_delay |-> min_retry_delay, dunning_allowed |-> dunning_allowed]

\* One code of every kind: the codes left out differ in name and rail only.
DECLINE_SPECS ==
    [insufficient_funds  |-> Decline("soft_retryable", 3, 48, TRUE),
     exceeds_limit       |-> Decline("soft_retryable", 2, 48, TRUE),
     do_not_honor        |-> Decline("soft_retryable", 2, 24, TRUE),
     card_expired        |-> Decline("user_action_required", 0, 0, TRUE),
     invalid_card_number |-> Decline("hard_decline", 0, 0, TRUE),
     stolen_or_lost_card |-> Decline("fraud_block", 0, 0, FALSE),
     issuer_unavailable  |-> Decline("transient", 4, 1, FALSE),
     mandate_insufficient_funds |-> Decline("soft_retryable", 2, 144, TRUE),
     mandate_paused      |-> Decline("soft_retryable", 1, 336, TRUE),
     mandate_expired     |-> Decline("user_action_required", 0, 0, TRUE),
     mandate_revoked     |-> Decline("hard_decline", 0, 0, TRUE),
     mandate_not_registered |-> Decline("hard_decline", 0, 0, TRUE)]

Code == DOMAIN DECLINE_SPECS

\* Recovery odds in percent; 25 where nothing was declined.
RECOVERY_ODDS ==
    [transient |-> 62, soft_retryable |-> 34, user_action_required |-> 18,
     hard_decline |-> 2, fraud_block |-> 0]

BLOCKS_CHARGING == {"authentication_dropoff", "fraud_pressure",
                    "invoice_dispute", "mandate_lifecycle_failure"}
RootCause == BLOCKS_CHARGING \cup {"issuer_outage", "no_systemic_cause"}

\* code is None when the last attempt was captured.
Attempt == [at : Int, code : Code \cup {None}]
Order == [amount : Int, last_attempt : Attempt \cup {None},
          recovery_attempts : Nat]
PromiseToPay == [undecided : BOOLEAN, promised_for : Int]
Invoice == [outstanding : Int, disputed : BOOLEAN,
            promise : PromiseToPay \cup {None}]
Subscription == [annual_value : Int, revoked : BOOLEAN, cancelled : BOOLEAN]
Customer == [email : BOOLEAN, phone : BOOLEAN, dnd_registered : BOOLEAN,
             opted_out : BOOLEAN, consented_channels : SUBSET Channel]

\* contacts: the moments of what was sent about this subject;
\* customer_contacts: of what was sent to this person.
Context == [now : Int, customer : Customer \cup {None},
            order : Order \cup {None}, invoice : Invoice \cup {None},
            subscription : Subscription \cup {None},
            contacts : Seq(Int), customer_contacts : Seq(Int),
            diagnosis : RootCause \cup {None}, outage_until : Int \cup {None}]

last_decline(c) ==
    IF c.order = None \/ c.order.last_attempt = None
    THEN None ELSE c.order.last_attempt.code

Declined(c) == last_decline(c) # None
spec(c) == DECLINE_SPECS[last_decline(c)]

subject_amount(c) ==
    CASE c.order # None -> c.order.amount
      [] c.order = None /\ c.invoice # None -> c.invoice.outstanding
      [] c.order = None /\ c.invoice = None /\ c.subscription # None ->
             c.subscription.annual_value
      [] OTHER -> 0

reachable_on(customer, channel) ==
    /\ ~customer.opted_out
    /\ channel \in customer.consented_channels
    /\ customer.dnd_registered => channel \notin {"sms", "voice"}
    /\ IF channel = "email" THEN customer.email ELSE customer.phone
-------------------------------------------------------------------------------
(* The rules that deny *)

FraudBlock(a, c) ==
    /\ Declined(c) /\ spec(c).retry_class = "fraud_block"
    /\ ~is_inert(a)

NonRetryableDecline(a, c) ==
    is_charging(a) /\ Declined(c) /\ spec(c).max_retries = 0

RetryBudget(a, c) ==
    /\ is_charging(a) /\ Declined(c)
    /\ c.order.recovery_attempts >= spec(c).max_retries

Consent(a, c) ==
    /\ is_contact(a)
    /\ \/ c.customer = None \/ a.channel = None
       \/ ~reachable_on(c.customer, a.channel)

\* How many of the moments are inside the contact window.
Recent(moments, c) ==
    Cardinality({n \in DOMAIN moments : moments[n] >= c.now - contact_window})

ContactFrequency(a, c) ==
    is_contact(a) /\ Recent(c.contacts, c) >= max_contacts_per_subject

ContactFatigue(a, c) ==
    /\ is_contact(a) /\ c.customer # None
    /\ Recent(c.customer_contacts, c) >= max_contacts_per_customer

DisputeFreeze(a, c) == ~is_inert(a) /\ c.invoice # None /\ c.invoice.disputed

is_live(promise, now) == promise.undecided /\ now <= promise.promised_for

PromiseToPayHolds(a, c) ==
    /\ ~is_inert(a)
    /\ c.invoice # None /\ c.invoice.promise # None
    /\ is_live(c.invoice.promise, c.now)

RevokedMandate(a, c) ==
    /\ ~is_inert(a)
    /\ \/ c.subscription # None /\ c.subscription.revoked
       \/ last_decline(c) = "mandate_revoked"

CancelledSubscription(a, c) ==
    ~is_inert(a) /\ c.subscription # None /\ c.subscription.cancelled

DiagnosisGate(a, c) == is_charging(a) /\ c.diagnosis \in BLOCKS_CHARGING

CostOfRecovery(a, c) ==
    LET cost == IF is_contact(a) THEN cost_per_contact ELSE cost_per_retry
        odds == IF Declined(c) THEN RECOVERY_ODDS[spec(c).retry_class] ELSE 25
        expected == (subject_amount(c) * odds + 50) \div 100
    IN  ~is_inert(a) /\ expected - cost < min_expected_margin

Objections(a, c) ==
    [fraud_block |-> FraudBlock(a, c),
     dispute_freeze |-> DisputeFreeze(a, c),
     promise_to_pay |-> PromiseToPayHolds(a, c),
     revoked_mandate |-> RevokedMandate(a, c),
     cancelled_subscription |-> CancelledSubscription(a, c),
     non_retryable_decline |-> NonRetryableDecline(a, c),
     diagnosis_gate |-> DiagnosisGate(a, c),
     retry_budget |-> RetryBudget(a, c),
     contact_consent |-> Consent(a, c),
     contact_frequency |-> ContactFrequency(a, c),
     contact_fatigue |-> ContactFatigue(a, c),
     cost_of_recovery |-> CostOfRecovery(a, c)]

HighValueApproval(a, c) ==
    ~is_inert(a) /\ subject_amount(c) >= approval_threshold
-------------------------------------------------------------------------------
(* The rules that move; a verdict names the rule and the moment it asks for *)

Verdict(condition, rule, to) ==
    IF condition THEN {[rule |-> rule, reschedule_to |-> to]} ELSE {}

earliest(c) == c.order.last_attempt.at + spec(c).min_retry_delay

\* Mutant: the rule's id is another rule's.
RetrySpacing_Misnamed(a, c) ==
    Verdict(is_charging(a) /\ Declined(c) /\ a.at < earliest(c),
            "retry_budget", earliest(c))

\* Mutant: the earliest moment itself is too early.
RetrySpacing_Strict(a, c) ==
    Verdict(is_charging(a) /\ Declined(c) /\ a.at <= earliest(c),
            "retry_spacing", earliest(c))

RetrySpacing(a, c) ==
    Verdict(is_charging(a) /\ Declined(c) /\ a.at < earliest(c),
            "retry_spacing", earliest(c))

OutageHold(a, c) ==
    Verdict(is_charging(a) /\ c.outage_until # None /\ a.at < c.outage_until,
            "outage_hold", c.outage_until)

\* Half hours into the Indian day.
local(t) == (t + 11) % 48

IsQuiet(t) == \/ local(t) < 2 * quiet_hours_end_ist
              \/ local(t) >= 2 * quiet_hours_start_ist

\* Mutant: half an hour short of the end.
next_ok_Short(t) ==
    LET today == t - local(t) + 2 * quiet_hours_end_ist - 1
    IN  IF local(t) >= 2 * quiet_hours_start_ist THEN today + 48 ELSE today

\* Mutant: always the next day.
next_ok_NextDay(t) == t - local(t) + 2 * quiet_hours_end_ist + 48

\* The end of the quiet hours this day or, in the evening, the next.
next_ok(t) ==
    LET today == t - local(t) + 2 * quiet_hours_end_ist
    IN  IF local(t) >= 2 * quiet_hours_start_ist THEN today + 48 ELSE today

QuietHours(a, c) ==
    Verdict(is_contact(a) /\ a.channel \notin {None, "email"} /\ IsQuiet(a.at),
            "quiet_hours", next_ok(a.at))

TimingVerdicts(a, c) == RetrySpacing(a, c) \cup QuietHours(a, c) \cup OutageHold(a, c)
-------------------------------------------------------------------------------
(* The engine, with the rules of the set R *)

DenyRules == {"fraud_block", "dispute_freeze", "promise_to_pay",
              "revoked_mandate", "cancelled_subscription",
              "non_retryable_decline", "diagnosis_gate", "retry_budget",
              "contact_consent", "contact_frequency", "contact_fatigue",
              "cost_of_recovery"}
TimingRules == {"retry_spacing", "quiet_hours", "outage_hold"}
DEFAULT_RULES == DenyRules \cup TimingRules \cup {"high_value_approval"}

denials(R, a, c) == {r \in R \cap DenyRules : Objections(a, c)[r]}

Reschedules(R, a, c) == {v \in TimingVerdicts(a, c) : v.rule \in R}

LatestOf(verdicts) == Max({v.reschedule_to : v \in verdicts})

\* Reschedules compose: the latest of them is taken.
MovedBy(verdicts, a) ==
    IF verdicts = {} THEN a ELSE [a EXCEPT !.at = LatestOf(verdicts)]

\* One more look at the action where it landed; only a later moment counts.
Settle(R, c, s) ==
    LET more == Reschedules(R, s.final, c)
        to == MovedBy(more, s.final)
    IN  IF to.at > s.final.at
        THEN [final |-> to, moves |-> s.moves \cup more] ELSE s

Scheduled(R, a, c) ==
    LET moves == Reschedules(R, a, c)
        first == [final |-> MovedBy(moves, a), moves |-> moves]
    IN  IF moves = {} THEN first
        ELSE Settle(R, c, Settle(R, c, Settle(R, c, first)))

NeedsApproval(R, a, c) == "high_value_approval" \in R /\ HighValueApproval(a, c)

Disposition(R, a, c) ==
    CASE denials(R, a, c) # {} -> "deny"
      [] denials(R, a, c) = {} /\ NeedsApproval(R, a, c) -> "require_approval"
      [] OTHER -> IF Reschedules(R, a, c) # {} THEN "reschedule" ELSE "allow"

\* Mutant: an action a person has to see is not refused before that.
evaluate_ApprovalFirst(R, a, c) ==
    IF denials(R, a, c) # {} /\ ~NeedsApproval(R, a, c)
    THEN [disposition |-> "deny", final |-> None, moves |-> {}]
    ELSE [disposition |-> IF NeedsApproval(R, a, c) THEN "require_approval"
                          ELSE Disposition(R, a, c),
          final |-> Scheduled(R, a, c).final,
          moves |-> Scheduled(R, a, c).moves]

evaluate(R, a, c) ==
    IF denials(R, a, c) # {}
    THEN [disposition |-> "deny", final |-> None, moves |-> {}]
    ELSE [disposition |-> Disposition(R, a, c),
          final |-> Scheduled(R, a, c).final,
          moves |-> Scheduled(R, a, c).moves]

\* Mutant: every rule that moved the action is named.
moving_rules_All(ruling) == {v.rule : v \in ruling.moves}

\* The rules that chose the moment the action ended up with.
moving_rules(ruling) ==
    {v.rule : v \in {w \in ruling.moves :
                        w.reschedule_to = LatestOf(ruling.moves)}}
===============================================================================
