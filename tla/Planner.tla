-------------------------------- MODULE Planner --------------------------------
(***************************************************************************)
(* decide/planner.py: what is proposed about each failed order, lapsed     *)
(* mandate and overdue invoice, by a model's strategy for an incident, by  *)
(* the playbooks for everything else, and by the naive baseline.  With it, *)
(* what a model's answer is worth (llm/client.py).                         *)
(*                                                                         *)
(* A proposal is an Action with its subject and the share of the balance   *)
(* it offers to take.  Time is half hours, rounded up.                     *)
(***************************************************************************)
EXTENDS PolicyRules, SequencesExt

Hours(n) == 2 * n
Days(n) == 48 * n

Play(type, delay, channel, attempts) ==
    [type |-> type, delay |-> delay, channel |-> channel, attempts |-> attempts]

Proposal(subject, type, channel, at) ==
    [subject |-> subject, type |-> type, channel |-> channel, at |-> at,
     offered |-> None]

\* A play against a subject, each attempt at its moment.
Attempts(subject, play, at(_)) ==
    [n \in 1 .. play.attempts |->
        Proposal(subject, play.type, play.channel, at(n))]

\* The code asks whether any attempt was captured.  An order of a batch has one
\* (simulate/generator.py:305, :414), and nothing that executes adds another.
is_captured(order) == order.last_attempt.code = None
retry_class(order) == DECLINE_SPECS[order.last_attempt.code].retry_class
-------------------------------------------------------------------------------
(* The tail: an order that failed outside of any incident *)

TAIL_PLAYBOOK ==
    [transient            |-> Play("retry_payment", Hours(2), None, 2),
     soft_retryable       |-> Play("retry_payment", Hours(26), None, 2),
     user_action_required |-> Play("send_dunning", Hours(3), "email", 2),
     hard_decline         |-> Play("send_dunning", Hours(4), "email", 1),
     fraud_block          |-> Play("escalate_to_risk", 0, None, 1)]

Reregister(delay, attempts) ==
    Play("request_mandate_reregistration", delay, "email", attempts)

MANDATE_PLAYBOOK ==
    [mandate_expired        |-> Reregister(Hours(4), 2),
     mandate_not_registered |-> Reregister(Hours(6), 1),
     mandate_revoked        |-> Play("escalate_to_human", 0, None, 1),
     mandate_paused         |-> Play("wait", Hours(168), None, 1)]

\* The second attempt waits 3.2 times as long as the first.
tail_actions(id, order) ==
    LET code == order.last_attempt.code
        play == IF code \in DOMAIN MANDATE_PLAYBOOK THEN MANDATE_PLAYBOOK[code]
                ELSE TAIL_PLAYBOOK[retry_class(order)]
        Wait(n) == IF n = 1 THEN play.delay ELSE (32 * play.delay + 9) \div 10
    IN  Attempts(id, play, LAMBDA n : order.last_attempt.at + Wait(n))
-------------------------------------------------------------------------------
(* The book: a mandate that cannot collect *)

is_chargeable(sub) == ~ sub.cancelled /\ sub.mandate_status = "active"

MANDATE_RECOVERY_PLAYBOOK ==
    [expired        |-> Reregister(Hours(24), 2),
     not_registered |-> Reregister(Hours(48), 2),
     paused         |-> Reregister(Hours(72), 1),
     revoked        |-> Play("escalate_to_human", 0, None, 1)]

REREGISTRATION_SPACING == Days(9)

mandate_actions(id, sub, now) ==
    IF sub.cancelled \/ is_chargeable(sub) THEN <<>>
    ELSE LET play == MANDATE_RECOVERY_PLAYBOOK[sub.mandate_status]
         IN  Attempts(id, play, LAMBDA n :
                          now + play.delay + REREGISTRATION_SPACING * (n - 1))
-------------------------------------------------------------------------------
(* The ledger: an invoice past its due date *)

days_overdue(inv, now) == Max({0, (now - inv.due_at) \div Days(1)})
is_overdue(inv, now) == ~ inv.settled /\ now > inv.due_at

bucket_for(days) ==
    CASE days <= 0 -> "current"
      [] days \in 1 .. 30 -> "1-30"
      [] days \in 31 .. 60 -> "31-60"
      [] days \in 61 .. 90 -> "61-90"
      [] OTHER -> "90+"

PART_PAYMENT_OFFER_SHARE == 50

Step(type, delay, channel) == Play(type, delay, channel, 1)

RECEIVABLES_LADDER ==
    LET Offer(delay) == Step("offer_part_payment", delay, "email")
        Remind(delay) == Step("send_dunning", delay, "email")
    IN  [bucket \in {"current", "1-30", "31-60", "61-90", "90+"} |->
            CASE bucket = "current" -> <<>>
              [] bucket = "1-30" -> <<Remind(Hours(24))>>
              [] bucket = "31-60" -> <<Remind(Hours(12)), Offer(Hours(12) + Days(7))>>
              [] bucket = "61-90" -> <<Remind(Hours(12)), Offer(Hours(12) + Days(4))>>
              [] bucket = "90+" -> <<Step("escalate_to_human", 0, None)>>]

\* What is disputed or promised is seen, and not chased.
receivable_actions(id, inv, now) ==
    LET ladder == RECEIVABLES_LADDER[bucket_for(days_overdue(inv, now))]
        Rung(n) ==
            [Proposal(id, ladder[n].type, ladder[n].channel, now + ladder[n].delay)
                EXCEPT !.offered = IF ladder[n].type = "offer_part_payment"
                                   THEN PART_PAYMENT_OFFER_SHARE ELSE None]
    IN  CASE ~ is_overdue(inv, now) -> <<>>
          [] is_overdue(inv, now) /\ inv.disputed ->
                 <<Proposal(id, "escalate_to_human", None, now)>>
          [] is_overdue(inv, now) /\ ~ inv.disputed /\ inv.promise # None
                 /\ is_live(inv.promise, now) ->
                 <<Proposal(id, "wait", None, now)>>
          [] OTHER -> [n \in DOMAIN ladder |-> Rung(n)]
-------------------------------------------------------------------------------
(* An incident: the orders that are in it, and a strategy for them *)

SegmentKey(dimension, value) == [dimension |-> dimension, value |-> value]

\* Every slice an attempt belongs to.
segments_for(attempt) ==
    {SegmentKey("global", <<>>), SegmentKey("rail", <<attempt.rail>>)}
    \cup (IF attempt.issuer = None THEN {}
          ELSE {SegmentKey("issuer", <<attempt.issuer>>),
                SegmentKey("rail_issuer", <<attempt.rail, attempt.issuer>>)}
               \cup (IF attempt.bin = None THEN {}
                     ELSE {SegmentKey("issuer_bin", <<attempt.issuer, attempt.bin>>)}))
    \cup (IF attempt.acquirer = None THEN {}
          ELSE {SegmentKey("acquirer", <<attempt.acquirer>>)})

InCluster(cluster, order) ==
    /\ ~ is_captured(order)
    /\ order.last_attempt.at \in cluster.starts_at .. cluster.ends_at
    /\ cluster.segment \in segments_for(order.last_attempt)

\* A DeclineClassPlan: a play for the failures of one class.
DeclineClassPlan(class, type, delay, channel, attempts) ==
    [retry_class |-> class, play |-> Play(type, delay, channel, attempts)]

\* A RecoveryStrategy is a sequence of them: the last one of a class counts.
by_class(strategy) ==
    [class \in {strategy[n].retry_class : n \in DOMAIN strategy} |->
        strategy[Max({n \in DOMAIN strategy : strategy[n].retry_class = class})].play]

\* The strategy's actions for one order, none before the outage is over.
expand(strategy, id, order, outage_until) ==
    LET class == retry_class(order)
        plays == by_class(strategy)
        play == plays[class]
        At(n) == order.last_attempt.at + play.delay * n
        Held(at) == IF outage_until = None THEN at ELSE Max({at, outage_until})
    IN  IF class \notin DOMAIN plays THEN <<>>
        ELSE Attempts(id, play, LAMBDA n : Held(At(n)))

\* LLMClient.structured: an answer that does not validate is asked for once
\* more, with the error; no answer, or no better one, is no proposal.
Reply(values) == [kind : {"usable"}, value : values]
                 \cup [kind : {"invalid", "unreachable"}, value : {None}]

structured(first, second) ==
    CASE first.kind = "usable" -> first.value
      [] first.kind = "invalid" /\ second.kind = "usable" -> second.value
      [] OTHER -> None

SELF_HEALING == {"issuer_outage", "psp_or_rail_outage", "gateway_routing_degradation"}
-------------------------------------------------------------------------------
(* The baseline: everything is retried and everybody chased *)

naive_retry(id, order) ==
    LET at == order.last_attempt.at
    IN  Attempts(id, Play("retry_payment", Hours(1), None, 3), LAMBDA n : at + Hours(n))
        \o <<Proposal(id, "send_dunning", "email", at + Hours(4))>>

\* Three messages, six hours apart: an e-mail, then texts.
NaiveChase(id, type, now) ==
    [n \in 1 .. 3 |-> Proposal(id, type, IF n = 1 THEN "email" ELSE "sms",
                               now + Hours(6 * n))]

naive_mandate_chase(id, sub, now) ==
    IF is_chargeable(sub) THEN <<>>
    ELSE NaiveChase(id, "request_mandate_reregistration", now)

naive_invoice_chase(id, inv, now) ==
    IF ~ is_overdue(inv, now) THEN <<>> ELSE NaiveChase(id, "send_dunning", now)
===============================================================================
