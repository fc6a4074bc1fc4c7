------------------------------- MODULE MCBacktest -------------------------------
(***************************************************************************)
(* Three kinds of worlds.  In the first one segment has any sequence of    *)
(* good, bad and thin slots; in the second three segments have an outage   *)
(* each, or none, at any of four times, of one decline or of two; in the   *)
(* third two clusters share an order, and a few more orders, a mandate and *)
(* an invoice are worked.  Segments where nothing happens are left out.    *)
(***************************************************************************)
EXTENDS Backtest

Codes == {"do_not_honor", "insufficient_funds", "issuer_unavailable"}

Slot(attempts, successes, code) ==
    [attempts |-> attempts, successes |-> successes, amount |-> 10000 * attempts,
     declines |-> [c \in Codes |-> IF c = code THEN attempts - successes ELSE 0]]

Good(code) == Slot(40, 38, code)
Fair(code) == Slot(40, 37, code)
Bad(code) == Slot(40, 26, code)
Thin(code) == Slot(10, 2, code)

Card == SegmentKey("rail", <<"card">>)
HDFC == SegmentKey("issuer", <<"HDFC">>)
CardHDFC == SegmentKey("rail_issuer", <<"card", "HDFC">>)

Grid(slots) == [segments |-> SetToSeq(DOMAIN slots), slots |-> slots, codes |-> Codes]

\* The bad slots of a segment are those of this window.
Outage(window, code) ==
    [t \in 0 .. 7 |-> CASE t \in window -> Bad(code)
                        [] t \notin window /\ t % 2 = 0 -> Good(code)
                        [] OTHER -> Fair(code)]

Nobody == [ids |-> <<>>, people |-> << >>, subjects |-> << >>, latent |-> << >>,
           ends_at |-> 16, incident_ends |-> {}, use_model |-> FALSE]
WorldOf(segments, batch) == [grid |-> segments, batch |-> batch]

Weather ==
    {WorldOf(Grid(Card :> [t \in 0 .. 7 |->
                 IF t = 0 THEN Good("do_not_honor")
                 ELSE IF t = 1 THEN Fair("do_not_honor") ELSE slots[t]]), Nobody) :
        slots \in [2 .. 7 -> {Good("do_not_honor"), Bad("do_not_honor"),
                              Thin("do_not_honor")}]}

Windows == {{}, 2 .. 3, 4 .. 5, 6 .. 7, 3 .. 6}

Neighbours ==
    {WorldOf(Grid((Card :> Outage(a, "do_not_honor")) @@ (HDFC :> Outage(b, code))
                  @@ (CardHDFC :> Outage(c, other))), Nobody) :
        a \in Windows, b \in Windows, c \in Windows,
        code \in {"do_not_honor", "issuer_unavailable"},
        other \in {"do_not_honor", "issuer_unavailable"}}
-------------------------------------------------------------------------------
Person == [email |-> TRUE, phone |-> TRUE, dnd_registered |-> FALSE,
           opted_out |-> FALSE, consented_channels |-> {"email", "sms"}]

NoSubject == [customer |-> "buyer", order |-> None, invoice |-> None,
              subscription |-> None]

OrderOf(amount, at, code, rail, issuer) ==
    [NoSubject EXCEPT !.order =
        [amount |-> amount, recovery_attempts |-> 0,
         last_attempt |-> [at |-> at, code |-> code, rail |-> rail,
                           issuer |-> issuer, bin |-> None, acquirer |-> None]]]

Mandate(status) ==
    [NoSubject EXCEPT !.subscription =
        [annual_value |-> 60000, revoked |-> status = "revoked", cancelled |-> FALSE,
         mandate_status |-> status]]

InvoiceDue(due_at) ==
    [NoSubject EXCEPT !.invoice =
        [outstanding |-> 80000, disputed |-> FALSE, promise |-> None,
         settled |-> FALSE, due_at |-> due_at]]

OrderLatent(heals_at, retry, deadline) ==
    [heals_at |-> heals_at, retry_would_succeed |-> retry,
     dunning_deadline |-> deadline, route_switch_helps |-> FALSE]

\* "both" is in both clusters, "first" in the first of them, "tail" in none.
Base ==
    [ids |-> <<"both", "first", "tail", "paid", "mandate", "invoice">>,
     people |-> [buyer |-> Person, firm |-> Person],
     subjects |->
        [both |-> OrderOf(50000, 5, "insufficient_funds", "card", "HDFC"),
         first |-> OrderOf(30000, 3, "card_expired", "upi", "HDFC"),
         tail |-> OrderOf(20000, 12, "issuer_unavailable", "upi", None),
         paid |-> OrderOf(20000, 4, None, "card", "HDFC"),
         mandate |-> Mandate("expired"), invoice |-> InvoiceDue(-45 * 48)],
     latent |->
        [both |-> OrderLatent(8, TRUE, None), first |-> OrderLatent(None, FALSE, 60),
         tail |-> OrderLatent(14, FALSE, None), paid |-> None,
         mandate |-> [resumes_unprompted |-> FALSE, responsive_until |-> 16 + 200],
         invoice |-> [pays_unprompted |-> FALSE, needs_part_payment |-> TRUE,
                      part_payment_share |-> 40, responsive_until |-> 16 + 500]],
     ends_at |-> 16, incident_ends |-> {8}, use_model |-> TRUE]

Batches ==
    {Base, [Base EXCEPT !.use_model = FALSE],
     [Base EXCEPT !.subjects.both.order.last_attempt.at = 12,
                  !.latent.both = OrderLatent(60, TRUE, 30)],
     [Base EXCEPT !.subjects.both.order.last_attempt.code = "issuer_unavailable"],
     [Base EXCEPT !.subjects.both.order.amount = 2500000,
                  !.subjects.invoice.invoice.disputed = TRUE, !.latent.invoice = None],
     [Base EXCEPT !.subjects.first.order.last_attempt.code = "stolen_or_lost_card",
                  !.latent.first.dunning_deadline = None,
                  !.subjects.mandate.customer = "firm",
                  !.subjects.mandate.subscription.mandate_status = "paused",
                  !.subjects.invoice.invoice.due_at = 16 - 80 * 48],
     [Base EXCEPT !.subjects.invoice.customer = "firm",
                  !.subjects.invoice.invoice.promise =
                      [undecided |-> TRUE, promised_for |-> 90],
                  !.subjects.mandate = Mandate("revoked"),
                  !.people.buyer.dnd_registered = TRUE],
     [Base EXCEPT !.subjects.invoice.invoice.due_at = 16 - 10 * 48,
                  !.subjects.mandate = Mandate("active"), !.latent.mandate = None,
                  !.subjects.tail.order.last_attempt.code = "mandate_expired",
                  !.latent.tail = OrderLatent(None, FALSE, 40)]}

Incidents == Grid((HDFC :> Outage(2 .. 5, "insufficient_funds"))
                  @@ (Card :> Outage(4 .. 7, "do_not_honor")))

MCWorlds == Weather \cup Neighbours \cup {WorldOf(Incidents, b) : b \in Batches}

MCCauses == {"issuer_outage", "fraud_pressure"}

\* Texts at 8:30 in the morning and, with one try too many, retries; a route
\* switch; and a plan that the last word on the class takes back.
MCStrategies ==
    {<<DeclineClassPlan("soft_retryable", "send_dunning", 49, "sms", 2),
       DeclineClassPlan("transient", "retry_payment", Hours(1), None, 2)>>,
     <<DeclineClassPlan("soft_retryable", "retry_payment", Hours(24), None, 4),
       DeclineClassPlan("transient", "switch_route", Hours(2), None, 1),
       DeclineClassPlan("user_action_required", "send_dunning", Hours(8), "sms", 2)>>,
     <<DeclineClassPlan("soft_retryable", "retry_payment", Hours(24), None, 1),
       DeclineClassPlan("soft_retryable", "wait", 0, None, 0),
       DeclineClassPlan("fraud_block", "escalate_to_risk", 0, None, 1)>>}

MCResolutions == <<[width |-> 1, min_attempts |-> 30, sustained_buckets |-> 2],
                   [width |-> 2, min_attempts |-> 40, sustained_buckets |-> 1]>>
===============================================================================
