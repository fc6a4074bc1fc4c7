--------------------------- MODULE SimulatedExecutor ---------------------------
(***************************************************************************)
(* execute/executor.py and simulate/recoverability.py: what an action      *)
(* brings back in the simulation.  What would recover each subject is      *)
(* drawn once, before any arm runs, and is the same for every arm; what an *)
(* arm has recovered stays recovered.                                      *)
(***************************************************************************)
EXTENDS Planner

\* What nothing was drawn for.
NotDrawn == None

surface(subject) ==
    CASE subject.order # None -> "payment"
      [] subject.order = None /\ subject.invoice # None -> "receivable"
      [] OTHER -> "recurring"
-------------------------------------------------------------------------------
(* recoverability.py: what can be drawn for a subject *)

HEAL_DELAY == [transient |-> 1 .. 3, soft_retryable |-> Hours(18) .. Hours(96)]
DUNNING_DEADLINE == Hours(6) .. Hours(120)
REREGISTRATION_WINDOW == Days(3) .. Days(45)
COLLECTION_WINDOW == Days(10) .. Days(75)
PART_PAYMENT_SHARE == 35 .. 75

After(moment, delays) == {moment + d : d \in delays}

\* An order: when and whether a retry lands, and until when a message does.
\* What an incident broke heals when the incident ends.
build(order, incident_end, routing_caused) ==
    LET class == retry_class(order)
        at == order.last_attempt.at
        heals == CASE class \notin DOMAIN HEAL_DELAY -> {None}
                   [] class \in DOMAIN HEAL_DELAY /\ incident_end # None -> {incident_end}
                   [] OTHER -> After(at, HEAL_DELAY[class])
    IN  [heals_at : heals,
         retry_would_succeed : IF heals = {None} THEN {FALSE} ELSE BOOLEAN,
         dunning_deadline : {None} \cup (IF class = "fraud_block" THEN {}
                                         ELSE After(at, DUNNING_DEADLINE)),
         route_switch_helps : {routing_caused}]

\* A mandate: whether the customer would sign again, and until when.
build_mandates(sub, reference) ==
    IF sub.cancelled \/ sub.mandate_status = "active" THEN {NotDrawn}
    ELSE [resumes_unprompted : IF sub.mandate_status \in {"expired", "paused"}
                                THEN BOOLEAN ELSE {FALSE},
          responsive_until : {None} \cup After(reference, REREGISTRATION_WINDOW)]

\* An invoice: who pays unprompted would also have paid if chased.
build_invoices(inv, reference) ==
    IF inv.disputed \/ ~ is_overdue(inv, reference) THEN {NotDrawn}
    ELSE {rec \in [pays_unprompted : BOOLEAN, needs_part_payment : BOOLEAN,
                   part_payment_share : PART_PAYMENT_SHARE,
                   responsive_until : {None} \cup After(reference, COLLECTION_WINDOW)] :
             rec.pays_unprompted => rec.responsive_until # None}
-------------------------------------------------------------------------------
(* recoverability.py: what an action at a moment finds *)

retry_succeeds_at(rec, at) ==
    rec.retry_would_succeed /\ rec.heals_at # None /\ at >= rec.heals_at

InTime(until, at) == until # None /\ at <= until

\* The share of what is owed that lands, in percent.
Share(a, at, subject, rec) ==
    LET won == CASE a.type = "switch_route" ->
                        rec.route_switch_helps /\ rec.retry_would_succeed
                 [] is_charging(a) /\ a.type # "switch_route" ->
                        retry_succeeds_at(rec, at)
                 [] OTHER -> InTime(rec.dunning_deadline, at)
    IN  IF won THEN 100 ELSE 0

reregisters_at(rec, at) ==
    IF ~ rec.resumes_unprompted /\ InTime(rec.responsive_until, at) THEN 100 ELSE 0

collects_at(rec, at, offered) ==
    CASE rec.pays_unprompted \/ ~ InTime(rec.responsive_until, at) -> 0
      [] ~ rec.pays_unprompted /\ InTime(rec.responsive_until, at)
             /\ rec.needs_part_payment ->
             IF offered = None THEN 0 ELSE Min({rec.part_payment_share, offered})
      [] OTHER -> IF offered = None THEN 100 ELSE offered
-------------------------------------------------------------------------------
(* SimulatedExecutor.execute *)

for_action(a) == CASE is_charging(a) -> cost_per_retry
                   [] is_contact(a) -> cost_per_contact
                   [] OTHER -> 0

\* A mandate cannot be presented and an invoice has nothing to present.
landed(a, at, subject, rec) ==
    CASE surface(subject) = "payment" -> Share(a, at, subject, rec)
      [] surface(subject) = "recurring" ->
             IF is_charging(a) THEN 0 ELSE reregisters_at(rec, at)
      [] surface(subject) = "receivable" ->
             IF is_charging(a) THEN 0 ELSE collects_at(rec, at, a.offered)

worth(subject) ==
    CASE surface(subject) = "payment" -> subject.order.amount
      [] surface(subject) = "recurring" -> subject.subscription.annual_value
      [] surface(subject) = "receivable" -> subject.invoice.outstanding

\* Mutant: a share is taken for a fraction, and is a percentage.
collected_Fraction(subject, share) == worth(subject) * share

collected(subject, share) == (worth(subject) * share + 50) \div 100

Result(outcome, at, recovered, cost) ==
    [outcome |-> outcome, at |-> at, recovered |-> recovered, cost |-> cost]

\* Inert actions move nothing; what was recovered once, or was never drawn,
\* costs its attempt and brings nothing.
execute(a, at, subject, rec, settled) ==
    LET share == IF rec = NotDrawn \/ a.subject \in settled THEN 0
                 ELSE landed(a, at, subject, rec)
    IN  CASE is_inert(a) -> Result("not_applicable", at, 0, 0)
          [] ~ is_inert(a) /\ share = 0 -> Result("no_effect", at, 0, for_action(a))
          [] OTHER -> Result("recovered", at, collected(subject, share), for_action(a))
===============================================================================
