-------------------------------- MODULE Session --------------------------------
(***************************************************************************)
(* console/session.py with everything it drives: a plan is ruled on and    *)
(* routed, people answer what was gated, answered requests are released to *)
(* the scheduler, and advancing the clock fires what came due.  Every      *)
(* ruling is the real engine's (PolicyRules), in the context that          *)
(* policy/subjects.py builds from the batch and the contacts on record.    *)
(*                                                                         *)
(* The mutating calls hold one lock, so each is one action.  The queue and *)
(* the scheduler of the console have no journal; what a journal adds is in *)
(* ApprovalQueue and Scheduler.  The outcome of an execution is left out:  *)
(* nothing here depends on whether money came back.                        *)
(***************************************************************************)
EXTENDS PolicyRules, SequencesExt

CONSTANTS
    Plan,           \* the actions planned: an Action and its subject
    Subjects,       \* subject -> its order, invoice, subscription and customer
    People,         \* customer -> who they are
    max_lateness, max_deferrals, \* Scheduler
    ttl,            \* ApprovalQueue
    Jumps,          \* bound: by how much the clock is moved
    MaxClock        \* bound: where the clock stops

Reference == [type : CHARGING_ACTIONS \cup CONTACT_ACTIONS \cup INERT_ACTIONS,
              channel : Channel \cup {None}, at : Int, subject : DOMAIN Subjects]
Entities == [customer : DOMAIN People, order : Order \cup {None},
             invoice : Invoice \cup {None}, subscription : Subscription \cup {None}]

\* A clock starts with a plan that proposes something.
ASSUME SessionAssumption ==
    /\ Plan \subseteq Reference /\ IsFiniteSet(Plan) /\ Plan # {}
    /\ Subjects \in [DOMAIN Subjects -> Entities] /\ None \notin Order \cup Invoice
    /\ People \in [DOMAIN People -> Customer]
    /\ max_lateness \in Nat /\ max_deferrals \in Nat /\ ttl \in Nat \ {0}
    /\ Jumps \subseteq Nat \ {0}

VARIABLES clock,
          batch,     \* the entities behind each subject, as they are now
          people,    \* the customers, as they are now
          requests,  \* ApprovalQueue.requests, by the action proposed
          released,  \* ApprovalQueue.released
          entries,   \* Scheduler.entries, by the action submitted
          ledger     \* what was executed: the entry, the action and when

vars == <<clock, batch, people, requests, released, entries, ledger>>

Request == [state : {"pending", "approved", "rejected", "expired"},
            submitted : Int]
Entry == [state : {"waiting", "fired", "refused", "stale", "abandoned"},
          action : Reference, due : Int, deferrals : 0 .. max_deferrals]

TypeOK ==
    /\ clock \in Int
    /\ batch \in [DOMAIN Subjects -> Entities] /\ people \in [DOMAIN People -> Customer]
    /\ DOMAIN requests \subseteq Plan /\ released \subseteq DOMAIN requests
    /\ \A r \in DOMAIN requests : requests[r] \in Request
    /\ DOMAIN entries \subseteq Reference
    /\ \A e \in DOMAIN entries : entries[e] \in Entry
    /\ ledger \subseteq [id : DOMAIN entries, action : Reference, at : Int]
-------------------------------------------------------------------------------
(* policy/subjects.py *)

customer_of(a) == Subjects[a.subject].customer

\* ContactBook.record: an execution that contacted somebody.
Contacts == {r \in ledger : is_contact(r.action) /\ r.action.channel # None}

Moments(records) ==
    LET s == SetToSeq(records) IN [n \in DOMAIN s |-> s[n].at]

\* Mutant: the entities and people of the day the plan was drawn.
context_Stale(a, now) ==
    [now |-> now,
     customer |-> People[customer_of(a)],
     order |-> Subjects[a.subject].order,
     invoice |-> Subjects[a.subject].invoice,
     subscription |-> Subjects[a.subject].subscription,
     contacts |-> Moments({r \in Contacts : r.action.subject = a.subject}),
     customer_contacts |->
         Moments({r \in Contacts : customer_of(r.action) = customer_of(a)}),
     diagnosis |-> None, outage_until |-> None]

\* Mutant: one history of contacts serves both rules.
context_OneHistory(a, now) ==
    LET moments == Moments({r \in Contacts : r.action.subject = a.subject})
    IN  [now |-> now,
         customer |-> people[customer_of(a)],
         order |-> batch[a.subject].order,
         invoice |-> batch[a.subject].invoice,
         subscription |-> batch[a.subject].subscription,
         contacts |-> moments, customer_contacts |-> moments,
         diagnosis |-> None, outage_until |-> None]

\* SubjectIndex.context.  The console passes no diagnosis and no outage.
context(a, now) ==
    [now |-> now,
     customer |-> people[customer_of(a)],
     order |-> batch[a.subject].order,
     invoice |-> batch[a.subject].invoice,
     subscription |-> batch[a.subject].subscription,
     contacts |-> Moments({r \in Contacts : r.action.subject = a.subject}),
     customer_contacts |->
         Moments({r \in Contacts : customer_of(r.action) = customer_of(a)}),
     diagnosis |-> None, outage_until |-> None]

Rule(a, now) == evaluate(DEFAULT_RULES, a, context(a, now))
-------------------------------------------------------------------------------
(* Scheduler.submit and ApprovalQueue.submit: the same action again changes
   nothing *)

Held(a) == [state |-> "waiting", action |-> a, due |-> a.at, deferrals |-> 0]

Submitted(actions) ==
    [a \in DOMAIN entries \cup actions |->
        IF a \in DOMAIN entries THEN entries[a] ELSE Held(a)]

\* reset_operations and _rule_stream: the clock starts at the first moment of
\* the plan, every action is judged at its own, with nothing sent yet, and
\* what is permitted goes to the desk or to the scheduler.
First == Min({a.at : a \in Plan})

Routed(disposition) ==
    {a \in Plan : ~is_inert(a) /\ Rule(a, a.at).disposition \in disposition}

Init ==
    /\ clock = First
    /\ batch = Subjects
    /\ people = People
    /\ released = {}
    /\ ledger = {}
    /\ requests = [a \in Routed({"require_approval"}) |->
                      [state |-> "pending", submitted |-> clock]]
    /\ entries = [f \in {Rule(a, a.at).final : a \in Routed({"allow", "reschedule"})}
                     |-> Held(f)]
-------------------------------------------------------------------------------
(* The desk *)

expires(r) == requests[r].submitted + ttl

decide(r, answer) ==
    /\ requests[r].state = "pending"
    /\ requests' = [requests EXCEPT ![r].state =
                       IF clock >= expires(r) THEN "expired" ELSE answer]
    /\ UNCHANGED <<clock, batch, people, released, entries, ledger>>

\* Mutant: what nobody has answered yet is released as well.
release_Unanswered ==
    LET spent == {r \in DOMAIN requests :
                     requests[r].state # "rejected" /\ r \notin released}
        permitted == {r \in spent : Rule(r, clock).disposition # "deny"}
    IN  /\ spent # {}
        /\ released' = released \cup spent
        /\ entries' = Submitted({Rule(r, clock).final : r \in permitted})
        /\ UNCHANGED <<clock, batch, people, requests, ledger>>

\* Everything approved is ruled on again, now; what is still permitted goes to
\* the scheduler for the moment it was permitted for.
release ==
    LET spent == {r \in DOMAIN requests :
                     requests[r].state = "approved" /\ r \notin released}
        permitted == {r \in spent : Rule(r, clock).disposition # "deny"}
    IN  /\ spent # {}
        /\ released' = released \cup spent
        /\ entries' = Submitted({Rule(r, clock).final : r \in permitted})
        /\ UNCHANGED <<clock, batch, people, requests, ledger>>
-------------------------------------------------------------------------------
(* advance: the clock moves, requests expire, and run_due fires what came due.
   Nothing that run_due does is on record until it has returned, so every
   entry of one run is judged with the contacts of earlier runs. *)

Waiting == {e \in DOMAIN entries : entries[e].state = "waiting"}

is_stale(e, at) == at > entries[e].due + max_lateness
is_due(e, at) == at >= entries[e].due /\ ~is_stale(e, at)

\* What _fire makes of a due entry.
Deferred(e, final) ==
    IF entries[e].deferrals >= max_deferrals
    THEN [entries[e] EXCEPT !.state = "abandoned"]
    ELSE [entries[e] EXCEPT !.action = final, !.due = final.at, !.deferrals = @ + 1]

\* Mutant: the final action is taken over before the denial is looked at.
_fire_FinalFirst(e, at) ==
    LET ruling == Rule(entries[e].action, at)
    IN  CASE ruling.disposition = "deny" ->
                 [entries[e] EXCEPT !.state = "refused", !.action = ruling.final]
          [] ruling.disposition # "deny" /\ ruling.final.at > at ->
                 Deferred(e, ruling.final)
          [] OTHER -> [entries[e] EXCEPT !.state = "fired", !.action = ruling.final]

_fire(e, at) ==
    LET ruling == Rule(entries[e].action, at)
    IN  CASE ruling.disposition = "deny" -> [entries[e] EXCEPT !.state = "refused"]
          [] ruling.disposition # "deny" /\ ruling.final.at > at ->
                 Deferred(e, ruling.final)
          [] OTHER -> [entries[e] EXCEPT !.state = "fired", !.action = ruling.final]

run_due(at) ==
    [e \in DOMAIN entries |->
        CASE e \in Waiting /\ is_stale(e, at) -> [entries[e] EXCEPT !.state = "stale"]
          [] e \in Waiting /\ is_due(e, at) -> _fire(e, at)
          [] OTHER -> entries[e]]

Expired(at) ==
    [r \in DOMAIN requests |->
        IF requests[r].state = "pending" /\ at >= expires(r)
        THEN [requests[r] EXCEPT !.state = "expired"] ELSE requests[r]]

advance(at) ==
    /\ at <= MaxClock
    /\ clock' = at
    /\ requests' = Expired(at)
    /\ entries' = run_due(at)
    /\ ledger' = ledger \cup
           {[id |-> e, action |-> entries'[e].action, at |-> at] :
               e \in {f \in Waiting : entries'[f].state = "fired"}}
    /\ UNCHANGED <<batch, people, released>>

advance_hours == \E jump \in Jumps : advance(clock + jump)

\* To the soonest due entry, or not at all.
advance_to_next ==
    IF Waiting = {} THEN advance(clock)
    ELSE advance(Max({clock, Min({entries[e].due : e \in Waiting})}))
-------------------------------------------------------------------------------
(* What happens to the batch and its people while actions are held *)

Dispute(s) ==
    /\ batch[s].invoice # None /\ ~batch[s].invoice.disputed
    /\ batch' = [batch EXCEPT ![s].invoice.disputed = TRUE]
    /\ UNCHANGED <<clock, people, requests, released, entries, ledger>>

OptOut(p) ==
    /\ ~people[p].opted_out
    /\ people' = [people EXCEPT ![p].opted_out = TRUE]
    /\ UNCHANGED <<clock, batch, requests, released, entries, ledger>>

\* The customer tries the order again, once, and fails the same way.
AttemptFails(s) ==
    /\ batch[s].order # None /\ batch[s].order.last_attempt # None
    /\ batch[s].order.last_attempt.at < First
    /\ batch' = [batch EXCEPT ![s].order.last_attempt.at = clock]
    /\ UNCHANGED <<clock, people, requests, released, entries, ledger>>
-------------------------------------------------------------------------------
Next ==
    \/ \E r \in DOMAIN requests, answer \in {"approved", "rejected"} : decide(r, answer)
    \/ release
    \/ advance_hours
    \/ advance_to_next
    \/ \E s \in DOMAIN batch : Dispute(s) \/ AttemptFails(s)
    \/ \E p \in DOMAIN people : OptOut(p)

Spec == Init /\ [][Next]_vars
-------------------------------------------------------------------------------
(* Properties *)

New == ledger' \ ledger

\* "Above this, a person signs off": whatever was executed for an amount at the
\* threshold was approved at the desk and released from it, although the
\* scheduler itself fires an action that requires approval.
LargeSumsWereApproved ==
    \A x \in ledger :
        HighValueApproval(x.action, context(x.action, x.at)) =>
            \E r \in released :
                /\ requests[r].state = "approved"
                /\ r.subject = x.action.subject /\ r.type = x.action.type

\* "A denial still denies at the later clock": nothing is executed for a
\* disputed invoice, and nobody who opted out is contacted, however long ago
\* the action was permitted, approved or deferred.
WorldIsReadAtFireTime ==
    [][ \A x \in New :
          LET invoice == batch[x.action.subject].invoice
          IN  /\ invoice # None => ~invoice.disputed
              /\ is_contact(x.action) => ~people[customer_of(x.action)].opted_out ]_vars

RecentTo(p, at) == {r \in Contacts : /\ customer_of(r.action) = p
                                     /\ r.at >= at - contact_window /\ r.at <= at}

\* The caps on contacts hold from one advance to the next: a person or a
\* subject that was at the cap before the clock moved is not contacted.
CapsHoldBetweenAdvances ==
    [][ \A x \in New : is_contact(x.action) =>
          LET recent == RecentTo(customer_of(x.action), x.at)
          IN  /\ Cardinality(recent) < max_contacts_per_customer
              /\ Cardinality({r \in recent : r.action.subject = x.action.subject})
                     < max_contacts_per_subject ]_vars

\* "Nobody hears from Backstop more than six times a fortnight" (six being
\* max_contacts_per_customer).
PersonCapHolds ==
    \A p \in DOMAIN people : \A x \in Contacts :
        Cardinality(RecentTo(p, x.at)) <= max_contacts_per_customer

\* "An action that comes due at an awkward hour is pushed again by quiet_hours
\* at that point": no phone lights up in the quiet hours.
QuietHoursAreQuiet ==
    \A x \in Contacts : x.action.channel # "email" => ~IsQuiet(x.at)
===============================================================================
