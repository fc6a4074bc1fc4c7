------------------------------- MODULE LivePath -------------------------------
(***************************************************************************)
(* execute/razorpay.py and execute/webhook.py behind the console's         *)
(* /api/dispatch: what is sent onto the real rails, and how what the       *)
(* customer pays comes back.                                               *)
(*                                                                         *)
(* A dispatch runs on a worker thread of the server and takes no lock, so  *)
(* its requests, its update of memory and its journal write interleave     *)
(* with other dispatches and with webhooks, each of which the event loop   *)
(* handles in one piece.  `overlapped` remembers whether a call ever came  *)
(* during a dispatch: what console/app.py says its lock rules out.         *)
(*                                                                         *)
(* Only references that _subject and _capability_gap let through are       *)
(* modelled, a refused action changes nothing.  A reference is for a       *)
(* payment link, for an auth link (Razorpay calls it an invoice) or for an *)
(* order.  The journal is the SharedJournal that Journal implements: an    *)
(* append that raised or was cut short, of this kind or of another, may    *)
(* leave an open line that swallows the next one.                          *)
(***************************************************************************)
EXTENDS SharedJournal, Sequences, FiniteSets

CONSTANTS Refs,        \* reference_for(action)
          Threads,     \* worker threads of the console
          Tries,       \* HttpTransport.max_retries
          Due,         \* what a customer owes on an entity
          MaxEntities, \* bound: entities Razorpay creates
          MaxMishaps,  \* bound: answers lost on the way
          MaxFaults    \* bound: crashes, failed and torn journal writes

Kinds == {"order", "payment_link", "invoice"}
Ids == 1 .. MaxEntities
NoId == 0

ASSUME LivePathAssumption ==
    /\ Tries \in Nat \ {0} /\ Due \in Nat \ {0}
    /\ MaxEntities \in Nat /\ MaxMishaps \in Nat /\ MaxFaults \in Nat

VARIABLES kind,       \* what each reference creates
          entities,   \* at Razorpay: what was created, oldest first
          calls,      \* RazorpayExecutor.execute, per thread
          notify,     \* RazorpayExecutor.notify, shared by the threads
          dispatched, \* RazorpayExecutor.dispatched: the entity's id
          reconciled, \* RazorpayExecutor.reconciled
          seen,       \* WebhookReceiver.seen
          poll,       \* RazorpayExecutor.reconcile in progress
          answered,   \* at Razorpay: deliveries answered with a 2xx
          told,       \* history: the id DISPATCHED was last returned with
          asked,      \* history: references whose last caller asked to notify
          messages,   \* history: messages the customer got
          booked,     \* history: the recoveries reported, in order
          mishaps,    \* history: answers lost
          faults,     \* history: crashes, failed and torn journal writes
          overlapped  \* history: whether anything ran during a dispatch

memory == <<dispatched, reconciled, seen>>
outside == <<entities, answered, messages>>
ghosts == <<told, asked, booked, faults>>
vars == <<kind, calls, notify, memory, store, poll, outside, ghosts, mishaps,
          overlapped>>

Steps == {"look", "create", "find", "record", "write", "notify"}
Idle == [at |-> "idle"]
\* ext: the entity; fresh: this call created it; flag: the reconciled flag
\* of the record about to be appended.
Calls == [at : Steps, ref : Refs, ext : Ids \cup {NoId}, fresh : BOOLEAN,
          flag : BOOLEAN, tries : 1 .. Tries]
NoPoll == [on |-> FALSE, todo |-> {}, out |-> {}]

\* What is appended for a reference, and what a restart finds before that.
Records == [id : Ids \cup {NoId}, reconciled : BOOLEAN]
NoRecord == [id |-> NoId, reconciled |-> FALSE]

\* What the adapter takes a paid auth link to be worth: a year.
Annual == 12 * Due
Amounts == 1 .. Annual

TypeOK ==
    /\ kind \in [Refs -> Kinds]
    /\ entities \in Seq([ref : Refs, paid : 0 .. Due])
    /\ Len(entities) <= MaxEntities
    /\ calls \in [Threads -> Calls \cup {Idle}]
    /\ notify \in BOOLEAN
    /\ dispatched \in [Refs -> Ids \cup {NoId}]
    /\ reconciled \in SUBSET Refs
    /\ seen \in SUBSET (Ids \X (1 .. Due))
    /\ disk \in [Refs -> Records]
    /\ kept \in [Refs -> Records]
    /\ gap \in BOOLEAN
    /\ torn \in 0 .. MaxFaults
    /\ poll \in [on : BOOLEAN, todo : SUBSET Refs, out : SUBSET (Refs \X Amounts)]
    /\ answered \in SUBSET (Ids \X (1 .. Due))
    /\ told \in [Refs -> Ids \cup {NoId}]
    /\ asked \in SUBSET Refs
    /\ messages \in [Refs -> Nat]
    /\ booked \in [Refs -> Seq(Amounts)]
    /\ mishaps \in 0 .. MaxMishaps
    /\ faults \in 0 .. MaxFaults
    /\ overlapped \in BOOLEAN

EntitiesOf(r) == {k \in DOMAIN entities : entities[k].ref = r}
Running == {t \in Threads : calls[t] # Idle}
-------------------------------------------------------------------------------
Init ==
    /\ kind \in [Refs -> Kinds]
    /\ entities = <<>>
    /\ calls = [t \in Threads |-> Idle]
    /\ notify = FALSE
    /\ dispatched = [r \in Refs |-> NoId]
    /\ reconciled = {}
    /\ seen = {}
    /\ Empty([r \in Refs |-> NoRecord])
    /\ poll = NoPoll
    /\ answered = {}
    /\ told = [r \in Refs |-> NoId]
    /\ asked = {}
    /\ messages = [r \in Refs |-> 0]
    /\ booked = [r \in Refs |-> <<>>]
    /\ mishaps = 0
    /\ faults = 0
    /\ overlapped = FALSE
-------------------------------------------------------------------------------
(* Dispatching *)

Goto(t, step) == calls' = [calls EXCEPT ![t].at = step, ![t].tries = 1]
Ends(t) == calls' = [calls EXCEPT ![t] = Idle]
At(t, step) == /\ calls[t].at = step
               /\ UNCHANGED <<kind, overlapped>>

\* Mutant: once somebody asked for it, everything is sent.
Begin_Sticky(t, r, send) ==
    /\ notify' = (notify \/ send)
    /\ asked' = IF send THEN asked \cup {r} ELSE asked \ {r}
    /\ overlapped' = (overlapped \/ Running # {})

\* The caller's choice stays with the adapter until the next one.
Begin(t, r, send) ==
    /\ notify' = send
    /\ asked' = IF send THEN asked \cup {r} ELSE asked \ {r}
    /\ overlapped' = (overlapped \/ Running # {})

\* dispatch and the start of execute: a reference that was dispatched is a
\* replay, and returns at once.
execute(t, r, send) ==
    /\ calls[t] = Idle /\ ~poll.on
    /\ Begin(t, r, send)
    /\ calls' = IF dispatched[r] # NoId THEN calls
                ELSE [calls EXCEPT ![t] =
                        [at |-> IF kind[r] = "order" THEN "look" ELSE "create",
                         ref |-> r, ext |-> NoId, fresh |-> FALSE,
                         flag |-> FALSE, tries |-> 1]]
    /\ UNCHANGED <<kind, memory, store, poll, outside, told, booked, faults, mishaps>>

\* Mutant: an order is created without looking.
look_Skipped(t) ==
    /\ At(t, "look")
    /\ Goto(t, "create")
    /\ UNCHANGED <<notify, memory, store, poll, outside, ghosts, mishaps>>

\* GET /orders?receipt=: an order is created only if there is none.
look(t) ==
    /\ At(t, "look")
    /\ Goto(t, IF EntitiesOf(calls[t].ref) = {} THEN "create" ELSE "find")
    /\ UNCHANGED <<notify, memory, store, poll, outside, ghosts, mishaps>>

\* Razorpay refuses a second entity under a reference, except for orders.
Refused(r) == kind[r] # "order" /\ EntitiesOf(r) # {}

Created(r) ==
    /\ ~Refused(r) /\ Len(entities) < MaxEntities
    /\ entities' = Append(entities, [ref |-> r, paid |-> 0])
    /\ messages' = IF notify /\ kind[r] # "order"
                   THEN [messages EXCEPT ![r] = @ + 1] ELSE messages
    /\ UNCHANGED answered

\* The POST is answered: with the new entity, or with "already exists".
create(t) ==
    LET r == calls[t].ref IN
    /\ At(t, "create")
    /\ \/ /\ Created(r)
          /\ calls' = [calls EXCEPT ![t].at = "record", ![t].fresh = TRUE,
                                    ![t].ext = Len(entities')]
       \/ /\ Refused(r)
          /\ Goto(t, "find")
          /\ UNCHANGED outside
    /\ UNCHANGED <<notify, memory, store, poll, ghosts, mishaps>>

\* Any other 4xx: the call raises.
create_refused(t) ==
    /\ At(t, "create")
    /\ Ends(t)
    /\ UNCHANGED <<notify, memory, store, poll, outside, ghosts, mishaps>>

Resend(t) ==
    IF calls[t].tries < Tries
    THEN calls' = [calls EXCEPT ![t].tries = @ + 1]
    ELSE Ends(t)

\* No answer arrives, whether or not the POST did: HttpTransport sends it
\* again, and raises when it has tried often enough.
create_lost(t) ==
    /\ At(t, "create") /\ mishaps < MaxMishaps
    /\ mishaps' = mishaps + 1
    /\ Created(calls[t].ref) \/ UNCHANGED outside
    /\ Resend(t)
    /\ UNCHANGED <<notify, memory, store, poll, ghosts>>

\* _find_dispatched: there is no lookup for an auth link, and the call ends
\* with nothing to reconcile.
_find_dispatched(t) ==
    LET r == calls[t].ref IN
    /\ At(t, "find")
    /\ IF kind[r] = "invoice"
       THEN Ends(t)
       ELSE \E k \in EntitiesOf(r) :
              calls' = [calls EXCEPT ![t].at = "record", ![t].ext = k]
    /\ UNCHANGED <<notify, memory, store, poll, outside, ghosts, mishaps>>

\* A GET that gets no answer however often it is tried raises.  One that is
\* answered with an error is taken for "there is none".
lookup_lost(t) ==
    /\ mishaps < MaxMishaps
    /\ mishaps' = mishaps + 1
    /\ \/ At(t, "look") /\ (Ends(t) \/ Goto(t, "create"))
       \/ At(t, "find") /\ kind[calls[t].ref] # "invoice" /\ Ends(t)
    /\ UNCHANGED <<notify, memory, store, poll, outside, ghosts>>

\* The dispatch is entered, and the record of it put together.
record(t) ==
    LET r == calls[t].ref IN
    /\ At(t, "record")
    /\ dispatched' = [dispatched EXCEPT ![r] = calls[t].ext]
    /\ calls' = [calls EXCEPT ![t].at = "write", ![t].flag = r \in reconciled]
    /\ UNCHANGED <<notify, reconciled, seen, store, poll, outside, ghosts, mishaps>>

\* Mutant: what an earlier call created is announced again.
Notifies_Recovered(t) == notify /\ kind[calls[t].ref] = "payment_link"

Notifies(t) == calls[t].fresh /\ notify /\ kind[calls[t].ref] = "payment_link"

\* The record a call has put together.
to_record(c) == [id |-> c.ext, reconciled |-> c.flag]

\* The end of a call: DISPATCHED for what it created itself.
Returns(t) ==
    /\ Ends(t)
    /\ told' = IF calls[t].fresh
               THEN [told EXCEPT ![calls[t].ref] = calls[t].ext] ELSE told

\* _remember, from a dispatch.
write(t) ==
    LET c == calls[t] IN
    /\ At(t, "write")
    /\ Appended(c.ref, to_record(c))
    /\ IF Notifies(t) THEN Goto(t, "notify") /\ UNCHANGED told ELSE Returns(t)
    /\ UNCHANGED <<notify, memory, poll, outside, asked, booked, faults, mishaps>>

Delivered(r) == /\ messages' = [messages EXCEPT ![r] = @ + 1]
                /\ UNCHANGED <<entities, answered>>

\* POST /payment_links/:id/notify_by/:medium.
_notify(t) ==
    /\ At(t, "notify")
    /\ Delivered(calls[t].ref)
    /\ Returns(t)
    /\ UNCHANGED <<notify, memory, store, poll, asked, booked, faults, mishaps>>

_notify_lost(t) ==
    /\ At(t, "notify") /\ mishaps < MaxMishaps
    /\ mishaps' = mishaps + 1
    /\ Delivered(calls[t].ref) \/ UNCHANGED outside
    /\ Resend(t)
    /\ UNCHANGED <<notify, memory, store, poll, ghosts>>
-------------------------------------------------------------------------------
(* What is paid, and how it comes back *)

\* A customer pays: a link may be paid in parts, the others are paid at once.
pay(k) ==
    /\ entities[k].paid < Due
    /\ \E p \in entities[k].paid + 1 .. Due :
         /\ kind[entities[k].ref] # "payment_link" => p = Due
         /\ entities' = [entities EXCEPT ![k].paid = p]
    /\ UNCHANGED <<kind, calls, notify, memory, store, poll, answered, messages,
                   ghosts, mishaps, overlapped>>

\* Mutant: what is still due is booked.  Mutant: all that was due is booked.
_settlement_Rest(r, p) == IF kind[r] = "invoice" THEN Annual ELSE Due - p
_settlement_Whole(r, p) == IF kind[r] = "invoice" THEN Annual ELSE Due

\* _settlement: what entity k of reference r is worth once p was paid on it.
_settlement(r, p) == IF kind[r] = "invoice" THEN Annual ELSE p

\* credit's effect on memory, and the record it appends.
Credited(r) ==
    /\ reconciled' = reconciled \cup {r}
    /\ UNCHANGED dispatched
credit_record(r) == [id |-> dispatched[r], reconciled |-> TRUE]
Booked(r, worth) == booked' = [booked EXCEPT ![r] = Append(@, worth)]

\* Mutant: order.paid is not among the settling events.
Creditable_Links(k) ==
    {r \in Refs : dispatched[r] = k /\ r \notin reconciled /\ kind[r] # "order"}

\* The dispatches credit() would book on a delivery about entity k.
Creditable(k) == {r \in Refs : dispatched[r] = k /\ r \notin reconciled}

\* A delivery: p was paid on entity k, all at once unless it is a link.  It
\* may come again, at any time.
Delivery(k, p) ==
    /\ k \in DOMAIN entities /\ p \in 1 .. entities[k].paid
    /\ kind[entities[k].ref] # "payment_link" => p = Due
    /\ overlapped' = (overlapped \/ Running # {})
    /\ UNCHANGED <<kind, calls, notify, poll, entities, messages, told, asked,
                   mishaps>>

\* receive: a new settlement of a dispatch of ours is credited, once.
receive(k, p) ==
    /\ Delivery(k, p)
    /\ <<k, p>> \notin seen
    /\ seen' = seen \cup {<<k, p>>}
    /\ answered' = answered \cup {<<k, p>>}
    /\ \E r \in Creditable(k) :
         /\ Credited(r) /\ Appended(r, credit_record(r))
         /\ Booked(r, _settlement(r, p))
    /\ UNCHANGED faults

\* DUPLICATE or UNMATCHED: answered, and nothing else happens.
receive_nothing(k, p) ==
    /\ Delivery(k, p)
    /\ <<k, p>> \in seen \/ Creditable(k) = {}
    /\ seen' = seen \cup {<<k, p>>}
    /\ answered' = answered \cup {<<k, p>>}
    /\ UNCHANGED <<dispatched, reconciled, store, booked, faults>>

\* The journal raises under credit, whatever of its record is in the file: the
\* delivery is answered with a 500.
receive_raises(k, p) ==
    /\ Delivery(k, p)
    /\ <<k, p>> \notin seen /\ faults < MaxFaults
    /\ faults' = faults + 1
    /\ seen' = seen \cup {<<k, p>>}
    /\ \E r \in Creditable(k) : Credited(r) /\ AppendFails(r, credit_record(r))
    /\ UNCHANGED <<answered, booked>>

\* Only the walkthrough polls, between its own dispatches.
\* reconcile asks for every dispatch that is not reconciled yet.
reconcile ==
    /\ ~poll.on /\ Running = {}
    /\ poll' = [on |-> TRUE, out |-> {},
                todo |-> {r \in Refs : dispatched[r] # NoId /\ r \notin reconciled}]
    /\ UNCHANGED <<kind, calls, notify, memory, store, outside, ghosts, mishaps,
                   overlapped>>

Polling(r) ==
    /\ r \in poll.todo
    /\ UNCHANGED <<kind, calls, notify, dispatched, seen, outside, told, asked, booked,
                   overlapped>>

reconcile_one(r) ==
    LET p == entities[dispatched[r]].paid IN
    /\ Polling(r)
    /\ IF p > 0 /\ r \notin reconciled
       THEN /\ Credited(r) /\ Appended(r, credit_record(r))
            /\ poll' = [poll EXCEPT !.todo = @ \ {r},
                                    !.out = @ \cup {<<r, _settlement(r, p)>>}]
       ELSE /\ poll' = [poll EXCEPT !.todo = @ \ {r}]
            /\ UNCHANGED <<reconciled, store>>
    /\ UNCHANGED <<faults, mishaps>>

\* The transport raises, and with it reconcile: what it has credited so far
\* is reported to nobody.
reconcile_lost(r) ==
    /\ Polling(r) /\ mishaps < MaxMishaps
    /\ mishaps' = mishaps + 1
    /\ poll' = NoPoll
    /\ UNCHANGED <<reconciled, store, faults>>

\* The journal raises under credit, and reconcile ends in the same way.
reconcile_raises(r) ==
    /\ Polling(r) /\ faults < MaxFaults
    /\ faults' = faults + 1
    /\ entities[dispatched[r]].paid > 0 /\ r \notin reconciled
    /\ Credited(r) /\ AppendFails(r, credit_record(r))
    /\ poll' = NoPoll
    /\ UNCHANGED mishaps

reconcile_returns ==
    /\ poll.on /\ poll.todo = {}
    /\ booked' = [r \in Refs |->
           IF \E w \in Amounts : <<r, w>> \in poll.out
           THEN Append(booked[r], CHOOSE w \in Amounts : <<r, w>> \in poll.out)
           ELSE booked[r]]
    /\ poll' = NoPoll
    /\ UNCHANGED <<kind, calls, notify, memory, store, outside, told, asked,
                   faults, mishaps, overlapped>>
-------------------------------------------------------------------------------
(* Faults *)

\* journal.append raises under a dispatch, whatever of its record is in the file.
write_raises(t) ==
    LET c == calls[t] IN
    /\ At(t, "write") /\ faults < MaxFaults
    /\ faults' = faults + 1
    /\ AppendFails(c.ref, to_record(c))
    /\ Ends(t)
    /\ UNCHANGED <<notify, memory, poll, outside, told, asked, booked, mishaps>>

\* A poll or a delivery would credit it now.
CreditDue(r) ==
    /\ dispatched[r] # NoId /\ r \notin reconciled
    /\ entities[dispatched[r]].paid > 0

\* The process dies in the append of a dispatch, in that of a credit, or in
\* none.
Dies ==
    \/ UNCHANGED <<store, overlapped>>
    \/ /\ \E t \in Threads : /\ calls[t].at = "write"
                            /\ AppendFails(calls[t].ref, to_record(calls[t]))
       /\ UNCHANGED overlapped
    \/ /\ \E r \in Refs : CreditDue(r) /\ AppendFails(r, credit_record(r))
       /\ overlapped' = (overlapped \/ Running # {})

Restarts ==
    /\ faults < MaxFaults
    /\ faults' = faults + 1
    /\ Dies
    /\ seen' = {}
    /\ notify' = FALSE
    /\ calls' = [t \in Threads |-> Idle]
    /\ poll' = NoPoll
    /\ UNCHANGED <<kind, outside, told, asked, booked, mishaps>>

\* Mutant: the reconciled flag is not restored.
CrashAndRestore_Uncredited ==
    /\ Restarts
    /\ dispatched' = [r \in Refs |-> disk'[r].id]
    /\ reconciled' = {}

\* Mutant: only what is still unpaid is restored.
CrashAndRestore_Pending ==
    /\ Restarts
    /\ dispatched' = [r \in Refs |-> IF disk'[r].reconciled THEN NoId ELSE disk'[r].id]
    /\ reconciled' = {r \in Refs : disk'[r].reconciled}

\* The process dies, and go_live builds an adapter from the journal.
CrashAndRestore ==
    /\ Restarts
    /\ dispatched' = [r \in Refs |-> disk'[r].id]
    /\ reconciled' = {r \in Refs : disk'[r].reconciled}

\* Other kinds are appended to the same file at any time, and may tear it.
OthersAppend ==
    /\ \/ OtherAppended /\ UNCHANGED faults
       \/ OtherTorn /\ faults < MaxFaults /\ faults' = faults + 1
    /\ UNCHANGED <<kind, calls, notify, memory, poll, outside, told, asked, booked,
                   mishaps, overlapped>>
-------------------------------------------------------------------------------
ThreadStep(t) ==
    \/ look(t) \/ create(t) \/ create_refused(t) \/ create_lost(t)
    \/ _find_dispatched(t) \/ lookup_lost(t) \/ record(t) \/ write(t) \/ write_raises(t)
    \/ _notify(t) \/ _notify_lost(t)

Hears(k, p) == receive(k, p) \/ receive_nothing(k, p) \/ receive_raises(k, p)

Next ==
    \/ \E t \in Threads, r \in Refs, send \in BOOLEAN : execute(t, r, send)
    \/ \E t \in Threads : ThreadStep(t)
    \/ \E k \in DOMAIN entities : pay(k)
    \/ \E k \in Ids, p \in 1 .. Due : Hears(k, p)
    \/ reconcile
    \/ \E r \in Refs : reconcile_one(r) \/ reconcile_lost(r) \/ reconcile_raises(r)
    \/ reconcile_returns
    \/ CrashAndRestore
    \/ OthersAppend

Spec == Init /\ [][Next]_vars

\* Razorpay delivers until it is answered, and a poll that began goes on.
\* Nobody has to dispatch, pay or begin a poll.
Undelivered(k, p) == <<k, p>> \notin answered /\ Hears(k, p)
PollStep == reconcile_returns \/ \E r \in Refs : reconcile_one(r)
FairSpec ==
    /\ Spec
    /\ WF_vars(PollStep)
    /\ \A k \in Ids, p \in 1 .. Due : WF_vars(Undelivered(k, p))
-------------------------------------------------------------------------------
(* Properties.  Most hold as long as nothing overlaps a dispatch. *)

\* A re-run of a plan does not duplicate an order, across restarts: only an
\* answer lost on the way to the POST or to the lookup can.
OrdersAreDoubledByLostAnswersOnly ==
    ~overlapped => \A r \in Refs : Cardinality(EntitiesOf(r)) <= 1 + mishaps

\* "A replay, not a second contact": whatever runs at once and however often
\* the process dies, one reference is one creation, which carries one
\* message, and one notify_by, which is resent when its answer is lost.
AReplayIsNotASecondContact ==
    \A r \in Refs : messages[r] <= 2 + mishaps

\* "Sending is a decision somebody makes": nobody is written to on behalf of
\* a caller who did not ask for it.
NobodyIsMessagedUnasked ==
    [][ \A r \in Refs : messages'[r] > messages[r] => overlapped \/ r \in asked ]_vars

\* What was returned as dispatched stays known, and can be credited when it
\* is paid, across failed writes and restarts, until an append is torn.
ADispatchIsKept ==
    ~overlapped /\ torn = 0 =>
        \A r \in Refs : told[r] # NoId => dispatched[r] = told[r]

\* One settlement is one recovery, whether a delivery, a redelivery or a
\* poll brings it, before or after a restart, and one more for each append
\* that was torn.  The last one stays on disk unless a tear swallowed it.
CreditedOncePerTear ==
    ~overlapped => \A r \in Refs :
        Len(booked[r]) <= torn + (IF disk[r].reconciled THEN 1 ELSE 0)

\* What is booked on a link or an order was paid on it by then; a year is
\* booked only for an auth link that was paid.
BookedWasPaid ==
    \A r \in Refs : \A n \in DOMAIN booked[r] :
        \E k \in EntitiesOf(r) :
            IF kind[r] = "invoice" THEN entities[k].paid = Due
            ELSE booked[r][n] <= entities[k].paid

\* The webhook closes the loop without a poll: what is paid on a dispatch is
\* booked, unless an answer was lost, a fault struck or something overlapped a dispatch.
PaidIsBooked ==
    \A r \in Refs :
        (dispatched[r] # NoId /\ entities[dispatched[r]].paid > 0)
            ~> (booked[r] # <<>> \/ mishaps > 0 \/ faults > 0 \/ overlapped)

\* What console/app.py's lock is there for: with nothing lost and nobody
\* dying, one reference never becomes two orders.
OneOrderPerReference ==
    mishaps = 0 /\ faults = 0 =>
        \A r \in Refs : Cardinality(EntitiesOf(r)) <= 1
===============================================================================
