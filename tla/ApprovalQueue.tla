----------------------------- MODULE ApprovalQueue -----------------------------
(***************************************************************************)
(* approve/queue.py: actions the rules will not let automation decide      *)
(* alone.  A person answers, or the request expires; what was approved is  *)
(* ruled on again when it is released, and its release is recorded before  *)
(* the caller gets it.                                                     *)
(*                                                                         *)
(* The journal is the SharedJournal that Journal implements: disk[i] is    *)
(* the last snapshot of request i, which carries the released flag, and an *)
(* append that raised or was cut short may leave an open line, of this     *)
(* kind or of another, that swallows the next one.  The calls that visit   *)
(* several requests (staff, expire_due, release) are taken apart into one  *)
(* step per request, so the process may die and the journal may raise      *)
(* between any two of them.  The policy engine refuses or permits an       *)
(* approved action as it likes.                                            *)
(***************************************************************************)
EXTENDS SharedJournal

CONSTANTS Ids,        \* requests, by reference_for(action)
          Absent,     \* an id nothing was submitted under; a time not set yet
          Ttl,        \* ttl: how long a request is answerable
          Latency,    \* StandingApproval.latency
          LastSubmit, \* bound: when the last request is submitted
          MaxTime,    \* bound: where the clock stops
          MaxFaults   \* bound: crashes, failed and torn journal writes

Answers == {"approved", "rejected", "expired"}
Deciders == {"nobody", "person", "desk"}

Time == 0 .. MaxTime

Request == [state : {"pending"} \cup Answers, submitted : Time,
            decided : Nat \cup {Absent}, by : Deciders]

Snapshot == [request : Request, released : BOOLEAN]

ASSUME ApprovalAssumption ==
    /\ Ttl \in Nat \ {0} /\ Latency \in Nat
    /\ MaxTime \in Nat /\ MaxFaults \in Nat
    /\ LastSubmit \in Nat /\ LastSubmit + Ttl <= MaxTime
    /\ Absent \notin Nat /\ Absent \notin Request /\ Absent \notin Snapshot

VARIABLES clock,      \* the `at` the next call will be given
          requests,   \* ApprovalQueue.requests
          released,   \* ApprovalQueue.released
          call,       \* the staff, expire_due or release in progress, or NoCall
          dirty,      \* requests changed in memory and not yet written
          told,       \* the last state of each request a caller was returned
          handed,     \* history: dispatchable Releases returned, per request
          faults,     \* history: crashes, failed and torn journal writes
          raised      \* history: whether a journal write ever raised

vars == <<clock, requests, released, store, call, dirty, told, handed, faults,
          raised>>
ghosts == <<faults, raised>>

\* todo: requests still to visit; out: those with a dispatchable Release.
Calls == [op : {"none", "staff", "expire_due", "release"}, at : Time,
          todo : SUBSET Ids, out : SUBSET Ids]
NoCall == [op |-> "none", at |-> 0, todo |-> {}, out |-> {}]

TypeOK ==
    /\ clock \in Time
    /\ requests \in [Ids -> Request \cup {Absent}]
    /\ released \in SUBSET Ids
    /\ disk \in [Ids -> Snapshot \cup {Absent}]
    /\ kept \in [Ids -> Snapshot \cup {Absent}]
    /\ gap \in BOOLEAN
    /\ torn \in 0 .. MaxFaults
    /\ call \in Calls
    /\ dirty \in SUBSET Ids
    /\ told \in [Ids -> Request \cup {Absent}]
    /\ handed \in [Ids -> Nat]
    /\ faults \in 0 .. MaxFaults
    /\ raised \in BOOLEAN

Known(i) == requests[i] # Absent
Pending(i) == Known(i) /\ requests[i].state = "pending"
Expires(r) == r.submitted + Ttl

to_record(i) == [request |-> requests[i], released |-> i \in released]
-------------------------------------------------------------------------------
Init ==
    /\ clock = 0
    /\ requests = [i \in Ids |-> Absent]
    /\ released = {}
    /\ Empty([i \in Ids |-> Absent])
    /\ call = NoCall
    /\ dirty = {}
    /\ told = [i \in Ids |-> Absent]
    /\ handed = [i \in Ids |-> 0]
    /\ faults = 0
    /\ raised = FALSE

Quiet == call = NoCall /\ dirty = {}

\* The clock a caller passes as `at` moves between calls.
Tick ==
    /\ Quiet /\ clock < MaxTime
    /\ clock' = clock + 1
    /\ UNCHANGED <<requests, released, store, call, dirty, told, handed, ghosts>>

submit(i) ==
    /\ Quiet /\ ~Known(i)
    /\ clock <= LastSubmit
    /\ requests' = [requests EXCEPT ![i] =
           [state |-> "pending", submitted |-> clock, decided |-> Absent,
            by |-> "nobody"]]
    /\ dirty' = {i}
    /\ UNCHANGED <<clock, released, store, call, told, handed, ghosts>>

\* The same action proposed again is the same ask: the caller gets that one.
submit_existing(i) ==
    /\ Quiet /\ Known(i)
    /\ told' = [told EXCEPT ![i] = requests[i]]
    /\ UNCHANGED <<clock, requests, released, store, call, dirty, handed, ghosts>>

Answered(r, answer, at, by) ==
    [r EXCEPT !.state = answer, !.decided = at, !.by = by]

\* Mutant: the console's verb is recorded instead of the state it leads to.
Decided_Verb(i, answer, at, by) ==
    /\ requests' = [requests EXCEPT ![i] =
           Answered(@, IF answer = "approved" THEN "approve" ELSE answer, at, by)]
    /\ dirty' = {i}

Decided(i, answer, at, by) ==
    /\ requests' = [requests EXCEPT ![i] = Answered(@, answer, at, by)]
    /\ dirty' = {i}

\* Mutant: a late answer is taken like any other.
_decide_Late(i, answer) ==
    /\ Quiet /\ Pending(i)
    /\ Decided(i, answer, clock, "person")
    /\ UNCHANGED <<clock, released, store, call, told, handed, ghosts>>

\* approve and reject, by a named person.  An answer after the shelf life is
\* recorded as an expiry; one to a request already answered raises and
\* changes nothing.
_decide(i, answer) ==
    /\ Quiet /\ Pending(i)
    /\ IF clock >= Expires(requests[i])
       THEN Decided(i, "expired", clock, "nobody")
       ELSE Decided(i, answer, clock, "person")
    /\ UNCHANGED <<clock, released, store, call, told, handed, ghosts>>

\* journal.append returned.  approve, reject and submit return the request;
\* the other calls go on to the next one, and a permitted one is reported.
_remember(i) ==
    /\ i \in dirty
    /\ Appended(i, to_record(i))
    /\ dirty' = {}
    /\ IF call = NoCall
       THEN told' = [told EXCEPT ![i] = requests[i]]
       ELSE UNCHANGED told
    /\ UNCHANGED <<clock, requests, released, call, handed, ghosts>>
-------------------------------------------------------------------------------
(* The calls that visit several requests *)

\* When the standing desk answers request r, if it gets to it in time.
decides_at(r) == r.submitted + Latency
Answerable(r) == decides_at(r) < Expires(r)

Begin(op, S) ==
    /\ Quiet
    /\ call' = [op |-> op, at |-> clock, todo |-> S, out |-> {}]
    /\ UNCHANGED <<clock, requests, released, store, dirty, told, handed, ghosts>>

BeginStaff ==
    Begin("staff", {i \in Ids : /\ Pending(i)
                                /\ Answerable(requests[i])
                                /\ decides_at(requests[i]) <= clock})

\* Mutant: expiry does not look at the state of the request.
BeginExpireDue_Answered ==
    Begin("expire_due", {i \in Ids : Known(i) /\ clock >= Expires(requests[i])})

\* Mutant: what the desk could have answered in time is left to the desk.
BeginExpireDue_Unstaffed ==
    Begin("expire_due", {i \in Ids : /\ Pending(i) /\ clock >= Expires(requests[i])
                                     /\ ~Answerable(requests[i])})

BeginExpireDue ==
    Begin("expire_due", {i \in Ids : Pending(i) /\ clock >= Expires(requests[i])})

BeginRelease ==
    Begin("release", {i \in Ids : /\ Known(i) /\ requests[i].state = "approved"
                                  /\ i \notin released})

Visit(op, i) ==
    /\ call.op = op /\ dirty = {} /\ i \in call.todo
    /\ UNCHANGED <<clock, store, told, handed, ghosts>>

staff(i) ==
    /\ Visit("staff", i)
    /\ Decided(i, "approved", decides_at(requests[i]), "desk")
    /\ call' = [call EXCEPT !.todo = @ \ {i}]
    /\ UNCHANGED released

expire_due(i) ==
    /\ Visit("expire_due", i)
    /\ Decided(i, "expired", Expires(requests[i]), "nobody")
    /\ call' = [call EXCEPT !.todo = @ \ {i}]
    /\ UNCHANGED released

\* Mutant: that the approval is spent is not written.
release_Unwritten(i) ==
    /\ Visit("release", i)
    /\ released' = released \cup {i}
    /\ \/ call' = [call EXCEPT !.todo = @ \ {i}]
       \/ call' = [call EXCEPT !.todo = @ \ {i}, !.out = @ \cup {i}]
    /\ UNCHANGED <<requests, dirty>>

\* The flag is set and written whatever the rules say this time; only what
\* they still permit is reported as dispatchable.
release(i) ==
    /\ Visit("release", i)
    /\ released' = released \cup {i}
    /\ dirty' = {i}
    /\ \/ call' = [call EXCEPT !.todo = @ \ {i}]
       \/ call' = [call EXCEPT !.todo = @ \ {i}, !.out = @ \cup {i}]
    /\ UNCHANGED requests

\* The list is returned: the caller dispatches what is in it.
Return ==
    /\ call.op # "none" /\ dirty = {} /\ call.todo = {}
    /\ handed' = [i \in Ids |-> IF i \in call.out THEN handed[i] + 1
                                                  ELSE handed[i]]
    /\ call' = NoCall
    /\ UNCHANGED <<clock, requests, released, store, dirty, told, ghosts>>
-------------------------------------------------------------------------------
(* Faults *)

\* journal.append raised: the caller gets the exception and memory keeps the
\* change, whatever of the line is in the file.
JournalRaises ==
    /\ faults < MaxFaults
    /\ faults' = faults + 1
    /\ raised' = TRUE
    /\ \E i \in dirty : AppendFails(i, to_record(i))
    /\ dirty' = {}
    /\ call' = NoCall
    /\ UNCHANGED <<clock, requests, released, told, handed>>

\* The process dies, in an append or not; the next one's __post_init__
\* restores what can be read.
CrashAndRestore ==
    /\ faults < MaxFaults
    /\ faults' = faults + 1
    /\ UNCHANGED store \/ \E i \in dirty : AppendFails(i, to_record(i))
    /\ requests' = [i \in Ids |->
           IF disk'[i] = Absent THEN Absent ELSE disk'[i].request]
    /\ released' = {i \in Ids : disk'[i] # Absent /\ disk'[i].released}
    /\ dirty' = {}
    /\ call' = NoCall
    /\ UNCHANGED <<clock, told, handed, raised>>

\* Between any two appends of this kind others write to the file, and may
\* tear it.
OthersAppend ==
    /\ dirty = {}
    /\ \/ OtherAppended /\ UNCHANGED faults
       \/ OtherTorn /\ faults < MaxFaults /\ faults' = faults + 1
    /\ UNCHANGED <<clock, requests, released, call, dirty, told, handed, raised>>
-------------------------------------------------------------------------------
Step ==
    \/ Return
    \/ \E i \in Ids : _remember(i) \/ staff(i) \/ expire_due(i) \/ release(i)

Next ==
    \/ Tick
    \/ \E i \in Ids : submit(i) \/ submit_existing(i)
    \/ \E i \in Ids, answer \in {"approved", "rejected"} : _decide(i, answer)
    \/ BeginStaff
    \/ BeginExpireDue
    \/ BeginRelease
    \/ Step
    \/ JournalRaises
    \/ CrashAndRestore
    \/ OthersAppend

Spec == Init /\ [][Next]_vars

\* Between other calls time passes and expire_due is called, again and again,
\* and a call that began proceeds.  Nobody has to answer or release anything.
FairSpec == Spec /\ SF_vars(Tick) /\ WF_vars(Step) /\ SF_vars(BeginExpireDue)
-------------------------------------------------------------------------------
(* Properties *)

\* "An approval is answered once": a request is handed out once, and once
\* more for each append that was torn, in all lives of the process, whatever
\* raised and whenever it died.  The release of a request is on disk before
\* the caller has it, so the last one is spent unless a tear swallowed it.
AYesIsOneDispatchPerTear ==
    \A i \in Ids :
        handed[i] <= torn + (IF disk[i] # Absent /\ disk[i].released THEN 1 ELSE 0)

\* Only what somebody said yes to, in time, is ever handed out.
HandedWasApproved ==
    [][ \A i \in Ids : handed'[i] # handed[i] =>
          /\ Known(i)
          /\ requests[i].state = "approved"
          /\ requests[i].by # "nobody"
          /\ requests[i].decided >= requests[i].submitted
          /\ requests[i].decided < Expires(requests[i]) ]_vars

\* "A decision is made once": until a journal write raises or is torn, an
\* answer a caller was told of is never another one afterwards, in memory, on
\* disk or to the next caller, whatever is restored from where.
DecisionIsMadeOnce ==
    [][ \A i \in Ids :
          ~raised' /\ torn' = 0 /\ told[i] # Absent /\ told[i].state \in Answers =>
            /\ told'[i] = told[i]
            /\ requests'[i] = told[i]
            /\ disk'[i] # Absent /\ disk'[i].request = told[i] ]_vars

\* Nothing a restart would restore waits for an answer for ever: nobody
\* answering is an answer, in time.  Only a torn append makes it be forgotten.
EveryAskIsAnswered ==
    \A i \in Ids :
        disk[i] # Absent ~>
            \/ Known(i) /\ requests[i].state \in Answers
            \/ ~Known(i) /\ torn > 0
===============================================================================
