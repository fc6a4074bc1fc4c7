------------------------------- MODULE Scheduler -------------------------------
(***************************************************************************)
(* schedule/scheduler.py: actions held until the moment the rules chose,   *)
(* ruled on again when they come due, and written to the journal after     *)
(* every change.                                                           *)
(*                                                                         *)
(* The journal is the SharedJournal that Journal implements: disk[i] is    *)
(* the last snapshot of entry i that a restart can read, and an append     *)
(* that raised or was cut short may leave an open line that swallows the   *)
(* next one.  run_due is taken apart into its steps, so the process may    *)
(* die, the executor may raise and the journal may raise between any two   *)
(* of them.  The policy engine is any engine that never moves an action to *)
(* an earlier moment (PolicyEngine shows the real one is such): a due      *)
(* entry is refused, or permitted for some moment from its own on.         *)
(***************************************************************************)
EXTENDS SharedJournal, Sequences

CONSTANTS Ids,           \* entries, by reference_for(action)
          Absent,        \* an id nothing was submitted under
          Planned,       \* the moment of each action when it is submitted
          MaxLateness,   \* max_lateness
          MaxDeferrals,  \* max_deferrals
          MaxDue,        \* bound: the latest moment an action can have
          MaxTime,       \* bound: where the clock stops
          MaxFaults      \* bound: crashes, failed and torn journal writes

Time == 0 .. MaxTime
Moment == 0 .. MaxDue

Settled == {"fired", "refused", "stale", "abandoned"}
States == {"waiting"} \cup Settled

Entry == [state : States, due : Moment, deferrals : 0 .. MaxDeferrals,
          history : Seq(Moment)]

ASSUME SchedulerAssumption ==
    /\ Planned \in [Ids -> Moment]
    /\ MaxLateness \in Nat /\ MaxDeferrals \in Nat /\ MaxFaults \in Nat
    /\ MaxDue \in Nat /\ MaxTime \in Nat
    /\ MaxDue + MaxLateness < MaxTime
    /\ Absent \notin Entry

VARIABLES clock,    \* the `at` the next run will be given
          entries,  \* Scheduler.entries
          run,      \* the run_due in progress, or Idle
          dirty,    \* entries changed in memory and not yet written
          told,     \* the last snapshot of each entry a caller was returned
          calls,    \* history: executor.execute calls that returned, per entry
          faults,   \* history: crashes, failed and torn journal writes
          raised    \* history: whether a journal write ever raised

vars == <<clock, entries, store, run, dirty, told, calls, faults, raised>>
ghosts == <<faults, raised>>

Idle == [at |-> 0, todo |-> {}, out |-> {}, busy |-> FALSE]

\* todo: entries of the snapshot not reached yet; out: those with a Firing.
Run == [at : Time, todo : SUBSET Ids, out : SUBSET Ids, busy : BOOLEAN]

TypeOK ==
    /\ clock \in Time
    /\ entries \in [Ids -> Entry \cup {Absent}]
    /\ disk \in [Ids -> Entry \cup {Absent}]
    /\ kept \in [Ids -> Entry \cup {Absent}]
    /\ gap \in BOOLEAN
    /\ torn \in 0 .. MaxFaults
    /\ told \in [Ids -> Entry \cup {Absent}]
    /\ run \in Run
    /\ dirty \in SUBSET Ids
    /\ calls \in [Ids -> Nat]
    /\ faults \in 0 .. MaxFaults
    /\ raised \in BOOLEAN

Waiting(i) == entries[i] # Absent /\ entries[i].state = "waiting"
-------------------------------------------------------------------------------
Init ==
    /\ clock = 0
    /\ entries = [i \in Ids |-> Absent]
    /\ Empty([i \in Ids |-> Absent])
    /\ run = Idle
    /\ dirty = {}
    /\ told = [i \in Ids |-> Absent]
    /\ calls = [i \in Ids |-> 0]
    /\ faults = 0
    /\ raised = FALSE

\* The clock a caller passes as `at` moves between calls: run_due reads it once.
Tick ==
    /\ ~run.busy /\ dirty = {}
    /\ clock < MaxTime
    /\ clock' = clock + 1
    /\ UNCHANGED <<entries, store, run, dirty, told, calls, ghosts>>

\* submit: the reference contains the moment, so an id always has the same.
\* A moment in the past is accepted.
submit(i) ==
    /\ ~run.busy /\ dirty = {}
    /\ entries[i] = Absent
    /\ entries' = [entries EXCEPT ![i] =
           [state |-> "waiting", due |-> Planned[i], deferrals |-> 0,
            history |-> <<Planned[i]>>]]
    /\ dirty' = {i}
    /\ UNCHANGED <<clock, store, run, told, calls, ghosts>>

\* A second submission of the same reference returns the entry there is.
submit_existing(i) ==
    /\ ~run.busy /\ dirty = {}
    /\ entries[i] # Absent
    /\ told' = [told EXCEPT ![i] = entries[i]]
    /\ UNCHANGED <<clock, entries, store, run, dirty, calls, ghosts>>

\* Mutant: inside run_due nothing is written until the run is over.
_remember_Unwritten(i) ==
    /\ i \in dirty
    /\ dirty' = {}
    /\ IF run.busy
       THEN /\ run' = [run EXCEPT !.todo = @ \ {i}, !.out = @ \cup {i}]
            /\ UNCHANGED <<told, store>>
       ELSE /\ told' = [told EXCEPT ![i] = entries[i]]
            /\ Appended(i, entries[i])
            /\ UNCHANGED run
    /\ UNCHANGED <<clock, entries, calls, ghosts>>

\* _remember: journal.append returned.  submit returns after it; run_due goes
\* on to the next entry, with this one's Firing in its list.
_remember(i) ==
    /\ i \in dirty
    /\ Appended(i, entries[i])
    /\ dirty' = {}
    /\ IF run.busy
       THEN /\ run' = [run EXCEPT !.todo = @ \ {i}, !.out = @ \cup {i}]
            /\ UNCHANGED told
       ELSE /\ told' = [told EXCEPT ![i] = entries[i]]
            /\ UNCHANGED run
    /\ UNCHANGED <<clock, entries, calls, ghosts>>
-------------------------------------------------------------------------------
(* run_due, one step per entry of the snapshot _waiting_by_due takes *)

\* Mutant: the run visits every entry, the settled ones too.
_waiting_by_due_All ==
    /\ ~run.busy /\ dirty = {}
    /\ run' = [at |-> clock, todo |-> {i \in Ids : entries[i] # Absent},
               out |-> {}, busy |-> TRUE]
    /\ UNCHANGED <<clock, entries, store, dirty, told, calls, ghosts>>

_waiting_by_due ==
    /\ ~run.busy /\ dirty = {}
    /\ run' = [at |-> clock, todo |-> {i \in Ids : Waiting(i)}, out |-> {},
               busy |-> TRUE]
    /\ UNCHANGED <<clock, entries, store, dirty, told, calls, ghosts>>

\* The entry the loop has reached: the soonest due of those left.
Reached(i) ==
    /\ run.busy /\ dirty = {}
    /\ i \in run.todo
    /\ \A j \in run.todo : entries[i].due <= entries[j].due

\* Mutant: nothing is ever stale.
is_stale_Never(i) == i \notin Ids

is_stale(i) == run.at > entries[i].due + MaxLateness
\* Mutant: staleness is not checked before dueness.
is_due_EvenStale(i) == run.at >= entries[i].due

is_due(i) == run.at >= entries[i].due /\ ~is_stale(i)

Settle(i, state) ==
    /\ entries' = [entries EXCEPT ![i].state = state]
    /\ dirty' = {i}
    /\ UNCHANGED <<clock, store, run, told, ghosts>>

DropStale(i) ==
    /\ Reached(i) /\ is_stale(i)
    /\ Settle(i, "stale")
    /\ UNCHANGED calls

NotYetDue(i) ==
    /\ Reached(i) /\ run.at < entries[i].due
    /\ run' = [run EXCEPT !.todo = @ \ {i}]
    /\ UNCHANGED <<clock, entries, store, dirty, told, calls, ghosts>>

\* No context for the subject any more, or the rules deny the action now.
Refuse(i) ==
    /\ Reached(i) /\ is_due(i)
    /\ Settle(i, "refused")
    /\ UNCHANGED calls

Moved(e, to) ==
    [e EXCEPT !.due = to, !.deferrals = @ + 1, !.history = Append(@, to)]

\* Mutant: the deferrals are counted and not bounded.
Defer_Unbounded(i, moved_to) ==
    /\ Reached(i) /\ is_due(i)
    /\ moved_to > run.at
    /\ entries' = [entries EXCEPT ![i] = Moved(@, moved_to)]
    /\ dirty' = {i}
    /\ UNCHANGED <<clock, store, run, told, calls, ghosts>>

\* Mutant: the move is not added to the history.
Defer_Unrecorded(i, moved_to) ==
    /\ Reached(i) /\ is_due(i)
    /\ moved_to > run.at
    /\ entries[i].deferrals < MaxDeferrals
    /\ entries' = [entries EXCEPT ![i] =
           [@ EXCEPT !.due = moved_to, !.deferrals = @ + 1]]
    /\ dirty' = {i}
    /\ UNCHANGED <<clock, store, run, told, calls, ghosts>>

\* The rules permit the action for a later moment than this one.
Defer(i, moved_to) ==
    /\ Reached(i) /\ is_due(i)
    /\ moved_to > run.at
    /\ entries[i].deferrals < MaxDeferrals
    /\ entries' = [entries EXCEPT ![i] = Moved(@, moved_to)]
    /\ dirty' = {i}
    /\ UNCHANGED <<clock, store, run, told, calls, ghosts>>

Abandon(i, moved_to) ==
    /\ Reached(i) /\ is_due(i)
    /\ moved_to > run.at
    /\ entries[i].deferrals >= MaxDeferrals
    /\ Settle(i, "abandoned")
    /\ UNCHANGED calls

\* executor.execute(final, at) returned, for a final no later than now.
Dispatch(i, moved_to) ==
    /\ Reached(i) /\ is_due(i)
    /\ moved_to \in entries[i].due .. run.at
    /\ Settle(i, "fired")
    /\ calls' = [calls EXCEPT ![i] = @ + 1]

\* executor.execute raised: the run is over, its firings are lost to the
\* caller, and this entry is still waiting.
ExecutorRaises(i) ==
    /\ Reached(i) /\ is_due(i)
    /\ run' = Idle
    /\ UNCHANGED <<clock, entries, store, dirty, told, calls, ghosts>>

ReturnFirings ==
    /\ run.busy /\ dirty = {} /\ run.todo = {}
    /\ told' = [i \in Ids |-> IF i \in run.out THEN entries[i] ELSE told[i]]
    /\ run' = Idle
    /\ UNCHANGED <<clock, entries, store, dirty, calls, ghosts>>
-------------------------------------------------------------------------------
(* Faults *)

\* journal.append raised: the caller gets the exception and memory keeps the
\* change, whatever of the line is in the file.
JournalRaises ==
    /\ faults < MaxFaults
    /\ faults' = faults + 1
    /\ raised' = TRUE
    /\ \E i \in dirty : AppendFails(i, entries[i])
    /\ dirty' = {}
    /\ run' = Idle
    /\ UNCHANGED <<clock, entries, told, calls>>

\* The process dies, in an append or not; the next one's __post_init__
\* restores what can be read.
CrashAndRestore ==
    /\ faults < MaxFaults
    /\ faults' = faults + 1
    /\ UNCHANGED store \/ \E i \in dirty : AppendFails(i, entries[i])
    /\ entries' = disk'
    /\ dirty' = {}
    /\ run' = Idle
    /\ UNCHANGED <<clock, told, calls, raised>>

\* Between any two appends of this kind others write to the file, the executor
\* of a firing among them, and may tear it.
OthersAppend ==
    /\ dirty = {}
    /\ \/ OtherAppended /\ UNCHANGED faults
       \/ OtherTorn /\ faults < MaxFaults /\ faults' = faults + 1
    /\ UNCHANGED <<clock, entries, run, dirty, told, calls, raised>>
-------------------------------------------------------------------------------
FireStep(i) ==
    \/ DropStale(i)
    \/ NotYetDue(i)
    \/ Refuse(i)
    \/ \E t \in Moment : Defer(i, t) \/ Abandon(i, t) \/ Dispatch(i, t)
    \/ ExecutorRaises(i)

RunStep == ReturnFirings \/ \E i \in Ids : FireStep(i) \/ _remember(i)

Next ==
    \/ Tick
    \/ \E i \in Ids : submit(i) \/ submit_existing(i)
    \/ _waiting_by_due
    \/ RunStep
    \/ JournalRaises
    \/ CrashAndRestore
    \/ OthersAppend

Spec == Init /\ [][Next]_vars

\* Whoever drives the scheduler keeps moving its clock between the calls and
\* keeps calling run_due, and a call that started proceeds.
Fairness == SF_vars(Tick) /\ WF_vars(_waiting_by_due) /\ WF_vars(RunStep)

FairSpec == Spec /\ Fairness
-------------------------------------------------------------------------------
(* Properties *)

\* The audit trail of one entry: every moment it was due for, each later than
\* the one before, the last of them the current one, and one more of them
\* than it was deferred.
Trail(e) ==
    /\ Len(e.history) = e.deferrals + 1
    /\ e.due = e.history[Len(e.history)]
    /\ \A m, n \in DOMAIN e.history : m < n => e.history[m] < e.history[n]

\* The trail, and with it the deferral bound, is right in memory and on disk,
\* whatever was restored from where.
AuditTrail ==
    \A i \in Ids : /\ entries[i] # Absent => Trail(entries[i])
                   /\ disk[i] # Absent => Trail(disk[i])

\* e is a later snapshot of the same entry than d, or the same one: no move
\* of d is forgotten, and a settled entry does not change any more.
Continues(e, d) ==
    /\ Len(d.history) <= Len(e.history)
    /\ \A n \in DOMAIN d.history : d.history[n] = e.history[n]
    /\ d.state \in Settled => e = d

\* "Every state change is written before it is returned": what a caller was
\* told of an entry is on disk, or something later is, and memory is never
\* behind the disk.  That is so until a journal write raises, which leaves
\* memory ahead of the disk for the next submit to return, or is torn.
ReturnedSurvives ==
    ~raised /\ torn = 0 => \A i \in Ids :
        /\ told[i] # Absent => disk[i] # Absent /\ Continues(disk[i], told[i])
        /\ disk[i] # Absent =>
              entries[i] # Absent /\ Continues(entries[i], disk[i])

\* "Nothing fires before it is due", across deferrals and restarts: an entry
\* goes out no later than the lateness allowed and, until a journal write
\* raises or is torn, no earlier than any moment a caller was told for it and never
\* once a caller was told that it settled.
FiresInsideItsWindow ==
    [][ \A i \in Ids : calls'[i] # calls[i] =>
          /\ run.at <= entries[i].due + MaxLateness
          /\ ~raised /\ torn = 0 /\ told[i] # Absent =>
                /\ told[i].state = "waiting"
                /\ \A n \in DOMAIN told[i].history :
                      run.at >= told[i].history[n] ]_vars

\* One entry is one execution, unless a fault came between the execution and
\* the record of it; a fault allows at most one more.
OneFiringPerFault == \A i \in Ids : calls[i] <= 1 + faults

\* "Its moment eventually arrives, or the miss is recorded": no entry a restart
\* would restore is held for ever, whatever fails on the way.  Only a torn
\* append makes it be forgotten.
EverythingSettles ==
    \A i \in Ids :
        disk[i] # Absent ~>
            \/ entries[i] # Absent /\ entries[i].state \in Settled
            \/ entries[i] = Absent /\ torn > 0
===============================================================================
