---------------------------- MODULE SchedulerProofs ----------------------------
(***************************************************************************)
(* The scheduler keeps its word across deferrals, failed and torn writes   *)
(* and restarts, for any entries, moments and limits.                      *)
(*                                                                         *)
(* What carries the proof is where the copies of an entry stand: what a    *)
(* caller was told continues into the journal's snapshot, and the snapshot *)
(* into memory; the last two differ only for the entry that is about to be *)
(* written.  That is so while no write raised and no line is torn; what is *)
(* said of a firing through every fault needs no copy but the memory.      *)
(***************************************************************************)
EXTENDS Scheduler, TLAPS

\* Only what a call has changed is unwritten, and a run holds what waits.
Control ==
    /\ \A i \in dirty : entries[i] # Absent
    /\ \A i, j \in dirty : i = j
    /\ \A i \in run.todo \ dirty : Waiting(i)
    /\ ~run.busy => run.todo = {}

\* What survives the next append is what can be read now, unless a line is
\* open, which took a torn append.
JournalIsSound ==
    /\ ~gap => kept = disk
    /\ gap => torn >= 1
    /\ torn <= faults
    /\ \A i \in Ids : kept[i] # Absent => Trail(kept[i])

\* Until a write raises or is torn, memory is the disk but for what is unwritten.
Copies ==
    ~raised /\ torn = 0 => \A i \in Ids : i \notin dirty => disk[i] = entries[i]

\* What is waiting, or forgotten, was executed once per fault at most.
Firings ==
    \A i \in Ids : /\ calls[i] <= 1 + faults
                   /\ entries[i] = Absent \/ Waiting(i) => calls[i] <= faults

IInv ==
    /\ TypeOK
    /\ JournalIsSound
    /\ Control
    /\ AuditTrail
    /\ Copies
    /\ ReturnedSurvives
    /\ Firings
-------------------------------------------------------------------------------
LEMMA ContinuesItself ==
    ASSUME NEW e \in Entry
    PROVE  Continues(e, e)
BY DEF Continues, Entry

LEMMA ContinuesChain ==
    ASSUME NEW e \in Entry, NEW d \in Entry, NEW c \in Entry,
           Continues(e, d), Continues(d, c)
    PROVE  Continues(e, c)
<1>1. Len(c.history) <= Len(d.history) /\ Len(d.history) <= Len(e.history)
      /\ Len(c.history) \in Nat /\ Len(d.history) \in Nat /\ Len(e.history) \in Nat
  BY DEF Continues, Entry
<1>2. DOMAIN c.history = 1 .. Len(c.history) /\ DOMAIN d.history = 1 .. Len(d.history)
  BY DEF Entry
<1>3. \A n \in DOMAIN c.history : c.history[n] = e.history[n]
  BY <1>1, <1>2 DEF Continues
<1>. QED  BY <1>1, <1>3 DEF Continues

\* A waiting entry that settles, and one that is moved later.
LEMMA SettlingContinues ==
    ASSUME NEW e \in Entry, e.state = "waiting", Trail(e), NEW s \in Settled
    PROVE  LET f == [e EXCEPT !.state = s]
           IN  f \in Entry /\ Trail(f) /\ Continues(f, e) /\ f.state # "waiting"
BY DEF Entry, States, Settled, Continues, Trail

LEMMA MovedEntry ==
    ASSUME NEW e \in Entry, NEW d \in Moment, NEW n \in 0 .. MaxDeferrals,
           NEW h \in Seq(Moment)
    PROVE  [e EXCEPT !.due = d, !.deferrals = n, !.history = h] \in Entry
<1>1. [e EXCEPT !.due = d] \in Entry
  BY DEF Entry
<1>2. \A f \in Entry : [f EXCEPT !.deferrals = n] \in Entry
  BY DEF Entry
<1>3. \A f \in Entry : [f EXCEPT !.history = h] \in Entry
  BY DEF Entry
<1>4. [e EXCEPT !.due = d, !.deferrals = n, !.history = h]
        = [[[e EXCEPT !.due = d] EXCEPT !.deferrals = n] EXCEPT !.history = h]
  BY DEF Entry
<1>. QED  BY <1>1, <1>2, <1>3, <1>4

LEMMA DeferringContinues ==
    ASSUME NEW e \in Entry, e.state = "waiting", Trail(e),
           NEW t \in Moment, t > e.due, e.deferrals < MaxDeferrals
    PROVE  LET f == Moved(e, t)
           IN  f \in Entry /\ Trail(f) /\ Continues(f, e) /\ f.state = "waiting"
<1>. DEFINE f == Moved(e, t)
            h == e.history
            g == f.history
            k == Len(h)
<1>1. /\ h \in Seq(Moment) /\ e.deferrals \in 0 .. MaxDeferrals /\ e.due \in Moment
      /\ g = Append(h, t) /\ f.due = t /\ f.deferrals = e.deferrals + 1
      /\ f.state = "waiting"
  BY DEF Entry, Moved
<1>2. /\ k \in Nat /\ k = e.deferrals + 1 /\ e.due = h[k]
      /\ \A m, n \in 1 .. k : m < n => h[m] < h[n]
  BY <1>1 DEF Trail
<1>. HIDE DEF h, g
<1>3. /\ Len(g) = k + 1 /\ g \in Seq(Moment) /\ g[k + 1] = t
      /\ \A n \in 1 .. k : g[n] = h[n]
  BY <1>1
<1>4. \A n \in 1 .. k : h[n] \in Moment
  BY <1>1
<1>5. f \in Entry
  <2>1. e.deferrals + 1 \in 0 .. MaxDeferrals
    BY <1>1, SchedulerAssumption
  <2>2. Append(e.history, t) \in Seq(Moment)
    BY DEF Entry
  <2>. QED  BY <2>1, <2>2, MovedEntry DEF Moved
<1>6. \A m, n \in 1 .. k + 1 : m < n => g[m] < g[n]
  <2>1. /\ \A n \in 1 .. k : h[n] \in Nat
        /\ t \in Nat /\ e.due \in Nat
    BY <1>1, <1>4 DEF Moment
  <2>2. \A n \in 1 .. k : h[n] <= e.due
    BY <1>2, <2>1
  <2>3. ASSUME NEW m \in 1 .. (k + 1), NEW n \in 1 .. (k + 1), m < n
        PROVE  g[m] < g[n]
    <3>1. m \in 1 .. k /\ g[m] = h[m]
      BY <2>3, <1>2, <1>3
    <3>2. CASE n \in 1 .. k
      BY <3>1, <3>2, <2>3, <1>2, <1>3
    <3>3. CASE n = k + 1
      BY <3>1, <3>3, <2>1, <2>2, <1>3
    <3>. QED  BY <3>2, <3>3, <1>2
  <2>. QED  BY <2>3
<1>7. Trail(f)
  BY <1>1, <1>2, <1>3, <1>6 DEF Trail, g
<1>8. Continues(f, e)
  BY <1>1, <1>2, <1>3 DEF Continues, Settled, g, h
<1>. QED  BY <1>1, <1>5, <1>7, <1>8
LEMMA VisitedRun ==
    ASSUME NEW r \in Run, NEW i \in Ids
    PROVE  [r EXCEPT !.todo = @ \ {i}, !.out = @ \cup {i}] \in Run
<1>1. [r EXCEPT !.todo = @ \ {i}] \in Run
  BY DEF Run
<1>2. \A q \in Run : [q EXCEPT !.out = @ \cup {i}] \in Run
  BY DEF Run
<1>3. [r EXCEPT !.todo = @ \ {i}, !.out = @ \cup {i}]
        = [[r EXCEPT !.todo = @ \ {i}] EXCEPT !.out = @ \cup {i}]
  BY DEF Run
<1>. QED  BY <1>1, <1>2, <1>3
-------------------------------------------------------------------------------
(* Every step keeps the invariant *)

\* Entry i becomes f, which is then what there is to write.
LEMMA EntryChanges ==
    ASSUME IInv, dirty = {},
           NEW i \in Ids, NEW f \in Entry, Trail(f),
           entries[i] # Absent => Continues(f, entries[i]),
           ~raised /\ torn = 0 /\ entries[i] = Absent => disk[i] = Absent,
           entries' = [entries EXCEPT ![i] = f], dirty' = {i},
           UNCHANGED <<clock, store, run, told, ghosts>>
    PROVE  /\ JournalIsSound' /\ Control' /\ AuditTrail' /\ Copies' /\ ReturnedSurvives'
           /\ calls' \in [Ids -> Nat] => TypeOK'
<1>1. /\ entries \in [Ids -> Entry \cup {Absent}]
      /\ disk \in [Ids -> Entry \cup {Absent}]
      /\ faults' = faults /\ raised' = raised
      /\ UNCHANGED <<disk, kept, gap, torn>>
  BY DEF IInv, TypeOK, ghosts, store
<1>2. /\ entries' \in [Ids -> Entry \cup {Absent}]
      /\ entries'[i] = f /\ f # Absent
      /\ \A j \in Ids : j # i => entries'[j] = entries[j]
  BY <1>1, SchedulerAssumption
<1>3. calls' \in [Ids -> Nat] => TypeOK'
  BY <1>1, <1>2 DEF IInv, TypeOK, ghosts
<1>4. Control'
  BY <1>2 DEF IInv, TypeOK, Control, Waiting, Run
<1>5. AuditTrail'
  BY <1>1, <1>2 DEF IInv, AuditTrail
<1>6. Copies'
  BY <1>1, <1>2 DEF IInv, Copies
<1>7. ReturnedSurvives'
  <2>1. ASSUME ~raised, torn = 0, disk[i] # Absent
        PROVE  Continues(f, disk[i])
    BY <2>1, <1>1 DEF IInv, Copies
  <2>. QED  BY <1>1, <1>2, <2>1 DEF IInv, ReturnedSurvives
<1>8. JournalIsSound'
  BY <1>1 DEF IInv, JournalIsSound
<1>. QED  BY <1>3, <1>4, <1>5, <1>6, <1>7, <1>8

\* The entry a run has reached is waiting, with all it needs to go on.
LEMMA ReachedWaits ==
    ASSUME IInv, NEW i \in Ids, Reached(i)
    PROVE  /\ entries[i] \in Entry /\ entries[i].state = "waiting"
           /\ Trail(entries[i]) /\ Waiting(i) /\ dirty = {}
           /\ entries[i] # Absent /\ calls[i] <= faults
BY DEF IInv, TypeOK, Control, AuditTrail, Reached, Waiting, Firings

\* What an append of one of the entries in D, returned or failed or torn, or
\* one of another kind does to the two copies on disk.
StoreMoves(D) ==
    /\ disk' \in [Ids -> Entry \cup {Absent}]
    /\ kept' \in [Ids -> Entry \cup {Absent}]
    /\ gap' \in BOOLEAN /\ torn' \in {torn, torn + 1}
    /\ ~gap' => kept' = disk'
    /\ gap' => torn' >= 1
    /\ \A j \in Ids :
          /\ kept'[j] = kept[j] \/ (j \in D /\ kept'[j] = entries[j])
          /\ \/ disk'[j] = disk[j] \/ disk'[j] = kept[j]
             \/ j \in D /\ disk'[j] = entries[j]

LEMMA StoreStep ==
    ASSUME IInv, NEW D \in SUBSET dirty,
           \/ UNCHANGED store \/ OtherAppended \/ OtherTorn
           \/ \E i \in D : AppendFails(i, entries[i])
    PROVE  StoreMoves(D)
<1>1. /\ D \subseteq Ids /\ torn \in Nat /\ gap \in BOOLEAN
      /\ disk \in [Ids -> Entry \cup {Absent}]
      /\ kept \in [Ids -> Entry \cup {Absent}]
      /\ entries \in [Ids -> Entry \cup {Absent}]
      /\ (~gap => kept = disk) /\ (gap => torn >= 1)
  BY SchedulerAssumption DEF IInv, TypeOK, JournalIsSound
<1>2. CASE UNCHANGED store
  BY <1>1, <1>2 DEF store, StoreMoves
<1>3. ASSUME NEW i \in D, Appended(i, entries[i]) PROVE StoreMoves(D)
  <2>1. disk' = kept' /\ gap' = FALSE /\ torn' = torn
    BY <1>3 DEF Appended
  <2>2. kept' = kept \/ kept' = [kept EXCEPT ![i] = entries[i]]
    BY <1>3 DEF Appended
  <2>3. /\ kept' \in [Ids -> Entry \cup {Absent}]
        /\ \A j \in Ids : kept'[j] = kept[j] \/ (j \in D /\ kept'[j] = entries[j])
    BY <1>1, <2>2
  <2>. QED  BY <1>1, <2>1, <2>3 DEF StoreMoves
<1>4. ASSUME NEW i \in D, AppendTorn(i, entries[i]) PROVE StoreMoves(D)
  <2>1. kept' = kept /\ gap' = TRUE /\ torn' = torn + 1
    BY <1>4 DEF AppendTorn
  <2>2. disk' = kept \/ disk' = [kept EXCEPT ![i] = entries[i]]
    BY <1>4 DEF AppendTorn
  <2>3. /\ disk' \in [Ids -> Entry \cup {Absent}]
        /\ \A j \in Ids : disk'[j] = kept[j] \/ (j \in D /\ disk'[j] = entries[j])
    BY <1>1, <2>2
  <2>. QED  BY <1>1, <2>1, <2>3 DEF StoreMoves
<1>5. CASE OtherAppended
  BY <1>1, <1>5 DEF OtherAppended, StoreMoves
<1>6. CASE OtherTorn
  BY <1>1, <1>6 DEF OtherTorn, StoreMoves
<1>. QED  BY <1>2, <1>3, <1>4, <1>5, <1>6 DEF AppendFails

\* The journal's part of the invariant, when its step is one of those.
LEMMA StoreKeeps ==
    ASSUME IInv, StoreMoves(dirty), faults' \in 0 .. MaxFaults,
           torn' <= faults'
    PROVE  /\ JournalIsSound' /\ torn' \in 0 .. MaxFaults
           /\ \A j \in Ids : disk'[j] # Absent => Trail(disk'[j])
           /\ torn' = 0 =>
                /\ torn = 0
                /\ \A j \in Ids : disk'[j] = disk[j] \/ (j \in dirty /\ disk'[j] = entries[j])
<1>1. torn \in Nat /\ torn' \in Nat /\ gap \in BOOLEAN
  BY SchedulerAssumption DEF IInv, TypeOK, StoreMoves
<1>2. torn' \in 0 .. MaxFaults
  BY <1>1, SchedulerAssumption
<1>3. ASSUME NEW j \in Ids
      PROVE  /\ kept'[j] # Absent => Trail(kept'[j])
             /\ disk'[j] # Absent => Trail(disk'[j])
  <2>1. /\ entries[j] # Absent => Trail(entries[j])
        /\ disk[j] # Absent => Trail(disk[j])
        /\ kept[j] # Absent => Trail(kept[j])
    BY DEF IInv, AuditTrail, JournalIsSound
  <2>2. kept'[j] \in {kept[j], entries[j]} /\ disk'[j] \in {disk[j], kept[j], entries[j]}
    BY DEF StoreMoves
  <2>. QED  BY <2>1, <2>2
<1>4. JournalIsSound'
  BY <1>3 DEF StoreMoves, JournalIsSound
<1>5. ASSUME torn' = 0 PROVE torn = 0 /\ kept = disk
  BY <1>1, <1>5 DEF StoreMoves, IInv, JournalIsSound
<1>. QED  BY <1>2, <1>3, <1>4, <1>5 DEF StoreMoves

LEMMA StepIInv == IInv /\ [Next]_vars => IInv'
<1>. SUFFICES ASSUME IInv, [Next]_vars PROVE IInv'
  OBVIOUS
<1>. USE DEF IInv
<1>t. /\ clock \in Time
      /\ entries \in [Ids -> Entry \cup {Absent}]
      /\ disk \in [Ids -> Entry \cup {Absent}]
      /\ kept \in [Ids -> Entry \cup {Absent}]
      /\ told \in [Ids -> Entry \cup {Absent}]
      /\ run \in Run /\ dirty \in SUBSET Ids
      /\ calls \in [Ids -> Nat] /\ faults \in 0 .. MaxFaults /\ raised \in BOOLEAN
      /\ torn \in Nat /\ torn <= faults
  BY SchedulerAssumption DEF TypeOK, JournalIsSound
<1>1. CASE Tick
  <2>1. clock' \in Time
    BY <1>1, <1>t, SchedulerAssumption DEF Tick, Time
  <2>. QED  BY <1>1, <2>1 DEF Tick, ghosts, TypeOK, Control, Waiting, AuditTrail,
                              Copies, ReturnedSurvives, Firings, JournalIsSound, store
<1>2. ASSUME NEW i \in Ids, submit(i) PROVE IInv'
  <2>. DEFINE f == [state |-> "waiting", due |-> Planned[i], deferrals |-> 0,
                    history |-> <<Planned[i]>>]
  <2>1. f \in Entry /\ Trail(f) /\ f.state = "waiting"
    BY SchedulerAssumption DEF Entry, States, Trail
  <2>2. /\ entries[i] = Absent /\ dirty = {} /\ dirty' = {i}
        /\ entries' = [entries EXCEPT ![i] = f] /\ calls' = calls
        /\ UNCHANGED <<clock, store, run, told, ghosts>>
    BY <1>2 DEF submit
  <2>3. ~raised /\ torn = 0 => disk[i] = Absent
    BY <2>2 DEF Copies
  <2>. HIDE DEF f
  <2>4. TypeOK' /\ JournalIsSound' /\ Control' /\ AuditTrail' /\ Copies'
        /\ ReturnedSurvives'
    BY <2>1, <2>2, <2>3, <1>t, EntryChanges
  <2>5. Firings'
    BY <2>1, <2>2, <1>t DEF Firings, Waiting, ghosts
  <2>. QED  BY <2>4, <2>5
<1>3. ASSUME NEW i \in Ids, submit_existing(i) PROVE IInv'
  <2>1. told' \in [Ids -> Entry \cup {Absent}]
    BY <1>3, <1>t DEF submit_existing
  <2>2. ~raised /\ torn = 0 => disk[i] = entries[i]
    BY <1>3 DEF submit_existing, Copies
  <2>3. ReturnedSurvives'
    BY <1>3, <1>t, <2>2, ContinuesItself
       DEF submit_existing, ReturnedSurvives, ghosts, store
  <2>. QED  BY <1>3, <2>1, <2>3 DEF submit_existing, ghosts, TypeOK, Control,
                                    Waiting, AuditTrail, Copies, Firings, JournalIsSound, store
<1>4. ASSUME NEW i \in Ids, _remember(i) PROVE IInv'
  <2>1. /\ dirty = {i} /\ dirty' = {} /\ entries[i] # Absent
        /\ Appended(i, entries[i]) /\ torn' = torn
        /\ UNCHANGED <<clock, entries, calls, faults, raised>>
    BY <1>4 DEF _remember, Control, ghosts, Appended
  <2>2. \/ /\ run.busy /\ run' = [run EXCEPT !.todo = @ \ {i}, !.out = @ \cup {i}]
           /\ told' = told
        \/ ~run.busy /\ run' = run /\ told' = [told EXCEPT ![i] = entries[i]]
    BY <1>4 DEF _remember
  <2>3. run' \in Run /\ told' \in [Ids -> Entry \cup {Absent}]
    <3>1. [run EXCEPT !.todo = @ \ {i}, !.out = @ \cup {i}] \in Run
      BY <1>t, VisitedRun
    <3>. QED  BY <3>1, <2>2, <1>t
  <2>4. StoreMoves(dirty)
    BY <2>1, StoreStep DEF AppendFails
  <2>5. /\ JournalIsSound' /\ torn' \in 0 .. MaxFaults
        /\ \A j \in Ids : disk'[j] # Absent => Trail(disk'[j])
    BY <2>1, <2>4, <1>t, StoreKeeps
  <2>6. TypeOK'
    BY <2>1, <2>3, <2>4, <2>5, <1>t DEF TypeOK, StoreMoves
  <2>7. Control'
    BY <2>1, <2>2, <1>t DEF Control, Waiting, Run
  <2>8. AuditTrail' /\ Firings'
    BY <2>1, <2>5, <1>t DEF AuditTrail, Firings, Waiting
  <2>9. torn = 0 => disk' = [disk EXCEPT ![i] = entries[i]]
    <3>. SUFFICES ASSUME torn = 0 PROVE disk' = [disk EXCEPT ![i] = entries[i]]
      OBVIOUS
    <3>1. ~gap /\ kept = disk
      BY <1>t DEF JournalIsSound, TypeOK
    <3>. QED  BY <2>1, <3>1 DEF Appended
  <2>10. Copies'
    BY <2>1, <2>9, <1>t DEF Copies
  <2>11. ReturnedSurvives'
    <3>. SUFFICES ASSUME ~raised, torn = 0, NEW j \in Ids
                  PROVE  /\ told'[j] # Absent =>
                              disk'[j] # Absent /\ Continues(disk'[j], told'[j])
                         /\ disk'[j] # Absent =>
                              entries'[j] # Absent /\ Continues(entries'[j], disk'[j])
      BY <2>1 DEF ReturnedSurvives
    <3>1. CASE j # i
      BY <3>1, <2>1, <2>2, <2>9, <1>t DEF ReturnedSurvives
    <3>2. CASE j = i
      <4>1. disk'[i] = entries[i] /\ entries'[i] = entries[i] /\ entries[i] \in Entry
        BY <2>1, <2>9, <1>t
      <4>2. told'[i] = told[i] \/ told'[i] = entries[i]
        BY <2>2, <1>t
      <4>3. told[i] # Absent => Continues(entries[i], told[i])
        BY <1>t, <4>1, ContinuesChain DEF ReturnedSurvives
      <4>. QED  BY <3>2, <4>1, <4>2, <4>3, <2>1, ContinuesItself
    <3>. QED  BY <3>1, <3>2
  <2>. QED  BY <2>5, <2>6, <2>7, <2>8, <2>10, <2>11
<1>5. CASE _waiting_by_due
  <2>1. run' \in Run
    BY <1>5, <1>t DEF _waiting_by_due, Run
  <2>2. Control'
    BY <1>5 DEF _waiting_by_due, Control, Waiting
  <2>. QED  BY <1>5, <2>1, <2>2 DEF _waiting_by_due, ghosts, TypeOK, Waiting,
                          AuditTrail, Copies, ReturnedSurvives, Firings, JournalIsSound, store
<1>6. ASSUME NEW i \in Ids, NEW s \in Settled, Reached(i), Settle(i, s),
             \/ UNCHANGED calls
             \/ calls' = [calls EXCEPT ![i] = @ + 1]
      PROVE  IInv'
  <2>. DEFINE f == [entries[i] EXCEPT !.state = s]
  <2>1. /\ entries[i] \in Entry /\ entries[i].state = "waiting"
        /\ Trail(entries[i]) /\ entries[i] # Absent /\ dirty = {} /\ calls[i] <= faults
    BY <1>6, ReachedWaits
  <2>2. f \in Entry /\ Trail(f) /\ Continues(f, entries[i]) /\ f.state # "waiting"
    BY <2>1, SettlingContinues
  <2>3. /\ entries' = [entries EXCEPT ![i] = f] /\ dirty' = {i}
        /\ UNCHANGED <<clock, store, run, told, ghosts>>
    BY <1>6, <1>t DEF Settle
  <2>4. calls' \in [Ids -> Nat]
    BY <1>6, <1>t
  <2>. HIDE DEF f
  <2>5. TypeOK' /\ JournalIsSound' /\ Control' /\ AuditTrail' /\ Copies'
        /\ ReturnedSurvives'
    BY <2>1, <2>2, <2>3, <2>4, EntryChanges
  <2>6. Firings'
    <3>1. entries'[i] = f /\ f # Absent /\ faults' = faults
          /\ \A j \in Ids : j # i => entries'[j] = entries[j] /\ calls'[j] = calls[j]
      BY <2>2, <2>3, <1>6, <1>t, SchedulerAssumption DEF ghosts
    <3>2. calls'[i] <= 1 + faults
      BY <1>6, <1>t, <2>1
    <3>. QED  BY <3>1, <3>2, <2>2 DEF Firings, Waiting
  <2>. QED  BY <2>5, <2>6
<1>7. ASSUME NEW i \in Ids, NotYetDue(i) PROVE IInv'
  <2>1. run' \in Run
    BY <1>7, <1>t DEF NotYetDue, Run
  <2>2. Control'
    BY <1>7, <1>t DEF NotYetDue, Reached, Control, Waiting, Run
  <2>. QED  BY <1>7, <2>1, <2>2 DEF NotYetDue, ghosts, TypeOK, Waiting,
                          AuditTrail, Copies, ReturnedSurvives, Firings, JournalIsSound, store
<1>8. ASSUME NEW i \in Ids, NEW t \in Moment, Defer(i, t) PROVE IInv'
  <2>. DEFINE f == Moved(entries[i], t)
  <2>1. /\ entries[i] \in Entry /\ entries[i].state = "waiting"
        /\ Trail(entries[i]) /\ entries[i] # Absent /\ dirty = {} /\ calls[i] <= faults
    BY <1>8, ReachedWaits DEF Defer
  <2>2. t > entries[i].due /\ entries[i].deferrals < MaxDeferrals
    BY <1>8, <2>1, <1>t DEF Defer, is_due, Entry, Moment, Run, Time
  <2>3. f \in Entry /\ Trail(f) /\ Continues(f, entries[i]) /\ f.state = "waiting"
    BY <2>1, <2>2, DeferringContinues
  <2>4. /\ entries' = [entries EXCEPT ![i] = f] /\ dirty' = {i} /\ calls' = calls
        /\ UNCHANGED <<clock, store, run, told, ghosts>>
    BY <1>8, <1>t DEF Defer
  <2>. HIDE DEF f
  <2>5. TypeOK' /\ JournalIsSound' /\ Control' /\ AuditTrail' /\ Copies'
        /\ ReturnedSurvives'
    BY <2>1, <2>3, <2>4, <1>t, EntryChanges
  <2>6. Firings'
    BY <2>1, <2>3, <2>4, <1>t DEF Firings, Waiting, ghosts
  <2>. QED  BY <2>5, <2>6
<1>9. ASSUME NEW i \in Ids, ExecutorRaises(i) PROVE IInv'
  <2>1. run' \in Run
    BY <1>9, SchedulerAssumption DEF ExecutorRaises, Run, Idle, Time
  <2>2. Control'
    BY <1>9 DEF ExecutorRaises, Reached, Control, Idle
  <2>. QED  BY <1>9, <2>1, <2>2 DEF ExecutorRaises, ghosts, TypeOK, Waiting,
                          AuditTrail, Copies, ReturnedSurvives, Firings, JournalIsSound, store
<1>10. CASE ReturnFirings
  <2>1. /\ run' \in Run /\ dirty = {}
        /\ told' \in [Ids -> Entry \cup {Absent}]
        /\ UNCHANGED <<clock, entries, disk, kept, gap, torn, dirty, calls, faults,
                       raised>>
    BY <1>10, <1>t, SchedulerAssumption
       DEF ReturnFirings, Run, Idle, Time, ghosts, store
  <2>2. Control'
    BY <1>10 DEF ReturnFirings, Control, Idle
  <2>3. ReturnedSurvives'
    <3>. SUFFICES ASSUME ~raised, torn = 0, NEW j \in Ids, told'[j] # Absent
                  PROVE  disk[j] # Absent /\ Continues(disk[j], told'[j])
      BY <2>1 DEF ReturnedSurvives
    <3>1. disk[j] = entries[j]
      BY <2>1 DEF Copies
    <3>2. told'[j] = entries[j] \/ told'[j] = told[j]
      BY <1>10, <1>t DEF ReturnFirings
    <3>. QED  BY <3>1, <3>2, <1>t, ContinuesItself DEF ReturnedSurvives
  <2>. QED  BY <2>1, <2>2, <2>3
            DEF TypeOK, Waiting, AuditTrail, Copies, Firings, JournalIsSound
<1>11. CASE JournalRaises
  <2>1. /\ faults' = faults + 1 /\ faults' \in 0 .. MaxFaults /\ raised'
        /\ dirty' = {} /\ run' = Idle /\ run' \in Run
        /\ UNCHANGED <<clock, entries, told, calls>>
    BY <1>11, <1>t, SchedulerAssumption DEF JournalRaises, Run, Idle, Time
  <2>2. StoreMoves(dirty)
    BY <1>11, StoreStep DEF JournalRaises
  <2>3. /\ JournalIsSound' /\ torn' \in 0 .. MaxFaults
        /\ \A j \in Ids : disk'[j] # Absent => Trail(disk'[j])
    <3>1. torn' <= faults'
      BY <2>1, <2>2, <1>t DEF StoreMoves
    <3>. QED  BY <3>1, <2>1, <2>2, StoreKeeps
  <2>4. TypeOK'
    BY <2>1, <2>2, <2>3, <1>t DEF TypeOK, StoreMoves
  <2>5. Control' /\ Copies' /\ ReturnedSurvives'
    BY <2>1 DEF Control, Copies, ReturnedSurvives, Idle
  <2>6. AuditTrail'
    BY <2>1, <2>3 DEF AuditTrail
  <2>7. Firings'
    BY <2>1, <1>t DEF Firings, Waiting
  <2>. QED  BY <2>3, <2>4, <2>5, <2>6, <2>7
<1>12. CASE CrashAndRestore
  <2>1. /\ faults' = faults + 1 /\ faults' \in 0 .. MaxFaults
        /\ dirty' = {} /\ run' = Idle /\ run' \in Run /\ entries' = disk'
        /\ UNCHANGED <<clock, told, calls, raised>>
    BY <1>12, <1>t, SchedulerAssumption DEF CrashAndRestore, Run, Idle, Time
  <2>2. StoreMoves(dirty)
    BY <1>12, StoreStep DEF CrashAndRestore
  <2>3. /\ JournalIsSound' /\ torn' \in 0 .. MaxFaults
        /\ \A j \in Ids : disk'[j] # Absent => Trail(disk'[j])
        /\ torn' = 0 =>
             /\ torn = 0
             /\ \A j \in Ids : disk'[j] = disk[j] \/ (j \in dirty /\ disk'[j] = entries[j])
    <3>1. torn' <= faults'
      BY <2>1, <2>2, <1>t DEF StoreMoves
    <3>. QED  BY <3>1, <2>1, <2>2, StoreKeeps
  <2>4. TypeOK'
    BY <2>1, <2>2, <2>3, <1>t DEF TypeOK, StoreMoves
  <2>5. Control' /\ Copies' /\ AuditTrail'
    BY <2>1, <2>3 DEF Control, Copies, AuditTrail, Idle
  <2>6. ReturnedSurvives'
    <3>. SUFFICES ASSUME ~raised, torn' = 0, NEW j \in Ids
                  PROVE  /\ told[j] # Absent =>
                              disk'[j] # Absent /\ Continues(disk'[j], told[j])
                         /\ disk'[j] # Absent => Continues(disk'[j], disk'[j])
      BY <2>1 DEF ReturnedSurvives
    <3>1. disk'[j] # Absent => Continues(disk'[j], disk'[j])
      BY <2>2, ContinuesItself DEF StoreMoves
    <3>2. /\ told[j] # Absent => disk[j] # Absent /\ Continues(disk[j], told[j])
          /\ disk[j] # Absent => entries[j] # Absent /\ Continues(entries[j], disk[j])
          /\ disk'[j] = disk[j] \/ disk'[j] = entries[j]
      BY <2>3 DEF ReturnedSurvives
    <3>3. ASSUME told[j] # Absent
          PROVE  entries[j] # Absent /\ Continues(entries[j], told[j])
      BY <3>2, <3>3, <1>t, ContinuesChain
    <3>. QED  BY <3>1, <3>2, <3>3
  <2>7. Firings'
    BY <2>1, <1>t DEF Firings, Waiting
  <2>. QED  BY <2>3, <2>4, <2>5, <2>6, <2>7
<1>15. CASE OthersAppend
  <2>1. /\ faults' \in 0 .. MaxFaults /\ faults' >= faults /\ torn' <= faults'
        /\ dirty = {} /\ faults' \in Nat
        /\ UNCHANGED <<clock, entries, run, dirty, told, calls, raised>>
    BY <1>15, <1>t, SchedulerAssumption DEF OthersAppend, OtherAppended, OtherTorn
  <2>2. StoreMoves(dirty)
    BY <1>15, <2>1, StoreStep DEF OthersAppend
  <2>3. /\ JournalIsSound' /\ torn' \in 0 .. MaxFaults
        /\ \A j \in Ids : disk'[j] # Absent => Trail(disk'[j])
        /\ torn' = 0 => torn = 0 /\ \A j \in Ids : disk'[j] = disk[j]
    BY <2>1, <2>2, StoreKeeps
  <2>4. TypeOK'
    BY <2>1, <2>2, <2>3, <1>t DEF TypeOK, StoreMoves
  <2>5. Control' /\ Copies' /\ AuditTrail' /\ ReturnedSurvives'
    BY <2>1, <2>3 DEF Control, Waiting, Copies, AuditTrail, ReturnedSurvives
  <2>6. Firings'
    BY <2>1, <1>t DEF Firings, Waiting
  <2>. QED  BY <2>3, <2>4, <2>5, <2>6
<1>13. CASE UNCHANGED vars
  BY <1>13 DEF vars, ghosts, TypeOK, Control, Waiting, AuditTrail, Copies,
               ReturnedSurvives, Firings, JournalIsSound, store
<1>14. ASSUME NEW i \in Ids, FireStep(i) PROVE IInv'
  BY <1>14, <1>6, <1>7, <1>8, <1>9
     DEF FireStep, DropStale, Refuse, Abandon, Dispatch, Settled
<1>. QED
  BY <1>1, <1>2, <1>3, <1>4, <1>5, <1>10, <1>11, <1>12, <1>13, <1>14, <1>15
     DEF Next, RunStep
-------------------------------------------------------------------------------
LEMMA InitIInv == Init => IInv
<1>. SUFFICES ASSUME Init PROVE IInv
  OBVIOUS
<1>1. run \in Run /\ run.todo = {}
  BY SchedulerAssumption DEF Init, Idle, Run, Time
<1>2. TypeOK
  <2>1. /\ entries \in [Ids -> Entry \cup {Absent}]
        /\ disk \in [Ids -> Entry \cup {Absent}]
        /\ kept \in [Ids -> Entry \cup {Absent}]
        /\ told \in [Ids -> Entry \cup {Absent}]
    BY DEF Init, Empty
  <2>2. clock \in Time /\ faults \in 0 .. MaxFaults /\ torn \in 0 .. MaxFaults
    BY SchedulerAssumption DEF Init, Empty, Time
  <2>4. gap \in BOOLEAN
    BY DEF Init, Empty
  <2>3. calls \in [Ids -> Nat] /\ raised \in BOOLEAN /\ dirty \in SUBSET Ids
    BY DEF Init
  <2>. QED  BY <1>1, <2>1, <2>2, <2>3, <2>4 DEF TypeOK
<1>. QED  BY <1>1, <1>2 DEF Init, Empty, IInv, JournalIsSound, Control, AuditTrail, Copies,
                            ReturnedSurvives, Firings, Waiting

LEMMA AlwaysIInv == Spec => []IInv
BY InitIInv, StepIInv, PTL DEF Spec

\* Every copy of an entry, the restored ones too, is an entry: in particular
\* no entry is ever deferred more often than max_deferrals allows.
THEOREM TypeCorrect == Spec => []TypeOK
<1>1. IInv => TypeOK
  BY DEF IInv
<1>. QED  BY <1>1, AlwaysIInv, PTL

\* The history of an entry is every moment it was due for, in order, in memory
\* and in the journal, after any deferrals, failed writes and restarts.
THEOREM TrailsAreRight == Spec => []AuditTrail
<1>1. IInv => AuditTrail
  BY DEF IInv
<1>. QED  BY <1>1, AlwaysIInv, PTL

\* "Every state change is written before it is returned": what a caller was
\* told, a restart restores, or something later, until a write raises or is torn.
THEOREM ReturnsSurvive == Spec => []ReturnedSurvives
<1>1. IInv => ReturnedSurvives
  BY DEF IInv
<1>. QED  BY <1>1, AlwaysIInv, PTL

\* An entry is executed once, and at most once more for every crash or failed
\* torn write that came between an execution and its record.
THEOREM FiringsAreBounded == Spec => []OneFiringPerFault
<1>1. IInv => OneFiringPerFault
  BY DEF IInv, Firings, OneFiringPerFault
<1>. QED  BY <1>1, AlwaysIInv, PTL

\* What a caller was told, while no write raised or was torn, is what memory began as.
LEMMA ToldContinues ==
    ASSUME IInv, NEW i \in Ids, dirty = {}, ~raised, torn = 0, told[i] # Absent
    PROVE  entries[i] # Absent /\ Continues(entries[i], told[i])
BY DEF IInv, Copies, ReturnedSurvives

\* "Nothing fires before it is due", nor later than max_lateness allows: an
\* execution is inside the window of the entry, and after every moment that
\* any caller was told for it while no write raised or was torn.
THEOREM FiringsAreInTheWindow == Spec => FiresInsideItsWindow
<1>. DEFINE InWindow ==
       \A i \in Ids : calls'[i] # calls[i] =>
          /\ run.at <= entries[i].due + MaxLateness
          /\ ~raised /\ torn = 0 /\ told[i] # Absent =>
                /\ told[i].state = "waiting"
                /\ \A n \in DOMAIN told[i].history : run.at >= told[i].history[n]
<1>1. IInv /\ [Next]_vars => [InWindow]_vars
  <2>. SUFFICES ASSUME IInv, Next, NEW i \in Ids, calls'[i] # calls[i]
                PROVE  /\ run.at <= entries[i].due + MaxLateness
                       /\ ~raised /\ torn = 0 /\ told[i] # Absent =>
                            /\ told[i].state = "waiting"
                            /\ \A n \in DOMAIN told[i].history :
                                  run.at >= told[i].history[n]
    OBVIOUS
  <2>1. PICK j \in Ids, t \in Moment : Dispatch(j, t)
    BY DEF Next, RunStep, FireStep, Tick, submit, submit_existing, _remember,
           _waiting_by_due, DropStale, NotYetDue, Refuse, Defer, Abandon,
           ExecutorRaises, ReturnFirings, JournalRaises, CrashAndRestore, OthersAppend,
           Settle
  <2>2. j = i
    BY <2>1 DEF Dispatch, IInv, TypeOK
  <2>3. /\ run.at \in Nat /\ entries[i].due \in Nat
        /\ run.at >= entries[i].due /\ run.at <= entries[i].due + MaxLateness
        /\ dirty = {} /\ entries[i] \in Entry /\ entries[i].state = "waiting"
        /\ Trail(entries[i])
    <3>1. /\ entries[i] \in Entry /\ entries[i].state = "waiting"
          /\ Trail(entries[i]) /\ dirty = {}
      BY <2>1, <2>2, ReachedWaits DEF Dispatch
    <3>2. run.at \in Nat /\ entries[i].due \in Nat
      BY <3>1, SchedulerAssumption DEF IInv, TypeOK, Run, Time, Entry, Moment
    <3>. QED  BY <2>1, <2>2, <3>1, <3>2, SchedulerAssumption
              DEF Dispatch, is_due, is_stale
  <2>4. ASSUME ~raised, torn = 0, told[i] # Absent
        PROVE  /\ told[i].state = "waiting"
               /\ \A n \in DOMAIN told[i].history : run.at >= told[i].history[n]
    <3>. DEFINE d == told[i]
                e == entries[i]
    <3>1. d \in Entry /\ e \in Entry /\ Continues(e, d)
      BY <2>3, <2>4, ToldContinues DEF IInv, TypeOK
    <3>2. d.state = "waiting"
      BY <3>1, <2>3 DEF Continues, Entry, States, Settled
    <3>3. /\ DOMAIN d.history = 1 .. Len(d.history) /\ Len(d.history) \in Nat
          /\ DOMAIN e.history = 1 .. Len(e.history) /\ Len(e.history) \in Nat
          /\ Len(d.history) <= Len(e.history)
      BY <3>1 DEF Entry, Continues
    <3>4. ASSUME NEW n \in DOMAIN d.history
          PROVE  run.at >= d.history[n]
      <4>1. d.history[n] = e.history[n] /\ n \in DOMAIN e.history
        BY <3>1, <3>3 DEF Continues
      <4>2. e.history[n] \in Nat /\ Len(e.history) \in DOMAIN e.history
        <5>1. e.history \in Seq(Moment)
          BY <3>1 DEF Entry
        <5>2. e.history[n] \in Moment
          BY <5>1, <4>1, <3>3
        <5>. HIDE DEF e
        <5>. QED  BY <5>2, <4>1, <3>3, SchedulerAssumption DEF Moment
      <4>3. e.history[n] <= e.due
        BY <2>3, <3>3, <4>1, <4>2 DEF Trail
      <4>. QED  BY <2>3, <4>1, <4>2, <4>3
    <3>. QED  BY <3>2, <3>4
  <2>. QED  BY <2>3, <2>4
<1>. QED  BY <1>1, AlwaysIInv, PTL DEF Spec, FiresInsideItsWindow
===============================================================================
