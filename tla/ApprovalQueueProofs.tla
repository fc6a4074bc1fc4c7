-------------------------- MODULE ApprovalQueueProofs --------------------------
(***************************************************************************)
(* A yes is one dispatch and one more per torn append, and a decision is   *)
(* made once, for any requests, shelf lives and latencies, with any        *)
(* crashes and any failed or torn writes.                                  *)
(*                                                                         *)
(* Both rest on the released flag being part of the snapshot: a request    *)
(* that is spent on disk is spent in memory, whatever was restored, and    *)
(* what is handed out is spent on disk, or the append that said so was     *)
(* swallowed by a tear, which no second append can be.                     *)
(***************************************************************************)
EXTENDS ApprovalQueue, TLAPS

\* An answer that says yes is somebody's, in time.
Fair(r) ==
    /\ r.submitted <= clock
    /\ r.state = "approved" =>
          /\ r.by # "nobody"
          /\ r.decided \in Nat /\ r.decided >= r.submitted /\ r.decided < Expires(r)

\* A snapshot of request i is a fair one, and spent only if memory says so.
FairCopy(i, snapshot) ==
    snapshot # Absent =>
        /\ Known(i) /\ Fair(snapshot.request)
        /\ snapshot.released =>
              i \in released /\ snapshot.request.state = "approved"

\* Every copy of a request is fair, and only an approved one is spent.
CopiesAreFair ==
    \A i \in Ids :
        /\ Known(i) => Fair(requests[i])
        /\ i \in released => Known(i) /\ requests[i].state = "approved"
        /\ FairCopy(i, disk[i])
        /\ FairCopy(i, kept[i])

\* What survives the next append can be read now, and is all there is unless
\* a line is open, which took a torn append.
JournalIsSound ==
    /\ ~gap => kept = disk
    /\ gap => torn >= 1
    /\ torn <= faults
    /\ \A i \in Ids : kept[i] # Absent =>
          /\ disk[i] # Absent
          /\ kept[i].released => disk[i].released

\* The torn appends that have swallowed what they could.
Used == IF gap THEN torn - 1 ELSE torn

Spent(snapshot) == IF snapshot # Absent /\ snapshot.released THEN 1 ELSE 0

\* How often a request is dispatched when the call in progress returns.
Owed(i) == handed[i] + (IF i \in call.out /\ i \notin dirty THEN 1 ELSE 0)

\* Every dispatch of a request is on disk to stay, or a tear swallowed it.
ReleasesAreCovered == \A i \in Ids : Owed(i) <= Used + Spent(kept[i])

\* What the call in progress still has to visit is in the state it was chosen
\* in, and what it will hand out is spent in memory and, until the append of
\* it returns, not yet on disk.
Control ==
    /\ \A i \in dirty : Known(i) /\ i \notin call.todo
    /\ \A i, j \in dirty : i = j
    /\ call = NoCall => call.todo = {} /\ call.out = {}
    /\ call.op = "none" => call = NoCall
    /\ call.op = "staff" =>
          \A i \in call.todo :
              /\ Pending(i) /\ Answerable(requests[i])
              /\ decides_at(requests[i]) <= clock
    /\ call.op = "expire_due" => \A i \in call.todo : Pending(i)
    /\ call.op = "release" =>
          \A i \in call.todo : /\ Known(i) /\ requests[i].state = "approved"
                               /\ i \notin released
    /\ \A i \in call.out : /\ i \in released
                           /\ i \in dirty => Spent(kept[i]) = 0

\* Until a write raises or is torn, an answer a caller was told of is the answer.
AnswersStand ==
    ~raised /\ torn = 0 => \A i \in Ids :
        /\ i \notin dirty /\ Known(i) =>
              disk[i] # Absent /\ disk[i].request = requests[i]
        /\ told[i] # Absent /\ told[i].state \in Answers =>
              /\ requests[i] = told[i]
              /\ disk[i] # Absent /\ disk[i].request = told[i]

IInv ==
    /\ TypeOK
    /\ JournalIsSound
    /\ CopiesAreFair
    /\ Control
    /\ ReleasesAreCovered
    /\ AnswersStand

LEMMA Types ==
    ASSUME IInv
    PROVE  /\ clock \in Nat /\ clock <= MaxTime
           /\ requests \in [Ids -> Request \cup {Absent}]
           /\ released \in SUBSET Ids
           /\ disk \in [Ids -> Snapshot \cup {Absent}]
           /\ kept \in [Ids -> Snapshot \cup {Absent}]
           /\ gap \in BOOLEAN /\ torn \in Nat /\ Used \in Nat
           /\ call \in Calls /\ dirty \in SUBSET Ids
           /\ told \in [Ids -> Request \cup {Absent}]
           /\ handed \in [Ids -> Nat] /\ faults \in 0 .. MaxFaults
           /\ raised \in BOOLEAN
<1>1. torn \in Nat /\ gap \in BOOLEAN /\ (gap => torn >= 1)
  BY ApprovalAssumption DEF IInv, TypeOK, JournalIsSound
<1>2. Used \in Nat
  BY <1>1 DEF Used
<1>. QED  BY <1>1, <1>2, ApprovalAssumption DEF IInv, TypeOK, Time

LEMMA RequestFields ==
    ASSUME NEW r \in Request
    PROVE  /\ r.submitted \in Nat /\ r.state \in {"pending"} \cup Answers
           /\ Expires(r) \in Nat /\ decides_at(r) \in Nat
           /\ decides_at(r) >= r.submitted
           /\ r # Absent
<1>1. r.submitted \in Time /\ r.state \in {"pending"} \cup Answers
  BY DEF Request
<1>2. r.submitted \in Nat
  BY <1>1, ApprovalAssumption DEF Time
<1>. HIDE DEF Request
<1>. QED  BY <1>1, <1>2, ApprovalAssumption DEF Expires, decides_at

LEMMA AnsweredRequest ==
    ASSUME NEW r \in Request, NEW a \in Answers, NEW t \in Nat, NEW b \in Deciders
    PROVE  /\ Answered(r, a, t, b) \in Request
           /\ Answered(r, a, t, b).state = a /\ Answered(r, a, t, b).decided = t
           /\ Answered(r, a, t, b).by = b
           /\ Answered(r, a, t, b).submitted = r.submitted
<1>1. [r EXCEPT !.state = a] \in Request
  BY DEF Request
<1>2. \A q \in Request : [q EXCEPT !.decided = t] \in Request
  BY DEF Request
<1>3. \A q \in Request : [q EXCEPT !.by = b] \in Request
  BY DEF Request
<1>4. Answered(r, a, t, b)
        = [[[r EXCEPT !.state = a] EXCEPT !.decided = t] EXCEPT !.by = b]
  BY DEF Answered, Request
<1>5. Answered(r, a, t, b) \in Request
  BY <1>1, <1>2, <1>3, <1>4
<1>. QED  BY <1>5 DEF Answered, Request

LEMMA RecordIsSnapshot ==
    ASSUME NEW i \in Ids, requests[i] \in Request
    PROVE  /\ to_record(i) \in Snapshot /\ to_record(i) # Absent
           /\ to_record(i).request = requests[i]
           /\ to_record(i).released <=> i \in released
<1>1. to_record(i) \in Snapshot
  BY DEF to_record, Snapshot
<1>2. to_record(i).request = requests[i]
  BY DEF to_record
<1>3. to_record(i).released <=> i \in released
  BY DEF to_record
<1>. QED  BY <1>1, <1>2, <1>3, ApprovalAssumption

LEMMA FairAnswer ==
    ASSUME NEW r \in Request, Fair(r),
           NEW a \in Answers, NEW t \in Nat, NEW b \in Deciders,
           a = "approved" => b # "nobody" /\ t >= r.submitted /\ t < Expires(r)
    PROVE  Fair(Answered(r, a, t, b))
<1>. DEFINE f == Answered(r, a, t, b)
<1>1. f.state = a /\ f.decided = t /\ f.by = b /\ f.submitted = r.submitted
  BY AnsweredRequest
<1>. HIDE DEF f
<1>2. Fair(f)
  BY <1>1 DEF Fair, Expires
<1>. QED  BY <1>2 DEF f

LEMMA Words ==
    /\ "approved" \in Answers /\ "rejected" \in Answers /\ "expired" \in Answers
    /\ "nobody" \in Deciders /\ "person" \in Deciders /\ "desk" \in Deciders
BY DEF Answers, Deciders

\* What an append of one of the requests in D, returned or failed or torn, or
\* one of another kind does to the two copies on disk.
StoreMoves(D) ==
    /\ disk' \in [Ids -> Snapshot \cup {Absent}]
    /\ kept' \in [Ids -> Snapshot \cup {Absent}]
    /\ gap' \in BOOLEAN /\ torn' \in {torn, torn + 1}
    /\ ~gap' => kept' = disk'
    /\ gap' => torn' >= 1
    /\ \A j \in Ids :
          /\ kept'[j] = kept[j] \/ (j \in D /\ kept'[j] = to_record(j))
          /\ \/ disk'[j] = disk[j] \/ disk'[j] = kept[j]
             \/ j \in D /\ disk'[j] = to_record(j)
          /\ kept'[j] # Absent =>
                disk'[j] # Absent /\ (kept'[j].released => disk'[j].released)
          /\ Used + Spent(kept[j]) <= Used' + Spent(kept'[j])
          /\ FairCopy(j, disk'[j]) /\ FairCopy(j, kept'[j])

LEMMA StoreStep ==
    ASSUME IInv, NEW D \in SUBSET dirty,
           \/ UNCHANGED store \/ OtherAppended \/ OtherTorn
           \/ \E i \in D : AppendFails(i, to_record(i))
    PROVE  StoreMoves(D)
<1>1. /\ D \subseteq Ids /\ torn \in Nat /\ gap \in BOOLEAN /\ Used \in Nat
      /\ disk \in [Ids -> Snapshot \cup {Absent}]
      /\ kept \in [Ids -> Snapshot \cup {Absent}]
  BY Types
<1>2. /\ ~gap => kept = disk
      /\ gap => torn >= 1
      /\ \A j \in Ids : kept[j] # Absent =>
            disk[j] # Absent /\ (kept[j].released => disk[j].released)
  BY DEF IInv, JournalIsSound
<1>2a. \A j \in Ids : /\ FairCopy(j, disk[j]) /\ FairCopy(j, kept[j])
                      /\ Spent(kept[j]) \in {0, 1}
  BY DEF IInv, CopiesAreFair, Spent
<1>3. ASSUME NEW i \in D
      PROVE  /\ to_record(i) \in Snapshot /\ to_record(i) # Absent
             /\ FairCopy(i, to_record(i))
             /\ Spent(to_record(i)) \in {0, 1} /\ Spent(kept[i]) <= Spent(to_record(i))
             /\ kept[i] # Absent /\ kept[i].released => to_record(i).released
  <2>1. Known(i) /\ requests[i] \in Request
    BY <1>1, Types DEF IInv, Control, Known
  <2>2. /\ to_record(i) \in Snapshot /\ to_record(i) # Absent
        /\ to_record(i).request = requests[i]
        /\ (to_record(i).released <=> i \in released)
    BY <1>1, <2>1, RecordIsSnapshot
  <2>3. FairCopy(i, to_record(i))
    BY <1>1, <2>1, <2>2 DEF IInv, CopiesAreFair, FairCopy
  <2>4. kept[i] # Absent /\ kept[i].released => i \in released
    BY <1>1 DEF IInv, CopiesAreFair, FairCopy
  <2>. QED  BY <2>2, <2>3, <2>4 DEF Spent
<1>4. CASE UNCHANGED store
  BY <1>1, <1>2, <1>2a, <1>4 DEF store, StoreMoves, Used
<1>5. ASSUME NEW i \in D, Appended(i, to_record(i)) PROVE StoreMoves(D)
  <2>1. disk' = kept' /\ gap' = FALSE /\ torn' = torn
    BY <1>5 DEF Appended
  <2>2. CASE gap
    <3>1. kept' = kept /\ Used' >= Used /\ Used' \in Nat
      BY <1>1, <1>5, <2>1, <2>2 DEF Appended, Used
    <3>2. gap' \in BOOLEAN /\ ~gap' /\ kept' = disk' /\ torn' \in {torn, torn + 1}
      BY <2>1
    <3>. QED  BY <1>1, <1>2, <1>2a, <2>1, <3>1, <3>2 DEF StoreMoves
  <2>3. CASE ~gap
    <3>1. /\ kept' = [kept EXCEPT ![i] = to_record(i)] /\ Used' = Used
          /\ kept'[i] = to_record(i) /\ \A j \in Ids : j # i => kept'[j] = kept[j]
      BY <1>1, <1>5, <2>1, <2>3 DEF Appended, Used
    <3>2. kept' \in [Ids -> Snapshot \cup {Absent}]
      BY <1>1, <1>3, <3>1
    <3>3. ASSUME NEW j \in Ids
          PROVE  /\ kept'[j] = kept[j] \/ (j \in D /\ kept'[j] = to_record(j))
                 /\ Used + Spent(kept[j]) <= Used' + Spent(kept'[j])
                 /\ FairCopy(j, kept'[j])
      <4>1. CASE j = i
        BY <4>1, <1>1, <1>2, <1>2a, <1>3, <3>1
      <4>2. CASE j # i
        BY <4>2, <1>1, <1>2, <1>2a, <3>1
      <4>. QED  BY <4>1, <4>2
    <3>. QED  BY <1>1, <2>1, <3>2, <3>3 DEF StoreMoves
  <2>. QED  BY <1>1, <2>2, <2>3
<1>6. ASSUME NEW i \in D, AppendTorn(i, to_record(i)) PROVE StoreMoves(D)
  <2>1. kept' = kept /\ gap' = TRUE /\ torn' = torn + 1 /\ Used' = torn /\ Used' >= Used
    BY <1>1, <1>6 DEF AppendTorn, Used
  <2>2. CASE disk' = kept
    BY <1>1, <1>2, <1>2a, <2>1, <2>2 DEF StoreMoves
  <2>3. CASE ~gap /\ disk' = [kept EXCEPT ![i] = to_record(i)]
    <3>1. disk'[i] = to_record(i) /\ \A j \in Ids : j # i => disk'[j] = kept[j]
      BY <1>1, <2>3
    <3>2. disk' \in [Ids -> Snapshot \cup {Absent}]
      BY <1>1, <1>3, <2>3
    <3>3. ASSUME NEW j \in Ids
          PROVE  /\ disk'[j] = kept[j] \/ (j \in D /\ disk'[j] = to_record(j))
                 /\ FairCopy(j, disk'[j])
                 /\ kept[j] # Absent =>
                       disk'[j] # Absent /\ (kept[j].released => disk'[j].released)
      <4>1. CASE j = i
        BY <4>1, <1>3, <3>1
      <4>2. CASE j # i
        BY <4>2, <1>2, <1>2a, <3>1
      <4>. QED  BY <4>1, <4>2
    <3>. QED  BY <1>1, <1>2, <1>2a, <2>1, <3>2, <3>3 DEF StoreMoves
  <2>. QED  BY <1>6, <2>2, <2>3 DEF AppendTorn
<1>7. CASE OtherAppended
  <2>1. /\ kept' = kept /\ disk' = kept /\ gap' = FALSE /\ torn' = torn
        /\ Used' >= Used /\ Used' \in Nat
    BY <1>1, <1>7 DEF OtherAppended, Used
  <2>2. gap' \in BOOLEAN /\ ~gap' /\ kept' = disk' /\ torn' \in {torn, torn + 1}
    BY <2>1
  <2>. QED  BY <1>1, <1>2, <1>2a, <2>1, <2>2 DEF StoreMoves
<1>8. CASE OtherTorn
  <2>1. /\ kept' = kept /\ disk' = kept /\ gap' = TRUE /\ torn' = torn + 1
        /\ Used' >= Used /\ Used' \in Nat
    BY <1>1, <1>8 DEF OtherTorn, Used
  <2>. QED  BY <1>1, <1>2, <1>2a, <2>1 DEF StoreMoves
<1>9. ASSUME NEW i \in D, AppendFails(i, to_record(i)) PROVE StoreMoves(D)
  BY <1>4, <1>5, <1>6, <1>9 DEF AppendFails
<1>. QED  BY <1>4, <1>7, <1>8, <1>9

\* Whatever became of the file, a dispatch that was covered stays so.
LEMMA NothingOwedIsLost ==
    ASSUME IInv, StoreMoves(dirty), handed' = handed,
           \/ call' = NoCall
           \/ call' = call /\ dirty' = dirty
    PROVE  ReleasesAreCovered'
<1>. SUFFICES ASSUME NEW i \in Ids PROVE Owed(i)' <= Used' + Spent(kept'[i])
  BY DEF ReleasesAreCovered
<1>1. /\ Owed(i) <= Used + Spent(kept[i])
      /\ Used + Spent(kept[i]) <= Used' + Spent(kept'[i])
      /\ Used \in Nat /\ handed[i] \in Nat /\ Spent(kept[i]) \in {0, 1}
      /\ Spent(kept'[i]) \in {0, 1}
  BY Types DEF IInv, ReleasesAreCovered, StoreMoves, Spent
<1>2. Used' \in Nat
  BY Types DEF Used, StoreMoves
<1>3. Owed(i)' \in {handed[i], Owed(i)} /\ Owed(i) >= handed[i] /\ Owed(i) \in Nat
  BY <1>1 DEF Owed, NoCall
<1>. QED  BY <1>1, <1>2, <1>3

\* A call that has visited i, for good or to hand it out.
Visited(i) ==
    \/ call' = [call EXCEPT !.todo = @ \ {i}]
    \/ call' = [call EXCEPT !.todo = @ \ {i}, !.out = @ \cup {i}]

LEMMA VisitedCall ==
    ASSUME IInv, NEW i \in Ids, i \in call.todo, Visited(i)
    PROVE  /\ call' \in Calls /\ call'.op = call.op /\ call.op # "none"
           /\ call'.todo = call.todo \ {i}
           /\ call'.out \in {call.out, call.out \cup {i}}
<1>1. call \in Calls /\ call.op # "none"
  BY DEF IInv, TypeOK, Control
<1>2. [call EXCEPT !.todo = @ \ {i}] \in Calls
  BY <1>1 DEF Calls
<1>3. \A c \in Calls : [c EXCEPT !.out = @ \cup {i}] \in Calls
  BY DEF Calls
<1>4. [call EXCEPT !.todo = @ \ {i}, !.out = @ \cup {i}]
        = [[call EXCEPT !.todo = @ \ {i}] EXCEPT !.out = @ \cup {i}]
  BY <1>1 DEF Calls
<1>5. call' \in Calls
  BY <1>2, <1>3, <1>4 DEF Visited
<1>. QED  BY <1>1, <1>5 DEF Visited, Calls

\* A pending request gets an answer, from a call outside or one that visits it.
LEMMA AnswerChanges ==
    ASSUME IInv, NEW i \in Ids, Pending(i), dirty = {},
           NEW a \in Answers, NEW t \in Nat, NEW b \in Deciders,
           Decided(i, a, t, b), Fair(Answered(requests[i], a, t, b)),
           UNCHANGED <<clock, released, store, told, handed, ghosts>>,
           \/ call = NoCall /\ call' = call
           \/ /\ i \in call.todo /\ call.op \in {"staff", "expire_due"}
              /\ call' = [call EXCEPT !.todo = @ \ {i}]
    PROVE  IInv'
<1>. DEFINE f == Answered(requests[i], a, t, b)
<1>1. /\ requests[i] \in Request /\ requests[i].state = "pending"
      /\ requests \in [Ids -> Request \cup {Absent}]
  BY Types DEF Pending, Known
<1>2. f \in Request /\ f.state = a /\ f # Absent
  <2>1. f \in Request /\ f.state = a
    BY <1>1, AnsweredRequest
  <2>. HIDE DEF f
  <2>. QED  BY <2>1, ApprovalAssumption
<1>3. /\ requests' = [requests EXCEPT ![i] = f] /\ dirty' = {i}
      /\ requests'[i] = f /\ \A j \in Ids : j # i => requests'[j] = requests[j]
      /\ faults' = faults /\ raised' = raised
      /\ UNCHANGED <<disk, kept, gap, torn>>
  BY <1>1 DEF Decided, ghosts, store
<1>4. /\ i \notin released /\ i \notin call.out
      /\ disk[i] # Absent => ~disk[i].released
      /\ kept[i] # Absent => ~kept[i].released
  BY <1>1 DEF IInv, CopiesAreFair, FairCopy, Control
<1>5. ~raised /\ torn = 0 => ~(told[i] # Absent /\ told[i].state \in Answers)
  BY <1>1 DEF IInv, AnswersStand, Answers
<1>6. Fair(f)
  OBVIOUS
<1>. HIDE DEF f
<1>7. call' \in Calls /\ call'.op = call.op /\ call'.todo = call.todo \ {i}
      /\ call'.out = call.out
      /\ (call' = NoCall => call'.todo = {} /\ call'.out = {})
      /\ (call'.op = "none" => call' = NoCall)
  <2>1. CASE call = NoCall /\ call' = call
    BY <2>1, Types DEF NoCall
  <2>2. CASE i \in call.todo /\ call' = [call EXCEPT !.todo = @ \ {i}]
    <3>1. Visited(i)
      BY <2>2 DEF Visited
    <3>2. call'.out = call.out
      BY <2>2, Types DEF Calls
    <3>. QED  BY <2>2, <3>1, <3>2, VisitedCall DEF NoCall
  <2>. QED  BY <2>1, <2>2
<1>8. TypeOK'
  BY <1>2, <1>3, <1>7 DEF IInv, TypeOK, ghosts
<1>9. CopiesAreFair'
  BY <1>2, <1>3, <1>4, <1>6 DEF IInv, CopiesAreFair, FairCopy, Known, Fair, Expires
<1>10. Control'
  BY <1>2, <1>3, <1>4, <1>7
     DEF IInv, Control, Known, Pending, Answerable, decides_at, Expires, Spent
<1>11. ReleasesAreCovered'
  BY <1>3, <1>4, <1>7 DEF IInv, ReleasesAreCovered, Owed, Used, Spent
<1>12. AnswersStand'
  BY <1>2, <1>3, <1>5 DEF IInv, AnswersStand, Known
<1>13. JournalIsSound'
  BY <1>3 DEF IInv, JournalIsSound
<1>. QED  BY <1>13, <1>8, <1>9, <1>10, <1>11, <1>12 DEF IInv
-------------------------------------------------------------------------------
(* Every step keeps the invariant *)

LEMMA TickIInv == IInv /\ Tick => IInv'
<1>. SUFFICES ASSUME IInv, Tick PROVE IInv'
  OBVIOUS
<1>1. clock' = clock + 1 /\ clock \in Nat /\ clock' \in Time
  BY Types, ApprovalAssumption DEF Tick, Time
<1>2. TypeOK'
  BY <1>1 DEF IInv, TypeOK, Tick, ghosts, store
<1>3. ASSUME NEW r \in Request, Fair(r) PROVE Fair(r)'
  BY <1>1, <1>3, RequestFields DEF Fair, Expires
<1>4. CopiesAreFair'
  BY <1>3, Types DEF IInv, CopiesAreFair, FairCopy, Known, Tick, Snapshot, store
<1>5. Control'
  <2>1. ASSUME NEW r \in Request, decides_at(r) <= clock PROVE decides_at(r) <= clock'
    BY <1>1, <2>1, RequestFields
  <2>. QED  BY <2>1, Types DEF IInv, Control, Known, Pending, Tick, Calls, Spent, store
<1>6. JournalIsSound' /\ ReleasesAreCovered' /\ AnswersStand'
  BY DEF IInv, JournalIsSound, ReleasesAreCovered, Owed, Used, Spent, AnswersStand,
         Known, Tick, ghosts, store
<1>. QED  BY <1>2, <1>4, <1>5, <1>6 DEF IInv

LEMMA SubmitIInv == ASSUME IInv, NEW i \in Ids, submit(i) PROVE IInv'
<1>. DEFINE f == [state |-> "pending", submitted |-> clock, decided |-> Absent,
                  by |-> "nobody"]
<1>1. f \in Request /\ f.state = "pending" /\ f.submitted = clock
  BY DEF Request, Deciders, IInv, TypeOK
<1>2. f # Absent /\ clock \in Nat
  BY <1>1, Types, ApprovalAssumption
<1>3. /\ requests[i] = Absent /\ dirty = {} /\ dirty' = {i} /\ call = NoCall
      /\ requests' = [requests EXCEPT ![i] = f]
      /\ UNCHANGED <<clock, released, disk, kept, gap, torn, call, told, handed, faults,
                     raised>>
  BY DEF submit, Quiet, Known, ghosts, store
<1>. HIDE DEF f
<1>4. /\ requests'[i] = f /\ \A j \in Ids : j # i => requests'[j] = requests[j]
      /\ requests' \in [Ids -> Request \cup {Absent}]
  BY <1>1, <1>3, Types
<1>5. Fair(f)
  BY <1>1, <1>2 DEF Fair
<1>6. disk[i] = Absent /\ kept[i] = Absent /\ i \notin released
  BY <1>3 DEF IInv, CopiesAreFair, FairCopy, Known
<1>7. TypeOK'
  BY <1>3, <1>4 DEF IInv, TypeOK
<1>8. CopiesAreFair'
  BY <1>2, <1>3, <1>4, <1>5, <1>6
     DEF IInv, CopiesAreFair, FairCopy, Known, Fair, Expires
<1>9. Control'
  BY <1>2, <1>3, <1>4 DEF IInv, Control, Known, NoCall
<1>10. JournalIsSound' /\ ReleasesAreCovered' /\ AnswersStand'
  BY <1>3, <1>4, <1>6
     DEF IInv, JournalIsSound, ReleasesAreCovered, Owed, Used, Spent, NoCall,
         AnswersStand, Known
<1>. QED  BY <1>7, <1>8, <1>9, <1>10 DEF IInv

LEMMA SubmitExistingIInv ==
    ASSUME IInv, NEW i \in Ids, submit_existing(i) PROVE IInv'
<1>1. /\ requests[i] \in Request /\ dirty = {} /\ told' = [told EXCEPT ![i] = requests[i]]
      /\ UNCHANGED <<clock, requests, released, disk, kept, gap, torn, call, dirty,
                     handed, faults, raised>>
  BY Types DEF submit_existing, Quiet, Known, ghosts, store
<1>2. TypeOK'
  BY <1>1 DEF IInv, TypeOK
<1>3. CopiesAreFair' /\ Control' /\ ReleasesAreCovered' /\ JournalIsSound'
  BY <1>1 DEF IInv, CopiesAreFair, FairCopy, Control, ReleasesAreCovered, Owed, Used,
              Spent, JournalIsSound, Known, Pending, Fair, Expires, Answerable,
              decides_at
<1>4. AnswersStand'
  <2>1. ~raised /\ torn = 0 => disk[i] # Absent /\ disk[i].request = requests[i]
    BY <1>1, ApprovalAssumption DEF IInv, AnswersStand, Known
  <2>. QED  BY <1>1, <2>1, Types DEF IInv, AnswersStand, Known
<1>. QED  BY <1>2, <1>3, <1>4 DEF IInv

LEMMA DecideIInv ==
    ASSUME IInv, NEW i \in Ids, NEW a \in {"approved", "rejected"}, _decide(i, a)
    PROVE  IInv'
<1>1. /\ Pending(i) /\ dirty = {} /\ call = NoCall /\ call' = call
      /\ UNCHANGED <<clock, released, store, told, handed, ghosts>>
      /\ requests[i] \in Request /\ clock \in Nat
  BY Types DEF _decide, Quiet, Pending, Known
<1>2. Fair(requests[i])
  BY <1>1 DEF IInv, CopiesAreFair, Pending
<1>3. CASE clock >= Expires(requests[i])
  <2>1. Decided(i, "expired", clock, "nobody")
    BY <1>3 DEF _decide
  <2>2. Fair(Answered(requests[i], "expired", clock, "nobody"))
    BY <1>1, <1>2, FairAnswer, Words
  <2>. QED  BY <1>1, <2>1, <2>2, AnswerChanges, Words
<1>4. CASE ~(clock >= Expires(requests[i]))
  <2>1. Decided(i, a, clock, "person") /\ a \in Answers /\ "person" \in Deciders
    BY <1>4 DEF _decide, Answers, Deciders
  <2>2. requests[i].submitted <= clock /\ clock < Expires(requests[i])
    BY <1>1, <1>2, <1>4, RequestFields DEF Fair
  <2>3. Fair(Answered(requests[i], a, clock, "person"))
    BY <1>1, <1>2, <2>1, <2>2, RequestFields, FairAnswer
  <2>. QED  BY <1>1, <2>1, <2>3, AnswerChanges
<1>. QED  BY <1>3, <1>4

LEMMA StaffIInv == ASSUME IInv, NEW i \in Ids, staff(i) PROVE IInv'
<1>1. /\ call.op = "staff" /\ i \in call.todo /\ dirty = {}
      /\ call' = [call EXCEPT !.todo = @ \ {i}]
      /\ Decided(i, "approved", decides_at(requests[i]), "desk")
      /\ UNCHANGED <<clock, released, store, told, handed, ghosts>>
  BY DEF staff, Visit
<1>2. /\ Pending(i) /\ Answerable(requests[i]) /\ requests[i] \in Request
      /\ Fair(requests[i])
  BY <1>1, Types DEF IInv, Control, CopiesAreFair, Pending, Known
<1>3. decides_at(requests[i]) \in Nat /\ decides_at(requests[i]) >= requests[i].submitted
  BY <1>2, RequestFields
<1>4. Fair(Answered(requests[i], "approved", decides_at(requests[i]), "desk"))
  <2>1. decides_at(requests[i]) < Expires(requests[i])
    BY <1>2 DEF Answerable
  <2>. QED  BY <1>2, <1>3, <2>1, FairAnswer, Words
<1>. QED  BY <1>1, <1>2, <1>3, <1>4, AnswerChanges, Words

LEMMA ExpireIInv == ASSUME IInv, NEW i \in Ids, expire_due(i) PROVE IInv'
<1>1. /\ call.op = "expire_due" /\ i \in call.todo /\ dirty = {}
      /\ call' = [call EXCEPT !.todo = @ \ {i}]
      /\ Decided(i, "expired", Expires(requests[i]), "nobody")
      /\ UNCHANGED <<clock, released, store, told, handed, ghosts>>
  BY DEF expire_due, Visit
<1>2. Pending(i) /\ requests[i] \in Request /\ Fair(requests[i])
  BY <1>1, Types DEF IInv, Control, CopiesAreFair, Pending, Known
<1>3. Expires(requests[i]) \in Nat
  BY <1>2, RequestFields
<1>4. Fair(Answered(requests[i], "expired", Expires(requests[i]), "nobody"))
  BY <1>2, <1>3, FairAnswer, Words
<1>. QED  BY <1>1, <1>2, <1>3, <1>4, AnswerChanges, Words

LEMMA RememberIInv == ASSUME IInv, NEW i \in Ids, _remember(i) PROVE IInv'
<1>1. /\ dirty = {i} /\ dirty' = {} /\ requests[i] \in Request /\ Known(i)
      /\ Appended(i, to_record(i))
      /\ UNCHANGED <<clock, requests, released, call, handed, faults, raised>>
      /\ told' = told \/ told' = [told EXCEPT ![i] = requests[i]]
  BY Types DEF _remember, IInv, Control, Known, ghosts
<1>2. StoreMoves(dirty)
  BY <1>1, StoreStep DEF AppendFails
<1>3. gap' = FALSE /\ torn' = torn /\ disk' = kept'
  BY <1>1 DEF Appended
<1>4. TypeOK'
  <2>1. told' \in [Ids -> Request \cup {Absent}]
    BY <1>1, Types
  <2>. QED  BY <1>1, <1>2, <1>3, <2>1 DEF IInv, TypeOK, StoreMoves
<1>5. CopiesAreFair'
  BY <1>1, <1>2 DEF IInv, CopiesAreFair, StoreMoves, FairCopy, Known, Fair, Expires
<1>6. Control'
  BY <1>1 DEF IInv, Control, Known, Pending, Answerable, decides_at, Expires
<1>7. ReleasesAreCovered'
  <2>. SUFFICES ASSUME NEW j \in Ids PROVE Owed(j)' <= Used' + Spent(kept'[j])
    BY DEF ReleasesAreCovered
  <2>1. /\ Owed(j) <= Used + Spent(kept[j])
        /\ Used + Spent(kept[j]) <= Used' + Spent(kept'[j])
        /\ Used \in Nat /\ handed[j] \in Nat
        /\ Spent(kept[j]) \in {0, 1} /\ Spent(kept'[j]) \in {0, 1}
        /\ torn \in Nat /\ gap \in BOOLEAN
    BY <1>2, Types DEF IInv, ReleasesAreCovered, StoreMoves, Spent
  <2>2. Used' = (IF gap THEN Used + 1 ELSE Used)
    BY <1>3, <2>1 DEF Used
  <2>3. CASE j \notin dirty \/ j \notin call.out
    <3>1. Owed(j)' = Owed(j) /\ Owed(j) \in Nat
      BY <1>1, <2>1, <2>3 DEF Owed
    <3>. QED  BY <2>1, <2>2, <3>1
  <2>4. CASE j \in dirty /\ j \in call.out
    <3>1. /\ j = i /\ Owed(j) = handed[j] /\ Owed(j)' = handed[j] + 1
          /\ Spent(kept[j]) = 0 /\ j \in released
      BY <1>1, <2>1, <2>4 DEF Owed, IInv, Control
    <3>2. CASE gap
      BY <2>1, <2>2, <3>1, <3>2
    <3>3. CASE ~gap
      <4>1. kept'[j] = to_record(j)
        BY <1>1, <3>1, <3>3, Types DEF Appended
      <4>2. Spent(kept'[j]) = 1
        BY <1>1, <3>1, <4>1, RecordIsSnapshot DEF Spent
      <4>. QED  BY <2>1, <2>2, <3>1, <3>3, <4>2
    <3>. QED  BY <2>1, <3>2, <3>3
  <2>. QED  BY <2>3, <2>4
<1>8. AnswersStand'
  <2>. SUFFICES ASSUME ~raised, torn = 0, NEW j \in Ids
                PROVE  /\ Known(j) => disk'[j] # Absent /\ disk'[j].request = requests[j]
                       /\ told'[j] # Absent /\ told'[j].state \in Answers =>
                            /\ requests[j] = told'[j]
                            /\ disk'[j] # Absent /\ disk'[j].request = told'[j]
    BY <1>1, <1>3 DEF AnswersStand, Known
  <2>1. ~gap /\ kept = disk
    BY Types DEF IInv, JournalIsSound
  <2>2. disk' = [disk EXCEPT ![i] = to_record(i)]
    BY <1>1, <2>1 DEF Appended
  <2>3. CASE j # i
    BY <2>2, <2>3, <1>1, Types DEF IInv, AnswersStand
  <2>4. CASE j = i
    <3>1. /\ disk'[i] = to_record(i) /\ to_record(i) # Absent
          /\ to_record(i).request = requests[i]
      BY <1>1, <2>2, RecordIsSnapshot, Types
    <3>2. told'[i] = told[i] \/ told'[i] = requests[i]
      BY <1>1, Types
    <3>3. told[i] # Absent /\ told[i].state \in Answers => requests[i] = told[i]
      BY DEF IInv, AnswersStand
    <3>. QED  BY <2>4, <3>1, <3>2, <3>3
  <2>. QED  BY <2>3, <2>4
<1>9. JournalIsSound'
  BY <1>1, <1>2, <1>3 DEF IInv, JournalIsSound, StoreMoves
<1>. QED  BY <1>4, <1>5, <1>6, <1>7, <1>8, <1>9 DEF IInv

\* A call begins: what it is to visit is in the right state.
LEMMA BeginIInv == IInv /\ (BeginStaff \/ BeginExpireDue \/ BeginRelease) => IInv'
<1>. SUFFICES ASSUME IInv, BeginStaff \/ BeginExpireDue \/ BeginRelease
              PROVE  IInv'
  OBVIOUS
<1>1. /\ dirty = {} /\ call = NoCall
      /\ UNCHANGED <<clock, requests, released, disk, kept, gap, torn, dirty, told,
                     handed, faults, raised>>
  BY DEF BeginStaff, BeginExpireDue, BeginRelease, Begin, Quiet, ghosts, store
<1>2. clock \in Time
  BY DEF IInv, TypeOK
<1>3. call' \in Calls /\ call'.out = {} /\ call'.op # "none"
      /\ (call'.op = "staff" =>
            \A i \in call'.todo : /\ Pending(i) /\ Answerable(requests[i])
                                  /\ decides_at(requests[i]) <= clock)
      /\ (call'.op = "expire_due" => \A i \in call'.todo : Pending(i))
      /\ (call'.op = "release" =>
            \A i \in call'.todo : /\ Known(i) /\ requests[i].state = "approved"
                                  /\ i \notin released)
  <2>1. CASE BeginStaff
    BY <2>1, <1>2 DEF BeginStaff, Begin, Calls
  <2>2. CASE BeginExpireDue
    BY <2>2, <1>2 DEF BeginExpireDue, Begin, Calls
  <2>3. CASE BeginRelease
    BY <2>3, <1>2 DEF BeginRelease, Begin, Calls
  <2>. QED  BY <2>1, <2>2, <2>3
<1>4. Control'
  BY <1>1, <1>3 DEF Control, NoCall, Known, Pending, Answerable, decides_at, Expires
<1>5. TypeOK' /\ CopiesAreFair' /\ JournalIsSound' /\ AnswersStand'
  BY <1>1, <1>3 DEF IInv, TypeOK, CopiesAreFair, FairCopy, JournalIsSound,
                    AnswersStand, Known, Fair, Expires
<1>6. ReleasesAreCovered'
  BY <1>1, <1>3 DEF IInv, ReleasesAreCovered, Owed, Used, Spent, NoCall
<1>. QED  BY <1>4, <1>5, <1>6 DEF IInv

LEMMA ReleaseIInv == ASSUME IInv, NEW i \in Ids, release(i) PROVE IInv'
<1>1. /\ call.op = "release" /\ i \in call.todo /\ dirty = {} /\ dirty' = {i}
      /\ released' = released \cup {i} /\ Visited(i)
      /\ UNCHANGED <<clock, requests, disk, kept, gap, torn, told, handed, faults,
                     raised>>
  BY DEF release, Visit, Visited, ghosts, store
<1>2. /\ requests[i] \in Request /\ requests[i].state = "approved" /\ i \notin released
      /\ Known(i)
  BY <1>1, Types DEF IInv, Control, Known
<1>3. /\ call' \in Calls /\ call'.op = "release" /\ call'.todo = call.todo \ {i}
      /\ call'.out \in {call.out, call.out \cup {i}} /\ call' # NoCall
  BY <1>1, VisitedCall DEF NoCall
<1>4. /\ disk[i] # Absent => ~disk[i].released
      /\ kept[i] # Absent => ~kept[i].released
  BY <1>2 DEF IInv, CopiesAreFair, FairCopy
<1>5. TypeOK'
  BY <1>1, <1>3 DEF IInv, TypeOK
<1>6. CopiesAreFair'
  BY <1>1, <1>2, <1>4 DEF IInv, CopiesAreFair, FairCopy, Known, Fair, Expires
<1>7. Control'
  BY <1>1, <1>2, <1>3, <1>4 DEF IInv, Control, Known, Spent
<1>8. ReleasesAreCovered'
  <2>. SUFFICES ASSUME NEW j \in Ids PROVE Owed(j)' <= Used + Spent(kept[j])
    BY <1>1 DEF ReleasesAreCovered, Used
  <2>1. /\ Owed(j) <= Used + Spent(kept[j]) /\ Used + Spent(kept[j]) \in Nat
        /\ handed[j] \in Nat
    BY Types DEF IInv, ReleasesAreCovered, Spent
  <2>2. Owed(j)' <= Owed(j) /\ Owed(j) \in Nat /\ Owed(j)' \in Nat
    BY <1>1, <1>3, <2>1 DEF Owed
  <2>. QED  BY <2>1, <2>2
<1>9. AnswersStand' /\ JournalIsSound'
  BY <1>1 DEF IInv, AnswersStand, JournalIsSound, Known
<1>. QED  BY <1>5, <1>6, <1>7, <1>8, <1>9 DEF IInv

LEMMA ReturnIInv == IInv /\ Return => IInv'
<1>. SUFFICES ASSUME IInv, Return PROVE IInv'
  OBVIOUS
<1>1. /\ dirty = {} /\ call' = NoCall
      /\ handed' = [i \in Ids |-> IF i \in call.out THEN handed[i] + 1 ELSE handed[i]]
      /\ UNCHANGED <<clock, requests, released, disk, kept, gap, torn, dirty, told,
                     faults, raised>>
  BY DEF Return, ghosts, store
<1>3. TypeOK'
  <2>1. call' \in Calls
    BY <1>1, ApprovalAssumption DEF NoCall, Calls, Time
  <2>2. handed' \in [Ids -> Nat]
    BY <1>1, Types
  <2>. QED  BY <1>1, <2>1, <2>2 DEF IInv, TypeOK
<1>4. Control'
  BY <1>1 DEF Control, NoCall
<1>5. ReleasesAreCovered'
  <2>. SUFFICES ASSUME NEW i \in Ids PROVE Owed(i)' = Owed(i)
    BY <1>1 DEF IInv, ReleasesAreCovered, Used
  <2>1. Owed(i)' = handed'[i]
    BY <1>1, Types DEF Owed, NoCall
  <2>. QED  BY <1>1, <2>1, Types DEF Owed
<1>6. CopiesAreFair' /\ AnswersStand' /\ JournalIsSound'
  BY <1>1 DEF IInv, CopiesAreFair, FairCopy, AnswersStand, JournalIsSound, Known, Fair,
              Expires
<1>. QED  BY <1>3, <1>4, <1>5, <1>6 DEF IInv

LEMMA JournalRaisesIInv == IInv /\ JournalRaises => IInv'
<1>. SUFFICES ASSUME IInv, JournalRaises PROVE IInv'
  OBVIOUS
<1>1. /\ faults' = faults + 1 /\ faults' \in 0 .. MaxFaults /\ raised' = TRUE
      /\ dirty' = {} /\ call' = NoCall
      /\ UNCHANGED <<clock, requests, released, told, handed>>
  BY Types, ApprovalAssumption DEF JournalRaises
<1>2. StoreMoves(dirty)
  BY StoreStep DEF JournalRaises
<1>3. JournalIsSound' /\ torn' \in 0 .. MaxFaults
  BY <1>1, <1>2, Types, ApprovalAssumption DEF StoreMoves, IInv, JournalIsSound
<1>4. TypeOK'
  <2>1. call' \in Calls
    BY <1>1, ApprovalAssumption DEF NoCall, Calls, Time
  <2>. QED  BY <1>1, <1>2, <1>3, <2>1 DEF IInv, TypeOK, StoreMoves
<1>5. CopiesAreFair'
  BY <1>1, <1>2 DEF IInv, CopiesAreFair, StoreMoves, FairCopy, Known, Fair, Expires
<1>6. Control'
  BY <1>1 DEF Control, NoCall
<1>7. ReleasesAreCovered'
  BY <1>1, <1>2, NothingOwedIsLost
<1>8. AnswersStand'
  BY <1>1 DEF AnswersStand
<1>. QED  BY <1>3, <1>4, <1>5, <1>6, <1>7, <1>8 DEF IInv

LEMMA CrashIInv == IInv /\ CrashAndRestore => IInv'
<1>. SUFFICES ASSUME IInv, CrashAndRestore PROVE IInv'
  OBVIOUS
<1>1. /\ faults' = faults + 1 /\ faults' \in 0 .. MaxFaults
      /\ dirty' = {} /\ call' = NoCall
      /\ requests' = [i \in Ids |-> IF disk'[i] = Absent THEN Absent
                                     ELSE disk'[i].request]
      /\ released' = {i \in Ids : disk'[i] # Absent /\ disk'[i].released}
      /\ UNCHANGED <<clock, told, handed, raised>>
  BY Types, ApprovalAssumption DEF CrashAndRestore
<1>2. StoreMoves(dirty)
  BY StoreStep DEF CrashAndRestore
<1>3. ASSUME NEW i \in Ids, disk'[i] # Absent
      PROVE  /\ disk'[i] \in Snapshot /\ disk'[i].request \in Request
             /\ disk'[i].request # Absent /\ disk'[i].released \in BOOLEAN
             /\ requests'[i] = disk'[i].request
  <2>1. disk'[i] \in Snapshot
    BY <1>2, <1>3 DEF StoreMoves
  <2>2. disk'[i].request \in Request /\ disk'[i].released \in BOOLEAN
    BY <2>1 DEF Snapshot
  <2>. QED  BY <1>1, <1>3, <2>1, <2>2, ApprovalAssumption
<1>4. \A i \in Ids : disk'[i] = Absent => requests'[i] = Absent
  BY <1>1
<1>5. JournalIsSound' /\ torn' \in 0 .. MaxFaults
  BY <1>1, <1>2, Types, ApprovalAssumption DEF StoreMoves, IInv, JournalIsSound
<1>6. TypeOK'
  <2>1. call' \in Calls
    BY <1>1, ApprovalAssumption DEF NoCall, Calls, Time
  <2>2. requests' \in [Ids -> Request \cup {Absent}]
    BY <1>1, <1>3
  <2>3. released' \in SUBSET Ids
    BY <1>1
  <2>. QED  BY <1>1, <1>2, <1>5, <2>1, <2>2, <2>3 DEF IInv, TypeOK, StoreMoves
<1>7. CopiesAreFair'
  <2>. SUFFICES ASSUME NEW i \in Ids
                PROVE  /\ Known(i)' => Fair(requests'[i])
                       /\ i \in released' => Known(i)' /\ requests'[i].state = "approved"
                       /\ FairCopy(i, disk[i])'
                       /\ FairCopy(i, kept[i])'
    BY <1>1 DEF CopiesAreFair, Known, Fair, Expires
  <2>1. /\ FairCopy(i, disk'[i]) /\ FairCopy(i, kept'[i])
        /\ kept'[i] # Absent =>
              disk'[i] # Absent /\ (kept'[i].released => disk'[i].released)
    BY <1>2 DEF StoreMoves
  <2>. QED  BY <1>1, <1>3, <1>4, <2>1 DEF FairCopy, Known, Fair, Expires
<1>8. Control'
  BY <1>1 DEF Control, NoCall
<1>9. ReleasesAreCovered'
  BY <1>1, <1>2, NothingOwedIsLost
<1>10. AnswersStand'
  <2>. SUFFICES ASSUME ~raised, torn' = 0, NEW i \in Ids
                PROVE  /\ requests'[i] # Absent =>
                             disk'[i] # Absent /\ disk'[i].request = requests'[i]
                       /\ told[i] # Absent /\ told[i].state \in Answers =>
                            /\ requests'[i] = told[i]
                            /\ disk'[i] # Absent /\ disk'[i].request = told[i]
    BY <1>1 DEF AnswersStand, Known
  <2>1. torn = 0 /\ ~gap /\ kept = disk
    BY <1>2, Types DEF StoreMoves, IInv, JournalIsSound
  <2>2. /\ told[i] # Absent /\ told[i].state \in Answers =>
              requests[i] = told[i] /\ disk[i] # Absent /\ disk[i].request = told[i]
        /\ disk'[i] = disk[i] \/ (i \in dirty /\ disk'[i] = to_record(i))
    BY <1>2, <2>1 DEF IInv, AnswersStand, StoreMoves
  <2>3. i \in dirty => to_record(i) # Absent /\ to_record(i).request = requests[i]
    BY RecordIsSnapshot, Types DEF IInv, Control, Known
  <2>. QED  BY <1>3, <1>4, <2>2, <2>3
<1>. QED  BY <1>5, <1>6, <1>7, <1>8, <1>9, <1>10 DEF IInv

LEMMA OthersIInv == IInv /\ OthersAppend => IInv'
<1>. SUFFICES ASSUME IInv, OthersAppend PROVE IInv'
  OBVIOUS
<1>1. /\ faults' \in 0 .. MaxFaults /\ torn' \in Nat /\ torn' <= faults'
      /\ dirty = {}
      /\ UNCHANGED <<clock, requests, released, call, dirty, told, handed, raised>>
  BY Types, ApprovalAssumption
     DEF OthersAppend, OtherAppended, OtherTorn, IInv, JournalIsSound
<1>2. StoreMoves(dirty)
  BY <1>1, StoreStep DEF OthersAppend
<1>3. JournalIsSound' /\ torn' \in 0 .. MaxFaults
  BY <1>1, <1>2, Types, ApprovalAssumption DEF StoreMoves, IInv, JournalIsSound
<1>4. TypeOK'
  BY <1>1, <1>2, <1>3 DEF IInv, TypeOK, StoreMoves
<1>5. CopiesAreFair'
  BY <1>1, <1>2 DEF IInv, CopiesAreFair, StoreMoves, FairCopy, Known, Fair, Expires
<1>6. Control'
  BY <1>1 DEF IInv, Control, Known, Pending, Answerable, decides_at, Expires
<1>7. ReleasesAreCovered'
  BY <1>1, <1>2, NothingOwedIsLost
<1>8. AnswersStand'
  <2>. SUFFICES ASSUME torn' = 0 PROVE disk' = disk /\ torn = 0
    BY <1>1 DEF IInv, AnswersStand, Known
  <2>1. torn = 0 /\ ~gap
    BY <1>2, Types DEF StoreMoves, IInv, JournalIsSound
  <2>. QED  BY <2>1 DEF OthersAppend, OtherAppended, OtherTorn
<1>. QED  BY <1>3, <1>4, <1>5, <1>6, <1>7, <1>8 DEF IInv

LEMMA StepIInv == IInv /\ [Next]_vars => IInv'
<1>. SUFFICES ASSUME IInv, [Next]_vars PROVE IInv'
  OBVIOUS
<1>1. CASE Next
  BY <1>1, TickIInv, SubmitIInv, SubmitExistingIInv, DecideIInv, BeginIInv,
     ReturnIInv, RememberIInv, StaffIInv, ExpireIInv, ReleaseIInv,
     JournalRaisesIInv, CrashIInv, OthersIInv
     DEF Next, Step
<1>2. CASE UNCHANGED vars
  BY <1>2 DEF vars, store, ghosts, IInv, TypeOK, JournalIsSound, CopiesAreFair,
              FairCopy, Control, ReleasesAreCovered, Owed, Used, Spent, AnswersStand,
              Known, Pending, Fair, Expires, Answerable, decides_at
<1>. QED  BY <1>1, <1>2

LEMMA InitIInv == Init => IInv
<1>. SUFFICES ASSUME Init PROVE IInv
  OBVIOUS
<1>1. TypeOK
  <2>1. call \in Calls
    BY ApprovalAssumption DEF Init, NoCall, Calls, Time
  <2>2. /\ requests \in [Ids -> Request \cup {Absent}]
        /\ disk \in [Ids -> Snapshot \cup {Absent}]
        /\ kept \in [Ids -> Snapshot \cup {Absent}]
        /\ told \in [Ids -> Request \cup {Absent}]
    BY DEF Init, Empty
  <2>3. clock \in Time /\ faults \in 0 .. MaxFaults /\ torn \in 0 .. MaxFaults
    BY ApprovalAssumption DEF Init, Empty, Time
  <2>4. handed \in [Ids -> Nat] /\ raised \in BOOLEAN /\ dirty \in SUBSET Ids
        /\ released \in SUBSET Ids
    BY DEF Init
  <2>5. gap \in BOOLEAN
    BY DEF Init, Empty
  <2>. QED  BY <2>1, <2>2, <2>3, <2>4, <2>5 DEF TypeOK
<1>2. CopiesAreFair /\ JournalIsSound /\ AnswersStand
  BY DEF Init, Empty, CopiesAreFair, FairCopy, JournalIsSound, AnswersStand, Known
<1>3. Control /\ ReleasesAreCovered
  BY DEF Init, Empty, Control, NoCall, ReleasesAreCovered, Owed, Used, Spent
<1>. QED  BY <1>1, <1>2, <1>3 DEF IInv

LEMMA AlwaysIInv == Spec => []IInv
BY InitIInv, StepIInv, PTL DEF Spec
-------------------------------------------------------------------------------
\* Requests and snapshots keep their shape through answers and restarts.
THEOREM TypeCorrect == Spec => []TypeOK
<1>1. IInv => TypeOK
  BY DEF IInv
<1>. QED  BY <1>1, AlwaysIInv, PTL

\* "An approval is answered once", but for the torn appends: in all the lives
\* of the process a request is handed out once, and once more for each of them,
\* whatever raised and whenever it died.  A release that was not swallowed is
\* still on disk, so the next life does not hand the request out again.
THEOREM AYesIsOneDispatch == Spec => []AYesIsOneDispatchPerTear
<1>1. ASSUME IInv PROVE AYesIsOneDispatchPerTear
  <2>. SUFFICES ASSUME NEW i \in Ids PROVE handed[i] <= torn + Spent(disk[i])
    BY DEF AYesIsOneDispatchPerTear, Spent
  <2>1. /\ handed[i] <= Owed(i) /\ Owed(i) \in Nat /\ handed[i] \in Nat
        /\ Owed(i) <= Used + Spent(kept[i]) /\ Used \in Nat
        /\ Spent(kept[i]) \in {0, 1} /\ Spent(disk[i]) \in {0, 1}
        /\ torn \in Nat /\ gap \in BOOLEAN
    BY <1>1, Types DEF IInv, ReleasesAreCovered, Owed, Spent
  <2>2. CASE gap
    BY <2>1, <2>2 DEF Used
  <2>3. CASE ~gap
    <3>1. kept = disk
      BY <1>1, <2>3 DEF IInv, JournalIsSound
    <3>. QED  BY <2>1, <2>3, <3>1 DEF Used
  <2>. QED  BY <2>1, <2>2, <2>3
<1>. QED  BY <1>1, AlwaysIInv, PTL

\* Nothing is handed out that nobody approved, or that was approved too late.
THEOREM OnlyApprovedIsHandedOut == Spec => HandedWasApproved
<1>. DEFINE Approved ==
       \A i \in Ids : handed'[i] # handed[i] =>
          /\ Known(i)
          /\ requests[i].state = "approved"
          /\ requests[i].by # "nobody"
          /\ requests[i].decided >= requests[i].submitted
          /\ requests[i].decided < Expires(requests[i])
<1>1. IInv /\ [Next]_vars => [Approved]_vars
  <2>. SUFFICES ASSUME IInv, Next, NEW i \in Ids, handed'[i] # handed[i]
                PROVE  /\ Known(i)
                       /\ requests[i].state = "approved"
                       /\ requests[i].by # "nobody"
                       /\ requests[i].decided >= requests[i].submitted
                       /\ requests[i].decided < Expires(requests[i])
    OBVIOUS
  <2>1. Return
    BY DEF Next, Step, Tick, submit, submit_existing, _decide, _remember, Begin,
           BeginStaff, BeginExpireDue, BeginRelease, Visit, staff, expire_due,
           release, JournalRaises, CrashAndRestore, OthersAppend
  <2>2. i \in call.out
    BY <2>1 DEF Return
  <2>3. i \in released
    BY <2>2 DEF IInv, Control
  <2>. QED  BY <2>3 DEF IInv, CopiesAreFair, Fair
<1>. QED  BY <1>1, AlwaysIInv, PTL DEF Spec, HandedWasApproved

\* "A decision is made once": until a write raises or is torn, an answer that a
\* caller was told of stays the answer, in memory, on disk and for every later caller.
THEOREM DecisionsAreFinal == Spec => DecisionIsMadeOnce
<1>. DEFINE Final ==
       \A i \in Ids :
          ~raised' /\ torn' = 0 /\ told[i] # Absent /\ told[i].state \in Answers =>
            /\ told'[i] = told[i]
            /\ requests'[i] = told[i]
            /\ disk'[i] # Absent /\ disk'[i].request = told[i]
<1>1. IInv /\ IInv' /\ [Next]_vars => [Final]_vars
  <2>. SUFFICES ASSUME IInv, IInv', Next, NEW i \in Ids, ~raised', torn' = 0,
                       told[i] # Absent, told[i].state \in Answers
                PROVE  /\ told'[i] = told[i]
                       /\ requests'[i] = told[i]
                       /\ disk'[i] # Absent /\ disk'[i].request = told[i]
    OBVIOUS
  <2>1. ~raised /\ torn = 0
    <3>1. ~raised
      BY DEF Next, Step, Tick, submit, submit_existing, _decide, _remember, Begin,
             BeginStaff, BeginExpireDue, BeginRelease, Visit, staff, expire_due,
             release, Return, JournalRaises, CrashAndRestore, OthersAppend, ghosts
    <3>2. torn' \in {torn, torn + 1}
      <4>1. CASE UNCHANGED store \/ OtherAppended \/ OtherTorn
        BY <4>1 DEF store, OtherAppended, OtherTorn
      <4>2. ASSUME NEW j \in Ids, AppendFails(j, to_record(j))
            PROVE  torn' \in {torn, torn + 1}
        BY <4>2 DEF AppendFails, Appended, AppendTorn, store
      <4>3. \/ UNCHANGED store \/ OtherAppended \/ OtherTorn
            \/ \E j \in Ids : AppendFails(j, to_record(j))
        BY Types
           DEF Next, Step, Tick, submit, submit_existing, _decide, _remember, Begin,
               BeginStaff, BeginExpireDue, BeginRelease, Visit, staff, expire_due,
               release, Return, JournalRaises, CrashAndRestore, OthersAppend,
               AppendFails
      <4>. QED  BY <4>1, <4>2, <4>3
    <3>. QED  BY <3>1, <3>2, Types
  <2>2. requests[i] = told[i]
    BY <2>1 DEF IInv, AnswersStand
  <2>3. told'[i] = told[i] \/ told'[i] = requests[i]
    <3>1. \/ told' = told
          \/ \E j \in Ids : told' = [told EXCEPT ![j] = requests[j]]
      BY DEF Next, Step, Tick, submit, submit_existing, _decide, _remember, Begin,
             BeginStaff, BeginExpireDue, BeginRelease, Visit, staff, expire_due,
             release, Return, JournalRaises, CrashAndRestore, OthersAppend
    <3>. QED  BY <3>1, Types
  <2>4. told'[i] = told[i]
    BY <2>2, <2>3
  <2>. QED  BY <2>4 DEF IInv, AnswersStand
<1>. QED  BY <1>1, AlwaysIInv, PTL DEF Spec, DecisionIsMadeOnce
===============================================================================
