-------------------------------- MODULE Journal --------------------------------
(***************************************************************************)
(* store/journal.py: one append-only file of entity snapshots.             *)
(*                                                                         *)
(* A line of the file is a snapshot of one entity or something replay      *)
(* cannot parse.  The last line may lack its newline, because an append    *)
(* was interrupted; the next append then continues THAT line, and two      *)
(* snapshots glued together are not JSON.  A snapshot's content is its     *)
(* version number; Ids stands for the (kind, id) pairs that key replay.    *)
(*                                                                         *)
(* An append is interrupted by the death of the process or the machine,    *)
(* or by an OSError the caller sees (a full disk).  With Tears = FALSE     *)
(* an interrupted append leaves nothing or all of its line, which is what  *)
(* killing the process between system calls can do; with Tears = TRUE it   *)
(* may also leave a part of the line, which is what losing the machine or  *)
(* the disk space in the middle of the write does.                         *)
(***************************************************************************)
EXTENDS Naturals, Sequences, FiniteSets

CONSTANTS Ids,        \* the entities that write here
          Damaged,    \* a line replay cannot parse
          Tears,      \* whether an interrupted append may leave part of a line
          MaxWrites   \* bound: snapshots attempted per entity

ASSUME JournalAssumption ==
    /\ IsFiniteSet(Ids)
    /\ Damaged \notin [id : Ids, version : 1 .. MaxWrites]
    /\ Tears \in BOOLEAN
    /\ MaxWrites \in Nat

VARIABLES file,       \* the lines, oldest first
          open,       \* whether the last line still lacks its newline
          tmp,        \* the ".compacting" file while a compaction is under way
          attempted,  \* history: the last version each entity tried to write
          acked,      \* history: the last version whose append returned
          tears       \* history: appends that left an unterminated line

vars == <<file, open, tmp, attempted, acked, tears>>

Snapshot == [id : Ids, version : 1 .. MaxWrites]
NoFile == <<Damaged>>

TypeOK ==
    /\ file \in Seq(Snapshot \cup {Damaged})
    /\ open \in BOOLEAN
    /\ tmp \in Seq(Snapshot) \cup {NoFile}
    /\ attempted \in [Ids -> 0 .. MaxWrites]
    /\ acked \in [Ids -> 0 .. MaxWrites]
    /\ tears \in Nat
-------------------------------------------------------------------------------
(* Reading: replay() and Replay.latest *)

\* Where f holds a readable snapshot of entity i.
LinesOf(f, i) == {n \in DOMAIN f : f[n] # Damaged /\ f[n].id = i}

IsLast(n, S) == n \in S /\ \A m \in S : m <= n

Last(f, i) == f[CHOOSE n \in LinesOf(f, i) : IsLast(n, LinesOf(f, i))]

Present(f) == {i \in Ids : LinesOf(f, i) # {}}

\* The version of each entity a restart restores: its last snapshot wins.
latest(f) == [i \in Ids |-> IF i \in Present(f) THEN Last(f, i).version ELSE 0]

restored == latest(file)

\* What is left of a file whose last line the next append continues.
Glued(f) == [f EXCEPT ![Len(f)] = Damaged]

\* The part of the file that is sure to survive the next append.
Solid == IF open THEN Glued(file) ELSE file
-------------------------------------------------------------------------------
(* Writing *)

\* The file after a whole line is written: a line of its own, or the rest of
\* an unterminated one, which is then unreadable.
Written(line) ==
    IF open THEN Glued(file) ELSE Append(file, line)

\* Mutant: appends go on while a compaction is under way.
Attempt_DuringCompaction(i) ==
    /\ attempted[i] < MaxWrites
    /\ attempted' = [attempted EXCEPT ![i] = @ + 1]
    /\ UNCHANGED tmp

\* One call of append, up to the point where it may return.
Attempt(i) ==
    /\ tmp = NoFile
    /\ attempted[i] < MaxWrites
    /\ attempted' = [attempted EXCEPT ![i] = @ + 1]
    /\ UNCHANGED tmp

NewLine(i) == [id |-> i, version |-> attempted[i] + 1]

\* Mutant: the append returns before the line has left the process.
append_Unflushed(i) ==
    /\ Attempt(i)
    /\ acked' = [acked EXCEPT ![i] = attempted[i] + 1]
    /\ UNCHANGED <<file, open, tears>>

append(i) ==
    /\ Attempt(i)
    /\ file' = Written(NewLine(i))
    /\ open' = FALSE
    /\ acked' = [acked EXCEPT ![i] = attempted[i] + 1]
    /\ UNCHANGED tears

\* The append does not return: nothing of the line is on disk, or all of it.
AppendInterrupted(i) ==
    /\ Attempt(i)
    /\ \/ UNCHANGED <<file, open>>
       \/ file' = Written(NewLine(i)) /\ open' = FALSE
    /\ UNCHANGED <<acked, tears>>

\* The append does not return and leaves a line without its newline: a part
\* of it, which does not parse, or all of it but the newline, which does.
AppendTorn(i) ==
    /\ Tears
    /\ Attempt(i)
    /\ \E line \in {Damaged, NewLine(i)} : file' = Written(line)
    /\ open' = TRUE
    /\ tears' = tears + 1
    /\ UNCHANGED acked
-------------------------------------------------------------------------------
(* compact(): rewrite as one snapshot per entity, then rename over the file *)

\* Mutant: one entity's snapshot is kept instead of one of every entity.
IsCompactionOf_One(g, f) == Len(g) = 1 /\ g[1].id \in Present(f)

\* g holds the last snapshot of every entity of f once, in first-seen order.
IsCompactionOf(g, f) ==
    /\ \A i \in Present(f) :
          \E n \in DOMAIN g : g[n] = Last(f, i) /\ LinesOf(g, i) = {n}
    /\ \A n \in DOMAIN g : g[n] # Damaged /\ g[n].id \in Present(f)
    /\ \A m, n \in DOMAIN g : m < n =>
          \E p \in LinesOf(f, g[m].id) :
             \A q \in LinesOf(f, g[n].id) : p < q

Compactions(f) ==
    UNION {[1 .. n -> {Last(f, i) : i \in Present(f)}] : n \in 0 .. Len(f)}

\* Mutant: the journal is copied as it is, unreadable lines included.
StartCompaction_Copy ==
    /\ tmp = NoFile
    /\ Present(file) # {}
    /\ tmp' = file
    /\ UNCHANGED <<file, open, attempted, acked, tears>>

\* compact returns at once when there is nothing readable to keep.
StartCompaction ==
    /\ tmp = NoFile
    /\ Present(file) # {}
    /\ \E g \in Compactions(file) : IsCompactionOf(g, file) /\ tmp' = g
    /\ UNCHANGED <<file, open, attempted, acked, tears>>

\* Mutant: the compacted lines are added to the journal.
FinishCompaction_Append ==
    /\ tmp # NoFile
    /\ file' = file \o tmp
    /\ open' = FALSE
    /\ tmp' = NoFile
    /\ UNCHANGED <<attempted, acked, tears>>

\* os.replace: the old journal is there until the new one is.
FinishCompaction ==
    /\ tmp # NoFile
    /\ file' = tmp
    /\ open' = FALSE
    /\ tmp' = NoFile
    /\ UNCHANGED <<attempted, acked, tears>>

\* The process dies before the rename; the temporary file is never read.
CompactionInterrupted ==
    /\ tmp # NoFile
    /\ tmp' = NoFile
    /\ UNCHANGED <<file, open, attempted, acked, tears>>
-------------------------------------------------------------------------------
Init ==
    /\ file = <<>>
    /\ open = FALSE
    /\ tmp = NoFile
    /\ attempted = [i \in Ids |-> 0]
    /\ acked = [i \in Ids |-> 0]
    /\ tears = 0

Next ==
    \/ \E i \in Ids : append(i) \/ AppendInterrupted(i) \/ AppendTorn(i)
    \/ StartCompaction
    \/ FinishCompaction
    \/ CompactionInterrupted

Spec == Init /\ [][Next]_vars
-------------------------------------------------------------------------------
(* Properties *)

\* "Stale but never invented": whatever was torn, glued or compacted, the
\* snapshots of one entity stay in the order they were written, and none is
\* one that nobody wrote.
StaleNeverInvented ==
    \A i \in Ids : \A m, n \in LinesOf(file, i) :
        /\ file[n].version <= attempted[i]
        /\ m < n => file[m].version < file[n].version

\* An unterminated line costs at most one acknowledged snapshot: the append
\* that continues it.  Entities that lost an acknowledged update are at most
\* as many as the tears.
LossIsBoundedByTears ==
    Cardinality({i \in Ids : restored[i] < acked[i]}) <= tears

\* What a restart restores changes by appending only: no compaction, finished
\* or interrupted, changes it, and no append changes another entity except
\* the one whose unterminated line it continues.
OnlyAppendsChangeState ==
    [][ \A i \in Ids :
          restored'[i] # restored[i] =>
            \/ attempted'[i] # attempted[i]
            \/ open /\ attempted' # attempted ]_vars

\* "Write one snapshot, durably, before returning": a restart restores the
\* last acknowledged version of every entity, or one attempted after it.
AcknowledgedIsDurable == \A i \in Ids : restored[i] >= acked[i]

\* The file, its glued lines and its compactions are, seen from a restart,
\* the map the components write their snapshots to.
Store == INSTANCE DurableMap
             WITH disk <- restored, kept <- latest(Solid), gap <- open, torn <- tears
ImplementsDurableMap == Store!Spec
===============================================================================
