---------------------------- MODULE JournalProofs ----------------------------
(***************************************************************************)
(* What a restart restores is never invented, is lost to torn appends      *)
(* only, and behaves like the DurableMap, for any entities and any number  *)
(* of appends, tears and compactions.                                      *)
(*                                                                         *)
(* Everything follows from what each of the ways a file can change does to *)
(* its last snapshots: a whole line sets one of them, a glued line makes   *)
(* one fall back at most, and a compaction changes none.                   *)
(***************************************************************************)
EXTENDS Journal, TLAPS, WellFoundedInduction, FiniteSetTheorems, SequenceTheorems

Lines == Seq(Snapshot \cup {Damaged})

\* The snapshots of one entity are in the order they were written.
Ordered(f) ==
    \A i \in Ids : \A m, n \in LinesOf(f, i) :
        m < n => f[m].version < f[n].version

Lost == {i \in Ids : latest(Solid)[i] < acked[i]}

\* The budget of losses: an unterminated line is a loss still to come.
LossesArePaidFor == Cardinality(Lost) + (IF open THEN 1 ELSE 0) <= tears

IInv ==
    /\ TypeOK
    /\ open => file # <<>>
    /\ tmp # NoFile => IsCompactionOf(tmp, file)
    /\ StaleNeverInvented
    /\ \A i \in Ids : acked[i] <= attempted[i]
    /\ LossesArePaidFor
-------------------------------------------------------------------------------
(* The last snapshots of a file *)

LEMMA SnapshotFields ==
    ASSUME NEW s \in Snapshot
    PROVE  s.id \in Ids /\ s.version \in Nat /\ s.version >= 1 /\ s # Damaged
BY JournalAssumption DEF Snapshot

LEMMA LineFields ==
    ASSUME NEW f \in Lines, NEW i, NEW n \in LinesOf(f, i)
    PROVE  /\ n \in DOMAIN f /\ n \in Nat /\ n >= 1 /\ n <= Len(f)
           /\ f[n] \in Snapshot /\ f[n].id = i /\ f[n].version \in Nat
           /\ f[n].version >= 1 /\ i \in Ids
<1>1. n \in DOMAIN f /\ f[n] # Damaged /\ f[n].id = i
  BY DEF LinesOf
<1>2. n \in 1 .. Len(f) /\ f[n] \in Snapshot
  BY <1>1 DEF Lines
<1>. QED  BY <1>1, <1>2, SnapshotFields

LEMMA SmallestOf ==
    ASSUME NEW T \in SUBSET Nat, T # {}
    PROVE  \E t \in T : \A u \in T : t <= u
<1>. DEFINE R == OpToRel(<, Nat)
<1>1. \E t \in T : \A u \in T : ~ (<<u, t>> \in R)
  <2>1. IsWellFoundedOn(R, Nat)
    BY NatLessThanWellFounded
  <2>. HIDE DEF R
  <2>. QED  BY <2>1, WFMin
<1>2. \A t, u \in T : <<u, t>> \in R <=> u < t
  BY DEF OpToRel
<1>. HIDE DEF R
<1>3. PICK t \in T : \A u \in T : ~ (<<u, t>> \in R)
  BY <1>1
<1>4. \A u \in T : ~ (u < t)
  BY <1>2, <1>3
<1>. QED  BY <1>4

\* An entity that is present has a last line.
LEMMA LastLineExists ==
    ASSUME NEW f \in Lines, NEW i, LinesOf(f, i) # {}
    PROVE  \E n : IsLast(n, LinesOf(f, i))
<1>. DEFINE S == LinesOf(f, i)
            T == {Len(f) - n : n \in S}
<1>1. \A n \in S : n \in Nat /\ n <= Len(f)
  BY LineFields
<1>2. Len(f) \in Nat
  BY DEF Lines
<1>3. T \in SUBSET Nat
  BY <1>1, <1>2
<1>4. PICK m \in S : TRUE
  OBVIOUS
<1>5. Len(f) - m \in T
  BY <1>4
<1>. HIDE DEF T
<1>6. PICK t \in T : \A u \in T : t <= u
  BY <1>3, <1>5, SmallestOf
<1>. USE DEF T
<1>7. PICK n \in S : t = Len(f) - n
  BY <1>6
<1>8. ASSUME NEW k \in S PROVE k <= n
  <2>1. Len(f) - n <= Len(f) - k
    BY <1>6, <1>7
  <2>. HIDE DEF S, T
  <2>. QED  BY <1>1, <1>2, <2>1
<1>. QED  BY <1>7, <1>8 DEF IsLast

LEMMA LastIs ==
    ASSUME NEW f \in Lines, NEW i \in Ids, NEW n, IsLast(n, LinesOf(f, i))
    PROVE  /\ i \in Present(f) /\ Last(f, i) = f[n]
           /\ latest(f)[i] = f[n].version
           /\ latest(f)[i] \in Nat /\ latest(f)[i] >= 1
<1>1. n \in LinesOf(f, i)
  BY DEF IsLast
<1>2. \A k : IsLast(k, LinesOf(f, i)) => k = n
  BY <1>1, LineFields DEF IsLast
<1>3. (CHOOSE k \in LinesOf(f, i) : IsLast(k, LinesOf(f, i))) = n
  BY <1>1, <1>2
<1>4. Last(f, i) = f[n] /\ i \in Present(f)
  BY <1>1, <1>3 DEF Last, Present
<1>. QED  BY <1>1, <1>4, LineFields DEF latest

LEMMA LatestOfNone ==
    ASSUME NEW f, NEW i \in Ids, LinesOf(f, i) = {}
    PROVE  latest(f)[i] = 0 /\ i \notin Present(f)
BY DEF latest, Present

LEMMA LatestType ==
    ASSUME NEW f \in Lines
    PROVE  latest(f) \in [Ids -> Nat]
<1>1. ASSUME NEW i \in Ids PROVE latest(f)[i] \in Nat
  <2>1. CASE LinesOf(f, i) = {}
    BY <2>1, LatestOfNone
  <2>2. CASE LinesOf(f, i) # {}
    BY <2>2, LastLineExists, LastIs
  <2>. QED  BY <2>1, <2>2
<1>. QED  BY <1>1 DEF latest

\* Files with the same readable lines restore the same.
LEMMA SameLines ==
    ASSUME NEW f \in Lines, NEW g \in Lines, NEW i \in Ids,
           LinesOf(f, i) = LinesOf(g, i),
           \A n \in LinesOf(f, i) : f[n] = g[n]
    PROVE  latest(f)[i] = latest(g)[i]
<1>1. CASE LinesOf(f, i) = {}
  BY <1>1, LatestOfNone
<1>2. CASE LinesOf(f, i) # {}
  <2>1. PICK n : IsLast(n, LinesOf(f, i))
    BY <1>2, LastLineExists
  <2>2. latest(f)[i] = f[n].version /\ latest(g)[i] = g[n].version
    BY <2>1, LastIs
  <2>. QED  BY <2>1, <2>2 DEF IsLast
<1>. QED  BY <1>1, <1>2
-------------------------------------------------------------------------------
(* What a change of the file does to its last snapshots *)

LEMMA AppendLine ==
    ASSUME NEW f \in Lines, NEW line \in Snapshot \cup {Damaged}
    PROVE  /\ Append(f, line) \in Lines
           /\ Len(f) \in Nat /\ Len(Append(f, line)) = Len(f) + 1
           /\ DOMAIN f = 1 .. Len(f) /\ DOMAIN Append(f, line) = 1 .. Len(f) + 1
           /\ \A n \in DOMAIN f : Append(f, line)[n] = f[n]
           /\ Append(f, line)[Len(f) + 1] = line
BY AppendProperties, LenProperties DEF Lines

LEMMA LinesOfAppend ==
    ASSUME NEW f \in Lines, NEW line \in Snapshot \cup {Damaged}, NEW i \in Ids
    PROVE  LinesOf(Append(f, line), i) =
               IF line # Damaged /\ line.id = i THEN LinesOf(f, i) \cup {Len(f) + 1}
               ELSE LinesOf(f, i)
BY AppendLine DEF LinesOf

\* A whole line is the last one of its entity, and of no other.
LEMMA LatestOfAppend ==
    ASSUME NEW f \in Lines, NEW s \in Snapshot
    PROVE  latest(Append(f, s)) = [latest(f) EXCEPT ![s.id] = s.version]
<1>. DEFINE g == Append(f, s)
<1>1. g \in Lines /\ s \in Snapshot \cup {Damaged} /\ s # Damaged /\ s.id \in Ids
  BY AppendLine, SnapshotFields
<1>2. latest(g)[s.id] = s.version
  <2>1. LinesOf(g, s.id) = LinesOf(f, s.id) \cup {Len(f) + 1}
    BY <1>1, LinesOfAppend
  <2>2. IsLast(Len(f) + 1, LinesOf(g, s.id))
    BY <2>1, LineFields, AppendLine DEF IsLast
  <2>3. g[Len(f) + 1] = s
    BY AppendLine
  <2>. HIDE DEF g
  <2>. QED  BY <1>1, <2>2, <2>3, LastIs
<1>3. ASSUME NEW i \in Ids, i # s.id PROVE latest(g)[i] = latest(f)[i]
  <2>1. LinesOf(g, i) = LinesOf(f, i)
    BY <1>1, <1>3, LinesOfAppend
  <2>2. \A n \in LinesOf(f, i) : f[n] = g[n]
    BY AppendLine, LineFields
  <2>. HIDE DEF g
  <2>. QED  BY <1>1, <2>1, <2>2, SameLines
<1>4. latest(f) \in [Ids -> Nat] /\ latest(g) \in [Ids -> Nat]
  BY <1>1, LatestType
<1>. HIDE DEF g
<1>5. latest(g) = [latest(f) EXCEPT ![s.id] = s.version]
  BY <1>1, <1>2, <1>3, <1>4
<1>. QED  BY <1>5 DEF g

\* What cannot be read changes nothing.
LEMMA LatestOfDamage ==
    ASSUME NEW f \in Lines
    PROVE  latest(Append(f, Damaged)) = latest(f)
<1>. DEFINE g == Append(f, Damaged)
<1>1. g \in Lines
  BY AppendLine
<1>2. ASSUME NEW i \in Ids PROVE latest(g)[i] = latest(f)[i]
  <2>1. LinesOf(g, i) = LinesOf(f, i)
    BY LinesOfAppend
  <2>2. \A n \in LinesOf(f, i) : f[n] = g[n]
    BY AppendLine, LineFields
  <2>. HIDE DEF g
  <2>. QED  BY <1>1, <2>1, <2>2, SameLines
<1>3. latest(f) \in [Ids -> Nat] /\ latest(g) \in [Ids -> Nat]
  BY <1>1, LatestType
<1>. HIDE DEF g
<1>4. latest(g) = latest(f)
  BY <1>2, <1>3
<1>. QED  BY <1>4 DEF g

LEMMA GluedLine ==
    ASSUME NEW f \in Lines, f # <<>>
    PROVE  /\ Glued(f) \in Lines /\ Len(Glued(f)) = Len(f) /\ Glued(f) # <<>>
           /\ Len(f) \in Nat /\ Len(f) \in DOMAIN f /\ DOMAIN Glued(f) = DOMAIN f
           /\ \A n \in DOMAIN f : Glued(f)[n] = IF n = Len(f) THEN Damaged ELSE f[n]
           /\ \A i : LinesOf(Glued(f), i) = LinesOf(f, i) \ {Len(f)}
<1>1. /\ Len(f) \in Nat /\ Len(f) \in 1 .. Len(f) /\ DOMAIN f = 1 .. Len(f)
      /\ Damaged \in Snapshot \cup {Damaged}
  BY LenProperties, EmptySeq DEF Lines
<1>2. /\ Glued(f) \in Lines /\ Len(Glued(f)) = Len(f)
      /\ \A n \in 1 .. Len(f) : Glued(f)[n] = IF n = Len(f) THEN Damaged ELSE f[n]
  BY <1>1, ExceptSeq DEF Lines, Glued
<1>3. DOMAIN Glued(f) = 1 .. Len(f)
  BY <1>1, <1>2, LenProperties DEF Lines
<1>4. Glued(f) # <<>>
  <2>. DEFINE g == Glued(f)
  <2>1. Len(f) # 0
    BY <1>1
  <2>2. Len(g) = Len(f)
    BY <1>2
  <2>. HIDE DEF g
  <2>3. g # <<>>
    BY <2>1, <2>2
  <2>. QED  BY <2>3 DEF g
<1>5. ASSUME NEW i PROVE LinesOf(Glued(f), i) = LinesOf(f, i) \ {Len(f)}
  BY <1>1, <1>2, <1>3 DEF LinesOf
<1>. QED  BY <1>1, <1>2, <1>3, <1>4, <1>5

\* The gap swallows the last line: nobody else falls back, and who does falls
\* back to a version written before.
LEMMA LatestOfGlued ==
    ASSUME NEW f \in Lines, f # <<>>, Ordered(f), NEW i \in Ids
    PROVE  /\ latest(Glued(f))[i] \in 0 .. latest(f)[i]
           /\ Len(f) \notin LinesOf(f, i) => latest(Glued(f))[i] = latest(f)[i]
<1>. DEFINE g == Glued(f)
<1>1. g \in Lines /\ latest(g)[i] \in Nat /\ latest(f)[i] \in Nat
  BY GluedLine, LatestType
<1>2. LinesOf(g, i) = LinesOf(f, i) \ {Len(f)}
  BY GluedLine
<1>3. \A n \in LinesOf(g, i) : g[n] = f[n] /\ n \in LinesOf(f, i) /\ n # Len(f)
  BY <1>2, GluedLine, LineFields
<1>. HIDE DEF g
<1>4. ASSUME Len(f) \notin LinesOf(f, i) PROVE latest(g)[i] = latest(f)[i]
  <2>1. LinesOf(g, i) = LinesOf(f, i)
    BY <1>2, <1>4
  <2>2. \A n \in LinesOf(g, i) : g[n] = f[n]
    BY <1>3
  <2>. QED  BY <1>1, <2>1, <2>2, SameLines
<1>5. ASSUME LinesOf(g, i) # {} PROVE latest(g)[i] <= latest(f)[i]
  <2>1. PICK n : IsLast(n, LinesOf(g, i))
    BY <1>1, <1>5, LastLineExists
  <2>2. PICK m : IsLast(m, LinesOf(f, i))
    BY <1>3, <1>5, LastLineExists
  <2>3. /\ n \in LinesOf(g, i) /\ n \in LinesOf(f, i) /\ m \in LinesOf(f, i)
        /\ n <= m /\ g[n] = f[n]
    BY <1>3, <2>1, <2>2 DEF IsLast
  <2>4. latest(g)[i] = f[n].version /\ latest(f)[i] = f[m].version
    BY <1>1, <2>1, <2>2, <2>3, LastIs
  <2>5. n \in Nat /\ m \in Nat /\ f[n].version \in Nat /\ f[m].version \in Nat
    BY <2>3, LineFields
  <2>6. n < m => f[n].version < f[m].version
    BY <2>3 DEF Ordered
  <2>. QED  BY <2>3, <2>4, <2>5, <2>6
<1>6. latest(g)[i] <= latest(f)[i]
  BY <1>1, <1>5, LatestOfNone
<1>7. latest(g)[i] \in 0 .. latest(f)[i]
  BY <1>1, <1>6
<1>. QED  BY <1>4, <1>7 DEF g

\* A compaction holds the last snapshots and nothing else.
LEMMA LatestOfCompaction ==
    ASSUME NEW f \in Lines, NEW g \in Seq(Snapshot), IsCompactionOf(g, f)
    PROVE  /\ g \in Lines /\ latest(g) = latest(f)
           /\ \A i \in Ids : \A n \in LinesOf(g, i) :
                 LinesOf(g, i) = {n} /\ i \in Present(f) /\ g[n] = Last(f, i)
<1>1. g \in Lines
  BY SeqMonotonic DEF Lines
<1>2. ASSUME NEW i \in Ids, NEW n \in LinesOf(g, i)
      PROVE  LinesOf(g, i) = {n} /\ i \in Present(f) /\ g[n] = Last(f, i)
  <2>1. n \in DOMAIN g /\ g[n].id = i
    BY <1>2 DEF LinesOf
  <2>2. i \in Present(f)
    BY <2>1 DEF IsCompactionOf
  <2>. QED  BY <1>2, <2>2 DEF IsCompactionOf
<1>3. ASSUME NEW i \in Ids PROVE latest(g)[i] = latest(f)[i]
  <2>1. CASE LinesOf(f, i) = {}
    <3>1. i \notin Present(f)
      BY <2>1, LatestOfNone
    <3>2. LinesOf(g, i) = {}
      BY <1>2, <3>1
    <3>. QED  BY <2>1, <3>2, LatestOfNone
  <2>2. CASE LinesOf(f, i) # {}
    <3>1. i \in Present(f)
      BY <2>2 DEF Present
    <3>2. PICK n \in DOMAIN g : g[n] = Last(f, i) /\ LinesOf(g, i) = {n}
      BY <3>1 DEF IsCompactionOf
    <3>3. n \in Nat
      BY <1>1, <3>2, LineFields
    <3>4. IsLast(n, {n})
      BY <3>3 DEF IsLast
    <3>5. IsLast(n, LinesOf(g, i))
      BY <3>2, <3>4
    <3>6. latest(g)[i] = g[n].version
      BY <1>1, <3>5, LastIs
    <3>. QED  BY <3>1, <3>2, <3>6 DEF latest
  <2>. QED  BY <2>1, <2>2
<1>4. latest(g) \in [Ids -> Nat] /\ latest(f) \in [Ids -> Nat]
  BY <1>1, LatestType
<1>. QED  BY <1>1, <1>2, <1>3, <1>4

LEMMA CompactionsAreSnapshots ==
    ASSUME NEW f \in Lines, NEW g \in Compactions(f)
    PROVE  g \in Seq(Snapshot)
<1>1. ASSUME NEW i \in Present(f) PROVE Last(f, i) \in Snapshot
  <2>1. i \in Ids /\ LinesOf(f, i) # {}
    BY DEF Present
  <2>2. PICK n : IsLast(n, LinesOf(f, i))
    BY <2>1, LastLineExists
  <2>. QED  BY <2>1, <2>2, LastIs, LineFields DEF IsLast
<1>2. PICK n \in 0 .. Len(f) : g \in [1 .. n -> {Last(f, i) : i \in Present(f)}]
  BY DEF Compactions
<1>3. n \in Nat
  BY <1>2, LenProperties DEF Lines
<1>4. g \in [1 .. n -> Snapshot]
  BY <1>1, <1>2
<1>. QED  BY <1>3, <1>4
-------------------------------------------------------------------------------
(* Nothing is invented *)

\* StaleNeverInvented of any file and any attempts.
Sane(f, tried) ==
    \A i \in Ids : \A m, n \in LinesOf(f, i) :
        f[n].version <= tried[i] /\ (m < n => f[m].version < f[n].version)

LEMMA SaneIsOrdered ==
    ASSUME NEW f \in Lines, NEW tried, Sane(f, tried)
    PROVE  Ordered(f)
BY DEF Sane, Ordered

LEMMA SaneLater ==
    ASSUME NEW f \in Lines, NEW g \in Lines,
           NEW tried \in [Ids -> Nat], NEW later \in [Ids -> Nat], Sane(f, tried),
           \A i \in Ids : /\ LinesOf(g, i) \subseteq LinesOf(f, i)
                          /\ \A n \in LinesOf(g, i) : g[n] = f[n]
                          /\ tried[i] <= later[i]
    PROVE  Sane(g, later)
<1>. SUFFICES ASSUME NEW i \in Ids, NEW m \in LinesOf(g, i), NEW n \in LinesOf(g, i)
              PROVE  /\ g[n].version <= later[i]
                     /\ m < n => g[m].version < g[n].version
  BY DEF Sane
<1>1. m \in LinesOf(f, i) /\ n \in LinesOf(f, i) /\ g[m] = f[m] /\ g[n] = f[n]
  OBVIOUS
<1>2. f[n].version <= tried[i] /\ (m < n => f[m].version < f[n].version)
  BY <1>1 DEF Sane
<1>3. f[n].version \in Nat /\ tried[i] \in Nat /\ later[i] \in Nat
  BY <1>1, LineFields
<1>. QED  BY <1>1, <1>2, <1>3

LEMMA SaneAppend ==
    ASSUME NEW f \in Lines, NEW tried \in [Ids -> Nat], Sane(f, tried),
           NEW s \in Snapshot, s.version = tried[s.id] + 1
    PROVE  Sane(Append(f, s), [tried EXCEPT ![s.id] = @ + 1])
<1>. DEFINE g == Append(f, s)
            later == [tried EXCEPT ![s.id] = @ + 1]
<1>1. /\ g \in Lines /\ s # Damaged /\ s.id \in Ids /\ s.version \in Nat
      /\ g[Len(f) + 1] = s /\ later \in [Ids -> Nat]
      /\ \A i \in Ids : later[i] = IF i = s.id THEN tried[i] + 1 ELSE tried[i]
  BY AppendLine, SnapshotFields
<1>2. ASSUME NEW i \in Ids
      PROVE  /\ \A n \in LinesOf(g, i) : n \in LinesOf(f, i) \/ (i = s.id /\ n = Len(f) + 1)
             /\ \A n \in LinesOf(f, i) :
                   g[n] = f[n] /\ n <= Len(f) /\ n \in Nat /\ f[n].version \in Nat
  BY LinesOfAppend, AppendLine, LineFields
<1>. HIDE DEF g, later
<1>. SUFFICES ASSUME NEW i \in Ids, NEW m \in LinesOf(g, i), NEW n \in LinesOf(g, i)
              PROVE  /\ g[n].version <= later[i]
                     /\ m < n => g[m].version < g[n].version
  BY DEF Sane, g, later
<1>3. Len(f) \in Nat
  BY AppendLine
<1>4. CASE n \in LinesOf(f, i)
  <2>1. n <= Len(f) /\ g[n] = f[n] /\ f[n].version <= tried[i] /\ f[n].version \in Nat
    BY <1>2, <1>4 DEF Sane
  <2>2. m < n => m \in LinesOf(f, i)
    BY <1>2, <1>3, <1>4
  <2>3. m < n => g[m] = f[m] /\ f[m].version < f[n].version
    BY <1>2, <1>4, <2>2 DEF Sane
  <2>. QED  BY <1>1, <2>1, <2>3
<1>5. CASE i = s.id /\ n = Len(f) + 1
  <2>4. g[n] = s
    BY <1>1, <1>5
  <2>1. g[n].version = tried[i] + 1 /\ later[i] = tried[i] + 1 /\ tried[i] \in Nat
    BY <1>1, <1>5, <2>4
  <2>2. ASSUME m < n PROVE m \in LinesOf(f, i)
    <3>1. m # Len(f) + 1
      BY <1>3, <1>5, <2>2
    <3>. QED  BY <1>2, <3>1
  <2>3. m < n => g[m] = f[m] /\ f[m].version <= tried[i] /\ f[m].version \in Nat
    BY <1>2, <2>2 DEF Sane
  <2>. QED  BY <2>1, <2>3
<1>. QED  BY <1>2, <1>4, <1>5

LEMMA Types ==
    ASSUME IInv
    PROVE  /\ file \in Lines /\ open \in BOOLEAN /\ (open => file # <<>>)
           /\ attempted \in [Ids -> Nat] /\ acked \in [Ids -> Nat] /\ tears \in Nat
           /\ \A i \in Ids : attempted[i] <= MaxWrites /\ acked[i] <= attempted[i]
           /\ Sane(file, attempted) /\ Ordered(file)
<1>1. /\ file \in Lines /\ open \in BOOLEAN /\ (open => file # <<>>) /\ tears \in Nat
      /\ attempted \in [Ids -> 0 .. MaxWrites] /\ acked \in [Ids -> 0 .. MaxWrites]
      /\ \A i \in Ids : acked[i] <= attempted[i]
  BY DEF IInv, TypeOK, Lines
<1>2. attempted \in [Ids -> Nat] /\ acked \in [Ids -> Nat]
      /\ \A i \in Ids : attempted[i] <= MaxWrites
  BY <1>1, JournalAssumption
<1>3. Sane(file, attempted)
  BY DEF IInv, StaleNeverInvented, Sane
<1>. QED  BY <1>1, <1>2, <1>3, SaneIsOrdered

LEMMA AttemptCounts ==
    ASSUME IInv, NEW i \in Ids, Attempt(i)
    PROVE  /\ attempted' = [attempted EXCEPT ![i] = @ + 1]
           /\ attempted' \in [Ids -> Nat] /\ attempted' \in [Ids -> 0 .. MaxWrites]
           /\ attempted'[i] = attempted[i] + 1 /\ attempted[i] \in Nat
           /\ \A j \in Ids : attempted[j] <= attempted'[j]
           /\ NewLine(i) \in Snapshot /\ NewLine(i) # Damaged
           /\ NewLine(i).id = i /\ NewLine(i).version = attempted[i] + 1
<1>1. /\ attempted[i] < MaxWrites /\ attempted' = [attempted EXCEPT ![i] = @ + 1]
      /\ attempted \in [Ids -> Nat] /\ MaxWrites \in Nat
      /\ \A j \in Ids : attempted[j] <= MaxWrites
  BY Types, JournalAssumption DEF Attempt
<1>2. /\ attempted' \in [Ids -> Nat] /\ attempted'[i] = attempted[i] + 1
      /\ \A j \in Ids : attempted[j] <= attempted'[j] /\ attempted'[j] <= MaxWrites
  BY <1>1
<1>3. attempted' \in [Ids -> 0 .. MaxWrites]
  BY <1>1, <1>2
<1>4. attempted[i] + 1 \in 1 .. MaxWrites
  BY <1>1
<1>5. NewLine(i) \in Snapshot
  BY <1>4 DEF NewLine, Snapshot
<1>6. NewLine(i).id = i /\ NewLine(i).version = attempted[i] + 1
  BY DEF NewLine
<1>. QED  BY <1>1, <1>2, <1>3, <1>5, <1>6, SnapshotFields

\* A line that is written, whole or not, is the last one of its entity or is
\* swallowed by the gap.
LEMMA WrittenLine ==
    ASSUME IInv, NEW i \in Ids, Attempt(i),
           NEW line \in {Damaged, NewLine(i)}, file' = Written(line)
    PROVE  /\ file' \in Lines /\ file' # <<>> /\ Sane(file', attempted')
           /\ ~ open => file' = Append(file, line)
           /\ ~ open /\ line = NewLine(i) =>
                 latest(file') = [latest(file) EXCEPT ![i] = attempted[i] + 1]
           /\ ~ open /\ line = Damaged => latest(file') = latest(file)
           /\ open => file' = Glued(file)
<1>1. /\ line \in Snapshot \cup {Damaged}
      /\ file \in Lines /\ Sane(file, attempted) /\ attempted \in [Ids -> Nat]
      /\ (open => file # <<>>) /\ open \in BOOLEAN
  BY Types, AttemptCounts
<1>2. CASE open
  <2>1. file' = Glued(file) /\ file # <<>>
    BY <1>1, <1>2 DEF Written, Glued
  <2>2. /\ Glued(file) \in Lines /\ Glued(file) # <<>>
        /\ \A j \in Ids : /\ LinesOf(Glued(file), j) \subseteq LinesOf(file, j)
                          /\ \A n \in LinesOf(Glued(file), j) : Glued(file)[n] = file[n]
    BY <1>1, <2>1, GluedLine, LineFields
  <2>3. Sane(Glued(file), attempted')
    BY <1>1, <2>2, AttemptCounts, SaneLater
  <2>. QED  BY <1>2, <2>1, <2>2, <2>3
<1>3. CASE ~ open /\ line = NewLine(i)
  <2>1. file' = Append(file, NewLine(i)) /\ NewLine(i) \in Snapshot
    BY <1>3, AttemptCounts DEF Written
  <2>2. file' \in Lines /\ file' # <<>>
    BY <1>1, <2>1, AppendProperties DEF Lines
  <2>3. latest(file') = [latest(file) EXCEPT ![i] = attempted[i] + 1]
    BY <1>1, <2>1, LatestOfAppend, AttemptCounts
  <2>4. Sane(file', attempted')
    <3>. DEFINE s == NewLine(i)
    <3>1. s \in Snapshot /\ s.id = i /\ s.version = attempted[i] + 1
      BY AttemptCounts
    <3>2. attempted' = [attempted EXCEPT ![s.id] = @ + 1] /\ file' = Append(file, s)
      BY <2>1, <3>1, AttemptCounts
    <3>. HIDE DEF s
    <3>3. s.version = attempted[s.id] + 1
      BY <3>1
    <3>. QED  BY <1>1, <3>1, <3>2, <3>3, SaneAppend
  <2>. QED  BY <1>3, <2>1, <2>2, <2>3, <2>4, AttemptCounts
<1>4. CASE ~ open /\ line = Damaged
  <2>1. file' = Append(file, Damaged)
    BY <1>4 DEF Written
  <2>2. file' \in Lines /\ file' # <<>>
    BY <1>1, <1>4, <2>1, AppendProperties DEF Lines
  <2>3. \A j \in Ids : /\ LinesOf(file', j) = LinesOf(file, j)
                       /\ \A n \in LinesOf(file, j) : file'[n] = file[n]
    BY <1>1, <2>1, LinesOfAppend, AppendLine, LineFields
  <2>4. Sane(file', attempted')
    BY <1>1, <2>2, <2>3, AttemptCounts, SaneLater
  <2>. QED  BY <1>1, <1>4, <2>1, <2>2, <2>4, LatestOfDamage, AttemptCounts
<1>. QED  BY <1>2, <1>3, <1>4
LEMMA RestoredWasTried ==
    ASSUME IInv, NEW i \in Ids
    PROVE  latest(file)[i] <= attempted[i]
<1>1. file \in Lines /\ Sane(file, attempted) /\ attempted[i] \in Nat
  BY Types
<1>2. CASE LinesOf(file, i) = {}
  BY <1>1, <1>2, LatestOfNone
<1>3. CASE LinesOf(file, i) # {}
  <2>1. PICK n : IsLast(n, LinesOf(file, i))
    BY <1>1, <1>3, LastLineExists
  <2>2. latest(file)[i] = file[n].version /\ n \in LinesOf(file, i)
    BY <1>1, <2>1, LastIs DEF IsLast
  <2>. QED  BY <1>1, <2>2 DEF Sane
<1>. QED  BY <1>2, <1>3
-------------------------------------------------------------------------------
(* Losses are paid for by tears *)

LEMMA LostIsFinite ==
    /\ IsFiniteSet(Lost) /\ Cardinality(Lost) \in Nat
    /\ IsFiniteSet(Lost') /\ Cardinality(Lost') \in Nat
<1>1. Lost \in SUBSET Ids /\ Lost' \in SUBSET Ids
  BY DEF Lost
<1>. QED  BY <1>1, FS_Subset, FS_CardinalityType, JournalAssumption

LEMMA NoNewLoss ==
    ASSUME Lost' \subseteq Lost
    PROVE  Cardinality(Lost') <= Cardinality(Lost)
BY LostIsFinite, FS_Subset

LEMMA OneMoreLoss ==
    ASSUME NEW i \in Ids, Lost' \subseteq Lost \cup {i}
    PROVE  Cardinality(Lost') <= Cardinality(Lost) + 1
<1>. DEFINE more == Lost \cup {i}
<1>0. /\ IsFiniteSet(more)
      /\ Cardinality(more) = IF i \in Lost THEN Cardinality(Lost) ELSE Cardinality(Lost) + 1
  BY LostIsFinite, FS_AddElement
<1>1. IsFiniteSet(more) /\ Cardinality(more) <= Cardinality(Lost) + 1
  BY <1>0, LostIsFinite
<1>2. Cardinality(Lost') <= Cardinality(more)
  BY <1>1, FS_Subset
<1>3. Cardinality(more) \in Nat
  BY <1>1, FS_CardinalityType
<1>. HIDE DEF more
<1>. QED  BY <1>1, <1>2, <1>3, LostIsFinite

LEMMA SolidLines ==
    ASSUME IInv
    PROVE  /\ Solid \in Lines /\ latest(Solid) \in [Ids -> Nat]
           /\ latest(file) \in [Ids -> Nat]
           /\ \A i \in Ids : latest(Solid)[i] <= latest(file)[i]
<1>1. /\ file \in Lines /\ Ordered(file) /\ (open => file # <<>>)
      /\ latest(file) \in [Ids -> Nat]
  BY Types, LatestType
<1>2. CASE open
  <2>1. Solid = Glued(file) /\ Glued(file) \in Lines /\ file # <<>>
    BY <1>1, <1>2, GluedLine DEF Solid
  <2>2. \A i \in Ids : latest(Glued(file))[i] \in 0 .. latest(file)[i]
    BY <1>1, <2>1, LatestOfGlued
  <2>3. latest(Glued(file)) \in [Ids -> Nat]
    BY <2>1, LatestType
  <2>. QED  BY <1>1, <2>1, <2>2, <2>3
<1>3. CASE ~ open
  <2>1. Solid = file
    BY <1>3 DEF Solid
  <2>. QED  BY <1>1, <2>1
<1>. QED  BY <1>2, <1>3

\* Nothing of a line that is torn is sure to survive, all before it is.
LEMMA SolidAfterTear ==
    ASSUME IInv, NEW i \in Ids, Attempt(i), open' = TRUE,
           NEW line \in {Damaged, NewLine(i)}, file' = Written(line)
    PROVE  latest(Solid') = latest(Solid)
<1>1. /\ file' \in Lines /\ file' # <<>> /\ Solid' = Glued(file')
      /\ file \in Lines /\ (open => file # <<>>) /\ open \in BOOLEAN
      /\ line \in Snapshot \cup {Damaged}
  BY WrittenLine, Types, AttemptCounts DEF Solid
<1>2. /\ Solid \in Lines /\ Solid' \in Lines /\ Len(file) \in Nat
      /\ Len(file') \in Nat
  BY <1>1, SolidLines, GluedLine, LenProperties DEF Lines
<1>3. ASSUME NEW j \in Ids
      PROVE  /\ LinesOf(Solid', j) = LinesOf(Solid, j)
             /\ \A n \in LinesOf(Solid, j) : Solid'[n] = Solid[n]
  <2>1. CASE open
    <3>1. Solid = Glued(file) /\ file' = Glued(file) /\ file # <<>>
      BY <1>1, <2>1, WrittenLine DEF Solid
    <3>2. /\ LinesOf(Solid', j) = LinesOf(file', j) \ {Len(file')}
          /\ LinesOf(file', j) = LinesOf(file, j) \ {Len(file)}
          /\ Len(file') = Len(file)
      BY <1>1, <3>1, GluedLine
    <3>3. LinesOf(Solid', j) = LinesOf(Solid, j)
      BY <3>1, <3>2
    <3>4. ASSUME NEW n \in LinesOf(Solid, j) PROVE Solid'[n] = Solid[n]
      <4>1. n \in DOMAIN file' /\ n # Len(file')
        BY <1>2, <3>1, <3>2, <3>4, LineFields
      <4>2. Glued(file')[n] = file'[n]
        BY <1>1, <4>1, GluedLine
      <4>. QED  BY <1>1, <3>1, <4>2
    <3>. QED  BY <3>3, <3>4
  <2>2. CASE ~ open
    <3>1. Solid = file /\ file' = Append(file, line)
      BY <1>1, <2>2, WrittenLine DEF Solid
    <3>2. /\ LinesOf(Solid', j) = LinesOf(file', j) \ {Len(file')}
          /\ Len(file') = Len(file) + 1 /\ DOMAIN file' = 1 .. Len(file) + 1
      BY <1>1, <3>1, GluedLine, AppendLine
    <3>3. LinesOf(file', j) \ {Len(file')} = LinesOf(file, j)
      <4>1. Len(file) + 1 \notin LinesOf(file, j)
        BY <1>1, <1>2, LineFields
      <4>. QED  BY <1>1, <3>1, <3>2, <4>1, LinesOfAppend
    <3>4. ASSUME NEW n \in LinesOf(file, j) PROVE Glued(file')[n] = file[n]
      <4>1. n \in DOMAIN file /\ n \in DOMAIN file' /\ n # Len(file')
        BY <1>1, <1>2, <3>2, LineFields
      <4>2. Glued(file')[n] = file'[n]
        BY <1>1, <4>1, GluedLine
      <4>3. Append(file, line)[n] = file[n]
        BY <1>1, <4>1, AppendLine
      <4>. QED  BY <3>1, <4>2, <4>3
    <3>. QED  BY <1>1, <3>1, <3>2, <3>3, <3>4
  <2>. QED  BY <1>1, <2>1, <2>2
<1>4. \A j \in Ids : latest(Solid')[j] = latest(Solid)[j]
  BY <1>2, <1>3, SameLines
<1>5. latest(Solid') \in [Ids -> Nat] /\ latest(Solid) \in [Ids -> Nat]
  BY <1>2, LatestType
<1>. QED  BY <1>4, <1>5

LEMMA SolidType ==
    ASSUME IInv, file' \in Lines, open' => file' # <<>>
    PROVE  latest(Solid') \in [Ids -> Nat]
<1>1. CASE open'
  <2>1. Glued(file') \in Lines
    BY <1>1, GluedLine
  <2>. QED  BY <1>1, <2>1, LatestType DEF Solid
<1>2. CASE ~ open'
  BY <1>2, LatestType DEF Solid
<1>. QED  BY <1>1, <1>2

\* The gap that a returned append closes costs one snapshot at most.
LEMMA AppendIsPaidFor ==
    ASSUME IInv, NEW i \in Ids, append(i)
    PROVE  LossesArePaidFor'
<1>1. /\ Attempt(i) /\ file' = Written(NewLine(i)) /\ open' = FALSE /\ tears' = tears
      /\ acked' = [acked EXCEPT ![i] = attempted[i] + 1]
      /\ NewLine(i) \in {Damaged, NewLine(i)}
  BY DEF append
<1>2. /\ attempted[i] \in Nat /\ acked \in [Ids -> Nat] /\ tears \in Nat
      /\ open \in BOOLEAN /\ Solid' = file'
  BY <1>1, Types DEF Solid
<1>3. LossesArePaidFor
  BY DEF IInv
<1>4. CASE open
  <2>1. Solid' = Solid
    BY <1>1, <1>2, <1>4, WrittenLine DEF Solid
  <2>2. Lost' \subseteq Lost \cup {i}
    BY <1>1, <1>2, <2>1 DEF Lost
  <2>3. Cardinality(Lost') <= Cardinality(Lost) + 1
    BY <2>2, OneMoreLoss
  <2>4. Cardinality(Lost) + 1 <= tears
    BY <1>3, <1>4 DEF LossesArePaidFor
  <2>5. Cardinality(Lost') + 0 <= tears
    BY <1>2, <2>3, <2>4, LostIsFinite
  <2>. QED  BY <1>1, <2>5 DEF LossesArePaidFor
<1>5. CASE ~ open
  <2>1. latest(Solid') = [latest(Solid) EXCEPT ![i] = attempted[i] + 1]
    BY <1>1, <1>2, <1>5, WrittenLine DEF Solid
  <2>2. latest(Solid) \in [Ids -> Nat]
    BY SolidLines
  <2>3. ASSUME NEW j \in Ids, latest(Solid')[j] < acked'[j]
        PROVE  latest(Solid)[j] < acked[j]
    BY <1>1, <1>2, <2>1, <2>2, <2>3
  <2>4. Lost' \subseteq Lost
    BY <2>3 DEF Lost
  <2>5. Cardinality(Lost') <= Cardinality(Lost)
    BY <2>4, NoNewLoss
  <2>6. Cardinality(Lost) + 0 <= tears
    BY <1>3, <1>5 DEF LossesArePaidFor
  <2>7. Cardinality(Lost') + 0 <= tears
    BY <1>2, <2>5, <2>6, LostIsFinite
  <2>. QED  BY <1>1, <2>7 DEF LossesArePaidFor
<1>. QED  BY <1>2, <1>4, <1>5

\* No other step loses anything, and only a tear opens a gap.
LEMMA OthersLoseNothing ==
    ASSUME IInv, file' \in Lines, open' => file' # <<>>, acked' = acked,
           \A i \in Ids : latest(Solid)[i] <= latest(Solid')[i],
           open' \in BOOLEAN, tears' \in Nat,
           tears' >= tears + (IF open' /\ ~ open THEN 1 ELSE 0)
    PROVE  LossesArePaidFor'
<1>1. /\ latest(Solid) \in [Ids -> Nat] /\ latest(Solid') \in [Ids -> Nat]
      /\ acked \in [Ids -> Nat] /\ tears \in Nat /\ open \in BOOLEAN
  BY SolidLines, SolidType, Types
<1>2. ASSUME NEW j \in Ids, latest(Solid')[j] < acked'[j]
      PROVE  latest(Solid)[j] < acked[j]
  BY <1>1, <1>2
<1>3. Lost' \subseteq Lost
  BY <1>2 DEF Lost
<1>4. Cardinality(Lost') <= Cardinality(Lost)
  BY <1>3, NoNewLoss
<1>5. Cardinality(Lost) + (IF open THEN 1 ELSE 0) <= tears
  BY DEF IInv, LossesArePaidFor
<1>6. Cardinality(Lost') + (IF open' THEN 1 ELSE 0) <= tears'
  BY <1>1, <1>4, <1>5, LostIsFinite
<1>. QED  BY <1>6 DEF LossesArePaidFor
-------------------------------------------------------------------------------
(* The steps *)

LEMMA InitIInv == Init => IInv
<1>. SUFFICES ASSUME Init PROVE IInv
  OBVIOUS
<1>1. \A i \in Ids : LinesOf(<<>>, i) = {}
  BY DEF LinesOf
<1>2. TypeOK
  <2>1. /\ file \in Seq(Snapshot \cup {Damaged}) /\ open \in BOOLEAN
        /\ tmp = NoFile /\ tears \in Nat
    <3>1. <<>> \in Seq(Snapshot \cup {Damaged})
      BY EmptySeq
    <3>. QED  BY <3>1 DEF Init
  <2>2. /\ attempted \in [Ids -> 0 .. MaxWrites] /\ acked \in [Ids -> 0 .. MaxWrites]
    BY JournalAssumption DEF Init
  <2>. QED  BY <2>1, <2>2 DEF TypeOK
<1>3. StaleNeverInvented
  BY <1>1 DEF Init, StaleNeverInvented
<1>4. LossesArePaidFor
  <2>1. Lost = {}
    <3>1. /\ file \in Lines /\ acked \in [Ids -> {0}] /\ Solid = file
      BY DEF Init, Solid, Lines
    <3>2. latest(file) \in [Ids -> Nat]
      BY <3>1, LatestType
    <3>. QED  BY <3>1, <3>2 DEF Lost
  <2>. QED  BY <2>1, FS_EmptySet DEF Init, LossesArePaidFor
<1>5. open = FALSE /\ tmp = NoFile /\ \A i \in Ids : acked[i] <= attempted[i]
  BY DEF Init
<1>. QED  BY <1>2, <1>3, <1>4, <1>5 DEF IInv

\* What every append keeps, returned or not.
LEMMA AppendKeeps ==
    ASSUME IInv, NEW i \in Ids, Attempt(i), open' \in BOOLEAN, tears' \in Nat,
           \/ acked' = acked
           \/ acked' = [acked EXCEPT ![i] = attempted[i] + 1],
           \/ UNCHANGED <<file, open>>
           \/ \E line \in {Damaged, NewLine(i)} : file' = Written(line),
           LossesArePaidFor'
    PROVE  IInv'
<1>1. file' \in Lines /\ Sane(file', attempted') /\ (open' => file' # <<>>)
  <2>1. CASE UNCHANGED <<file, open>>
    <3>1. \A j \in Ids : /\ LinesOf(file', j) \subseteq LinesOf(file, j)
                         /\ \A n \in LinesOf(file', j) : file'[n] = file[n]
      BY <2>1
    <3>2. file' \in Lines
      BY <2>1, Types
    <3>3. Sane(file', attempted')
      <4>1. /\ attempted \in [Ids -> Nat] /\ attempted' \in [Ids -> Nat]
            /\ \A j \in Ids : attempted[j] <= attempted'[j]
            /\ file \in Lines /\ Sane(file, attempted)
        BY Types, AttemptCounts
      <4>2. Sane(file, attempted')
        BY <4>1, SaneLater
      <4>. QED  BY <2>1, <4>2
    <3>. QED  BY <2>1, <3>2, <3>3, Types
  <2>2. CASE \E line \in {Damaged, NewLine(i)} : file' = Written(line)
    BY <2>2, WrittenLine
  <2>. QED  BY <2>1, <2>2
<1>2. tmp' = NoFile
  BY DEF Attempt
<1>3. /\ acked' \in [Ids -> 0 .. MaxWrites] /\ \A j \in Ids : acked'[j] <= attempted'[j]
  <2>1. /\ acked \in [Ids -> 0 .. MaxWrites] /\ attempted' \in [Ids -> 0 .. MaxWrites]
        /\ attempted' \in [Ids -> Nat] /\ acked \in [Ids -> Nat] /\ attempted \in [Ids -> Nat]
        /\ attempted'[i] = attempted[i] + 1
        /\ \A j \in Ids : attempted[j] <= attempted'[j] /\ acked[j] <= attempted[j]
    BY Types, AttemptCounts DEF IInv, TypeOK
  <2>2. attempted[i] + 1 \in 0 .. MaxWrites
    BY <2>1
  <2>. QED  BY <2>1, <2>2
<1>4. TypeOK'
  BY <1>1, <1>2, <1>3, AttemptCounts DEF TypeOK, Lines
<1>5. StaleNeverInvented'
  BY <1>1 DEF Sane, StaleNeverInvented
<1>. QED  BY <1>1, <1>2, <1>3, <1>4, <1>5 DEF IInv

LEMMA StepAppend ==
    ASSUME IInv, NEW i \in Ids, append(i)
    PROVE  IInv'
<1>1. /\ Attempt(i) /\ open' \in BOOLEAN /\ tears' \in Nat
      /\ acked' = [acked EXCEPT ![i] = attempted[i] + 1]
      /\ \E line \in {Damaged, NewLine(i)} : file' = Written(line)
  BY Types DEF append
<1>. QED  BY <1>1, AppendIsPaidFor, AppendKeeps

LEMMA StepAppendInterrupted ==
    ASSUME IInv, NEW i \in Ids, AppendInterrupted(i)
    PROVE  IInv'
<1>1. /\ Attempt(i) /\ acked' = acked /\ tears' = tears /\ tears \in Nat
      /\ \/ UNCHANGED <<file, open>>
         \/ file' = Written(NewLine(i)) /\ open' = FALSE
  BY Types DEF AppendInterrupted
<1>2. LossesArePaidFor'
  <2>1. CASE UNCHANGED <<file, open>>
    <3>1. Solid' = Solid
      BY <2>1 DEF Solid
    <3>2. Lost' = Lost
      BY <1>1, <3>1 DEF Lost
    <3>. QED  BY <1>1, <2>1, <3>2 DEF LossesArePaidFor, IInv
  <2>2. CASE file' = Written(NewLine(i)) /\ open' = FALSE
    <3>1. NewLine(i) \in {Damaged, NewLine(i)}
      OBVIOUS
    <3>2. /\ file' \in Lines /\ file' # <<>> /\ Solid' = file'
      BY <1>1, <2>2, <3>1, WrittenLine DEF Solid
    <3>3. \A j \in Ids : latest(Solid)[j] <= latest(Solid')[j]
      <4>1. CASE open
        <5>1. Solid' = Solid
          BY <1>1, <2>2, <3>1, <3>2, <4>1, WrittenLine DEF Solid
        <5>2. latest(Solid) \in [Ids -> Nat]
          BY SolidLines
        <5>. QED  BY <5>1, <5>2
      <4>2. CASE ~ open
        <5>1. latest(Solid') = [latest(Solid) EXCEPT ![i] = attempted[i] + 1]
          BY <1>1, <2>2, <3>1, <3>2, <4>2, WrittenLine DEF Solid
        <5>2. latest(Solid)[i] <= attempted[i]
          <6>1. Solid = file
            BY <4>2 DEF Solid
          <6>. QED  BY <6>1, RestoredWasTried
        <5>3. latest(Solid) \in [Ids -> Nat] /\ attempted[i] \in Nat
          BY SolidLines, Types
        <5>. QED  BY <5>1, <5>2, <5>3
      <4>. QED  BY <4>1, <4>2
    <3>4. tears' >= tears + (IF open' /\ ~ open THEN 1 ELSE 0)
      BY <1>1, <2>2
    <3>5. acked' = acked /\ open' \in BOOLEAN /\ tears' \in Nat
      BY <1>1, <2>2
    <3>. QED  BY <3>2, <3>3, <3>4, <3>5, OthersLoseNothing
  <2>. QED  BY <1>1, <2>1, <2>2
<1>3. /\ open' \in BOOLEAN
      /\ \/ UNCHANGED <<file, open>>
         \/ \E line \in {Damaged, NewLine(i)} : file' = Written(line)
  BY <1>1, Types
<1>. QED  BY <1>1, <1>2, <1>3, AppendKeeps

LEMMA StepAppendTorn ==
    ASSUME IInv, NEW i \in Ids, AppendTorn(i)
    PROVE  IInv'
<1>1. /\ Attempt(i) /\ acked' = acked /\ tears' = tears + 1 /\ tears \in Nat
      /\ open' = TRUE /\ open \in BOOLEAN
  BY Types DEF AppendTorn
<1>2. PICK line \in {Damaged, NewLine(i)} : file' = Written(line)
  BY DEF AppendTorn
<1>3. file' \in Lines /\ file' # <<>> /\ latest(Solid') = latest(Solid)
  BY <1>1, <1>2, WrittenLine, SolidAfterTear
<1>4. \A j \in Ids : latest(Solid)[j] <= latest(Solid')[j]
  BY <1>3, SolidLines
<1>5. tears' >= tears + (IF open' /\ ~ open THEN 1 ELSE 0)
  BY <1>1
<1>6. open' \in BOOLEAN /\ tears' \in Nat
  BY <1>1
<1>7. LossesArePaidFor'
  BY <1>1, <1>3, <1>4, <1>5, <1>6, OthersLoseNothing
<1>. QED  BY <1>1, <1>2, <1>6, <1>7, AppendKeeps

LEMMA SameFileSameLosses ==
    ASSUME IInv, UNCHANGED <<file, open, attempted, acked, tears>>
    PROVE  /\ StaleNeverInvented' /\ LossesArePaidFor'
           /\ open' => file' # <<>> /\ \A j \in Ids : acked'[j] <= attempted'[j]
           /\ tmp' \in Seq(Snapshot) \cup {NoFile} => TypeOK'
<1>1. Solid' = Solid
  BY DEF Solid
<1>2. Lost' = Lost
  BY <1>1 DEF Lost
<1>3. LossesArePaidFor'
  BY <1>2 DEF IInv, LossesArePaidFor
<1>. QED  BY <1>3 DEF IInv, TypeOK, StaleNeverInvented

LEMMA StepStartCompaction ==
    ASSUME IInv, StartCompaction
    PROVE  IInv'
<1>1. PICK g \in Compactions(file) : IsCompactionOf(g, file) /\ tmp' = g
  BY DEF StartCompaction
<1>2. UNCHANGED <<file, open, attempted, acked, tears>>
  BY DEF StartCompaction
<1>3. tmp' \in Seq(Snapshot)
  BY <1>1, Types, CompactionsAreSnapshots
<1>4. IsCompactionOf(tmp', file')
  BY <1>1, <1>2
<1>. QED  BY <1>2, <1>3, <1>4, SameFileSameLosses DEF IInv

LEMMA StepCompactionInterrupted ==
    ASSUME IInv, CompactionInterrupted
    PROVE  IInv'
<1>1. UNCHANGED <<file, open, attempted, acked, tears>> /\ tmp' = NoFile
  BY DEF CompactionInterrupted
<1>. QED  BY <1>1, SameFileSameLosses DEF IInv

\* A compaction replaces the file by another that restores the same.
LEMMA FinishedCompaction ==
    ASSUME IInv, FinishCompaction
    PROVE  /\ file' \in Lines /\ latest(file') = latest(file)
           /\ Sane(file', attempted)
<1>1. /\ file' = tmp /\ tmp \in Seq(Snapshot) /\ IsCompactionOf(tmp, file)
      /\ file \in Lines /\ Sane(file, attempted)
  BY Types DEF FinishCompaction, IInv, TypeOK
<1>2. /\ tmp \in Lines /\ latest(tmp) = latest(file)
      /\ \A i \in Ids : \A n \in LinesOf(tmp, i) :
            LinesOf(tmp, i) = {n} /\ i \in Present(file) /\ tmp[n] = Last(file, i)
  BY <1>1, LatestOfCompaction
<1>3. ASSUME NEW i \in Ids, NEW m \in LinesOf(tmp, i), NEW n \in LinesOf(tmp, i)
      PROVE  /\ tmp[n].version <= attempted[i]
             /\ m < n => tmp[m].version < tmp[n].version
  <2>1. m = n /\ n \in Nat
    BY <1>2, LineFields
  <2>2. i \in Present(file) /\ tmp[n] = Last(file, i)
    BY <1>2
  <2>3. LinesOf(file, i) # {}
    BY <2>2 DEF Present
  <2>4. PICK p : IsLast(p, LinesOf(file, i))
    BY <1>1, <2>3, LastLineExists
  <2>5. Last(file, i) = file[p] /\ p \in LinesOf(file, i)
    BY <1>1, <2>4, LastIs DEF IsLast
  <2>6. file[p].version <= attempted[i]
    BY <1>1, <2>5 DEF Sane
  <2>. QED  BY <2>1, <2>2, <2>5, <2>6
<1>. QED  BY <1>1, <1>2, <1>3 DEF Sane

LEMMA StepFinishCompaction ==
    ASSUME IInv, FinishCompaction
    PROVE  IInv'
<1>1. /\ UNCHANGED <<attempted, acked, tears>> /\ open' = FALSE /\ tmp' = NoFile
      /\ tears \in Nat
  BY Types DEF FinishCompaction
<1>2. file' \in Lines /\ latest(file') = latest(file) /\ Sane(file', attempted)
  BY FinishedCompaction
<1>3. Solid' = file'
  BY <1>1 DEF Solid
<1>4. \A j \in Ids : latest(Solid)[j] <= latest(Solid')[j]
  BY <1>2, <1>3, SolidLines
<1>5. tears' >= tears + (IF open' /\ ~ open THEN 1 ELSE 0)
  BY <1>1
<1>6. open' \in BOOLEAN /\ tears' \in Nat
  BY <1>1
<1>7. LossesArePaidFor'
  BY <1>1, <1>2, <1>4, <1>5, <1>6, OthersLoseNothing
<1>8. TypeOK' /\ StaleNeverInvented' /\ \A j \in Ids : acked'[j] <= attempted'[j]
  BY <1>1, <1>2, <1>6 DEF IInv, TypeOK, Lines, StaleNeverInvented, Sane
<1>. QED  BY <1>1, <1>7, <1>8 DEF IInv

LEMMA StepIInv == IInv /\ [Next]_vars => IInv'
<1>. SUFFICES ASSUME IInv, [Next]_vars PROVE IInv'
  OBVIOUS
<1>1. CASE \E i \in Ids : append(i) \/ AppendInterrupted(i) \/ AppendTorn(i)
  BY <1>1, StepAppend, StepAppendInterrupted, StepAppendTorn
<1>2. CASE StartCompaction
  BY <1>2, StepStartCompaction
<1>3. CASE FinishCompaction
  BY <1>3, StepFinishCompaction
<1>4. CASE CompactionInterrupted
  BY <1>4, StepCompactionInterrupted
<1>5. CASE UNCHANGED vars
  BY <1>5, SameFileSameLosses DEF vars, IInv, TypeOK
<1>. QED  BY <1>1, <1>2, <1>3, <1>4, <1>5 DEF Next

LEMMA AlwaysIInv == Spec => []IInv
BY InitIInv, StepIInv, PTL DEF Spec
-------------------------------------------------------------------------------
(* The theorems *)

\* The file is readable lines and unreadable ones, whatever was torn or
\* glued; a compaction under way is snapshots only.
THEOREM TypeCorrect == Spec => []TypeOK
<1>1. IInv => TypeOK
  BY DEF IInv
<1>. QED  BY <1>1, AlwaysIInv, PTL

\* "Stale but never invented": the readable lines of an entity stay in the
\* order it wrote them, and nobody reads a snapshot nobody wrote.
THEOREM NothingIsInvented == Spec => []StaleNeverInvented
<1>1. IInv => StaleNeverInvented
  BY DEF IInv
<1>. QED  BY <1>1, AlwaysIInv, PTL

\* Acknowledged snapshots are lost to torn appends only: one tear, one loss.
THEOREM LossesAreBounded == Spec => []LossIsBoundedByTears
<1>1. ASSUME IInv PROVE LossIsBoundedByTears
  <2>. DEFINE gone == {i \in Ids : restored[i] < acked[i]}
  <2>1. /\ latest(Solid) \in [Ids -> Nat] /\ latest(file) \in [Ids -> Nat]
        /\ \A i \in Ids : latest(Solid)[i] <= latest(file)[i]
        /\ acked \in [Ids -> Nat] /\ tears \in Nat
    <3>1. acked \in [Ids -> Nat] /\ tears \in Nat
      BY <1>1, Types
    <3>. QED  BY <1>1, <3>1, SolidLines
  <2>2. gone \subseteq Lost
    BY <2>1 DEF restored, Lost
  <2>3. IsFiniteSet(gone) /\ Cardinality(gone) <= Cardinality(Lost)
    BY <2>2, LostIsFinite, FS_Subset
  <2>. HIDE DEF gone
  <2>4. Cardinality(gone) \in Nat
    BY <2>3, FS_CardinalityType
  <2>5. Cardinality(Lost) + (IF open THEN 1 ELSE 0) <= tears
    BY <1>1 DEF IInv, LossesArePaidFor
  <2>6. Cardinality(gone) <= tears
    BY <2>1, <2>3, <2>4, <2>5, LostIsFinite
  <2>. QED  BY <2>6 DEF gone, LossIsBoundedByTears
<1>. QED  BY <1>1, AlwaysIInv, PTL

\* Neither a compaction, finished or interrupted, nor an append changes what a
\* restart restores of an entity that did not append, except the one whose
\* unterminated line an append continues.
THEOREM OnlyAppendsChange == Spec => OnlyAppendsChangeState
<1>. DEFINE Explained ==
       \A i \in Ids : restored'[i] # restored[i] =>
            \/ attempted'[i] # attempted[i]
            \/ open /\ attempted' # attempted
<1>1. IInv /\ [Next]_vars => [Explained]_vars
  <2>. SUFFICES ASSUME IInv, Next PROVE Explained
    OBVIOUS
  <2>1. CASE UNCHANGED file \/ FinishCompaction
    <3>1. restored' = restored
      BY <2>1, FinishedCompaction DEF restored
    <3>. QED  BY <3>1
  <2>2. ASSUME NEW i \in Ids, Attempt(i),
               NEW line \in {Damaged, NewLine(i)}, file' = Written(line)
        PROVE  Explained
    <3>1. attempted'[i] # attempted[i] /\ attempted' # attempted
      BY <2>2, AttemptCounts
    <3>2. CASE ~ open
      <4>1. \/ restored' = [restored EXCEPT ![i] = attempted[i] + 1]
            \/ restored' = restored
        BY <2>2, <3>2, WrittenLine DEF restored
      <4>2. restored \in [Ids -> Nat]
        BY SolidLines DEF restored
      <4>3. \A j \in Ids : j # i => restored'[j] = restored[j]
        BY <4>1, <4>2
      <4>. QED  BY <3>1, <4>3
    <3>. QED  BY <3>1, <3>2
  <2>3. ASSUME NEW i \in Ids, append(i) \/ AppendInterrupted(i) \/ AppendTorn(i)
        PROVE  Explained
    <3>1. /\ Attempt(i)
          /\ UNCHANGED file \/ \E line \in {Damaged, NewLine(i)} : file' = Written(line)
      BY <2>3 DEF append, AppendInterrupted, AppendTorn
    <3>. HIDE DEF Explained
    <3>. QED  BY <2>1, <2>2, <3>1
  <2>4. CASE StartCompaction \/ CompactionInterrupted
    BY <2>1, <2>4 DEF StartCompaction, CompactionInterrupted
  <2>. HIDE DEF Explained
  <2>. QED  BY <2>1, <2>3, <2>4 DEF Next
<1>. QED  BY <1>1, AlwaysIInv, PTL DEF Spec, OnlyAppendsChangeState

\* An append that wrote its line did to the map what Appended says.
LEMMA WrittenLands ==
    ASSUME IInv, NEW i \in Ids, Attempt(i), file' = Written(NewLine(i)),
           open' = FALSE, tears' = tears
    PROVE  Store!Appended(i, attempted[i] + 1)
<1>1. NewLine(i) \in {Damaged, NewLine(i)} /\ open \in BOOLEAN /\ Solid' = file'
  BY Types DEF Solid
<1>2. CASE ~ open
  <2>1. restored' = [latest(Solid) EXCEPT ![i] = attempted[i] + 1]
    BY <1>1, <1>2, WrittenLine DEF restored, Solid
  <2>. QED  BY <1>1, <1>2, <2>1 DEF Store!Appended, restored
<1>3. CASE open
  <2>1. file' = Solid
    BY <1>1, <1>3, WrittenLine DEF Solid
  <2>. QED  BY <1>1, <1>3, <2>1 DEF Store!Appended, restored
<1>. QED  BY <1>1, <1>2, <1>3

\* An append that tore its line did to the map what AppendTorn says.
LEMMA TornLands ==
    ASSUME IInv, NEW i \in Ids, AppendTorn(i)
    PROVE  Store!AppendTorn(i, attempted[i] + 1)
<1>1. Attempt(i) /\ open' = TRUE /\ tears' = tears + 1 /\ open \in BOOLEAN
  BY Types DEF AppendTorn
<1>2. PICK line \in {Damaged, NewLine(i)} : file' = Written(line)
  BY DEF AppendTorn
<1>3. latest(Solid') = latest(Solid)
  BY <1>1, <1>2, SolidAfterTear
<1>4. CASE ~ open
  <2>1. \/ restored' = latest(Solid)
        \/ restored' = [latest(Solid) EXCEPT ![i] = attempted[i] + 1]
    BY <1>1, <1>2, <1>4, WrittenLine DEF restored, Solid
  <2>. QED  BY <1>1, <1>3, <1>4, <2>1 DEF Store!AppendTorn
<1>5. CASE open
  <2>1. file' = Solid
    BY <1>1, <1>2, <1>5, WrittenLine DEF Solid
  <2>. QED  BY <1>1, <1>3, <2>1 DEF Store!AppendTorn, restored
<1>. QED  BY <1>1, <1>4, <1>5

\* The journal with all its lines is, seen from a restart, the DurableMap.
THEOREM Refinement == Spec => ImplementsDurableMap
<1>1. Init => Store!Init
  <2>. SUFFICES ASSUME Init PROVE Store!Init
    OBVIOUS
  <2>1. \A i \in Ids : LinesOf(<<>>, i) = {}
    BY DEF LinesOf
  <2>2. restored = [i \in Ids |-> 0] /\ Solid = file
    BY <2>1 DEF Init, restored, latest, Present, Solid
  <2>. QED  BY <2>2 DEF Init, Store!Init, Store!Empty, restored
<1>2. IInv /\ [Next]_vars => [Store!Next]_(Store!mapVars)
  <2>. SUFFICES ASSUME IInv, [Next]_vars PROVE [Store!Next]_(Store!mapVars)
    OBVIOUS
  <2>1. CASE UNCHANGED <<file, open, attempted, acked, tears>>
    <3>1. restored' = restored /\ Solid' = Solid
      BY <2>1 DEF restored, Solid
    <3>2. latest(Solid)' = latest(Solid)
      BY <3>1
    <3>. QED  BY <2>1, <3>1, <3>2 DEF Store!mapVars, Store!store
  <2>2. ASSUME NEW i \in Ids, append(i)
        PROVE  Store!Next
    <3>1. /\ Attempt(i) /\ file' = Written(NewLine(i)) /\ open' = FALSE
          /\ tears' = tears
      BY <2>2 DEF append
    <3>2. Store!Appended(i, attempted[i] + 1) /\ Store!Attempt(i)
      BY <3>1, WrittenLands DEF Attempt, Store!Attempt
    <3>3. Store!Write(i)
      BY <2>2, <3>2 DEF append, Store!Write
    <3>. QED  BY <3>3 DEF Store!Next
  <2>3. ASSUME NEW i \in Ids, AppendInterrupted(i)
        PROVE  Store!Next
    <3>1. Attempt(i) /\ acked' = acked /\ tears' = tears
      BY <2>3 DEF AppendInterrupted
    <3>2. Store!AppendFails(i, attempted[i] + 1)
      <4>1. CASE UNCHANGED <<file, open>>
        <5>1. Solid' = Solid /\ restored' = restored
          BY <4>1 DEF Solid, restored
        <5>2. latest(Solid)' = latest(Solid)
          BY <5>1
        <5>. QED  BY <3>1, <4>1, <5>1, <5>2 DEF Store!AppendFails, Store!store
      <4>2. CASE file' = Written(NewLine(i)) /\ open' = FALSE
        BY <3>1, <4>2, WrittenLands DEF Store!AppendFails
      <4>. QED  BY <2>3, <4>1, <4>2 DEF AppendInterrupted
    <3>3. Store!WriteFails(i)
      BY <3>1, <3>2 DEF Store!WriteFails, Store!Attempt, Attempt
    <3>. QED  BY <3>3 DEF Store!Next
  <2>4. ASSUME NEW i \in Ids, AppendTorn(i)
        PROVE  Store!Next
    <3>1. Attempt(i) /\ acked' = acked
      BY <2>4 DEF AppendTorn
    <3>2. Store!AppendFails(i, attempted[i] + 1)
      BY <2>4, TornLands DEF Store!AppendFails
    <3>3. Store!WriteFails(i)
      BY <3>1, <3>2 DEF Store!WriteFails, Store!Attempt, Attempt
    <3>. QED  BY <3>3 DEF Store!Next
  <2>5. CASE FinishCompaction
    <3>1. /\ open' = FALSE /\ UNCHANGED <<tears, attempted, acked>>
          /\ latest(file') = latest(file)
      BY <2>5, FinishedCompaction DEF FinishCompaction
    <3>2. restored' = restored /\ Solid' = file'
      BY <3>1 DEF restored, Solid
    <3>3. latest(Solid)' = restored
      BY <3>1, <3>2 DEF restored
    <3>. QED  BY <3>1, <3>2, <3>3 DEF Store!Next, Store!Repair
  <2>6. CASE StartCompaction \/ CompactionInterrupted \/ UNCHANGED vars
    BY <2>1, <2>6 DEF StartCompaction, CompactionInterrupted, vars
  <2>. QED  BY <2>2, <2>3, <2>4, <2>5, <2>6 DEF Next
<1>. QED  BY <1>1, <1>2, AlwaysIInv, PTL DEF Spec, ImplementsDurableMap, Store!Spec
===============================================================================
