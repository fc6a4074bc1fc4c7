---------------------------- MODULE DetectionProofs ----------------------------
(***************************************************************************)
(* What detection says of an incident, for any traffic, any resolutions    *)
(* and any thresholds.                                                     *)
(*                                                                         *)
(* One problem is one cluster.  Signals are looked at in the order they    *)
(* start.  Whatever a new one meets was there at the moment it starts, so  *)
(* two groups it meets would have met each other at that moment: it can    *)
(* join the first group that fits because there is no second.              *)
(*                                                                         *)
(* Every incident is signalled.  Where the traffic is clear-cut, whatever  *)
(* baseline was learned by a bucket is a healthy rate: it is moved by      *)
(* healthy buckets only, and a mean of healthy rates is one.  Every        *)
(* healthy rate gives the same verdict on every bucket, so the open run is *)
(* the outage that is going on, from its first bucket; and what it cost is *)
(* between what it cost against the lowest and the highest healthy rate.   *)
(***************************************************************************)
EXTENDS Detection, TLAPS, NaturalsInduction, WellFoundedInduction, SequenceTheorems,
        FiniteSetTheorems

\* A sequence of whatever it holds.
IsList(s) == s \in Seq({s[n] : n \in DOMAIN s})

IsSignal(s) ==
    /\ s.resolution \in Nat /\ s.starts_at \in Nat /\ s.ends_at \in Nat
    /\ s.starts_at <= s.ends_at

Signals(list) == IsList(list) /\ \A n \in DOMAIN list : IsSignal(list[n])

\* The buckets of the open run are in their order, up to the one read next.
RunInOrder ==
    /\ IsList(breach_run)
    /\ \A n \in DOMAIN breach_run :
          breach_run[n].at \in Nat /\ breach_run[n].at <= cursor.bucket * Resolution.width
    /\ \A m, n \in DOMAIN breach_run : m <= n => breach_run[m].at <= breach_run[n].at

Shape ==
    /\ stage \in {"scan", "dedupe", "correlate", "detected"}
    /\ cursor \in [resolution : DOMAIN Resolutions, segment : Nat, bucket : Nat]
    /\ RunInOrder /\ Signals(found) /\ Signals(kept)
    /\ IsList(groups)
    /\ \A g \in DOMAIN groups : Signals(groups[g]) /\ groups[g] # <<>>

\* What has not been looked at yet.
Ahead ==
    /\ stage = "scan" => kept = <<>>
    /\ stage \in {"scan", "dedupe"} => groups = <<>>
    /\ stage = "dedupe" => todo \subseteq DOMAIN found
    /\ stage = "correlate" => todo \subseteq DOMAIN kept

\* Every signal that was looked at meets one that is kept for its segment.
Covered(looked_at) ==
    \A n \in looked_at : \E k \in DOMAIN kept :
        kept[k].segment = found[n].segment /\ _overlap(kept[k], found[n])

KeptApart ==
    \A k, l \in DOMAIN kept :
        k # l /\ kept[k].segment = kept[l].segment => ~ _overlap(kept[k], kept[l])

GroupsApart ==
    \A g, h \in DOMAIN groups :
        g # h /\ groups[g][1].dominant_decline = groups[h][1].dominant_decline =>
            \A m \in DOMAIN groups[g], n \in DOMAIN groups[h] :
                ~ _overlap(groups[g][m], groups[h][n])

\* Nothing grouped starts after what is still to be grouped.
InOrder ==
    \A g \in DOMAIN groups : \A m \in DOMAIN groups[g], n \in todo :
        groups[g][m].starts_at <= kept[n].starts_at

DInv ==
    /\ Shape /\ Ahead /\ KeptApart /\ GroupsApart
    /\ stage = "dedupe" => Covered(DOMAIN found \ todo)
    /\ stage \in {"correlate", "detected"} => Covered(DOMAIN found)
    /\ stage = "correlate" => InOrder
-------------------------------------------------------------------------------
(* Lists, and the least of them *)

LEMMA LeastNumber ==
    ASSUME NEW T \in SUBSET Nat, T # {}
    PROVE  \E t \in T : \A u \in T : t <= u
<1>. DEFINE R == OpToRel(<, Nat)
<1>1. \E t \in T : \A u \in T : ~ (<<u, t>> \in R)
  <2>1. IsWellFoundedOn(R, Nat)
    BY NatLessThanWellFounded
  <2>. HIDE DEF R
  <2>. QED  BY <2>1, WFMin
<1>2. \A t, u \in T : <<u, t>> \in R <=> u < t
  BY DEF OpToRel
<1>. HIDE DEF R
<1>3. PICK t \in T : \A u \in T : ~ (<<u, t>> \in R)
  BY <1>1
<1>4. \A u \in T : ~ (u < t)
  BY <1>2, <1>3
<1>. QED  BY <1>4

LEMMA ListFacts ==
    ASSUME NEW s, IsList(s)
    PROVE  Len(s) \in Nat /\ DOMAIN s = 1 .. Len(s) /\ (s = <<>> <=> Len(s) = 0)
BY DEF IsList

LEMMA ListIn ==
    ASSUME NEW s, IsList(s), NEW T, \A n \in DOMAIN s : s[n] \in T
    PROVE  s \in Seq(T)
<1>1. Len(s) \in Nat /\ DOMAIN s = 1 .. Len(s) /\ s \in [1 .. Len(s) -> {s[n] : n \in DOMAIN s}]
  BY DEF IsList
<1>2. s \in [1 .. Len(s) -> T]
  BY <1>1
<1>. QED  BY <1>1, <1>2, SeqDef

LEMMA SeqIsList ==
    ASSUME NEW T, NEW s \in Seq(T)
    PROVE  IsList(s)
<1>1. Len(s) \in Nat /\ DOMAIN s = 1 .. Len(s) /\ s \in [1 .. Len(s) -> T]
  OBVIOUS
<1>2. s \in [1 .. Len(s) -> {s[n] : n \in DOMAIN s}]
  BY <1>1
<1>3. s \in Seq({s[n] : n \in DOMAIN s})
  BY <1>1, <1>2, SeqDef
<1>. QED  BY <1>3 DEF IsList

LEMMA EmptyList == IsList(<<>>) /\ DOMAIN <<>> = {}
BY DEF IsList

LEMMA AppendList ==
    ASSUME NEW s, IsList(s), NEW x
    PROVE  LET t == Append(s, x)
           IN  /\ IsList(t) /\ t # <<>>
               /\ DOMAIN t = DOMAIN s \cup {Len(s) + 1} /\ Len(s) + 1 \notin DOMAIN s
               /\ \A n \in DOMAIN s : t[n] = s[n]
               /\ t[Len(s) + 1] = x
<1>. DEFINE T == {s[n] : n \in DOMAIN s} \cup {x}
<1>1. s \in Seq(T) /\ x \in T
  <2>1. \A n \in DOMAIN s : s[n] \in T
    OBVIOUS
  <2>. HIDE DEF T
  <2>2. s \in Seq(T)
    BY <2>1, ListIn
  <2>. QED  BY <2>2 DEF T
<1>. HIDE DEF T
<1>2. /\ Append(s, x) \in Seq(T) /\ Len(Append(s, x)) = Len(s) + 1 /\ Len(s) \in Nat
      /\ \A n \in 1 .. Len(s) : Append(s, x)[n] = s[n]
      /\ Append(s, x)[Len(s) + 1] = x /\ DOMAIN s = 1 .. Len(s)
      /\ DOMAIN Append(s, x) = 1 .. Len(Append(s, x))
  BY <1>1, AppendProperties
<1>3. IsList(Append(s, x))
  BY <1>2, SeqIsList
<1>4. 1 .. Len(s) + 1 = 1 .. Len(s) \cup {Len(s) + 1} /\ Len(s) + 1 \notin 1 .. Len(s)
  BY <1>2
<1>5. Append(s, x) # <<>>
  BY <1>2, <1>3, ListFacts
<1>. QED  BY <1>2, <1>3, <1>4, <1>5

LEMMA OneMore ==
    ASSUME NEW s, IsList(s), NEW x
    PROVE  s \o <<x>> = Append(s, x)
<1>. DEFINE T == {s[n] : n \in DOMAIN s} \cup {x}
<1>1. s \in Seq(T) /\ x \in T
  <2>1. \A n \in DOMAIN s : s[n] \in T
    OBVIOUS
  <2>. HIDE DEF T
  <2>2. s \in Seq(T)
    BY <2>1, ListIn
  <2>. QED  BY <2>2 DEF T
<1>. HIDE DEF T
<1>. QED  BY <1>1, AppendIsConcat

LEMMA NoMore ==
    ASSUME NEW s, IsList(s)
    PROVE  s \o <<>> = s
BY ConcatEmptySeq DEF IsList
-------------------------------------------------------------------------------
(* There is a foremost signal *)

LEMMA ForemostFound ==
    ASSUME Signals(found), todo \subseteq DOMAIN found, todo # {}
    PROVE  Foremost(todo, FinerOrEarlier) \in todo
<1>1. /\ todo \subseteq Nat
      /\ \A n \in todo : found[n].resolution \in Nat /\ found[n].starts_at \in Nat
  BY ListFacts DEF Signals, IsSignal
<1>. DEFINE R == {found[n].resolution : n \in todo}
<1>2. PICK r \in R : \A x \in R : r <= x
  BY <1>1, LeastNumber
<1>. DEFINE A == {n \in todo : found[n].resolution = r}
            S == {found[n].starts_at : n \in A}
<1>3. PICK s \in S : \A x \in S : s <= x
  BY <1>1, <1>2, LeastNumber
<1>. DEFINE B == {n \in A : found[n].starts_at = s}
<1>4. PICK n \in B : \A x \in B : n <= x
  <2>1. B \in SUBSET Nat /\ B # {}
    BY <1>1, <1>3
  <2>. HIDE DEF B
  <2>. QED  BY <2>1, LeastNumber
<1>5. n \in todo /\ found[n].resolution = r /\ found[n].starts_at = s
  BY <1>4
<1>6. \A m \in todo : /\ ~ FinerOrEarlier(m, n)
                      /\ FinerOrEarlier(n, m) \/ n <= m
  <2>1. ASSUME NEW m \in todo
        PROVE  ~ FinerOrEarlier(m, n) /\ (FinerOrEarlier(n, m) \/ n <= m)
    <3>1. r <= found[m].resolution
      BY <1>2
    <3>2. found[m].resolution = r => s <= found[m].starts_at
      BY <1>3
    <3>3. found[m].resolution = r /\ found[m].starts_at = s => n <= m
      BY <1>4
    <3>4. /\ found[m].resolution \in Nat /\ found[m].starts_at \in Nat
          /\ r \in Nat /\ s \in Nat /\ n \in Nat /\ m \in Nat
      BY <1>1, <1>5
    <3>. QED  BY <1>5, <3>1, <3>2, <3>3, <3>4 DEF FinerOrEarlier
  <2>. QED  BY <2>1
<1>. QED  BY <1>5, <1>6 DEF Foremost

LEMMA ForemostKept ==
    ASSUME Signals(kept), todo \subseteq DOMAIN kept, todo # {}
    PROVE  LET n == Foremost(todo, Earlier)
           IN  n \in todo /\ \A m \in todo : kept[n].starts_at <= kept[m].starts_at
<1>1. todo \subseteq Nat /\ \A n \in todo : kept[n].starts_at \in Nat
  BY ListFacts DEF Signals, IsSignal
<1>. DEFINE S == {kept[n].starts_at : n \in todo}
<1>2. PICK s \in S : \A x \in S : s <= x
  BY <1>1, LeastNumber
<1>. DEFINE B == {n \in todo : kept[n].starts_at = s}
<1>3. PICK n \in B : \A x \in B : n <= x
  <2>1. B \in SUBSET Nat /\ B # {}
    BY <1>1, <1>2
  <2>. HIDE DEF B
  <2>. QED  BY <2>1, LeastNumber
<1>4. n \in todo /\ kept[n].starts_at = s
  BY <1>3
<1>5. \A m \in todo : ~ Earlier(m, n) /\ (Earlier(n, m) \/ n <= m)
  <2>1. ASSUME NEW m \in todo
        PROVE  ~ Earlier(m, n) /\ (Earlier(n, m) \/ n <= m)
    <3>1. s <= kept[m].starts_at
      BY <1>2
    <3>2. kept[m].starts_at = s => n <= m
      BY <1>3
    <3>3. kept[m].starts_at \in Nat /\ s \in Nat /\ n \in Nat /\ m \in Nat
      BY <1>1, <1>4
    <3>. QED  BY <1>4, <3>1, <3>2, <3>3 DEF Earlier
  <2>. QED  BY <2>1
<1>. DEFINE f == Foremost(todo, Earlier)
<1>6. f \in todo /\ \A m \in todo : ~ Earlier(m, f)
  BY <1>4, <1>5 DEF Foremost
<1>. HIDE DEF f
<1>7. \A m \in todo : kept[f].starts_at <= kept[m].starts_at
  BY <1>1, <1>6 DEF Earlier
<1>. QED  BY <1>6, <1>7 DEF f
-------------------------------------------------------------------------------
(* The scan *)

LEMMA ResolutionFacts ==
    ASSUME Shape
    PROVE  /\ cursor.resolution \in DOMAIN Resolutions /\ cursor.resolution \in Nat
           /\ cursor.bucket \in Nat /\ Resolution.width \in Nat
           /\ cursor.bucket * Resolution.width \in Nat
           /\ (cursor.bucket + 1) * Resolution.width
                 = cursor.bucket * Resolution.width + Resolution.width
           /\ DOMAIN Resolutions = 1 .. Len(Resolutions) /\ Len(Resolutions) \in Nat
           /\ 1 \in DOMAIN Resolutions
<1>1. /\ cursor.resolution \in DOMAIN Resolutions /\ cursor.bucket \in Nat
      /\ DOMAIN Resolutions = 1 .. Len(Resolutions) /\ Len(Resolutions) \in Nat
  BY DetectionAssumption DEF Shape
<1>2. Resolution.width \in Nat
  <2>. DEFINE T == [width : Nat \ {0}, min_attempts : Nat \ {0},
                    sustained_buckets : Nat \ {0}]
  <2>1. Resolutions \in Seq(T)
    BY DetectionAssumption
  <2>2. \A x \in T : x.width \in Nat
    OBVIOUS
  <2>. HIDE DEF T
  <2>3. Resolution \in T
    BY <1>1, <2>1 DEF Resolution
  <2>. QED  BY <2>2, <2>3
<1>3. \A b, w \in Nat : b * w \in Nat /\ (b + 1) * w = b * w + w
  OBVIOUS
<1>4. cursor.resolution \in Nat /\ 1 \in DOMAIN Resolutions
  BY <1>1
<1>. HIDE DEF Resolution
<1>. QED  BY <1>1, <1>2, <1>3, <1>4

\* A bucket further on, the open run is as it was.
LEMMA RunStays ==
    ASSUME Shape, breach_run' = breach_run, Advance
    PROVE  RunInOrder' /\ cursor' \in [resolution : DOMAIN Resolutions, segment : Nat,
                                      bucket : Nat]
<1>1. /\ cursor' = [cursor EXCEPT !.bucket = @ + 1]
      /\ cursor \in [resolution : DOMAIN Resolutions, segment : Nat, bucket : Nat]
  BY DEF Shape, Advance
<1>2. /\ cursor' \in [resolution : DOMAIN Resolutions, segment : Nat, bucket : Nat]
      /\ cursor'.bucket = cursor.bucket + 1 /\ cursor'.resolution = cursor.resolution
  BY <1>1
<1>3. Resolution' = Resolution
  BY <1>2 DEF Resolution
<1>4. /\ cursor.bucket * Resolution.width \in Nat /\ Resolution.width \in Nat
      /\ cursor'.bucket * Resolution'.width
            = cursor.bucket * Resolution.width + Resolution.width
  BY <1>2, <1>3, ResolutionFacts
<1>. DEFINE here == cursor.bucket * Resolution.width
            there == cursor'.bucket * Resolution'.width
            w == Resolution.width
<1>5. here \in Nat /\ w \in Nat /\ there = here + w
  BY <1>4
<1>6. \A n \in DOMAIN breach_run : breach_run[n].at \in Nat /\ breach_run[n].at <= here
  BY DEF Shape, RunInOrder
<1>. HIDE DEF here, there, w
<1>7. \A n \in DOMAIN breach_run : breach_run[n].at \in Nat /\ breach_run[n].at <= there
  BY <1>5, <1>6
<1>8. RunInOrder'
  BY <1>7 DEF Shape, RunInOrder, there
<1>. QED  BY <1>2, <1>8

LEMMA RunGrows ==
    ASSUME Shape, breach_run' = Append(breach_run, Here), Advance
    PROVE  RunInOrder' /\ cursor' \in [resolution : DOMAIN Resolutions, segment : Nat,
                                      bucket : Nat]
<1>1. /\ cursor' = [cursor EXCEPT !.bucket = @ + 1]
      /\ cursor \in [resolution : DOMAIN Resolutions, segment : Nat, bucket : Nat]
  BY DEF Shape, Advance
<1>2. /\ cursor' \in [resolution : DOMAIN Resolutions, segment : Nat, bucket : Nat]
      /\ cursor'.bucket = cursor.bucket + 1 /\ cursor'.resolution = cursor.resolution
  BY <1>1
<1>3. Resolution' = Resolution
  BY <1>2 DEF Resolution
<1>4. /\ cursor.bucket * Resolution.width \in Nat /\ Resolution.width \in Nat
      /\ cursor'.bucket * Resolution'.width
            = cursor.bucket * Resolution.width + Resolution.width
  BY <1>2, <1>3, ResolutionFacts
<1>. DEFINE here == cursor.bucket * Resolution.width
            there == cursor'.bucket * Resolution'.width
            w == Resolution.width
            last == Len(breach_run) + 1
<1>5. here \in Nat /\ w \in Nat /\ there = here + w
  BY <1>4
<1>6. \A n \in DOMAIN breach_run : breach_run[n].at \in Nat /\ breach_run[n].at <= here
  BY DEF Shape, RunInOrder
<1>7. Here.at = here
  BY Zenon DEF Here, Bucket
<1>8. /\ IsList(breach_run) /\ Len(breach_run) \in Nat
      /\ DOMAIN breach_run = 1 .. Len(breach_run)
      /\ \A m, n \in DOMAIN breach_run : m <= n => breach_run[m].at <= breach_run[n].at
  BY ListFacts DEF Shape, RunInOrder
<1>. HIDE DEF here, there, w
<1>9. /\ IsList(breach_run') /\ DOMAIN breach_run' = DOMAIN breach_run \cup {last}
      /\ \A n \in DOMAIN breach_run : breach_run'[n] = breach_run[n]
      /\ breach_run'[last] = Here
  BY <1>8, AppendList
<1>10. \A n \in DOMAIN breach_run' : breach_run'[n].at \in Nat /\ breach_run'[n].at <= here
  BY <1>5, <1>6, <1>7, <1>9
<1>11. \A n \in DOMAIN breach_run' : breach_run'[n].at <= there
  BY <1>5, <1>10
<1>12. \A m, n \in DOMAIN breach_run' : m <= n => breach_run'[m].at <= breach_run'[n].at
  <2>1. ASSUME NEW m \in DOMAIN breach_run', NEW n \in DOMAIN breach_run', m <= n
        PROVE  breach_run'[m].at <= breach_run'[n].at
    <3>1. CASE n = last
      BY <1>7, <1>9, <1>10, <3>1
    <3>2. CASE n \in DOMAIN breach_run
      <4>1. m \in DOMAIN breach_run
        BY <1>8, <1>9, <2>1, <3>2
      <4>. QED  BY <1>8, <1>9, <2>1, <3>2, <4>1
    <3>. QED  BY <1>9, <3>1, <3>2
  <2>. QED  BY <2>1
<1>13. RunInOrder'
  BY <1>9, <1>10, <1>11, <1>12 DEF RunInOrder, there
<1>. QED  BY <1>2, <1>13

\* What a finished run adds to the signals is a signal.
LEMMA EmittedSignals ==
    ASSUME Shape
    PROVE  Signals(Emitted)
<1>1. IsList(found) /\ \A n \in DOMAIN found : IsSignal(found[n])
  BY DEF Shape, Signals
<1>2. CASE breach_run = <<>>
  BY <1>1, <1>2 DEF Emitted, Signals
<1>3. CASE breach_run # <<>>
  <2>1. Emitted = found \o _emit /\ _emit \in {<<>>, <<RiskSignal>>}
    BY <1>3 DEF Emitted, _emit
  <2>2. IsSignal(RiskSignal)
    <3>. DEFINE last == Len(breach_run)
    <3>1. /\ IsList(breach_run)
          /\ \A n \in DOMAIN breach_run : breach_run[n].at \in Nat
          /\ \A m, n \in DOMAIN breach_run : m <= n => breach_run[m].at <= breach_run[n].at
      BY DEF Shape, RunInOrder
    <3>2. last \in Nat /\ DOMAIN breach_run = 1 .. last /\ last # 0
      BY <1>3, <3>1, ListFacts
    <3>3. 1 \in DOMAIN breach_run /\ last \in DOMAIN breach_run /\ 1 <= last
      BY <3>2
    <3>4. Resolution.width \in Nat /\ cursor.resolution \in Nat
      BY ResolutionFacts
    <3>5. /\ RiskSignal.resolution = cursor.resolution
          /\ RiskSignal.starts_at = breach_run[1].at
          /\ RiskSignal.ends_at = breach_run[last].at + Resolution.width
      BY DEF RiskSignal
    <3>. HIDE DEF last
    <3>. QED  BY <3>1, <3>3, <3>4, <3>5 DEF IsSignal
  <2>3. CASE _emit = <<>>
    BY <1>1, <2>1, <2>3, NoMore DEF Signals
  <2>4. CASE _emit = <<RiskSignal>>
    <3>1. Emitted = Append(found, RiskSignal)
      BY <1>1, <2>1, <2>4, OneMore
    <3>. HIDE DEF Emitted
    <3>. QED  BY <1>1, <2>2, <3>1, AppendList DEF Signals
  <2>. QED  BY <2>1, <2>3, <2>4
<1>. QED  BY <1>2, <1>3

LEMMA NoRun ==
    ASSUME breach_run' = <<>>
    PROVE  RunInOrder'
BY EmptyList DEF RunInOrder

LEMMA NothingYet ==
    ASSUME kept = <<>>, groups = <<>>
    PROVE  /\ Signals(kept) /\ IsList(groups) /\ KeptApart /\ GroupsApart
           /\ \A g \in DOMAIN groups : Signals(groups[g]) /\ groups[g] # <<>>
BY EmptyList DEF Signals, KeptApart, GroupsApart

LEMMA InitDInv ==
    ASSUME NEW g, InitDetection(g)
    PROVE  DInv
<1>1. /\ stage = "scan" /\ cursor = [resolution |-> 1, segment |-> 1, bucket |-> 0]
      /\ breach_run = <<>> /\ found = <<>> /\ kept = <<>> /\ groups = <<>>
  BY DEF InitDetection
<1>2. 1 \in DOMAIN Resolutions
  BY DetectionAssumption
<1>3. RunInOrder /\ Signals(found)
  BY <1>1, EmptyList DEF RunInOrder, Signals
<1>. QED  BY <1>1, <1>2, <1>3, NothingYet DEF DInv, Shape, Ahead

LEMMA ScanStep ==
    ASSUME DInv, stage = "scan", stage' \in {"scan", "dedupe"}, Signals(found)',
           UNCHANGED <<kept, groups>>, RunInOrder',
           cursor' \in [resolution : DOMAIN Resolutions, segment : Nat, bucket : Nat],
           stage' = "dedupe" => todo' = DOMAIN found'
    PROVE  DInv'
<1>1. kept' = <<>> /\ groups' = <<>>
  BY DEF DInv, Ahead
<1>2. /\ Signals(kept') /\ IsList(groups') /\ KeptApart' /\ GroupsApart'
      /\ \A g \in DOMAIN groups' : Signals(groups'[g]) /\ groups'[g] # <<>>
  BY <1>1, EmptyList DEF Signals, KeptApart, GroupsApart
<1>3. Shape'
  BY <1>2 DEF Shape, Signals, IsSignal
<1>4. Ahead'
  BY <1>1 DEF Ahead
<1>5. stage' = "dedupe" => Covered(DOMAIN found \ todo)'
  BY DEF Covered
<1>. QED  BY <1>2, <1>3, <1>4, <1>5 DEF DInv

LEMMA StepScan ==
    ASSUME DInv, SkipThin \/ LearnBaseline \/ Breach \/ Recover
    PROVE  DInv'
<1>1. /\ stage = "scan" /\ stage' = "scan" /\ UNCHANGED <<kept, groups>> /\ Advance
      /\ found' \in {found, Emitted}
      /\ breach_run' \in {breach_run, <<>>, Append(breach_run, Here)}
  BY DEF SkipThin, LearnBaseline, Breach, Recover, Thick, Scanning
<1>2. Shape /\ Signals(found)
  BY DEF DInv, Shape
<1>3. Signals(found)'
  <2>1. Signals(found')
    BY <1>1, <1>2, EmittedSignals
  <2>. QED  BY <2>1 DEF Signals, IsSignal
<1>4. cursor' \in [resolution : DOMAIN Resolutions, segment : Nat, bucket : Nat]
  BY <1>1, <1>2 DEF Shape, Advance
<1>5. RunInOrder'
  BY <1>1, <1>2, RunStays, RunGrows, NoRun
<1>. QED  BY <1>1, <1>3, <1>4, <1>5, ScanStep

LEMMA StepFinishSegment ==
    ASSUME DInv, FinishSegment
    PROVE  DInv'
<1>. DEFINE last == cursor.segment = Len(grid.segments)
<1>1. /\ stage = "scan" /\ found' = Emitted /\ breach_run' = <<>>
      /\ UNCHANGED <<kept, groups>>
      /\ IF last /\ cursor.resolution = Len(Resolutions)
         THEN stage' = "dedupe" /\ todo' = DOMAIN found' /\ UNCHANGED cursor
         ELSE /\ cursor' = [resolution |-> cursor.resolution + IF last THEN 1 ELSE 0,
                            segment |-> IF last THEN 1 ELSE cursor.segment + 1,
                            bucket |-> 0]
              /\ UNCHANGED <<stage, todo>>
  BY DEF FinishSegment
<1>2. /\ Shape /\ cursor \in [resolution : DOMAIN Resolutions, segment : Nat, bucket : Nat]
      /\ DOMAIN Resolutions = 1 .. Len(Resolutions) /\ Len(Resolutions) \in Nat
  BY ResolutionFacts DEF DInv, Shape
<1>. HIDE DEF last
<1>3. cursor' \in [resolution : DOMAIN Resolutions, segment : Nat, bucket : Nat]
  <2>1. cursor.resolution \in 1 .. Len(Resolutions) /\ cursor.segment \in Nat
    BY <1>2
  <2>2. CASE last /\ cursor.resolution = Len(Resolutions)
    BY <1>1, <1>2, <2>2
  <2>3. CASE last /\ cursor.resolution # Len(Resolutions)
    <3>1. cursor.resolution + 1 \in DOMAIN Resolutions
      BY <1>2, <2>1, <2>3
    <3>2. cursor' = [resolution |-> cursor.resolution + 1, segment |-> 1, bucket |-> 0]
      BY <1>1, <2>3
    <3>. QED  BY <3>1, <3>2
  <2>4. CASE ~ last
    <3>1. cursor.resolution + 0 \in DOMAIN Resolutions /\ cursor.segment + 1 \in Nat
      BY <1>2, <2>1
    <3>2. cursor' = [resolution |-> cursor.resolution + 0, segment |-> cursor.segment + 1,
                     bucket |-> 0]
      BY <1>1, <2>4
    <3>. QED  BY <3>1, <3>2
  <2>. QED  BY <2>2, <2>3, <2>4
<1>4. Signals(found)'
  <2>1. Signals(found')
    BY <1>1, <1>2, EmittedSignals
  <2>. QED  BY <2>1 DEF Signals, IsSignal
<1>5. stage' \in {"scan", "dedupe"} /\ (stage' = "dedupe" => todo' = DOMAIN found')
  BY <1>1
<1>. QED  BY <1>1, <1>3, <1>4, <1>5, NoRun, ScanStep
-------------------------------------------------------------------------------
(* _dedupe *)

LEMMA Meets ==
    ASSUME NEW a, NEW b, IsSignal(a), IsSignal(b)
    PROVE  (_overlap(a, b) <=> _overlap(b, a)) /\ _overlap(a, a)
BY DEF _overlap, IsSignal

LEMMA StepDedupe ==
    ASSUME DInv, _dedupe
    PROVE  DInv'
<1>. DEFINE n == Foremost(todo, FinerOrEarlier)
            duplicate == \E k \in DOMAIN kept :
                            kept[k].segment = found[n].segment /\ _overlap(kept[k], found[n])
<1>1. /\ stage = "dedupe" /\ todo # {} /\ todo' = todo \ {n}
      /\ kept' = IF duplicate THEN kept ELSE Append(kept, found[n])
      /\ UNCHANGED <<stage, cursor, breach_run, found, groups>>
  BY DEF _dedupe
<1>2. /\ Signals(found) /\ Signals(kept) /\ todo \subseteq DOMAIN found /\ groups = <<>>
      /\ Shape /\ KeptApart /\ Covered(DOMAIN found \ todo)
  BY <1>1 DEF DInv, Shape, Ahead
<1>3. n \in todo
  BY <1>1, <1>2, ForemostFound
<1>. HIDE DEF n
<1>4. n \in DOMAIN found /\ IsSignal(found[n])
  BY <1>2, <1>3 DEF Signals
<1>5. /\ Signals(kept')
      /\ DOMAIN kept \subseteq DOMAIN kept' /\ \A k \in DOMAIN kept : kept'[k] = kept[k]
      /\ \E k \in DOMAIN kept' :
            kept'[k].segment = found[n].segment /\ _overlap(kept'[k], found[n])
      /\ \A k, l \in DOMAIN kept' :
            k # l /\ kept'[k].segment = kept'[l].segment => ~ _overlap(kept'[k], kept'[l])
  <2>1. CASE duplicate
    BY <1>1, <1>2, <2>1 DEF KeptApart
  <2>2. CASE ~ duplicate
    <3>. DEFINE m == Len(kept) + 1
    <3>1. kept' = Append(kept, found[n])
      BY <1>1, <2>2
    <3>2. /\ IsList(kept') /\ DOMAIN kept' = DOMAIN kept \cup {m} /\ m \notin DOMAIN kept
          /\ \A k \in DOMAIN kept : kept'[k] = kept[k]
          /\ kept'[m] = found[n]
      BY <1>2, <3>1, AppendList DEF Signals
    <3>. HIDE DEF m
    <3>3. \A k \in DOMAIN kept' : IsSignal(kept'[k])
      BY <1>2, <1>4, <3>2 DEF Signals
    <3>4. _overlap(kept'[m], found[n])
      BY <1>4, <3>2, Meets
    <3>5. \A k \in DOMAIN kept : kept[k].segment = found[n].segment =>
             ~ _overlap(kept[k], found[n]) /\ ~ _overlap(found[n], kept[k])
      BY <1>2, <1>4, <2>2, Meets DEF Signals
    <3>6. \A k, l \in DOMAIN kept' :
             k # l /\ kept'[k].segment = kept'[l].segment => ~ _overlap(kept'[k], kept'[l])
      <4>1. ASSUME NEW k \in DOMAIN kept', NEW l \in DOMAIN kept', k # l,
                   kept'[k].segment = kept'[l].segment
            PROVE  ~ _overlap(kept'[k], kept'[l])
        <5>1. CASE k \in DOMAIN kept /\ l \in DOMAIN kept
          BY <1>2, <3>2, <4>1, <5>1 DEF KeptApart
        <5>2. CASE k = m /\ l \in DOMAIN kept
          BY <3>2, <3>5, <4>1, <5>2
        <5>3. CASE k \in DOMAIN kept /\ l = m
          BY <3>2, <3>5, <4>1, <5>3
        <5>. QED  BY <3>2, <4>1, <5>1, <5>2, <5>3
      <4>. QED  BY <4>1
    <3>. QED  BY <3>2, <3>3, <3>4, <3>6 DEF Signals
  <2>. QED  BY <2>1, <2>2
<1>. HIDE DEF duplicate
<1>6. Covered(DOMAIN found \ todo)'
  <2>1. ASSUME NEW f \in DOMAIN found \ (todo \ {n})
        PROVE  \E k \in DOMAIN kept' :
                  kept'[k].segment = found[f].segment /\ _overlap(kept'[k], found[f])
    <3>1. CASE f = n
      BY <1>5, <3>1
    <3>2. CASE f \in DOMAIN found \ todo
      BY <1>2, <1>5, <3>2 DEF Covered
    <3>. QED  BY <2>1, <3>1, <3>2
  <2>. QED  BY <1>1, <2>1 DEF Covered, _overlap
<1>7. KeptApart'
  BY <1>5 DEF KeptApart, _overlap
<1>8. GroupsApart' /\ IsList(groups')
      /\ \A g \in DOMAIN groups' : Signals(groups'[g]) /\ groups'[g] # <<>>
  BY <1>1, <1>2, EmptyList DEF GroupsApart, Signals
<1>9. Shape'
  <2>1. RunInOrder' /\ Signals(found)' /\ Signals(kept)'
    BY <1>1, <1>2, <1>5 DEF Shape, RunInOrder, Resolution, Signals, IsSignal
  <2>. QED  BY <1>1, <1>2, <1>8, <2>1 DEF Shape, Signals, IsSignal
<1>10. Ahead'
  BY <1>1, <1>2 DEF Ahead
<1>. QED  BY <1>1, <1>6, <1>7, <1>8, <1>9, <1>10 DEF DInv
-------------------------------------------------------------------------------
(* correlate *)

LEMMA LeastFit ==
    ASSUME NEW S \in SUBSET Nat, S # {}
    PROVE  Min(S) \in S
BY LeastNumber DEF Min

\* Two groups that a signal meets meet each other, where the signal starts.
LEMMA OneFits ==
    ASSUME GroupsApart, \A g \in DOMAIN groups : Signals(groups[g]),
           NEW sig, IsSignal(sig),
           \A g \in DOMAIN groups : \A m \in DOMAIN groups[g] :
              groups[g][m].starts_at <= sig.starts_at,
           NEW g \in DOMAIN groups, Joins(sig, groups[g]),
           NEW h \in DOMAIN groups, Joins(sig, groups[h])
    PROVE  g = h
<1>1. PICK m \in DOMAIN groups[g] : _overlap(sig, groups[g][m])
  BY DEF Joins
<1>2. PICK n \in DOMAIN groups[h] : _overlap(sig, groups[h][n])
  BY DEF Joins
<1>3. PICK a, b : a = groups[g][m] /\ b = groups[h][n]
  OBVIOUS
<1>4. /\ IsSignal(a) /\ IsSignal(b) /\ a.starts_at <= sig.starts_at
      /\ b.starts_at <= sig.starts_at
  BY <1>3 DEF Signals
<1>5. _overlap(sig, a) /\ _overlap(sig, b)
  BY <1>1, <1>2, <1>3
<1>6. _overlap(a, b)
  BY <1>4, <1>5 DEF _overlap, IsSignal
<1>7. groups[g][1].dominant_decline = groups[h][1].dominant_decline
  BY DEF Joins
<1>. QED  BY <1>3, <1>6, <1>7 DEF GroupsApart

\* What correlate does to the groups: one of them, old or new, has the signal
\* as well, and no other would have taken it.
GainsIn(t, sig) ==
    /\ IsList(groups') /\ DOMAIN groups' = DOMAIN groups \cup {t}
    /\ \A g \in DOMAIN groups : g # t => groups'[g] = groups[g] /\ ~ Joins(sig, groups[g])
    /\ Signals(groups'[t]) /\ groups'[t] # <<>>
    /\ groups'[t][1].dominant_decline = sig.dominant_decline
    /\ t \in DOMAIN groups => groups[t][1].dominant_decline = sig.dominant_decline
    /\ \A m \in DOMAIN groups'[t] :
          \/ groups'[t][m] = sig
          \/ /\ t \in DOMAIN groups /\ m \in DOMAIN groups[t]
             /\ groups'[t][m] = groups[t][m]

LEMMA NewGroup ==
    ASSUME IsList(groups), NEW sig, IsSignal(sig),
           \A g \in DOMAIN groups : ~ Joins(sig, groups[g]),
           groups' = Append(groups, <<sig>>)
    PROVE  \E t : GainsIn(t, sig)
<1>. DEFINE t == Len(groups) + 1
<1>1. /\ IsList(groups') /\ DOMAIN groups' = DOMAIN groups \cup {t} /\ t \notin DOMAIN groups
      /\ \A g \in DOMAIN groups : groups'[g] = groups[g]
      /\ groups'[t] = <<sig>>
  BY AppendList
<1>. HIDE DEF t
<1>2. DOMAIN <<sig>> = {1} /\ <<sig>>[1] = sig /\ <<sig>> # <<>>
  OBVIOUS
<1>3. IsList(<<sig>>)
  <2>1. <<sig>> \in Seq({sig})
    OBVIOUS
  <2>. QED  BY <2>1, SeqIsList
<1>4. Signals(<<sig>>)
  BY <1>2, <1>3 DEF Signals
<1>. QED  BY <1>1, <1>2, <1>4 DEF GainsIn

LEMMA OldGroup ==
    ASSUME IsList(groups), \A g \in DOMAIN groups : Signals(groups[g]) /\ groups[g] # <<>>,
           NEW sig, IsSignal(sig), NEW t \in DOMAIN groups, Joins(sig, groups[t]),
           \A g \in DOMAIN groups : g # t => ~ Joins(sig, groups[g]),
           groups' = [groups EXCEPT ![t] = Append(@, sig)]
    PROVE  GainsIn(t, sig)
<1>. DEFINE old == groups[t]
            new == Append(old, sig)
            m == Len(old) + 1
<1>1. IsList(old) /\ old # <<>> /\ \A n \in DOMAIN old : IsSignal(old[n])
  BY DEF Signals
<1>2. /\ IsList(new) /\ new # <<>> /\ DOMAIN new = DOMAIN old \cup {m}
      /\ \A n \in DOMAIN old : new[n] = old[n]
      /\ new[m] = sig
  BY <1>1, AppendList
<1>3. 1 \in DOMAIN old
  BY <1>1, ListFacts
<1>4. groups' = [groups EXCEPT ![t] = new]
  OBVIOUS
<1>5. old[1].dominant_decline = sig.dominant_decline
  BY DEF Joins
<1>6. Len(groups) \in Nat /\ DOMAIN groups = 1 .. Len(groups)
  BY ListFacts
<1>. HIDE DEF new, m
<1>7. /\ DOMAIN groups' = DOMAIN groups /\ groups'[t] = new
      /\ \A g \in DOMAIN groups : g # t => groups'[g] = groups[g]
      /\ groups' = [g \in 1 .. Len(groups) |-> groups'[g]]
  BY <1>4, <1>6
<1>8. IsList(groups')
  <2>. DEFINE T == {groups'[g] : g \in DOMAIN groups'}
  <2>1. groups' \in [1 .. Len(groups) -> T]
    BY <1>6, <1>7
  <2>. HIDE DEF T
  <2>2. groups' \in Seq(T)
    BY <1>6, <2>1, SeqDef
  <2>. QED  BY <2>2, SeqIsList
<1>9. Signals(new)
  BY <1>1, <1>2 DEF Signals
<1>. HIDE DEF old
<1>10. \A n \in DOMAIN new : new[n] = sig \/ (n \in DOMAIN old /\ new[n] = old[n])
  BY <1>2
<1>11. new[1].dominant_decline = sig.dominant_decline
  BY <1>2, <1>3, <1>5
<1>. QED  BY <1>2, <1>5, <1>7, <1>8, <1>9, <1>10, <1>11 DEF GainsIn, old

LEMMA StepCorrelate ==
    ASSUME DInv, correlate
    PROVE  DInv'
<1>. DEFINE n == Foremost(todo, Earlier)
<1>0. PICK sig : sig = kept[n]
  OBVIOUS
<1>. DEFINE fits == {g \in DOMAIN groups : Joins(sig, groups[g])}
<1>1. /\ stage = "correlate" /\ todo # {} /\ todo' = todo \ {n}
      /\ groups' = IF fits = {} THEN Append(groups, <<sig>>)
                   ELSE [groups EXCEPT ![Min(fits)] = Append(@, sig)]
      /\ UNCHANGED <<stage, cursor, breach_run, found, kept>>
  BY <1>0 DEF correlate
<1>2. /\ Signals(kept) /\ todo \subseteq DOMAIN kept /\ Shape /\ KeptApart /\ GroupsApart
      /\ Covered(DOMAIN found) /\ InOrder /\ IsList(groups)
      /\ \A g \in DOMAIN groups : Signals(groups[g]) /\ groups[g] # <<>>
  BY <1>1 DEF DInv, Shape, Ahead
<1>3. n \in todo /\ \A m \in todo : sig.starts_at <= kept[m].starts_at
  BY <1>0, <1>1, <1>2, ForemostKept
<1>. HIDE DEF n
<1>4. /\ IsSignal(sig)
      /\ \A g \in DOMAIN groups : \A m \in DOMAIN groups[g] :
            groups[g][m].starts_at <= sig.starts_at
  BY <1>0, <1>2, <1>3 DEF Signals, InOrder
<1>5. PICK t : GainsIn(t, sig)
  <2>1. CASE fits = {}
    BY <1>1, <1>2, <1>4, <2>1, NewGroup
  <2>2. CASE fits # {}
    <3>1. fits \in SUBSET Nat
      BY <1>2, ListFacts
    <3>2. PICK t : t = Min(fits)
      OBVIOUS
    <3>3. t \in fits
      <4>. HIDE DEF fits
      <4>. QED  BY <2>2, <3>1, <3>2, LeastFit
    <3>4. groups' = [groups EXCEPT ![t] = Append(@, sig)]
      BY <1>1, <2>2, <3>2
    <3>5. \A g \in DOMAIN groups : g # t => ~ Joins(sig, groups[g])
      BY <1>2, <1>4, <3>3, OneFits
    <3>. QED  BY <1>2, <1>4, <3>3, <3>4, <3>5, OldGroup
  <2>. QED  BY <2>1, <2>2
<1>6. /\ DOMAIN groups' = DOMAIN groups \cup {t}
      /\ \A g \in DOMAIN groups' : Signals(groups'[g]) /\ groups'[g] # <<>>
      /\ IsList(groups')
  BY <1>2, <1>5 DEF GainsIn
<1>7. GroupsApart'
  <2>1. ASSUME NEW h \in DOMAIN groups, h # t,
               groups[h][1].dominant_decline = sig.dominant_decline,
               NEW m \in DOMAIN groups'[t], NEW x \in DOMAIN groups[h]
        PROVE  ~ _overlap(groups'[t][m], groups[h][x])
    <3>1. CASE groups'[t][m] = sig
      BY <1>5, <2>1, <3>1 DEF GainsIn, Joins
    <3>2. CASE /\ t \in DOMAIN groups /\ m \in DOMAIN groups[t]
               /\ groups'[t][m] = groups[t][m]
      <4>1. groups[t][1].dominant_decline = groups[h][1].dominant_decline
        BY <1>5, <2>1, <3>2 DEF GainsIn
      <4>. QED  BY <1>2, <2>1, <3>2, <4>1 DEF GroupsApart
    <3>. QED  BY <1>5, <2>1, <3>1, <3>2 DEF GainsIn
  <2>2. ASSUME NEW g \in DOMAIN groups', NEW h \in DOMAIN groups', g # h,
               groups'[g][1].dominant_decline = groups'[h][1].dominant_decline,
               NEW m \in DOMAIN groups'[g], NEW x \in DOMAIN groups'[h]
        PROVE  ~ _overlap(groups'[g][m], groups'[h][x])
    <3>1. IsSignal(groups'[g][m]) /\ IsSignal(groups'[h][x])
      BY <1>6, <2>2 DEF Signals
    <3>2. CASE g # t /\ h # t
      <4>1. /\ g \in DOMAIN groups /\ h \in DOMAIN groups
            /\ groups'[g] = groups[g] /\ groups'[h] = groups[h]
        BY <1>5, <1>6, <2>2, <3>2 DEF GainsIn
      <4>. QED  BY <1>2, <2>2, <4>1 DEF GroupsApart
    <3>3. CASE g = t
      <4>1. h \in DOMAIN groups /\ h # t /\ groups'[h] = groups[h]
        BY <1>5, <1>6, <2>2, <3>3 DEF GainsIn
      <4>2. groups[h][1].dominant_decline = sig.dominant_decline
        BY <1>5, <2>2, <3>3, <4>1 DEF GainsIn
      <4>. QED  BY <2>1, <2>2, <3>3, <4>1, <4>2
    <3>4. CASE h = t
      <4>1. g \in DOMAIN groups /\ g # t /\ groups'[g] = groups[g]
        BY <1>5, <1>6, <2>2, <3>4 DEF GainsIn
      <4>2. groups[g][1].dominant_decline = sig.dominant_decline
        BY <1>5, <2>2, <3>4, <4>1 DEF GainsIn
      <4>3. ~ _overlap(groups'[h][x], groups'[g][m])
        BY <2>1, <2>2, <3>4, <4>1, <4>2
      <4>. QED  BY <3>1, <4>3, Meets
    <3>. QED  BY <3>2, <3>3, <3>4
  <2>. QED  BY <2>2 DEF GroupsApart, _overlap
<1>8. InOrder'
  <2>1. ASSUME NEW g \in DOMAIN groups', NEW m \in DOMAIN groups'[g], NEW x \in todo
        PROVE  groups'[g][m].starts_at <= kept[x].starts_at
    <3>1. CASE g # t
      BY <1>2, <1>5, <1>6, <2>1, <3>1 DEF GainsIn, InOrder
    <3>2. CASE g = t /\ groups'[t][m] = sig
      BY <1>3, <2>1, <3>2
    <3>3. CASE /\ g = t /\ t \in DOMAIN groups /\ m \in DOMAIN groups[t]
               /\ groups'[t][m] = groups[t][m]
      BY <1>2, <2>1, <3>3 DEF InOrder
    <3>. QED  BY <1>5, <2>1, <3>1, <3>2, <3>3 DEF GainsIn
  <2>. QED  BY <1>1, <2>1 DEF InOrder
<1>9. Shape'
  <2>1. RunInOrder' /\ Signals(found)' /\ Signals(kept)'
    BY <1>1, <1>2 DEF Shape, RunInOrder, Resolution, Signals, IsSignal
  <2>. QED  BY <1>1, <1>2, <1>6, <2>1 DEF Shape, Signals, IsSignal
<1>10. Ahead' /\ KeptApart' /\ Covered(DOMAIN found)'
  BY <1>1, <1>2 DEF Ahead, KeptApart, Covered, _overlap
<1>. QED  BY <1>1, <1>7, <1>8, <1>9, <1>10 DEF DInv
-------------------------------------------------------------------------------
(* From one stage to the next *)

LEMMA StepStartCorrelating ==
    ASSUME DInv, StartCorrelating
    PROVE  DInv'
<1>1. /\ stage = "dedupe" /\ todo = {} /\ stage' = "correlate" /\ todo' = DOMAIN kept
      /\ UNCHANGED <<cursor, breach_run, found, kept, groups>> /\ groups = <<>>
      /\ Shape /\ KeptApart /\ Covered(DOMAIN found \ todo)
  BY DEF StartCorrelating, DInv, Ahead
<1>2. RunInOrder' /\ Signals(found)' /\ Signals(kept)' /\ IsList(groups')
      /\ \A g \in DOMAIN groups' : Signals(groups'[g]) /\ groups'[g] # <<>>
  BY <1>1, EmptyList DEF Shape, RunInOrder, Resolution, Signals, IsSignal
<1>3. Shape'
  BY <1>1, <1>2 DEF Shape, Signals, IsSignal
<1>4. GroupsApart' /\ InOrder'
  BY <1>1, EmptyList DEF GroupsApart, InOrder
<1>5. Ahead' /\ KeptApart' /\ Covered(DOMAIN found)'
  BY <1>1 DEF Ahead, KeptApart, Covered, _overlap
<1>. QED  BY <1>1, <1>3, <1>4, <1>5 DEF DInv

\* Nothing but the stage, if that.
LEMMA StepOver ==
    ASSUME DInv, UNCHANGED <<cursor, breach_run, found, todo, kept, groups>>,
           stage' = stage \/ (stage = "correlate" /\ stage' = "detected")
    PROVE  DInv'
<1>1. Shape'
  BY DEF DInv, Shape, RunInOrder, Resolution, Signals, IsSignal
<1>2. Ahead' /\ KeptApart' /\ GroupsApart'
  BY DEF DInv, Ahead, KeptApart, GroupsApart, _overlap
<1>3. /\ stage' = "dedupe" => Covered(DOMAIN found \ todo)'
      /\ stage' \in {"correlate", "detected"} => Covered(DOMAIN found)'
      /\ stage' = "correlate" => InOrder'
  BY DEF DInv, Covered, InOrder, _overlap
<1>. QED  BY <1>1, <1>2, <1>3 DEF DInv

LEMMA StepDInv ==
    ASSUME DInv, [Detect]_detection
    PROVE  DInv'
<1>1. CASE UNCHANGED detection
  BY <1>1, StepOver DEF detection
<1>2. CASE SkipThin \/ LearnBaseline \/ Breach \/ Recover
  BY <1>2, StepScan
<1>3. CASE FinishSegment
  BY <1>3, StepFinishSegment
<1>4. CASE _dedupe
  BY <1>4, StepDedupe
<1>5. CASE StartCorrelating
  BY <1>5, StepStartCorrelating
<1>6. CASE correlate
  BY <1>6, StepCorrelate
<1>7. CASE FinishCorrelating
  BY <1>7, StepOver DEF FinishCorrelating
<1>. QED  BY <1>1, <1>2, <1>3, <1>4, <1>5, <1>6, <1>7 DEF Detect
-------------------------------------------------------------------------------
LEMMA WhatItMeans ==
    ASSUME DInv
    PROVE  OneProblemOneCluster
BY DEF DInv, Shape, Covered, KeptApart, GroupsApart, OneProblemOneCluster

\* However the segments' traffic went, a detection never keeps two signals of a
\* segment that touch, drops none that touches nothing, and never leaves one
\* problem in two groups (MultiResolutionDetector._dedupe, correlate).
THEOREM OneCluster ==
    ASSUME NEW g
    PROVE  InitDetection(g) /\ [][Detect]_detection => []OneProblemOneCluster
<1>1. InitDetection(g) => DInv
  BY InitDInv
<1>2. DInv /\ [Detect]_detection => DInv'
  BY StepDInv
<1>3. DInv => OneProblemOneCluster
  BY WhatItMeans
<1>. QED  BY <1>1, <1>2, <1>3, PTL
-------------------------------------------------------------------------------
(* Sums *)

\* Of some finite sets one has no smaller one, by one element, among them.
LEMMA SmallestSet ==
    ASSUME NEW S, IsFiniteSet(S), NEW Some \in SUBSET (SUBSET S), Some # {}
    PROVE  \E s \in Some : \A x \in s : s \ {x} \notin Some
<1>1. \A s \in Some : IsFiniteSet(s) /\ Cardinality(s) \in Nat
  BY FS_Subset, FS_CardinalityType
<1>. DEFINE Sizes == {Cardinality(s) : s \in Some}
<1>2. PICK n \in Sizes : \A m \in Sizes : n <= m
  <2>1. Sizes \in SUBSET Nat /\ Sizes # {}
    BY <1>1
  <2>. HIDE DEF Sizes
  <2>. QED  BY <2>1, LeastNumber
<1>3. PICK s \in Some : Cardinality(s) = n
  BY <1>2
<1>4. ASSUME NEW x \in s, s \ {x} \in Some
      PROVE  FALSE
  <2>1. Cardinality(s \ {x}) = Cardinality(s) - 1
    BY <1>1, <1>4, FS_RemoveElement
  <2>2. Cardinality(s) <= Cardinality(s \ {x})
    BY <1>2, <1>3, <1>4
  <2>. QED  BY <1>1, <2>1, <2>2
<1>. QED  BY <1>4

OneOf(s) == CHOOSE x \in s : TRUE
\* The sums of f over the subsets of S in T.
Adding(f, T, sum) ==
    sum = [s \in T |-> IF s = {} THEN 0 ELSE f[OneOf(s)] + sum[s \ {OneOf(s)}]]
Summed(f, S, sum) ==
    \A s \in SUBSET S : sum[s] \in Nat /\ \A x \in s : sum[s] = f[x] + sum[s \ {x}]
Counts(f, S) == \A x \in S : f[x] \in Nat
UpToSize(S, k) == {s \in SUBSET S : Cardinality(s) <= k}

\* Sums of sets one larger follow from the sums of the smaller ones.
LEMMA AddingStep ==
    ASSUME NEW S, IsFiniteSet(S), NEW f, NEW k \in Nat, NEW g, Adding(f, UpToSize(S, k), g)
    PROVE  \E h : Adding(f, UpToSize(S, k + 1), h)
<1>. DEFINE h == [s \in UpToSize(S, k + 1) |->
                     IF s = {} THEN 0 ELSE f[OneOf(s)] + g[s \ {OneOf(s)}]]
<1>1. ASSUME NEW s \in SUBSET S
      PROVE  IsFiniteSet(s) /\ Cardinality(s) \in Nat
  BY FS_Subset, FS_CardinalityType
<1>2. ASSUME NEW s \in UpToSize(S, k)
      PROVE  s \in UpToSize(S, k + 1)
  BY <1>1 DEF UpToSize
<1>3. ASSUME NEW s \in UpToSize(S, k + 1), s # {}
      PROVE  s \ {OneOf(s)} \in UpToSize(S, k)
  <2>1. OneOf(s) \in s
    BY <1>3 DEF OneOf
  <2>2. IsFiniteSet(s) /\ Cardinality(s) \in Nat /\ Cardinality(s) <= k + 1 /\ s \in SUBSET S
    BY <1>1 DEF UpToSize
  <2>3. Cardinality(s \ {OneOf(s)}) = Cardinality(s) - 1
    BY <2>1, <2>2, FS_RemoveElement
  <2>. QED  BY <2>2, <2>3 DEF UpToSize
<1>4. ASSUME NEW s \in UpToSize(S, k)
      PROVE  h[s] = g[s]
  <2>1. g[s] = IF s = {} THEN 0 ELSE f[OneOf(s)] + g[s \ {OneOf(s)}]
    BY Zenon DEF Adding
  <2>2. h[s] = IF s = {} THEN 0 ELSE f[OneOf(s)] + g[s \ {OneOf(s)}]
    BY <1>2
  <2>. QED  BY <2>1, <2>2
<1>5. ASSUME NEW s \in UpToSize(S, k + 1)
      PROVE  h[s] = IF s = {} THEN 0 ELSE f[OneOf(s)] + h[s \ {OneOf(s)}]
  <2>1. CASE s = {}
    BY <2>1
  <2>2. CASE s # {}
    <3>1. h[s] = f[OneOf(s)] + g[s \ {OneOf(s)}]
      BY <2>2
    <3>2. h[s \ {OneOf(s)}] = g[s \ {OneOf(s)}]
      <4>. HIDE DEF h
      <4>. QED  BY <1>3, <1>4, <2>2
    <3>. HIDE DEF h
    <3>. QED  BY <2>2, <3>1, <3>2
  <2>. QED  BY <2>1, <2>2
<1>6. h = [s \in UpToSize(S, k + 1) |-> h[s]]
  OBVIOUS
<1>. HIDE DEF h
<1>7. [s \in UpToSize(S, k + 1) |-> h[s]]
        = [s \in UpToSize(S, k + 1) |->
              IF s = {} THEN 0 ELSE f[OneOf(s)] + h[s \ {OneOf(s)}]]
  BY <1>5
<1>8. Adding(f, UpToSize(S, k + 1), h)
  BY Zenon, <1>6, <1>7 DEF Adding
<1>. QED  BY <1>8

\* So every finite set has its sums.
LEMMA AddingExists ==
    ASSUME NEW S, IsFiniteSet(S), NEW f
    PROVE  \E sum : Adding(f, SUBSET S, sum)
<1>. DEFINE Good(k) == \E g : Adding(f, UpToSize(S, k), g)
            Bad == {k \in Nat : ~ Good(k)}
<1>1. Bad = {}
  <2>1. SUFFICES ASSUME Bad # {}
                 PROVE  FALSE
    OBVIOUS
  <2>2. PICK k \in Bad : \A j \in Bad : k <= j
    <3>1. Bad \in SUBSET Nat
      OBVIOUS
    <3>. HIDE DEF Bad
    <3>. QED  BY <2>1, <3>1, LeastNumber
  <2>3. k \in Nat /\ ~ Good(k)
    BY <2>2
  <2>4. CASE k = 0
    <3>. DEFINE g == [s \in UpToSize(S, 0) |-> 0]
    <3>1. ASSUME NEW s \in UpToSize(S, 0)
          PROVE  s = {}
      <4>1. IsFiniteSet(s) /\ Cardinality(s) \in Nat /\ Cardinality(s) <= 0
        BY FS_Subset, FS_CardinalityType DEF UpToSize
      <4>2. Cardinality(s) = 0
        BY <4>1
      <4>. QED  BY <4>1, <4>2, FS_EmptySet
    <3>2. [s \in UpToSize(S, 0) |-> 0]
            = [s \in UpToSize(S, 0) |-> IF s = {} THEN 0 ELSE f[OneOf(s)] + g[s \ {OneOf(s)}]]
      BY <3>1
    <3>3. Adding(f, UpToSize(S, 0), g)
      BY Zenon, <3>2 DEF Adding
    <3>. QED  BY <2>3, <2>4, <3>3
  <2>5. CASE k # 0
    <3>1. k - 1 \in Nat /\ k - 1 < k /\ k - 1 + 1 = k
      BY <2>3, <2>5
    <3>2. Good(k - 1)
      <4>1. k - 1 \notin Bad
        <5>. HIDE DEF Bad
        <5>. QED  BY <2>2, <2>3, <3>1
      <4>. HIDE DEF Good
      <4>. QED  BY <3>1, <4>1
    <3>3. PICK g : Adding(f, UpToSize(S, k - 1), g)
      BY <3>2
    <3>4. \E h : Adding(f, UpToSize(S, k - 1 + 1), h)
      BY <3>1, <3>3, AddingStep
    <3>. QED  BY <2>3, <3>1, <3>4
  <2>. QED  BY <2>4, <2>5
<1>2. Cardinality(S) \in Nat
  BY FS_CardinalityType
<1>3. UpToSize(S, Cardinality(S)) = SUBSET S
  <2>1. \A s \in SUBSET S : Cardinality(s) <= Cardinality(S)
    BY FS_Subset
  <2>. QED  BY <2>1 DEF UpToSize
<1>4. Good(Cardinality(S))
  <2>. HIDE DEF Good
  <2>. QED  BY <1>1, <1>2
<1>. QED  BY <1>3, <1>4

\* The sums are numbers, whatever is taken first and however large the sets get.
LEMMA AddingAny ==
    ASSUME NEW S, IsFiniteSet(S), NEW f, Counts(f, S), NEW sum, Adding(f, SUBSET S, sum)
    PROVE  Summed(f, S, sum)
<1>1. /\ sum[{}] = 0
      /\ \A s \in SUBSET S : s # {} => /\ OneOf(s) \in s
                                       /\ sum[s] = f[OneOf(s)] + sum[s \ {OneOf(s)}]
  <2>1. \A s \in SUBSET S :
           sum[s] = IF s = {} THEN 0 ELSE f[OneOf(s)] + sum[s \ {OneOf(s)}]
    BY Zenon DEF Adding
  <2>2. \A s : s # {} => OneOf(s) \in s
    BY DEF OneOf
  <2>. QED  BY <2>1, <2>2
<1>. DEFINE Odd == {s \in SUBSET S : sum[s] \notin Nat}
<1>2. Odd = {}
  <2>1. SUFFICES ASSUME Odd # {}
                 PROVE  FALSE
    OBVIOUS
  <2>2. PICK s \in Odd : \A x \in s : s \ {x} \notin Odd
    <3>1. Odd \in SUBSET (SUBSET S)
      OBVIOUS
    <3>. HIDE DEF Odd
    <3>. QED  BY <2>1, <3>1, SmallestSet
  <2>3. s \in SUBSET S /\ sum[s] \notin Nat
    BY <2>2
  <2>4. ASSUME s = {}
        PROVE  FALSE
    <3>1. sum[s] = 0
      BY <1>1, <2>4
    <3>. QED  BY <2>3, <3>1
  <2>5. sum[s \ {OneOf(s)}] \in Nat
    <3>1. OneOf(s) \in s
      BY <1>1, <2>3, <2>4
    <3>2. s \ {OneOf(s)} \in SUBSET S /\ s \ {OneOf(s)} \notin Odd
      <4>. HIDE DEF Odd
      <4>. QED  BY <2>2, <2>3, <3>1
    <3>. QED  BY <3>2
  <2>. QED  BY <1>1, <2>3, <2>4, <2>5 DEF Counts
<1>3. \A s \in SUBSET S : sum[s] \in Nat
  BY <1>2
<1>. HIDE DEF Odd
<1>. DEFINE Bad == {s \in SUBSET S : ~ \A x \in s : sum[s] = f[x] + sum[s \ {x}]}
<1>4. Bad = {}
  <2>1. SUFFICES ASSUME Bad # {}
                 PROVE  FALSE
    OBVIOUS
  <2>2. PICK s \in Bad : \A x \in s : s \ {x} \notin Bad
    <3>1. Bad \in SUBSET (SUBSET S)
      OBVIOUS
    <3>. HIDE DEF Bad
    <3>. QED  BY <2>1, <3>1, SmallestSet
  <2>3. s \in SUBSET S
    BY <2>2
  <2>4. PICK x \in s : sum[s] # f[x] + sum[s \ {x}]
    BY <2>2
  <2>5. PICK y \in s : sum[s] = f[y] + sum[s \ {y}]
    BY <1>1, <2>3
  <2>6. x # y
    BY <2>4, <2>5
  <2>7. /\ sum[s \ {x}] = f[y] + sum[(s \ {x}) \ {y}]
        /\ sum[s \ {y}] = f[x] + sum[(s \ {y}) \ {x}]
    <3>1. \A z \in s : s \ {z} \in SUBSET S /\ s \ {z} \notin Bad
      <4>. HIDE DEF Bad
      <4>. QED  BY <2>2, <2>3
    <3>2. \A z \in s : \A u \in s \ {z} : sum[s \ {z}] = f[u] + sum[(s \ {z}) \ {u}]
      BY <3>1
    <3>3. x \in s \ {y} /\ y \in s \ {x}
      BY <2>6
    <3>. HIDE DEF Bad
    <3>. QED  BY <3>2, <3>3
  <2>8. (s \ {x}) \ {y} = (s \ {y}) \ {x}
    OBVIOUS
  <2>9. PICK r : r = sum[(s \ {x}) \ {y}] /\ r \in Nat
    BY <1>3, <2>3
  <2>10. f[x] \in Nat /\ f[y] \in Nat
    BY <2>3 DEF Counts
  <2>11. sum[s \ {x}] = f[y] + r /\ sum[s \ {y}] = f[x] + r
    BY <2>7, <2>8, <2>9
  <2>. QED  BY <2>4, <2>5, <2>9, <2>10, <2>11
<1>5. \A s \in SUBSET S : \A x \in s : sum[s] = f[x] + sum[s \ {x}]
  BY <1>4
<1>. QED  BY <1>3, <1>5 DEF Summed

\* What is summed up over a set does not depend on what else there is.
LEMMA AddingSame ==
    ASSUME NEW S, IsFiniteSet(S), NEW T, NEW f, NEW g, NEW a, NEW b,
           Adding(f, SUBSET S, a), Adding(g, SUBSET T, b),
           S \subseteq T, \A x \in S : f[x] = g[x]
    PROVE  a[S] = b[S]
<1>. DEFINE Bad == {s \in SUBSET S : a[s] # b[s]}
<1>1. SUFFICES ASSUME Bad # {}
               PROVE  FALSE
  OBVIOUS
<1>2. PICK s \in Bad : \A x \in s : s \ {x} \notin Bad
  <2>1. Bad \in SUBSET (SUBSET S)
    OBVIOUS
  <2>. HIDE DEF Bad
  <2>. QED  BY <1>1, <2>1, SmallestSet
<1>3. s \in SUBSET S /\ s \in SUBSET T /\ a[s] # b[s]
  BY <1>2
<1>4. /\ a[s] = IF s = {} THEN 0 ELSE f[OneOf(s)] + a[s \ {OneOf(s)}]
      /\ b[s] = IF s = {} THEN 0 ELSE g[OneOf(s)] + b[s \ {OneOf(s)}]
  BY Zenon, <1>3 DEF Adding
<1>5. s # {} => OneOf(s) \in s
  BY DEF OneOf
<1>6. s # {} => a[s \ {OneOf(s)}] = b[s \ {OneOf(s)}]
  BY <1>2, <1>3, <1>5
<1>. QED  BY <1>3, <1>4, <1>5, <1>6

\* SumFunction is that sum.
LEMMA SumIsAdding ==
    ASSUME NEW f, IsFiniteSet(DOMAIN f)
    PROVE  \E sum : Adding(f, SUBSET DOMAIN f, sum) /\ SumFunction(f) = sum[DOMAIN f]
<1>. DEFINE iter == CHOOSE it : it = [s \in SUBSET DOMAIN f |->
                        IF s = {} THEN 0
                        ELSE f[CHOOSE x \in s : TRUE] + it[s \ {CHOOSE x \in s : TRUE}]]
<1>1. iter = [s \in SUBSET DOMAIN f |->
                  IF s = {} THEN 0
                  ELSE f[CHOOSE x \in s : TRUE] + iter[s \ {CHOOSE x \in s : TRUE}]]
  <2>1. \E it : it = [s \in SUBSET DOMAIN f |->
                        IF s = {} THEN 0
                        ELSE f[CHOOSE x \in s : TRUE] + it[s \ {CHOOSE x \in s : TRUE}]]
    <3>1. PICK it : Adding(f, SUBSET DOMAIN f, it)
      BY AddingExists
    <3>2. it = [s \in SUBSET DOMAIN f |->
                  IF s = {} THEN 0
                  ELSE f[CHOOSE x \in s : TRUE] + it[s \ {CHOOSE x \in s : TRUE}]]
      BY Zenon, <3>1 DEF Adding, OneOf
    <3>. QED  BY Zenon, <3>2
  <2>. QED  BY Zenon, <2>1
<1>2. SumFunction(f) = iter[DOMAIN f]
  BY Zenon DEF SumFunction, SumFunctionOnSet, FoldFunctionOnSet, MapThenFoldSet
<1>3. Adding(f, SUBSET DOMAIN f, iter)
  BY Zenon, <1>1 DEF Adding, OneOf
<1>. QED  BY Zenon, <1>2, <1>3

LEMMA SumOfNone ==
    ASSUME NEW f, DOMAIN f = {}
    PROVE  SumFunction(f) = 0
<1>1. IsFiniteSet(DOMAIN f)
  BY FS_EmptySet
<1>2. PICK sum : Adding(f, SUBSET DOMAIN f, sum) /\ SumFunction(f) = sum[DOMAIN f]
  BY <1>1, SumIsAdding
<1>3. sum[DOMAIN f] = IF DOMAIN f = {} THEN 0
                      ELSE f[OneOf(DOMAIN f)] + sum[DOMAIN f \ {OneOf(DOMAIN f)}]
  BY Zenon, <1>2 DEF Adding
<1>. QED  BY <1>2, <1>3

\* A sum of counts is a count.
LEMMA SumIsNat ==
    ASSUME NEW f, IsFiniteSet(DOMAIN f), \A x \in DOMAIN f : f[x] \in Nat
    PROVE  SumFunction(f) \in Nat
<1>1. PICK sum : Adding(f, SUBSET DOMAIN f, sum) /\ SumFunction(f) = sum[DOMAIN f]
  BY SumIsAdding
<1>2. \A s \in SUBSET DOMAIN f : sum[s] \in Nat
  <2>1. Counts(f, DOMAIN f)
    BY DEF Counts
  <2>. QED  BY <1>1, <2>1, AddingAny DEF Summed
<1>. QED  BY <1>1, <1>2

\* f has one value more than g.
HasOneMore(f, g, T, x) ==
    /\ DOMAIN f = T \cup {x} /\ DOMAIN g = T /\ x \notin T
    /\ Counts(f, T \cup {x}) /\ \A t \in T : g[t] = f[t]

\* One value more adds that value, whichever it is.
LEMMA SumOfOneMore ==
    ASSUME NEW T, IsFiniteSet(T), NEW x, NEW f, NEW g, HasOneMore(f, g, T, x)
    PROVE  SumFunction(f) = f[x] + SumFunction(g)
<1>. USE DEF HasOneMore
<1>1. PICK D : D = DOMAIN f
  OBVIOUS
<1>2. D = T \cup {x} /\ T \subseteq D /\ x \in D /\ D \ {x} = T
  BY <1>1
<1>3. IsFiniteSet(D) /\ Counts(f, D)
  BY <1>2, FS_AddElement DEF Counts
<1>4. PICK a : Adding(f, SUBSET D, a) /\ SumFunction(f) = a[D]
  BY <1>1, <1>3, SumIsAdding
<1>5. PICK b : Adding(g, SUBSET T, b) /\ SumFunction(g) = b[T]
  BY SumIsAdding
<1>6. \A y \in D : a[D] = f[y] + a[D \ {y}]
  <2>1. D \in SUBSET D
    OBVIOUS
  <2>2. \A s \in SUBSET D : a[s] \in Nat /\ \A y \in s : a[s] = f[y] + a[s \ {y}]
    <3>1. Summed(f, D, a)
      BY <1>3, <1>4, AddingAny
    <3>. QED  BY <3>1 DEF Summed
  <2>. QED  BY <2>1, <2>2
<1>7. a[D] = f[x] + a[T]
  BY <1>2, <1>6
<1>8. \A t \in T : g[t] = f[t]
  OBVIOUS
<1>9. b[T] = a[T]
  BY <1>2, <1>4, <1>5, <1>8, AddingSame
<1>. QED  BY <1>4, <1>5, <1>7, <1>9

\* The k values of f that follow the a-th.
Stretch(f, a, k) == [i \in a + 1 .. a + k |-> f[i]]

\* And so does the next of a stretch.
LEMMA SumGrows ==
    ASSUME NEW a \in Nat, NEW k \in Nat, NEW f, Counts(f, a + 1 .. a + k + 1)
    PROVE  /\ SumFunction(Stretch(f, a, k)) \in Nat
           /\ SumFunction(Stretch(f, a, k + 1))
                 = f[a + k + 1] + SumFunction(Stretch(f, a, k))
<1>. DEFINE T == a + 1 .. a + k
            x == a + k + 1
            g == Stretch(f, a, k)
            h == Stretch(f, a, k + 1)
<1>1. T \cup {x} = a + 1 .. a + k + 1 /\ x \notin T /\ a + (k + 1) = a + k + 1
  OBVIOUS
<1>2. IsFiniteSet(T)
  BY FS_Interval
<1>3. DOMAIN g = T /\ DOMAIN h = T \cup {x}
  BY <1>1 DEF Stretch
<1>4. \A t \in T \cup {x} : h[t] \in Nat /\ h[t] = f[t]
  BY <1>1 DEF Stretch, Counts
<1>5. \A t \in T : g[t] = h[t] /\ g[t] \in Nat
  <2>1. \A t \in T : g[t] = f[t]
    BY DEF Stretch
  <2>. QED  BY <1>4, <2>1
<1>. HIDE DEF T, x, g, h
<1>6. SumFunction(h) = h[x] + SumFunction(g)
  <2>1. HasOneMore(h, g, T, x)
    BY <1>1, <1>3, <1>4, <1>5 DEF HasOneMore, Counts
  <2>. QED  BY <1>2, <2>1, SumOfOneMore
<1>7. SumFunction(g) \in Nat
  BY <1>2, <1>3, <1>5, SumIsNat
<1>. QED  BY <1>4, <1>6, <1>7 DEF x, g, h

LEMMA SumOfFirst ==
    ASSUME NEW a \in Nat, NEW f
    PROVE  SumFunction(Stretch(f, a, 0)) = 0
<1>1. DOMAIN Stretch(f, a, 0) = {}
  BY DEF Stretch
<1>. QED  BY <1>1, SumOfNone

\* Where in a sequence the values stand makes no difference.
LEMMA SumMoved ==
    ASSUME NEW a \in Nat, NEW k \in Nat, NEW f, Counts(f, 1 .. k), NEW g,
           \A j \in 1 .. k : g[a + j] = f[j]
    PROVE  SumFunction(Stretch(g, a, k)) = SumFunction(Stretch(f, 0, k))
<1>. DEFINE Good(j) == SumFunction(Stretch(g, a, j)) = SumFunction(Stretch(f, 0, j))
            Bad == {j \in 0 .. k : ~ Good(j)}
<1>1. Bad = {}
  <2>1. SUFFICES ASSUME Bad # {}
                 PROVE  FALSE
    OBVIOUS
  <2>2. PICK j \in Bad : \A i \in Bad : j <= i
    <3>1. Bad \in SUBSET Nat
      OBVIOUS
    <3>. HIDE DEF Bad
    <3>. QED  BY <2>1, <3>1, LeastNumber
  <2>3. j \in 0 .. k /\ ~ Good(j)
    BY <2>2
  <2>4. CASE j = 0
    BY <2>3, <2>4, SumOfFirst
  <2>5. CASE j # 0
    <3>1. PICK i \in Nat : j = i + 1 /\ i \in 0 .. k /\ i < j /\ j \in 1 .. k
      <4>1. j - 1 \in Nat /\ j = j - 1 + 1 /\ j - 1 \in 0 .. k /\ j - 1 < j /\ j \in 1 .. k
        BY <2>3, <2>5
      <4>. QED  BY <4>1
    <3>2. Good(i)
      <4>1. i \notin Bad
        <5>. HIDE DEF Bad
        <5>. QED  BY <2>2, <2>3, <3>1
      <4>. HIDE DEF Good
      <4>. QED  BY <3>1, <4>1
    <3>3. Counts(f, 0 + 1 .. 0 + i + 1) /\ Counts(g, a + 1 .. a + i + 1)
      <4>1. \A x \in 0 + 1 .. 0 + i + 1 : x \in 1 .. k
        BY <3>1
      <4>2. ASSUME NEW x \in a + 1 .. a + i + 1
            PROVE  g[x] \in Nat
        <5>1. x - a \in 1 .. k /\ a + (x - a) = x
          BY <3>1
        <5>2. g[a + (x - a)] = f[x - a] /\ f[x - a] \in Nat
          BY <5>1 DEF Counts
        <5>. QED  BY <5>1, <5>2
      <4>. QED  BY <4>1, <4>2 DEF Counts
    <3>4. /\ SumFunction(Stretch(f, 0, i + 1)) = f[0 + i + 1] + SumFunction(Stretch(f, 0, i))
          /\ SumFunction(Stretch(g, a, i + 1)) = g[a + i + 1] + SumFunction(Stretch(g, a, i))
      BY <3>1, <3>3, SumGrows
    <3>5. g[a + i + 1] = f[0 + i + 1]
      <4>1. a + i + 1 = a + j /\ 0 + i + 1 = j
        BY <3>1
      <4>2. g[a + j] = f[j]
        BY <3>1
      <4>. QED  BY <4>1, <4>2
    <3>. QED  BY <2>3, <3>1, <3>2, <3>4, <3>5
  <2>. QED  BY <2>4, <2>5
<1>2. Good(k)
  <2>1. k \in 0 .. k
    OBVIOUS
  <2>. HIDE DEF Good
  <2>. QED  BY <1>1, <2>1
<1>. QED  BY <1>2

LEMMA ScaledMore ==
    ASSUME NEW m \in Nat, NEW c \in Nat, NEW x \in Nat, NEW y \in Nat, NEW p \in Nat,
           NEW q \in Nat, m * x <= c * y, m * p <= c * q
    PROVE  m * (x + p) <= c * (y + q)
OBVIOUS

Scaled(f, g, k, m, c) == \A j \in 1 .. k : m * f[j] <= c * g[j]

\* What holds of each value holds of the sum.
LEMMA SumScaled ==
    ASSUME NEW k \in Nat, NEW f, Counts(f, 1 .. k), NEW g, Counts(g, 1 .. k),
           NEW m \in Nat, NEW c \in Nat, Scaled(f, g, k, m, c)
    PROVE  m * SumFunction(Stretch(f, 0, k)) <= c * SumFunction(Stretch(g, 0, k))
<1>. DEFINE Good(j) == m * SumFunction(Stretch(f, 0, j)) <= c * SumFunction(Stretch(g, 0, j))
            Bad == {j \in 0 .. k : ~ Good(j)}
<1>1. Bad = {}
  <2>1. SUFFICES ASSUME Bad # {}
                 PROVE  FALSE
    OBVIOUS
  <2>2. PICK j \in Bad : \A i \in Bad : j <= i
    <3>1. Bad \in SUBSET Nat
      OBVIOUS
    <3>. HIDE DEF Bad
    <3>. QED  BY <2>1, <3>1, LeastNumber
  <2>3. j \in 0 .. k /\ ~ Good(j)
    BY <2>2
  <2>4. CASE j = 0
    BY <2>3, <2>4, SumOfFirst
  <2>5. CASE j # 0
    <3>1. PICK i \in Nat : j = i + 1 /\ i \in 0 .. k /\ i < j /\ j \in 1 .. k
      <4>1. j - 1 \in Nat /\ j = j - 1 + 1 /\ j - 1 \in 0 .. k /\ j - 1 < j /\ j \in 1 .. k
        BY <2>3, <2>5
      <4>. QED  BY <4>1
    <3>2. Good(i)
      <4>1. i \notin Bad
        <5>. HIDE DEF Bad
        <5>. QED  BY <2>2, <2>3, <3>1
      <4>. HIDE DEF Good
      <4>. QED  BY <3>1, <4>1
    <3>3. Counts(f, 0 + 1 .. 0 + i + 1) /\ Counts(g, 0 + 1 .. 0 + i + 1)
      BY <3>1 DEF Counts
    <3>4. PICK p, q : p = SumFunction(Stretch(f, 0, i)) /\ q = SumFunction(Stretch(g, 0, i))
      OBVIOUS
    <3>5. /\ SumFunction(Stretch(f, 0, i + 1)) = f[0 + i + 1] + p /\ p \in Nat
          /\ SumFunction(Stretch(g, 0, i + 1)) = g[0 + i + 1] + q /\ q \in Nat
      BY <3>1, <3>3, <3>4, SumGrows
    <3>6. 0 + i + 1 = j /\ f[j] \in Nat /\ g[j] \in Nat /\ m * f[j] <= c * g[j]
      BY <3>1 DEF Counts, Scaled
    <3>7. m * p <= c * q
      BY <3>2, <3>4
    <3>8. m * (f[j] + p) <= c * (g[j] + q)
      BY <3>5, <3>6, <3>7, ScaledMore
    <3>. QED  BY <2>3, <3>1, <3>5, <3>6, <3>8
  <2>. QED  BY <2>4, <2>5
<1>2. Good(k)
  <2>1. k \in 0 .. k
    OBVIOUS
  <2>. HIDE DEF Good
  <2>. QED  BY <1>1, <2>1
<1>. QED  BY <1>2

\* A stretch that ends with something has something in it.
LEMMA SumIsMore ==
    ASSUME NEW k \in Nat, k # 0, NEW f, Counts(f, 1 .. k), f[k] > 0
    PROVE  SumFunction(Stretch(f, 0, k)) \in Nat /\ SumFunction(Stretch(f, 0, k)) > 0
<1>1. PICK i \in Nat : k = i + 1
  <2>1. k - 1 \in Nat /\ k = k - 1 + 1
    OBVIOUS
  <2>. QED  BY <2>1
<1>2. Counts(f, 0 + 1 .. 0 + i + 1) /\ 0 + i + 1 = k
  BY <1>1
<1>3. PICK p : p = SumFunction(Stretch(f, 0, i))
  OBVIOUS
<1>4. p \in Nat /\ SumFunction(Stretch(f, 0, k)) = f[k] + p
  BY <1>1, <1>2, <1>3, SumGrows
<1>5. f[k] \in Nat
  BY DEF Counts
<1>. QED  BY <1>4, <1>5

LEMMA SumOfNats ==
    ASSUME NEW k \in Nat, NEW f, Counts(f, 1 .. k)
    PROVE  SumFunction(Stretch(f, 0, k)) \in Nat
<1>. DEFINE g == Stretch(f, 0, k)
<1>1. DOMAIN g = 1 .. k /\ \A x \in DOMAIN g : g[x] \in Nat
  BY DEF Stretch, Counts
<1>2. IsFiniteSet(1 .. k)
  BY FS_Interval
<1>. HIDE DEF g
<1>3. SumFunction(g) \in Nat
  BY <1>1, <1>2, SumIsNat
<1>. QED  BY <1>3 DEF g
-------------------------------------------------------------------------------
(* The buckets of a grid *)

BucketOf(g, key, width, n) ==
    LET slots == g.slots[key]
        inside == {t \in DOMAIN slots : t \div width = n}
    IN  [attempts |-> SumFunction([t \in inside |-> slots[t].attempts]),
         successes |-> SumFunction([t \in inside |-> slots[t].successes]),
         amount |-> SumFunction([t \in inside |-> slots[t].amount]),
         declines |-> [code \in g.codes |->
                          SumFunction([t \in inside |-> slots[t].declines[code]])],
         at |-> n * width]

\* The thick ones among the first m, for every m up to n.
Thickening(g, key, res, n, f) ==
    f = [m \in 0 .. n |->
            IF m = 0 THEN <<>>
            ELSE IF BucketOf(g, key, res.width, m - 1).attempts >= res.min_attempts
                 THEN Append(f[m - 1], BucketOf(g, key, res.width, m - 1))
                 ELSE f[m - 1]]
ThickOf(g, key, res, n) == (CHOOSE f : Thickening(g, key, res, n, f))[n]

LastOf(g, key, res) == Max(DOMAIN g.slots[key] \cup {0}) \div res.width
BucketsOf(g, key, res) == ThickOf(g, key, res, LastOf(g, key, res) + 1)

\* The buckets of the state are those of the grid it has.
LEMMA GridsBuckets ==
    ASSUME NEW key, NEW res, NEW n
    PROVE  /\ Bucket(key, res.width, n) = BucketOf(grid, key, res.width, n)
           /\ ThickAmong(key, res, n) = ThickOf(grid, key, res, n)
           /\ ThickBuckets(key, res) = BucketsOf(grid, key, res)
<1>1. \A w, m : Bucket(key, w, m) = BucketOf(grid, key, w, m)
  BY Zenon DEF Bucket, BucketOf
<1>2. ASSUME NEW m
      PROVE  ThickAmong(key, res, m) = ThickOf(grid, key, res, m)
  BY Zenon DEF Bucket, BucketOf, ThickAmong, ThickOf, Thickening
<1>3. ThickBuckets(key, res) = BucketsOf(grid, key, res)
  BY Zenon, <1>2 DEF ThickBuckets, BucketsOf, LastOf, Slots
<1>. QED  BY <1>1, <1>2, <1>3

\* The thick buckets among the first m are determined by those among fewer.
LEMMA ThickeningExists ==
    ASSUME NEW g, NEW key, NEW res, NEW n \in Nat
    PROVE  \E f : Thickening(g, key, res, n, f)
<1>. DEFINE b(m) == BucketOf(g, key, res.width, m - 1)
            Onto(f, m) == IF m = 0 THEN <<>>
                            ELSE IF b(m).attempts >= res.min_attempts
                                 THEN Append(f[m - 1], b(m)) ELSE f[m - 1]
            Bad == {x \in Nat : ~ \E f : Thickening(g, key, res, x, f)}
<1>1. SUFFICES ASSUME Bad # {}
               PROVE  FALSE
  OBVIOUS
<1>2. PICK x \in Bad : \A y \in Bad : x <= y
  <2>1. Bad \in SUBSET Nat
    OBVIOUS
  <2>. HIDE DEF Bad
  <2>. QED  BY <1>1, <2>1, LeastNumber
<1>3. x \in Nat /\ ~ \E f : Thickening(g, key, res, x, f)
  BY <1>2
<1>4. x # 0
  <2>. DEFINE e == [m \in 0 .. 0 |-> <<>>]
  <2>1. \A m \in 0 .. 0 : Onto(e, m) = <<>>
    OBVIOUS
  <2>2. e = [m \in 0 .. 0 |-> Onto(e, m)]
    <3>. HIDE DEF Onto
    <3>. QED  BY <2>1
  <2>3. Thickening(g, key, res, 0, e)
    BY Zenon, <2>2 DEF Thickening
  <2>. QED  BY <1>3, <2>3
<1>5. PICK f : Thickening(g, key, res, x - 1, f)
  <2>1. x - 1 \in Nat /\ x - 1 \notin Bad
    <3>. HIDE DEF Bad
    <3>. QED  BY <1>2, <1>3, <1>4
  <2>. QED  BY <2>1
<1>6. \A m \in 0 .. x - 1 : f[m] = Onto(f, m)
  BY Zenon, <1>5 DEF Thickening
<1>. DEFINE h == [m \in 0 .. x |-> IF m = x THEN Onto(f, x) ELSE f[m]]
<1>7. ASSUME NEW m \in 0 .. x
      PROVE  h[m] = Onto(h, m)
  <2>1. m \in Int /\ (m # 0 => m - 1 \in 0 .. x /\ m - 1 # x)
    BY <1>3
  <2>2. m # 0 => h[m - 1] = f[m - 1]
    <3>. HIDE DEF Onto
    <3>. QED  BY <2>1
  <2>. HIDE DEF h
  <2>3. Onto(h, m) = Onto(f, m)
    BY <2>2
  <2>. HIDE DEF Onto
  <2>4. CASE m = x
    BY <2>3, <2>4 DEF h
  <2>5. CASE m # x
    <3>1. m \in 0 .. x - 1
      BY <1>3, <2>5
    <3>2. h[m] = f[m]
      BY <2>5 DEF h
    <3>. QED  BY <1>6, <2>3, <3>1, <3>2
  <2>. QED  BY <2>4, <2>5
<1>8. h = [m \in 0 .. x |-> h[m]]
  OBVIOUS
<1>9. Thickening(g, key, res, x, h)
  <2>. HIDE DEF h, Onto
  <2>1. [m \in 0 .. x |-> h[m]] = [m \in 0 .. x |-> Onto(h, m)]
    BY <1>7
  <2>2. h = [m \in 0 .. x |-> Onto(h, m)]
    BY <1>8, <2>1
  <2>. QED  BY Zenon, <2>2 DEF Thickening, Onto
<1>. QED  BY <1>3, <1>9

\* Two such functions agree as far as both go.
LEMMA ThickeningSame ==
    ASSUME NEW g, NEW key, NEW res, NEW k \in Nat, NEW n \in Nat, k <= n,
           NEW f, Thickening(g, key, res, k, f), NEW h, Thickening(g, key, res, n, h)
    PROVE  f[k] = h[k]
<1>. DEFINE b(m) == BucketOf(g, key, res.width, m - 1)
            Onto(e, m) == IF m = 0 THEN <<>>
                            ELSE IF b(m).attempts >= res.min_attempts
                                 THEN Append(e[m - 1], b(m)) ELSE e[m - 1]
            Bad == {m \in 0 .. k : f[m] # h[m]}
<1>1. SUFFICES ASSUME Bad # {}
               PROVE  FALSE
  <2>1. k \in 0 .. k
    OBVIOUS
  <2>. QED  BY <2>1
<1>2. PICK m \in Bad : \A j \in Bad : m <= j
  <2>1. Bad \in SUBSET Nat
    OBVIOUS
  <2>. HIDE DEF Bad
  <2>. QED  BY <1>1, <2>1, LeastNumber
<1>3. m \in 0 .. k /\ m \in 0 .. n /\ f[m] # h[m]
  BY <1>2
<1>4. f[m] = Onto(f, m) /\ h[m] = Onto(h, m)
  BY Zenon, <1>3 DEF Thickening
<1>5. m # 0 => f[m - 1] = h[m - 1]
  <2>1. m # 0 => m - 1 \in 0 .. k /\ m - 1 < m
    BY <1>3
  <2>2. m # 0 => m - 1 \notin Bad
    <3>. HIDE DEF Bad
    <3>. QED  BY <1>2, <1>3, <2>1
  <2>. QED  BY <2>1, <2>2
<1>6. Onto(f, m) = Onto(h, m)
  BY <1>5
<1>. HIDE DEF Onto
<1>. QED  BY <1>3, <1>4, <1>6

\* A bucket joins the thick ones before it if it is thick.
LEMMA ThickStep ==
    ASSUME NEW g, NEW key, NEW res, NEW n \in Nat
    PROVE  LET b == BucketOf(g, key, res.width, n)
           IN  /\ ThickOf(g, key, res, 0) = <<>>
               /\ ThickOf(g, key, res, n + 1)
                     = IF b.attempts >= res.min_attempts
                       THEN Append(ThickOf(g, key, res, n), b) ELSE ThickOf(g, key, res, n)
<1>. DEFINE b(m) == BucketOf(g, key, res.width, m - 1)
            Onto(e, m) == IF m = 0 THEN <<>>
                            ELSE IF b(m).attempts >= res.min_attempts
                                 THEN Append(e[m - 1], b(m)) ELSE e[m - 1]
<1>1. ASSUME NEW k \in Nat
      PROVE  \E f : /\ Thickening(g, key, res, k, f) /\ ThickOf(g, key, res, k) = f[k]
                    /\ \A m \in 0 .. k : f[m] = Onto(f, m)
  <2>. DEFINE f == CHOOSE e : Thickening(g, key, res, k, e)
  <2>1. \E e : Thickening(g, key, res, k, e)
    BY ThickeningExists
  <2>2. Thickening(g, key, res, k, f)
    BY Zenon, <2>1
  <2>3. ThickOf(g, key, res, k) = f[k]
    BY Zenon DEF ThickOf
  <2>. HIDE DEF f
  <2>4. \A m \in 0 .. k : f[m] = Onto(f, m)
    BY Zenon, <2>2 DEF Thickening
  <2>. QED  BY Zenon, <2>2, <2>3, <2>4
<1>2. ThickOf(g, key, res, 0) = <<>>
  <2>1. PICK f : /\ ThickOf(g, key, res, 0) = f[0]
                 /\ \A m \in 0 .. 0 : f[m] = Onto(f, m)
    BY <1>1
  <2>2. Onto(f, 0) = <<>>
    OBVIOUS
  <2>. HIDE DEF Onto
  <2>. QED  BY <2>1, <2>2
<1>3. PICK f : /\ Thickening(g, key, res, n, f) /\ ThickOf(g, key, res, n) = f[n]
               /\ \A m \in 0 .. n : f[m] = Onto(f, m)
  BY <1>1
<1>4. PICK h : /\ Thickening(g, key, res, n + 1, h) /\ ThickOf(g, key, res, n + 1) = h[n + 1]
               /\ \A m \in 0 .. n + 1 : h[m] = Onto(h, m)
  <2>1. n + 1 \in Nat
    OBVIOUS
  <2>. HIDE DEF Onto
  <2>. QED  BY <1>1, <2>1
<1>5. f[n] = h[n]
  <2>1. n + 1 \in Nat /\ n <= n + 1
    OBVIOUS
  <2>. HIDE DEF Onto
  <2>. QED  BY <1>3, <1>4, <2>1, ThickeningSame
<1>6. h[n + 1] = Onto(h, n + 1)
  <2>1. n + 1 \in 0 .. n + 1
    OBVIOUS
  <2>. HIDE DEF Onto
  <2>. QED  BY <1>4, <2>1
<1>7. n + 1 # 0 /\ n + 1 - 1 = n
  OBVIOUS
<1>8. Onto(h, n + 1) = IF BucketOf(g, key, res.width, n).attempts >= res.min_attempts
                         THEN Append(h[n], BucketOf(g, key, res.width, n)) ELSE h[n]
  BY <1>7
<1>. HIDE DEF Onto
<1>. QED  BY <1>2, <1>3, <1>4, <1>5, <1>6, <1>8
-------------------------------------------------------------------------------
(* The thick buckets, in order *)

IsResolution(res) ==
    /\ res.width \in Nat \ {0} /\ res.min_attempts \in Nat \ {0}
    /\ res.sustained_buckets \in Nat \ {0}

\* A bucket that is thick enough to say something.
IsThick(b, res) ==
    /\ b.attempts \in Nat /\ b.successes \in Nat /\ b.amount \in Nat
    /\ b.attempts >= res.min_attempts
IsThickList(s, res) == IsList(s) /\ \A n \in DOMAIN s : IsThick(s[n], res)

LEMMA GreatestOfThem ==
    ASSUME NEW S \in SUBSET Int, IsFiniteSet(S), S # {}
    PROVE  Max(S) \in S /\ \A x \in S : x <= Max(S)
<1>. DEFINE HasMax(s) == \E m \in s : \A x \in s : x <= m
            Bad == {s \in SUBSET S : s # {} /\ ~ HasMax(s)}
<1>1. Bad = {}
  <2>1. SUFFICES ASSUME Bad # {}
                 PROVE  FALSE
    OBVIOUS
  <2>2. PICK s \in Bad : \A x \in s : s \ {x} \notin Bad
    <3>1. Bad \in SUBSET (SUBSET S)
      OBVIOUS
    <3>. HIDE DEF Bad
    <3>. QED  BY <2>1, <3>1, SmallestSet
  <2>3. s \in SUBSET S /\ s # {} /\ ~ HasMax(s)
    BY <2>2
  <2>4. PICK x \in s : TRUE
    BY <2>3
  <2>5. s \ {x} \in SUBSET S /\ s \ {x} \notin Bad /\ x \in Int
    <3>. HIDE DEF Bad
    <3>. QED  BY <2>2, <2>3, <2>4
  <2>6. CASE s \ {x} = {}
    <3>1. \A y \in s : y = x
      BY <2>6
    <3>2. HasMax(s)
      BY <2>4, <2>5, <3>1
    <3>. QED  BY <2>3, <3>2
  <2>7. CASE s \ {x} # {}
    <3>1. HasMax(s \ {x})
      <4>. HIDE DEF HasMax
      <4>. QED  BY <2>5, <2>7
    <3>2. PICK m \in s \ {x} : \A y \in s \ {x} : y <= m
      BY <3>1
    <3>3. m \in Int /\ \A y \in s : y \in Int /\ (y = x \/ y <= m)
      BY <2>3, <3>2
    <3>4. HasMax(s)
      <4>1. CASE x <= m
        BY <3>2, <3>3, <4>1
      <4>2. CASE m <= x
        BY <2>4, <2>5, <3>2, <3>3, <4>2
      <4>. QED  BY <2>5, <3>3, <4>1, <4>2
    <3>. QED  BY <2>3, <3>4
  <2>. QED  BY <2>6, <2>7
<1>2. PICK m \in S : \A x \in S : x <= m
  <2>1. HasMax(S)
    <3>. HIDE DEF HasMax
    <3>. QED  BY <1>1
  <2>. QED  BY <2>1
<1>3. \E y \in S : \A x \in S : y >= x
  BY <1>2
<1>4. Max(S) \in S /\ \A x \in S : Max(S) >= x
  BY <1>3, Zenon DEF Max
<1>. QED  BY <1>4

\* The last bucket has a number.
LEMMA LastIsNat ==
    ASSUME NEW g, IsGrid(g), NEW key \in DOMAIN g.slots, NEW res, IsResolution(res)
    PROVE  LastOf(g, key, res) \in Nat
<1>. DEFINE S == DOMAIN g.slots[key] \cup {0}
<1>1. DOMAIN g.slots[key] \subseteq Nat /\ IsFiniteSet(DOMAIN g.slots[key])
  BY DEF IsGrid
<1>2. S \in SUBSET Nat /\ S \in SUBSET Int /\ S # {} /\ IsFiniteSet(S)
  BY <1>1, FS_AddElement
<1>3. Max(S) \in S
  <2>. HIDE DEF S
  <2>. QED  BY <1>2, GreatestOfThem
<1>4. PICK m \in Nat : Max(S) = m
  BY <1>2, <1>3
<1>5. res.width \in Nat /\ res.width > 0
  BY DEF IsResolution
<1>6. m \div res.width \in Nat
  BY <1>5
<1>. QED  BY <1>4, <1>6 DEF LastOf

LEMMA SumInside ==
    ASSUME NEW T, IsFiniteSet(T), NEW S \in SUBSET T, NEW f, DOMAIN f = S,
           \A t \in S : f[t] \in Nat
    PROVE  SumFunction(f) \in Nat
<1>1. IsFiniteSet(S)
  BY FS_Subset
<1>. QED  BY <1>1, SumIsNat

\* A bucket counts attempts, successes and amounts.
LEMMA BucketCounts ==
    ASSUME NEW g, IsGrid(g), NEW key \in DOMAIN g.slots, NEW w, NEW n
    PROVE  LET b == BucketOf(g, key, w, n)
           IN  b.attempts \in Nat /\ b.successes \in Nat /\ b.amount \in Nat
<1>. DEFINE slots == g.slots[key]
            T == DOMAIN slots
            S == {t \in T : t \div w = n}
<1>1. IsFiniteSet(T) /\ S \in SUBSET T
  BY DEF IsGrid
<1>2. \A t \in S : slots[t].attempts \in Nat /\ slots[t].successes \in Nat
                   /\ slots[t].amount \in Nat
  BY DEF IsGrid
<1>. DEFINE b == BucketOf(g, key, w, n)
<1>3. /\ b.attempts = SumFunction([t \in S |-> slots[t].attempts])
      /\ b.successes = SumFunction([t \in S |-> slots[t].successes])
      /\ b.amount = SumFunction([t \in S |-> slots[t].amount])
  BY DEF BucketOf
<1>. HIDE DEF S, T, slots, b
<1>4. SumFunction([t \in S |-> slots[t].attempts]) \in Nat
  <2>. DEFINE f == [t \in S |-> slots[t].attempts]
  <2>1. DOMAIN f = S /\ \A t \in S : f[t] \in Nat
    BY <1>2
  <2>. HIDE DEF f
  <2>2. SumFunction(f) \in Nat
    BY <1>1, <2>1, SumInside
  <2>. QED  BY <2>2 DEF f
<1>5. SumFunction([t \in S |-> slots[t].successes]) \in Nat
  <2>. DEFINE f == [t \in S |-> slots[t].successes]
  <2>1. DOMAIN f = S /\ \A t \in S : f[t] \in Nat
    BY <1>2
  <2>. HIDE DEF f
  <2>2. SumFunction(f) \in Nat
    BY <1>1, <2>1, SumInside
  <2>. QED  BY <2>2 DEF f
<1>6. SumFunction([t \in S |-> slots[t].amount]) \in Nat
  <2>. DEFINE f == [t \in S |-> slots[t].amount]
  <2>1. DOMAIN f = S /\ \A t \in S : f[t] \in Nat
    BY <1>2
  <2>. HIDE DEF f
  <2>2. SumFunction(f) \in Nat
    BY <1>1, <2>1, SumInside
  <2>. QED  BY <2>2 DEF f
<1>. QED  BY <1>3, <1>4, <1>5, <1>6 DEF b

\* The thick buckets are a list of thick buckets.
LEMMA ThickIsList ==
    ASSUME NEW g, IsGrid(g), NEW key \in DOMAIN g.slots, NEW res, IsResolution(res),
           NEW n \in Nat
    PROVE  IsThickList(ThickOf(g, key, res, n), res)
<1>. DEFINE Good(k) == IsThickList(ThickOf(g, key, res, k), res)
            Bad == {k \in Nat : ~ Good(k)}
<1>1. SUFFICES ASSUME Bad # {}
               PROVE  FALSE
  OBVIOUS
<1>2. PICK k \in Bad : \A j \in Bad : k <= j
  <2>1. Bad \in SUBSET Nat
    OBVIOUS
  <2>. HIDE DEF Bad
  <2>. QED  BY <1>1, <2>1, LeastNumber
<1>3. k \in Nat /\ ~ Good(k)
  BY <1>2
<1>4. CASE k = 0
  <2>1. ThickOf(g, key, res, 0) = <<>>
    BY <1>3, ThickStep
  <2>2. Good(0)
    BY <2>1, EmptyList DEF IsThickList
  <2>. QED  BY <1>3, <1>4, <2>2
<1>5. CASE k # 0
  <2>1. PICK j \in Nat : k = j + 1 /\ j < k
    <3>1. k - 1 \in Nat /\ k = k - 1 + 1 /\ k - 1 < k
      BY <1>3, <1>5
    <3>. QED  BY <3>1
  <2>2. Good(j)
    <3>1. j \notin Bad
      <4>. HIDE DEF Bad
      <4>. QED  BY <1>2, <1>3, <2>1
    <3>. HIDE DEF Good
    <3>. QED  BY <2>1, <3>1
  <2>3. PICK s, b : s = ThickOf(g, key, res, j) /\ b = BucketOf(g, key, res.width, j)
    OBVIOUS
  <2>4. ThickOf(g, key, res, j + 1) = IF b.attempts >= res.min_attempts THEN Append(s, b) ELSE s
    BY <2>3, ThickStep
  <2>5. b.attempts \in Nat /\ b.successes \in Nat /\ b.amount \in Nat
    BY <2>3, BucketCounts
  <2>6. IsList(s) /\ \A m \in DOMAIN s : IsThick(s[m], res)
    BY <2>2, <2>3 DEF IsThickList
  <2>7. CASE b.attempts >= res.min_attempts
    <3>1. IsThick(b, res)
      BY <2>5, <2>7 DEF IsThick
    <3>2. PICK t : t = Append(s, b)
      OBVIOUS
    <3>3. /\ IsList(t) /\ DOMAIN t = DOMAIN s \cup {Len(s) + 1}
          /\ \A m \in DOMAIN s : t[m] = s[m]
          /\ t[Len(s) + 1] = b
      BY <2>6, <3>2, AppendList
    <3>4. IsThickList(t, res)
      BY <2>6, <3>1, <3>3 DEF IsThickList
    <3>. QED  BY <1>3, <2>1, <2>4, <2>7, <3>2, <3>4
  <2>8. CASE ~ (b.attempts >= res.min_attempts)
    BY <1>3, <2>1, <2>2, <2>3, <2>4, <2>8
  <2>. QED  BY <2>7, <2>8
<1>. QED  BY <1>4, <1>5

\* The first buckets stay the first.
Begins(s, t) == Len(s) <= Len(t) /\ \A n \in DOMAIN s : n \in DOMAIN t /\ t[n] = s[n]

\* Reading on changes nothing about what was read.
LEMMA ThickBegins ==
    ASSUME NEW g, IsGrid(g), NEW key \in DOMAIN g.slots, NEW res, IsResolution(res),
           NEW m \in Nat, NEW n \in Nat, m <= n
    PROVE  Begins(ThickOf(g, key, res, m), ThickOf(g, key, res, n))
<1>. DEFINE Good(k) == Begins(ThickOf(g, key, res, m), ThickOf(g, key, res, k))
            Bad == {k \in m .. n : ~ Good(k)}
<1>1. Bad = {}
  <2>1. SUFFICES ASSUME Bad # {}
                 PROVE  FALSE
    OBVIOUS
  <2>2. PICK k \in Bad : \A j \in Bad : k <= j
    <3>1. Bad \in SUBSET Nat
      OBVIOUS
    <3>. HIDE DEF Bad
    <3>. QED  BY <2>1, <3>1, LeastNumber
  <2>3. k \in m .. n /\ k \in Nat /\ ~ Good(k)
    BY <2>2
  <2>4. \A j \in Nat : IsList(ThickOf(g, key, res, j)) /\ Len(ThickOf(g, key, res, j)) \in Nat
    BY ThickIsList, ListFacts DEF IsThickList
  <2>5. k # m
    <3>1. Good(m)
      BY <2>4 DEF Begins
    <3>. HIDE DEF Good
    <3>. QED  BY <2>3, <3>1
  <2>6. PICK j \in Nat : k = j + 1 /\ j < k /\ j \in m .. n
    <3>1. k - 1 \in Nat /\ k = k - 1 + 1 /\ k - 1 < k /\ k - 1 \in m .. n
      BY <2>3, <2>5
    <3>. QED  BY <3>1
  <2>7. Good(j)
    <3>1. j \notin Bad
      <4>. HIDE DEF Bad
      <4>. QED  BY <2>2, <2>3, <2>6
    <3>. HIDE DEF Good
    <3>. QED  BY <2>6, <3>1
  <2>8. PICK s, t, b : /\ s = ThickOf(g, key, res, m) /\ t = ThickOf(g, key, res, j)
                       /\ b = BucketOf(g, key, res.width, j)
    OBVIOUS
  <2>9. ThickOf(g, key, res, j + 1) = IF b.attempts >= res.min_attempts THEN Append(t, b) ELSE t
    BY <2>8, ThickStep
  <2>10. IsList(s) /\ IsList(t) /\ Len(s) \in Nat /\ Len(t) \in Nat /\ Begins(s, t)
    BY <2>4, <2>7, <2>8
  <2>11. CASE b.attempts >= res.min_attempts
    <3>1. PICK u : u = Append(t, b)
      OBVIOUS
    <3>2. /\ IsList(u) /\ DOMAIN u = DOMAIN t \cup {Len(t) + 1}
          /\ \A i \in DOMAIN t : u[i] = t[i]
      BY <2>10, <3>1, AppendList
    <3>3. Len(u) = Len(t) + 1
      <4>1. /\ Len(u) \in Nat /\ DOMAIN u = 1 .. Len(u) /\ DOMAIN t = 1 .. Len(t)
        BY <2>10, <3>2, ListFacts
      <4>2. PICK L \in Nat, M \in Nat : L = Len(u) /\ M = Len(t)
        BY <2>10, <4>1
      <4>3. 1 .. L = 1 .. M \cup {M + 1}
        BY <3>2, <4>1, <4>2
      <4>4. M + 1 \in 1 .. L
        BY <4>3
      <4>5. M + 1 <= L /\ L \in 1 .. L
        BY <4>4
      <4>6. L \in 1 .. M \/ L = M + 1
        BY <4>3, <4>5
      <4>. QED  BY <4>2, <4>5, <4>6
    <3>4. Begins(s, u)
      BY <2>10, <3>2, <3>3 DEF Begins
    <3>. QED  BY <2>3, <2>6, <2>8, <2>9, <2>11, <3>1, <3>4
  <2>12. CASE ~ (b.attempts >= res.min_attempts)
    BY <2>3, <2>6, <2>7, <2>8, <2>9, <2>12
  <2>. QED  BY <2>11, <2>12
<1>2. Good(n)
  <2>. HIDE DEF Good
  <2>1. n \in m .. n
    OBVIOUS
  <2>. QED  BY <1>1, <2>1
<1>. QED  BY <1>2
-------------------------------------------------------------------------------
(* Healthy rates, and what breaches them *)

LEMMA LeastOfThem ==
    ASSUME NEW S \in SUBSET Nat, S # {}
    PROVE  Min(S) \in S /\ \A x \in S : Min(S) <= x
<1>1. \E y \in S : \A x \in S : y <= x
  BY LeastNumber
<1>. QED  BY <1>1, Zenon DEF Min

LEMMA IntervalEnds ==
    ASSUME NEW a \in Nat, NEW b \in Nat, a <= b
    PROVE  Min(a .. b) = a /\ Max(a .. b) = b
<1>1. /\ a .. b \in SUBSET Nat /\ a .. b \in SUBSET Int /\ a \in a .. b /\ b \in a .. b
      /\ a .. b # {}
  OBVIOUS
<1>2. IsFiniteSet(a .. b)
  BY FS_Interval
<1>3. Min(a .. b) \in a .. b /\ \A x \in a .. b : Min(a .. b) <= x
  BY <1>1, LeastOfThem
<1>4. Max(a .. b) \in a .. b /\ \A x \in a .. b : x <= Max(a .. b)
  BY <1>1, <1>2, GreatestOfThem
<1>. QED  BY <1>1, <1>3, <1>4

\* A thick bucket has a rate.
LEMMA RateIsNat ==
    ASSUME NEW res, IsResolution(res), NEW b, IsThick(b, res)
    PROVE  rate(b) \in Nat /\ b.attempts \in Nat /\ b.attempts > 0
<1>1. /\ b.attempts \in Nat /\ b.successes \in Nat /\ b.attempts > 0
  BY DEF IsThick, IsResolution
<1>2. PICK x, y \in Nat : x = 1000 * b.successes /\ y = b.attempts
  BY <1>1
<1>3. x \in Nat /\ y > 0
  BY <1>1, <1>2
<1>4. x \div y \in Nat
  BY <1>2, <1>3
<1>. QED  BY <1>1, <1>2, <1>4 DEF rate

Lowest(B) == Min(Healthy(B))
Highest(B) == Max(Healthy(B))

\* What counts as healthy goes from the lowest rate of the warm-up to the highest.
LEMMA HealthyFacts ==
    ASSUME NEW res, IsResolution(res), NEW B, IsThickList(B, res),
           warmup_buckets <= Len(B)
    PROVE  /\ Lowest(B) \in Nat /\ Highest(B) \in Nat /\ Lowest(B) <= Highest(B)
           /\ Healthy(B) = Lowest(B) .. Highest(B)
           /\ \A n \in 1 .. warmup_buckets : rate(B[n]) \in Healthy(B)
<1>. DEFINE K == 1 .. warmup_buckets
            f == [n \in K |-> rate(B[n])]
            warm == {rate(B[n]) : n \in K}
<1>1. warmup_buckets \in Nat /\ warmup_buckets # 0
  BY DetectionAssumption
<1>2. Len(B) \in Nat /\ DOMAIN B = 1 .. Len(B)
  BY ListFacts DEF IsThickList
<1>3. \A n \in K : n \in DOMAIN B
  BY <1>1, <1>2
<1>4. \A n \in K : rate(B[n]) \in Nat
  BY <1>3, RateIsNat DEF IsThickList
<1>5. warm \in SUBSET Nat /\ warm \in SUBSET Int /\ warm # {}
  <2>1. 1 \in K
    BY <1>1
  <2>. HIDE DEF K
  <2>. QED  BY <1>4, <2>1
<1>6. IsFiniteSet(warm)
  <2>1. IsFiniteSet(K)
    BY <1>1, FS_Interval
  <2>. HIDE DEF K
  <2>2. f \in [K -> warm] /\ \A r \in warm : \E n \in K : f[n] = r
    OBVIOUS
  <2>3. f \in Surjection(K, warm)
    <3>. HIDE DEF f, warm
    <3>. QED  BY <2>2 DEF Surjection
  <2>. HIDE DEF f, warm
  <2>. QED  BY <2>1, <2>3, FS_Surjection
<1>7. Healthy(B) = Min(warm) .. Max(warm)
  BY DEF Healthy
<1>8. \A n \in K : rate(B[n]) \in warm
  OBVIOUS
<1>. HIDE DEF warm, f
<1>9. /\ Min(warm) \in warm /\ \A r \in warm : Min(warm) <= r
      /\ Max(warm) \in warm /\ \A r \in warm : r <= Max(warm)
  BY <1>5, <1>6, LeastOfThem, GreatestOfThem
<1>10. PICK a \in Nat, b \in Nat : a = Min(warm) /\ b = Max(warm)
  BY <1>5, <1>9
<1>11. a <= b
  BY <1>9, <1>10
<1>12. Min(a .. b) = a /\ Max(a .. b) = b
  BY <1>11, IntervalEnds
<1>13. Healthy(B) = a .. b /\ Lowest(B) = a /\ Highest(B) = b
  BY <1>7, <1>10, <1>12 DEF Lowest, Highest
<1>14. ASSUME NEW n \in K
       PROVE  rate(B[n]) \in a .. b
  <2>1. PICK r \in Nat : r = rate(B[n]) /\ r \in warm
    BY <1>4, <1>8
  <2>2. a <= r /\ r <= b
    BY <1>9, <1>10, <2>1
  <2>. QED  BY <2>1, <2>2
<1>. QED  BY <1>11, <1>13, <1>14

\* A step from x towards r, of any part of the way, stays between them.
LEMMA Between ==
    ASSUME NEW alpha \in 0 .. 100, NEW r \in Nat, NEW x \in Nat, NEW lo \in Nat, NEW hi \in Nat,
           r \in lo .. hi, x \in lo .. hi
    PROVE  x + (alpha * (r - x)) \div 100 \in lo .. hi
<1>. DEFINE d == (alpha * (r - x)) \div 100
<1>1. CASE r >= x
  <2>1. d \in Int /\ d >= 0 /\ d <= r - x
    BY <1>1
  <2>. HIDE DEF d
  <2>. QED  BY <2>1
<1>2. CASE r <= x
  <2>1. d \in Int /\ d <= 0 /\ d >= r - x
    BY <1>2
  <2>. HIDE DEF d
  <2>. QED  BY <2>1
<1>. QED  BY <1>1, <1>2

\* Learning from a healthy bucket leaves the baseline healthy.
LEMMA LearnedIsHealthy ==
    ASSUME NEW res, IsResolution(res), NEW B, IsThickList(B, res), warmup_buckets <= Len(B),
           NEW x \in Healthy(B), NEW b, rate(b) \in Healthy(B)
    PROVE  Learned(x, b) \in Healthy(B)
<1>1. /\ Lowest(B) \in Nat /\ Highest(B) \in Nat /\ Healthy(B) = Lowest(B) .. Highest(B)
  BY HealthyFacts
<1>2. PICK r, lo, hi \in Nat : r = rate(b) /\ lo = Lowest(B) /\ hi = Highest(B)
  BY <1>1
<1>3. x \in Nat /\ r \in lo .. hi /\ x \in lo .. hi
  BY <1>1, <1>2
<1>4. ewma_alpha \in 0 .. 100
  BY DetectionAssumption
<1>5. x + (ewma_alpha * (r - x)) \div 100 \in lo .. hi
  BY <1>2, <1>3, <1>4, Between
<1>. QED  BY <1>1, <1>2, <1>5 DEF Learned

\* After the warm-up a bucket breaches a healthy baseline just when it is bad.
LEMMA BadBreaches ==
    ASSUME NEW res, IsResolution(res), NEW B, IsThickList(B, res), ClearCut(B),
           NEW x \in Healthy(B), NEW n \in warmup_buckets + 1 .. Len(B)
    PROVE  /\ Breaching(B[n], x) <=> IsBad(B, n)
           /\ IsBad(B, n) => Breaching(B[n], Highest(B))
<1>1. warmup_buckets \in Nat /\ min_absolute_drop \in Nat
  BY DetectionAssumption
<1>2. Len(B) \in Nat /\ DOMAIN B = 1 .. Len(B) /\ n \in DOMAIN B /\ warmup_buckets <= Len(B)
  BY <1>1, ListFacts DEF IsThickList
<1>3. /\ Lowest(B) \in Nat /\ Highest(B) \in Nat /\ Lowest(B) <= Highest(B)
      /\ Healthy(B) = Lowest(B) .. Highest(B)
  BY <1>2, HealthyFacts
<1>4. rate(B[n]) \in Nat
  BY <1>2, RateIsNat DEF IsThickList
<1>5. /\ Highest(B) - Lowest(B) < min_absolute_drop
      /\ rate(B[n]) \in Healthy(B) \/ \A base \in Healthy(B) : Breaching(B[n], base)
  BY DEF ClearCut, Lowest, Highest
<1>6. ASSUME rate(B[n]) \in Healthy(B)
      PROVE  ~ Breaching(B[n], x)
  <2>1. PICK r, lo, hi \in Nat : r = rate(B[n]) /\ lo = Lowest(B) /\ hi = Highest(B)
    BY <1>3, <1>4
  <2>2. r \in lo .. hi /\ x \in lo .. hi /\ hi - lo < min_absolute_drop
    BY <1>3, <1>5, <1>6, <2>1
  <2>3. x - r < min_absolute_drop
    BY <1>1, <2>1, <2>2
  <2>. QED  BY <1>1, <2>1, <2>2, <2>3 DEF Breaching
<1>7. IsBad(B, n) <=> rate(B[n]) \notin Healthy(B)
  BY DEF IsBad
<1>8. Highest(B) \in Healthy(B)
  BY <1>3
<1>. QED  BY <1>5, <1>6, <1>7, <1>8
-------------------------------------------------------------------------------
(* What a run costs: of the baselines that are healthy the lowest makes it the
   least, the highest the most *)

LEMMA MaxOfTwo ==
    ASSUME NEW p \in Int, NEW q \in Int
    PROVE  Max({p, q}) = IF p >= q THEN p ELSE q
<1>. DEFINE m == IF p >= q THEN p ELSE q
<1>1. m \in {p, q} /\ \A y \in {p, q} : m >= y
  OBVIOUS
<1>2. \A x \in {p, q} : (\A y \in {p, q} : x >= y) => x = m
  OBVIOUS
<1>. HIDE DEF m
<1>3. (CHOOSE x \in {p, q} : \A y \in {p, q} : x >= y) = m
  BY <1>1, <1>2
<1>. QED  BY <1>3 DEF Max, m

LEMMA Larger ==
    ASSUME NEW p \in Nat, NEW x \in Int, NEW y \in Int, x <= y
    PROVE  p * x <= p * y
OBVIOUS

\* What S of A attempts cost that moved M, against a baseline b: as Loss has it, and
\* as _emit has it.
Cost(A, S, M, b) == ((M \div A) * (b - (1000 * S) \div A) * A) \div 1000
Excess(A, S, M, b) ==
    ((M \div A) * Max({0, (b - (1000 * S) \div A) * A})) \div 1000

\* The higher the baseline the greater the loss.
LEMMA CostGrows ==
    ASSUME NEW A \in Nat, A > 0, NEW S \in Nat, NEW M \in Nat,
           NEW lo \in Nat, NEW x \in Nat, NEW hi \in Nat, lo <= x, x <= hi,
           1000 * S <= hi * A
    PROVE  /\ Cost(A, S, M, lo) <= Excess(A, S, M, x)
           /\ Excess(A, S, M, x) <= Cost(A, S, M, hi)
           /\ Cost(A, S, M, lo) \in Int /\ Cost(A, S, M, hi) \in Int
           /\ Excess(A, S, M, x) \in Int
<1>. DEFINE p == M \div A
            q == (1000 * S) \div A
            a == (lo - q) * A
            b == (x - q) * A
            c == (hi - q) * A
<1>1. p \in Nat
  OBVIOUS
<1>2. PICK s \in Nat : s = 1000 * S
  OBVIOUS
<1>3. s <= hi * A
  BY <1>2
<1>4. s \div A \in Nat /\ s \div A <= hi
  BY <1>3
<1>5. q \in Nat /\ q <= hi
  BY <1>2, <1>4
<1>6. /\ Cost(A, S, M, lo) = (p * (lo - q) * A) \div 1000
      /\ Cost(A, S, M, hi) = (p * (hi - q) * A) \div 1000
      /\ Excess(A, S, M, x) = (p * Max({0, b})) \div 1000
  BY Zenon DEF Cost, Excess
<1>. HIDE DEF p, q
<1>7. a \in Int /\ b \in Int /\ c \in Int
  BY <1>5
<1>8. a <= b /\ b <= c /\ 0 <= c
  <2>1. A * (lo - q) <= A * (x - q)
    <3>1. lo - q \in Int /\ x - q \in Int /\ lo - q <= x - q
      BY <1>5
    <3>. QED  BY <3>1, Larger
  <2>2. A * (x - q) <= A * (hi - q)
    <3>1. hi - q \in Int /\ x - q \in Int /\ x - q <= hi - q
      BY <1>5
    <3>. QED  BY <3>1, Larger
  <2>3. A * 0 <= A * (hi - q)
    <3>1. hi - q \in Int /\ 0 <= hi - q
      BY <1>5
    <3>. QED  BY <3>1, Larger
  <2>. QED  BY <1>5, <2>1, <2>2, <2>3
<1>9. p * (lo - q) * A = p * a /\ p * (hi - q) * A = p * c
  BY <1>1, <1>5
<1>. HIDE DEF a, b, c
<1>10. PICK m \in Int : m = Max({0, b}) /\ a <= m /\ m <= c
  <2>1. Max({0, b}) = IF 0 >= b THEN 0 ELSE b
    BY <1>7, MaxOfTwo
  <2>. QED  BY <1>7, <1>8, <2>1
<1>11. p * a <= p * m /\ p * m <= p * c
  BY <1>1, <1>7, <1>10, Larger
<1>12. p * a \in Int /\ p * m \in Int /\ p * c \in Int
  BY <1>1, <1>7, <1>10
<1>13. /\ (p * a) \div 1000 <= (p * m) \div 1000 /\ (p * m) \div 1000 <= (p * c) \div 1000
       /\ (p * a) \div 1000 \in Int /\ (p * m) \div 1000 \in Int
       /\ (p * c) \div 1000 \in Int
  BY <1>11, <1>12
<1>. QED  BY <1>6, <1>9, <1>10, <1>13

\* The values of f and those of g, which stand elsewhere.
Shifted(f, g, from, k) ==
    /\ f = [j \in 1 .. k |-> f[j]] /\ g = [n \in from + 1 .. from + k |-> g[n]]
    /\ \A j \in 1 .. k : f[j] \in Nat /\ g[from + j] = f[j]

LEMMA SumShifted ==
    ASSUME NEW from \in Nat, NEW k \in Nat, NEW f, NEW g, Shifted(f, g, from, k)
    PROVE  SumFunction(g) = SumFunction(f) /\ Stretch(f, 0, k) = f
<1>1. Stretch(g, from, k) = g
  BY DEF Stretch, Shifted
<1>2. Stretch(f, 0, k) = f
  <2>1. 0 + 1 .. 0 + k = 1 .. k
    OBVIOUS
  <2>2. Stretch(f, 0, k) = [j \in 1 .. k |-> f[j]]
    BY <2>1 DEF Stretch
  <2>. QED  BY <2>2 DEF Shifted
<1>3. Counts(f, 1 .. k) /\ \A j \in 1 .. k : g[from + j] = f[j]
  BY DEF Shifted, Counts
<1>4. SumFunction(Stretch(g, from, k)) = SumFunction(Stretch(f, 0, k))
  BY <1>3, SumMoved
<1>. QED  BY <1>1, <1>2, <1>4

\* The open run: the last k of the buckets up to from + k, all of them bad.
IsOpenRun(run, B, from, k) ==
    /\ DOMAIN run = 1 .. k /\ from + k <= Len(B)
    /\ \A j \in 1 .. k : run[j] = B[from + j] /\ IsBad(B, from + j)

AttemptsIn(run) == SumFunction([n \in DOMAIN run |-> run[n].attempts])
SuccessesIn(run) == SumFunction([n \in DOMAIN run |-> run[n].successes])
AmountIn(run) == SumFunction([n \in DOMAIN run |-> run[n].amount])
Money(run, base) == Excess(AttemptsIn(run), SuccessesIn(run), AmountIn(run), base)

\* Each bucket of the open run is below the highest healthy rate.
LEMMA RunInNumbers ==
    ASSUME NEW res, IsResolution(res), NEW B, IsThickList(B, res), ClearCut(B),
           NEW from \in Nat, NEW k \in Nat, k # 0, NEW run, IsOpenRun(run, B, from, k)
    PROVE  \A j \in 1 .. k : /\ run[j].attempts \in Nat /\ run[j].attempts > 0
                             /\ run[j].successes \in Nat /\ run[j].amount \in Nat
                             /\ 1000 * run[j].successes <= Highest(B) * run[j].attempts
<1>1. warmup_buckets \in Nat
  BY DetectionAssumption
<1>2. Len(B) \in Nat /\ DOMAIN B = 1 .. Len(B) /\ warmup_buckets <= Len(B)
  BY <1>1, ListFacts DEF IsThickList, ClearCut
<1>3. Highest(B) \in Nat /\ Highest(B) \in Healthy(B)
  BY <1>2, HealthyFacts
<1>4. ASSUME NEW j \in 1 .. k
      PROVE  /\ run[j].attempts \in Nat /\ run[j].attempts > 0
             /\ run[j].successes \in Nat /\ run[j].amount \in Nat
             /\ 1000 * run[j].successes <= Highest(B) * run[j].attempts
  <2>1. PICK n : n = from + j
    OBVIOUS
  <2>2. run[j] = B[n] /\ IsBad(B, n) /\ n \in warmup_buckets + 1 .. Len(B) /\ n \in DOMAIN B
    BY <1>1, <1>2, <2>1 DEF IsOpenRun, IsBad
  <2>3. IsThick(B[n], res)
    BY <2>2 DEF IsThickList
  <2>4. Breaching(B[n], Highest(B))
    BY <1>3, <2>2, BadBreaches
  <2>5. PICK a, s, m, h \in Nat : /\ a = B[n].attempts /\ s = B[n].successes
                                  /\ m = B[n].amount /\ h = Highest(B)
    BY <1>3, <2>3 DEF IsThick
  <2>6. a > 0
    BY <2>3, <2>5, RateIsNat
  <2>7. PICK t \in Nat : t = 1000 * s
    BY <2>5
  <2>8. h - (t \div a) > 0
    BY <2>4, <2>5, <2>7 DEF Breaching, rate
  <2>9. t \div a \in Nat /\ t < a * (t \div a) + a
    BY <2>6
  <2>10. PICK r \in Nat : r = t \div a
    BY <2>9
  <2>11. r + 1 <= h /\ t <= a * (r + 1)
    BY <2>8, <2>9, <2>10
  <2>12. a * (r + 1) <= a * h
    BY <2>11, Larger
  <2>13. t <= h * a
    BY <2>11, <2>12
  <2>. QED  BY <2>2, <2>5, <2>6, <2>7, <2>13
<1>. QED  BY <1>4

\* A run costs at least what it costs against the lowest healthy rate, and at most
\* what it costs against the highest.
LEMMA WhatItCosts ==
    ASSUME NEW res, IsResolution(res), NEW B, IsThickList(B, res), ClearCut(B),
           NEW from \in Nat, NEW k \in Nat, k # 0, NEW run, IsOpenRun(run, B, from, k),
           NEW x \in Healthy(B)
    PROVE  /\ Loss(B, Lowest(B), from + 1, from + k) <= Money(run, x)
           /\ Money(run, x) <= Loss(B, Highest(B), from + 1, from + k)
           /\ Loss(B, Lowest(B), from + 1, from + k) \in Int
           /\ Loss(B, Highest(B), from + 1, from + k) \in Int
           /\ Money(run, x) \in Int
<1>. DEFINE fa == [n \in 1 .. k |-> run[n].attempts]
            fs == [n \in 1 .. k |-> run[n].successes]
            fm == [n \in 1 .. k |-> run[n].amount]
            ga == [n \in from + 1 .. from + k |-> B[n].attempts]
            gs == [n \in from + 1 .. from + k |-> B[n].successes]
            gm == [n \in from + 1 .. from + k |-> B[n].amount]
<1>1. /\ Counts(fa, 1 .. k) /\ Counts(fs, 1 .. k) /\ Counts(fm, 1 .. k)
      /\ fa[k] > 0 /\ \A j \in 1 .. k : 1000 * fs[j] <= Highest(B) * fa[j]
  <2>1. \A j \in 1 .. k : /\ run[j].attempts \in Nat /\ run[j].attempts > 0
                          /\ run[j].successes \in Nat /\ run[j].amount \in Nat
                          /\ 1000 * run[j].successes <= Highest(B) * run[j].attempts
    BY RunInNumbers
  <2>2. k \in 1 .. k
    OBVIOUS
  <2>. QED  BY <2>1, <2>2 DEF Counts
<1>2. \A j \in 1 .. k : /\ ga[from + j] = fa[j] /\ gs[from + j] = fs[j]
                        /\ gm[from + j] = fm[j]
  BY DEF IsOpenRun
<1>3. /\ fa = [j \in 1 .. k |-> fa[j]] /\ fs = [j \in 1 .. k |-> fs[j]]
      /\ fm = [j \in 1 .. k |-> fm[j]]
      /\ ga = [n \in from + 1 .. from + k |-> ga[n]]
      /\ gs = [n \in from + 1 .. from + k |-> gs[n]]
      /\ gm = [n \in from + 1 .. from + k |-> gm[n]]
  OBVIOUS
<1>4. Shifted(fa, ga, from, k) /\ Shifted(fs, gs, from, k) /\ Shifted(fm, gm, from, k)
  <2>. HIDE DEF fa, fs, fm, ga, gs, gm
  <2>1. \A j \in 1 .. k : fa[j] \in Nat /\ fs[j] \in Nat /\ fm[j] \in Nat
    BY <1>1 DEF Counts
  <2>2. Shifted(fa, ga, from, k)
    BY <1>2, <1>3, <2>1, Zenon DEF Shifted
  <2>3. Shifted(fs, gs, from, k)
    BY <1>2, <1>3, <2>1, Zenon DEF Shifted
  <2>4. Shifted(fm, gm, from, k)
    BY <1>2, <1>3, <2>1, Zenon DEF Shifted
  <2>. QED  BY <2>2, <2>3, <2>4
<1>5. AttemptsIn(run) = SumFunction(fa) /\ SuccessesIn(run) = SumFunction(fs)
      /\ AmountIn(run) = SumFunction(fm)
  BY DEF IsOpenRun, AttemptsIn, SuccessesIn, AmountIn
<1>6. \A b : Loss(B, b, from + 1, from + k)
               = Cost(SumFunction(ga), SumFunction(gs), SumFunction(gm), b)
  BY Zenon DEF Loss, Cost
<1>. HIDE DEF fa, fs, fm, ga, gs, gm
<1>7. /\ SumFunction(ga) = SumFunction(fa) /\ Stretch(fa, 0, k) = fa
      /\ SumFunction(gs) = SumFunction(fs) /\ Stretch(fs, 0, k) = fs
      /\ SumFunction(gm) = SumFunction(fm) /\ Stretch(fm, 0, k) = fm
  BY <1>4, SumShifted
<1>10. /\ Lowest(B) \in Nat /\ Highest(B) \in Nat /\ Healthy(B) = Lowest(B) .. Highest(B)
  <2>1. warmup_buckets \in Nat /\ Len(B) \in Nat
    BY DetectionAssumption, ListFacts DEF IsThickList
  <2>2. warmup_buckets <= Len(B)
    BY <2>1 DEF ClearCut
  <2>. QED  BY <2>2, HealthyFacts
<1>12. SumFunction(fa) \in Nat /\ SumFunction(fa) > 0
  BY <1>1, <1>7, SumIsMore
<1>13. SumFunction(fs) \in Nat /\ SumFunction(fm) \in Nat
  BY <1>1, <1>7, SumOfNats
<1>14. 1000 * SumFunction(fs) <= Highest(B) * SumFunction(fa)
  <2>1. \A j \in 1 .. k : 1000 * fs[j] <= Highest(B) * fa[j]
    BY <1>1
  <2>2. PICK m \in Nat, c \in Nat : m = 1000 /\ c = Highest(B)
    BY <1>10
  <2>3. Scaled(fs, fa, k, m, c)
    BY <2>1, <2>2 DEF Scaled
  <2>4. m * SumFunction(Stretch(fs, 0, k)) <= c * SumFunction(Stretch(fa, 0, k))
    BY <1>1, <2>3, SumScaled
  <2>. QED  BY <1>7, <2>2, <2>4
<1>15. PICK A, S, M, lo, hi \in Nat :
          /\ A = SumFunction(fa) /\ S = SumFunction(fs) /\ M = SumFunction(fm)
          /\ lo = Lowest(B) /\ hi = Highest(B)
  BY <1>10, <1>12, <1>13
<1>16. x \in Nat /\ lo <= x /\ x <= hi /\ A > 0 /\ 1000 * S <= hi * A
  BY <1>10, <1>12, <1>14, <1>15
<1>17. /\ Cost(A, S, M, lo) <= Excess(A, S, M, x)
       /\ Excess(A, S, M, x) <= Cost(A, S, M, hi)
       /\ Cost(A, S, M, lo) \in Int /\ Cost(A, S, M, hi) \in Int
       /\ Excess(A, S, M, x) \in Int
  BY <1>16, CostGrows
<1>18. \A b : Loss(B, b, from + 1, from + k) = Cost(A, S, M, b)
  BY <1>6, <1>7, <1>15
<1>19. Money(run, x) = Excess(A, S, M, x)
  BY <1>5, <1>15 DEF Money
<1>. QED  BY <1>15, <1>17, <1>18, <1>19
-------------------------------------------------------------------------------
(* The outages over by a bucket *)

Window(B, res, run) == <<B[run[1]].at, B[run[2]].at + res.width>>
WindowsUpTo(B, res, base, n) ==
    {Window(B, res, run) : run \in {o \in Outages(B, res, base) : o[2] <= n}}

\* What a list of signals says of a segment, at a resolution.
Said(list, key, r) ==
    {<<list[n].starts_at, list[n].ends_at>> :
        n \in {m \in DOMAIN list : list[m].segment = key /\ list[m].resolution = r}}

\* It says what EveryIncidentIsSignalled asks, of the outages over by bucket n.
RightlySaid(list, key, r, B, res, n) ==
    /\ WindowsUpTo(B, res, Lowest(B), n) \subseteq Said(list, key, r)
    /\ Said(list, key, r) \subseteq WindowsUpTo(B, res, Highest(B), n)

\* The k buckets after from are an outage, from its first to its last.
Enclosed(B, from, k) ==
    /\ ~ IsBad(B, from) /\ ~ IsBad(B, from + k + 1)
    /\ \A n \in from + 1 .. from + k : IsBad(B, n)

\* An outage that ends among the buckets that from and from + k enclose is all of them.
LEMMA OutagesEnd ==
    ASSUME NEW res, IsResolution(res), NEW B, IsThickList(B, res), NEW base,
           NEW from \in Nat, NEW k \in Nat,
           Enclosed(B, from, k), NEW run \in Outages(B, res, base),
           run[2] <= from + k
    PROVE  run[2] <= from \/ (k # 0 /\ run = <<from + 1, from + k>>)
<1>0. /\ ~ IsBad(B, from) /\ ~ IsBad(B, from + k + 1)
      /\ \A n \in from + 1 .. from + k : IsBad(B, n)
  BY DEF Enclosed
<1>1. Len(B) \in Nat /\ DOMAIN B = 1 .. Len(B)
  BY ListFacts DEF IsThickList
<1>2. PICK a \in DOMAIN B, b \in DOMAIN B : run = <<a, b>>
  BY DEF Outages
<1>3. /\ b - a + 1 >= res.sustained_buckets
      /\ \A n \in a .. b : IsBad(B, n)
      /\ ~ IsBad(B, a - 1) /\ ~ IsBad(B, b + 1)
  BY <1>2 DEF Outages
<1>4. a \in Nat /\ b \in Nat /\ a <= b /\ b <= from + k
  BY <1>1, <1>2, <1>3 DEF IsResolution
<1>5. CASE b > from
  <2>1. a > from
    BY <1>0, <1>3, <1>4, <1>5
  <2>2. b = from + k
    <3>1. b + 1 \notin from + 1 .. from + k
      BY <1>0, <1>3
    <3>. QED  BY <1>0, <1>4, <1>5, <3>1
  <2>3. a = from + 1
    <3>1. a - 1 \notin from + 1 .. from + k
      BY <1>0, <1>3
    <3>. QED  BY <1>0, <1>4, <2>1, <3>1
  <2>. QED  BY <1>2, <1>4, <1>5, <2>2, <2>3
<1>. QED  BY <1>2, <1>4, <1>5

\* Just the run of bad buckets from and from + k enclose is new.
LEMMA OneRunMore ==
    ASSUME NEW res, IsResolution(res), NEW B, IsThickList(B, res), NEW base,
           NEW from \in Nat, NEW k \in Nat,
           Enclosed(B, from, k)
    PROVE  WindowsUpTo(B, res, base, from + k)
              = WindowsUpTo(B, res, base, from)
                   \cup (IF /\ k # 0 /\ k >= res.sustained_buckets
                            /\ Loss(B, base, from + 1, from + k) >= min_money_at_risk
                         THEN {Window(B, res, <<from + 1, from + k>>)} ELSE {})
<1>0. /\ ~ IsBad(B, from) /\ ~ IsBad(B, from + k + 1)
      /\ \A n \in from + 1 .. from + k : IsBad(B, n)
  BY DEF Enclosed
<1>. DEFINE new == <<from + 1, from + k>>
            Old == {o \in Outages(B, res, base) : o[2] <= from}
            All == {o \in Outages(B, res, base) : o[2] <= from + k}
            matters == /\ k # 0 /\ k >= res.sustained_buckets
                       /\ Loss(B, base, from + 1, from + k) >= min_money_at_risk
<1>1. Len(B) \in Nat /\ DOMAIN B = 1 .. Len(B)
  BY ListFacts DEF IsThickList
<1>2. \A run \in All : run \in Old \/ (k # 0 /\ run = new)
  <2>1. ASSUME NEW run \in All
        PROVE  run \in Old \/ (k # 0 /\ run = new)
    <3>1. run[2] <= from \/ (k # 0 /\ run = <<from + 1, from + k>>)
      <4>1. run \in Outages(B, res, base) /\ run[2] <= from + k
        OBVIOUS
      <4>. QED  BY <4>1, OutagesEnd
    <3>2. run \in Outages(B, res, base)
      OBVIOUS
    <3>. QED  BY <3>1, <3>2
  <2>. QED  BY <2>1
<1>3. \A run \in Old : run \in All
  <2>1. ASSUME NEW run \in Old
        PROVE  run \in All
    <3>1. run \in Outages(B, res, base) /\ run[2] <= from /\ run[2] \in Nat
      BY <1>1 DEF Outages
    <3>. QED  BY <3>1
  <2>. QED  BY <2>1
<1>4. k # 0 => (new \in All <=> matters)
  <2>1. SUFFICES ASSUME k # 0
                 PROVE  new \in All <=> matters
    OBVIOUS
  <2>2. from + 1 \in DOMAIN B /\ from + k \in DOMAIN B
    <3>1. IsBad(B, from + 1) /\ IsBad(B, from + k)
      BY <1>0, <2>1
    <3>2. warmup_buckets \in Nat
      BY DetectionAssumption
    <3>. QED  BY <1>1, <3>1, <3>2 DEF IsBad
  <2>3. new[1] = from + 1 /\ new[2] = from + k /\ from + 1 - 1 = from
        /\ from + k - (from + 1) + 1 = k
    OBVIOUS
  <2>4. new \in (DOMAIN B) \X (DOMAIN B)
    BY <2>2
  <2>. HIDE DEF new
  <2>5. new \in Outages(B, res, base) <=> matters
    BY <1>0, <2>1, <2>3, <2>4 DEF Outages
  <2>. QED  BY <2>3, <2>5
<1>5. /\ WindowsUpTo(B, res, base, from + k) = {Window(B, res, run) : run \in All}
      /\ WindowsUpTo(B, res, base, from) = {Window(B, res, run) : run \in Old}
  BY DEF WindowsUpTo
<1>6. matters => k # 0
  OBVIOUS
<1>. HIDE DEF Old, All, new, matters
<1>7. CASE matters
  <2>1. new \in All
    BY <1>4, <1>6, <1>7
  <2>2. All = Old \cup {new}
    BY <1>2, <1>3, <2>1
  <2>3. {Window(B, res, run) : run \in All}
           = {Window(B, res, run) : run \in Old} \cup {Window(B, res, new)}
    BY <2>2
  <2>. QED  BY <1>5, <1>7, <2>3 DEF matters, new
<1>8. CASE ~ matters
  <2>1. All = Old
    <3>1. ASSUME NEW run \in All
          PROVE  run \in Old
      BY <1>2, <1>4, <1>8
    <3>. QED  BY <1>3, <3>1
  <2>. QED  BY <1>5, <1>8, <2>1 DEF matters
<1>. QED  BY <1>7, <1>8
-------------------------------------------------------------------------------
(* A run that is over is said as it should be *)

\* What a run that is over adds to the signals.
Adds(new, list, key, r, res, x, run, k) ==
    Said(new, key, r) = Said(list, key, r)
        \cup (IF k # 0 /\ ~ (k < res.sustained_buckets \/ Money(run, x) < min_money_at_risk)
              THEN {<<run[1].at, run[k].at + res.width>>} ELSE {})

\* What is emitted is an outage that lasts and costs enough, and none such is left out.
LEMMA AddedRightly ==
    ASSUME NEW res, IsResolution(res), NEW B, IsThickList(B, res), ClearCut(B),
           NEW from \in Nat, NEW k \in Nat, NEW run, IsOpenRun(run, B, from, k),
           ~ IsBad(B, from), ~ IsBad(B, from + k + 1), NEW x \in Healthy(B),
           NEW key, NEW r, NEW list, RightlySaid(list, key, r, B, res, from),
           NEW new, Adds(new, list, key, r, res, x, run, k)
    PROVE  RightlySaid(new, key, r, B, res, from + k)
<1>1. Enclosed(B, from, k)
  <2>1. \A n \in from + 1 .. from + k : IsBad(B, n)
    <3>1. ASSUME NEW n \in from + 1 .. from + k
          PROVE  IsBad(B, n)
      <4>1. PICK j : j = n - from
        OBVIOUS
      <4>2. j \in 1 .. k /\ from + j = n
        BY <4>1
      <4>3. IsBad(B, from + j)
        BY <4>2 DEF IsOpenRun
      <4>. QED  BY <4>2, <4>3
    <3>. QED  BY <3>1
  <2>. QED  BY <2>1 DEF Enclosed
<1>. DEFINE w == Window(B, res, <<from + 1, from + k>>)
            lasts == k # 0 /\ k >= res.sustained_buckets
            lo == Loss(B, Lowest(B), from + 1, from + k) >= min_money_at_risk
            hi == Loss(B, Highest(B), from + 1, from + k) >= min_money_at_risk
            it == ~ (Money(run, x) < min_money_at_risk)
<1>2. /\ WindowsUpTo(B, res, Lowest(B), from + k)
            = WindowsUpTo(B, res, Lowest(B), from) \cup (IF lasts /\ lo THEN {w} ELSE {})
      /\ WindowsUpTo(B, res, Highest(B), from + k)
            = WindowsUpTo(B, res, Highest(B), from) \cup (IF lasts /\ hi THEN {w} ELSE {})
  BY <1>1, OneRunMore
<1>3. k # 0 => <<run[1].at, run[k].at + res.width>> = w
  <2>1. k # 0 => run[1] = B[from + 1] /\ run[k] = B[from + k]
    BY DEF IsOpenRun
  <2>2. <<from + 1, from + k>>[1] = from + 1 /\ <<from + 1, from + k>>[2] = from + k
    OBVIOUS
  <2>. QED  BY <2>1, <2>2 DEF Window
<1>4. lasts => (lo => it) /\ (it => hi)
  <2>1. min_money_at_risk \in Int
    BY DetectionAssumption
  <2>2. k # 0 => /\ Loss(B, Lowest(B), from + 1, from + k) <= Money(run, x)
                 /\ Money(run, x) <= Loss(B, Highest(B), from + 1, from + k)
                 /\ Loss(B, Lowest(B), from + 1, from + k) \in Int
                 /\ Loss(B, Highest(B), from + 1, from + k) \in Int
                 /\ Money(run, x) \in Int
    BY WhatItCosts
  <2>. QED  BY <2>1, <2>2
<1>5. Said(new, key, r) = Said(list, key, r) \cup (IF lasts /\ it THEN {w} ELSE {})
  <2>1. res.sustained_buckets \in Int
    BY DEF IsResolution
  <2>2. k # 0 /\ ~ (k < res.sustained_buckets \/ Money(run, x) < min_money_at_risk)
           <=> lasts /\ it
    BY <2>1
  <2>. QED  BY <1>3, <2>2 DEF Adds
<1>6. /\ WindowsUpTo(B, res, Lowest(B), from) \subseteq Said(list, key, r)
      /\ Said(list, key, r) \subseteq WindowsUpTo(B, res, Highest(B), from)
  BY DEF RightlySaid
<1>. HIDE DEF w, lasts, lo, hi, it
<1>. QED  BY <1>2, <1>4, <1>5, <1>6 DEF RightlySaid

\* No outage ends with a bucket that is none.
LEMMA NoneEndsHere ==
    ASSUME NEW res, IsResolution(res), NEW B, IsThickList(B, res), NEW base,
           NEW n \in Nat, ~ IsBad(B, n + 1)
    PROVE  WindowsUpTo(B, res, base, n + 1) = WindowsUpTo(B, res, base, n)
<1>1. Len(B) \in Nat /\ DOMAIN B = 1 .. Len(B)
  BY ListFacts DEF IsThickList
<1>2. \A run \in Outages(B, res, base) : run[2] <= n + 1 <=> run[2] <= n
  <2>1. ASSUME NEW run \in Outages(B, res, base)
        PROVE  run[2] <= n + 1 <=> run[2] <= n
    <3>1. PICK a \in DOMAIN B, b \in DOMAIN B : run = <<a, b>>
      BY DEF Outages
    <3>2. /\ b - a + 1 >= res.sustained_buckets
          /\ \A m \in a .. b : IsBad(B, m)
      BY <3>1 DEF Outages
    <3>3. a \in Nat /\ b \in Nat /\ a <= b
      BY <1>1, <3>1, <3>2 DEF IsResolution
    <3>4. IsBad(B, b)
      BY <3>2, <3>3
    <3>. QED  BY <3>1, <3>3, <3>4
  <2>. QED  BY <2>1
<1>. QED  BY <1>2 DEF WindowsUpTo

\* Another bucket that is none of an outage changes nothing.
LEMMA RightlyOneOn ==
    ASSUME NEW res, IsResolution(res), NEW B, IsThickList(B, res),
           NEW n \in Nat, ~ IsBad(B, n + 1),
           NEW key, NEW r, NEW list, RightlySaid(list, key, r, B, res, n)
    PROVE  RightlySaid(list, key, r, B, res, n + 1)
BY NoneEndsHere DEF RightlySaid
-------------------------------------------------------------------------------
(* The scan of a segment, bucket by bucket *)

\* After n of its buckets: what has been said is right up to the run that is open.
ScansRightly(list, key, r, B, res, x, n, run) ==
    /\ n # 0 => x \in Healthy(B)
    /\ n <= Len(B)
    /\ \E from, k \in Nat : /\ from + k = n /\ ~ IsBad(B, from)
                            /\ IsOpenRun(run, B, from, k)
                            /\ RightlySaid(list, key, r, B, res, from)

\* Before the first bucket nothing is to be said.
LEMMA ScanBegins ==
    ASSUME NEW res, IsResolution(res), NEW B, IsThickList(B, res),
           NEW key, NEW r, NEW list, Said(list, key, r) = {}, NEW x
    PROVE  ScansRightly(list, key, r, B, res, x, 0, <<>>)
<1>1. warmup_buckets \in Nat /\ Len(B) \in Nat /\ DOMAIN B = 1 .. Len(B)
  BY DetectionAssumption, ListFacts DEF IsThickList
<1>2. ~ IsBad(B, 0)
  BY <1>1 DEF IsBad
<1>3. IsOpenRun(<<>>, B, 0, 0)
  BY <1>1, EmptyList DEF IsOpenRun
<1>4. \A base : WindowsUpTo(B, res, base, 0) = {}
  <2>1. \A base : \A run \in Outages(B, res, base) : ~ (run[2] <= 0)
    <3>1. ASSUME NEW base, NEW run \in Outages(B, res, base)
          PROVE  ~ (run[2] <= 0)
      <4>1. run[2] \in DOMAIN B
        BY DEF Outages
      <4>. QED  BY <1>1, <4>1
    <3>. QED  BY <3>1
  <2>. QED  BY <2>1 DEF WindowsUpTo
<1>5. RightlySaid(list, key, r, B, res, 0)
  BY <1>4 DEF RightlySaid
<1>6. 0 \in Nat /\ 0 + 0 = 0 /\ 0 <= Len(B)
  BY <1>1
<1>. QED  BY <1>2, <1>3, <1>5, <1>6 DEF ScansRightly

\* A bucket of the warm-up.
LEMMA ScanLearns ==
    ASSUME NEW res, IsResolution(res), NEW B, IsThickList(B, res), ClearCut(B),
           NEW key, NEW r, NEW list, NEW x, NEW n \in Nat, NEW run,
           ScansRightly(list, key, r, B, res, x, n, run), n < warmup_buckets,
           NEW b, b = B[n + 1]
    PROVE  ScansRightly(list, key, r, B, res,
                        IF n = 0 THEN rate(b) ELSE Learned(x, b), n + 1, run)
<1>1. /\ warmup_buckets \in Nat /\ Len(B) \in Nat /\ warmup_buckets <= Len(B)
      /\ n + 1 <= Len(B)
  BY DetectionAssumption, ListFacts DEF IsThickList, ClearCut
<1>2. PICK from, k \in Nat : /\ from + k = n /\ ~ IsBad(B, from)
                             /\ IsOpenRun(run, B, from, k)
                             /\ RightlySaid(list, key, r, B, res, from)
  BY DEF ScansRightly
<1>3. k = 0
  <2>1. k # 0 => IsBad(B, from + k)
    BY <1>2 DEF IsOpenRun
  <2>. QED  BY <1>1, <1>2, <2>1 DEF IsBad
<1>4. ~ IsBad(B, n + 1)
  BY <1>1 DEF IsBad
<1>5. RightlySaid(list, key, r, B, res, n + 1)
  BY <1>2, <1>3, <1>4, RightlyOneOn
<1>6. IsOpenRun(run, B, n + 1, 0)
  <2>1. DOMAIN run = 1 .. 0 /\ 1 .. 0 = {}
    BY <1>2, <1>3 DEF IsOpenRun
  <2>2. n + 1 + 0 <= Len(B)
    BY <1>1
  <2>. QED  BY <2>1, <2>2 DEF IsOpenRun
<1>7. rate(b) \in Healthy(B)
  <2>1. n + 1 \in 1 .. warmup_buckets
    BY <1>1
  <2>. QED  BY <1>1, <2>1, HealthyFacts
<1>8. n # 0 => Learned(x, b) \in Healthy(B)
  <2>1. n # 0 => x \in Healthy(B)
    BY DEF ScansRightly
  <2>. QED  BY <1>1, <1>7, <2>1, LearnedIsHealthy
<1>9. (IF n = 0 THEN rate(b) ELSE Learned(x, b)) \in Healthy(B)
  BY <1>7, <1>8
<1>10. n + 1 \in Nat /\ n + 1 + 0 = n + 1 /\ 0 \in Nat
  OBVIOUS
<1>. QED  BY <1>1, <1>4, <1>5, <1>6, <1>9, <1>10 DEF ScansRightly

\* A bucket of an outage: the run goes on.
LEMMA ScanBreaches ==
    ASSUME NEW res, IsResolution(res), NEW B, IsThickList(B, res), ClearCut(B),
           NEW key, NEW r, NEW list, NEW x, NEW n \in Nat, NEW run, IsList(run),
           ScansRightly(list, key, r, B, res, x, n, run), n >= warmup_buckets,
           n + 1 <= Len(B), NEW b, b = B[n + 1], Breaching(b, x)
    PROVE  ScansRightly(list, key, r, B, res, x, n + 1, Append(run, b))
<1>1. warmup_buckets \in Nat /\ warmup_buckets # 0 /\ Len(B) \in Nat /\ n # 0
  BY DetectionAssumption, ListFacts DEF IsThickList
<1>2. PICK from, k \in Nat : /\ from + k = n /\ ~ IsBad(B, from)
                             /\ IsOpenRun(run, B, from, k)
                             /\ RightlySaid(list, key, r, B, res, from)
  BY DEF ScansRightly
<1>3. x \in Healthy(B)
  BY <1>1 DEF ScansRightly
<1>4. IsBad(B, n + 1)
  <2>1. n + 1 \in warmup_buckets + 1 .. Len(B)
    BY <1>1
  <2>. QED  BY <1>3, <2>1, BadBreaches
<1>5. IsOpenRun(Append(run, b), B, from, k + 1)
  <2>1. PICK t : t = Append(run, b)
    OBVIOUS
  <2>2. /\ DOMAIN t = DOMAIN run \cup {Len(run) + 1}
        /\ \A j \in DOMAIN run : t[j] = run[j]
        /\ t[Len(run) + 1] = b
    BY <2>1, AppendList
  <2>3. /\ DOMAIN run = 1 .. k
        /\ \A j \in 1 .. k : run[j] = B[from + j] /\ IsBad(B, from + j)
    BY <1>2 DEF IsOpenRun
  <2>4. Len(run) \in Nat /\ DOMAIN run = 1 .. Len(run)
    BY ListFacts
  <2>5. Len(run) = k
    BY <2>3, <2>4
  <2>6. DOMAIN t = 1 .. k + 1
    BY <2>2, <2>3, <2>5
  <2>7. \A j \in 1 .. k + 1 : t[j] = B[from + j] /\ IsBad(B, from + j)
    <3>1. ASSUME NEW j \in 1 .. k + 1
          PROVE  t[j] = B[from + j] /\ IsBad(B, from + j)
      <4>1. CASE j = k + 1
        <5>1. from + j = n + 1
          BY <1>2, <4>1
        <5>. QED  BY <1>4, <2>2, <2>5, <4>1, <5>1
      <4>2. CASE j # k + 1
        <5>1. j \in 1 .. k
          BY <4>2
        <5>. QED  BY <2>2, <2>3, <5>1
      <4>. QED  BY <4>1, <4>2
    <3>. QED  BY <3>1
  <2>8. from + (k + 1) <= Len(B)
    BY <1>2
  <2>. QED  BY <2>1, <2>6, <2>7, <2>8 DEF IsOpenRun
<1>6. k + 1 \in Nat /\ from + (k + 1) = n + 1
  BY <1>2
<1>. QED  BY <1>2, <1>3, <1>5, <1>6 DEF ScansRightly

LEMMA SameEnds ==
    ASSUME NEW k \in Nat, NEW l \in Nat, 1 .. k = 1 .. l
    PROVE  k = l
<1>1. \A j \in Nat : j >= 1 => (j <= k <=> j <= l)
  <2>1. \A j \in Nat : j >= 1 => (j <= k <=> j \in 1 .. k) /\ (j <= l <=> j \in 1 .. l)
    OBVIOUS
  <2>. QED  BY <2>1
<1>. QED  BY <1>1

\* A run that ends: the open one is emitted, if it lasted and mattered.
LEMMA ScanEmits ==
    ASSUME NEW res, IsResolution(res), NEW B, IsThickList(B, res), ClearCut(B),
           NEW key, NEW r, NEW list, NEW x, NEW n \in Nat, NEW run, IsList(run),
           ScansRightly(list, key, r, B, res, x, n, run), n # 0,
           ~ IsBad(B, n + 1), NEW new, Adds(new, list, key, r, res, x, run, Len(run))
    PROVE  RightlySaid(new, key, r, B, res, n)
<1>2. PICK from, k \in Nat : /\ from + k = n /\ ~ IsBad(B, from)
                             /\ IsOpenRun(run, B, from, k)
                             /\ RightlySaid(list, key, r, B, res, from)
  BY DEF ScansRightly
<1>3. x \in Healthy(B)
  BY DEF ScansRightly
<1>4. Len(run) = k
  <2>1. Len(run) \in Nat /\ DOMAIN run = 1 .. Len(run)
    BY ListFacts
  <2>2. DOMAIN run = 1 .. k
    BY <1>2 DEF IsOpenRun
  <2>. QED  BY <2>1, <2>2, SameEnds
<1>5. ~ IsBad(B, from + k + 1) /\ Adds(new, list, key, r, res, x, run, k)
  BY <1>2, <1>4
<1>6. RightlySaid(new, key, r, B, res, from + k)
  BY <1>2, <1>3, <1>5, AddedRightly
<1>. QED  BY <1>2, <1>6

\* A healthy bucket: the run that was open is over.
LEMMA ScanRecovers ==
    ASSUME NEW res, IsResolution(res), NEW B, IsThickList(B, res), ClearCut(B),
           NEW key, NEW r, NEW list, NEW x, NEW n \in Nat, NEW run, IsList(run),
           ScansRightly(list, key, r, B, res, x, n, run), n >= warmup_buckets,
           n + 1 <= Len(B), NEW b, b = B[n + 1], ~ Breaching(b, x),
           NEW new, Adds(new, list, key, r, res, x, run, Len(run))
    PROVE  ScansRightly(new, key, r, B, res, Learned(x, b), n + 1, <<>>)
<1>1. /\ warmup_buckets \in Nat /\ warmup_buckets # 0 /\ Len(B) \in Nat /\ n # 0
      /\ warmup_buckets <= Len(B) /\ n + 1 \in warmup_buckets + 1 .. Len(B)
  BY DetectionAssumption, ListFacts DEF IsThickList, ClearCut
<1>2. x \in Healthy(B)
  BY <1>1 DEF ScansRightly
<1>3. ~ IsBad(B, n + 1)
  BY <1>1, <1>2, BadBreaches
<1>4. RightlySaid(new, key, r, B, res, n)
  BY <1>1, <1>3, ScanEmits
<1>5. RightlySaid(new, key, r, B, res, n + 1)
  BY <1>3, <1>4, RightlyOneOn
<1>6. rate(b) \in Healthy(B)
  BY <1>1, <1>3 DEF IsBad
<1>7. Learned(x, b) \in Healthy(B)
  BY <1>1, <1>2, <1>6, LearnedIsHealthy
<1>8. IsOpenRun(<<>>, B, n + 1, 0)
  BY <1>1, EmptyList DEF IsOpenRun
<1>9. n + 1 \in Nat /\ n + 1 + 0 = n + 1 /\ 0 \in Nat
  OBVIOUS
<1>. QED  BY <1>1, <1>3, <1>5, <1>7, <1>8, <1>9 DEF ScansRightly
-------------------------------------------------------------------------------
(* What is emitted, in the state *)

\* One signal more says one thing more, of its own segment.
LEMMA SaidOneMore ==
    ASSUME NEW list, IsList(list), NEW sig, NEW key, NEW r
    PROVE  Said(list \o <<sig>>, key, r)
              = Said(list, key, r) \cup (IF sig.segment = key /\ sig.resolution = r
                                         THEN {<<sig.starts_at, sig.ends_at>>} ELSE {})
<1>1. PICK t : t = list \o <<sig>>
  OBVIOUS
<1>2. /\ DOMAIN t = DOMAIN list \cup {Len(list) + 1} /\ Len(list) + 1 \notin DOMAIN list
      /\ \A n \in DOMAIN list : t[n] = list[n]
      /\ t[Len(list) + 1] = sig
  BY <1>1, OneMore, AppendList
<1>3. PICK l : l = Len(list) + 1
  OBVIOUS
<1>. DEFINE Of(s) == {m \in DOMAIN s : s[m].segment = key /\ s[m].resolution = r}
            w(s, n) == <<s[n].starts_at, s[n].ends_at>>
<1>4. Of(t) = Of(list) \cup (IF sig.segment = key /\ sig.resolution = r THEN {l} ELSE {})
  BY <1>2, <1>3
<1>5. (\A n \in Of(list) : w(t, n) = w(list, n)) /\ w(t, l) = <<sig.starts_at, sig.ends_at>>
  BY <1>2, <1>3
<1>6. \A s : Said(s, key, r) = {w(s, n) : n \in Of(s)}
  BY DEF Said
<1>. HIDE DEF Of, w
<1>. QED  BY <1>1, <1>4, <1>5, <1>6

\* What Emitted adds, and to what.
LEMMA EmittedAdds ==
    ASSUME Shape
    PROVE  /\ Adds(Emitted, found, Key, cursor.resolution, Resolution, baseline,
                   breach_run, Len(breach_run))
           /\ \A key, r : key # Key \/ r # cursor.resolution =>
                 Said(Emitted, key, r) = Said(found, key, r)
<1>1. IsList(found) /\ IsList(breach_run)
  BY DEF Shape, Signals, RunInOrder
<1>2. Len(breach_run) \in Nat /\ (breach_run = <<>> <=> Len(breach_run) = 0)
  BY <1>1, ListFacts
<1>3. money_at_risk = Money(breach_run, baseline)
  BY Zenon DEF money_at_risk, Money, run_drop, run_attempts, Run, Excess, AttemptsIn,
               SuccessesIn, AmountIn
<1>4. /\ RiskSignal.segment = Key /\ RiskSignal.resolution = cursor.resolution
      /\ RiskSignal.starts_at = breach_run[1].at
      /\ RiskSignal.ends_at = breach_run[Len(breach_run)].at + Resolution.width
  BY Zenon DEF RiskSignal
<1>. DEFINE less == \/ Len(breach_run) < Resolution.sustained_buckets
                    \/ money_at_risk < min_money_at_risk
            w == <<RiskSignal.starts_at, RiskSignal.ends_at>>
<1>5. Emitted = IF breach_run = <<>> THEN found
                ELSE found \o (IF less THEN <<>> ELSE <<RiskSignal>>)
  BY Zenon DEF Emitted, _emit
<1>6. less <=> \/ Len(breach_run) < Resolution.sustained_buckets
               \/ Money(breach_run, baseline) < min_money_at_risk
  BY <1>3
<1>7. w = <<breach_run[1].at, breach_run[Len(breach_run)].at + Resolution.width>>
  BY <1>4
<1>. HIDE DEF less, w
<1>8. CASE breach_run = <<>> \/ less
  <2>1. Emitted = found
    BY <1>1, <1>5, <1>8, NoMore
  <2>2. Said(found, Key, cursor.resolution) = Said(found, Key, cursor.resolution) \cup {}
    OBVIOUS
  <2>3. ~ (Len(breach_run) # 0 /\ ~ (\/ Len(breach_run) < Resolution.sustained_buckets
                                     \/ Money(breach_run, baseline) < min_money_at_risk))
    BY <1>2, <1>6, <1>8
  <2>. QED  BY Zenon, <2>1, <2>2, <2>3 DEF Adds
<1>9. CASE ~ (breach_run = <<>> \/ less)
  <2>1. Emitted = found \o <<RiskSignal>>
    BY <1>5, <1>9
  <2>2. Said(Emitted, Key, cursor.resolution) = Said(found, Key, cursor.resolution) \cup {w}
    BY <1>1, <1>4, <2>1, SaidOneMore DEF w
  <2>3. \A key, r : key # Key \/ r # cursor.resolution =>
           Said(Emitted, key, r) = Said(found, key, r)
    <3>1. ASSUME NEW key, NEW r, key # Key \/ r # cursor.resolution
          PROVE  Said(Emitted, key, r) = Said(found, key, r)
      <4>1. ~ (RiskSignal.segment = key /\ RiskSignal.resolution = r)
        BY <1>4, <3>1
      <4>2. Said(found \o <<RiskSignal>>, key, r)
               = Said(found, key, r)
                    \cup (IF RiskSignal.segment = key /\ RiskSignal.resolution = r
                          THEN {<<RiskSignal.starts_at, RiskSignal.ends_at>>} ELSE {})
        BY <1>1, SaidOneMore
      <4>3. Said(found \o <<RiskSignal>>, key, r) = Said(found, key, r)
        BY <4>1, <4>2
      <4>. QED  BY <2>1, <4>3
    <3>. QED  BY <3>1
  <2>4. Len(breach_run) # 0 /\ ~ (\/ Len(breach_run) < Resolution.sustained_buckets
                                  \/ Money(breach_run, baseline) < min_money_at_risk)
    BY <1>2, <1>6, <1>9
  <2>5. Adds(Emitted, found, Key, cursor.resolution, Resolution, baseline,
             breach_run, Len(breach_run))
    BY Zenon, <1>7, <2>2, <2>4 DEF Adds
  <2>. QED  BY <2>3, <2>5
<1>. QED  BY <1>8, <1>9
-------------------------------------------------------------------------------
(* The scan, segment by segment *)

KeyOf(g, k) == g.segments[k]
TheirBuckets(g, k, r) == BucketsOf(g, KeyOf(g, k), Resolutions[r])

\* What is said of a segment at a resolution, once all of it has been scanned.
ScannedRightly(g, list, k, r) ==
    LET B == TheirBuckets(g, k, r)
    IN  ClearCut(B) => RightlySaid(list, KeyOf(g, k), r, B, Resolutions[r], Len(B))

\* The scan has been there, or has yet to come.
Passed(c, k, r) == r < c.resolution \/ (r = c.resolution /\ k < c.segment)
Coming(c, k, r) == r > c.resolution \/ (r = c.resolution /\ k > c.segment)

Elsewhere(g, list, c) ==
    \A k \in DOMAIN g.segments, r \in DOMAIN Resolutions :
        /\ Passed(c, k, r) => ScannedRightly(g, list, k, r)
        /\ Coming(c, k, r) => Said(list, KeyOf(g, k), r) = {}

\* The segment that is being scanned.
InSegment(g, list, c, x, n, run) ==
    LET key == KeyOf(g, c.segment)
        res == Resolutions[c.resolution]
        B == BucketsOf(g, key, res)
    IN  /\ c.bucket <= LastOf(g, key, res) + 1
        /\ n = Len(ThickOf(g, key, res, c.bucket))
        /\ ClearCut(B) => ScansRightly(list, key, c.resolution, B, res, x, n, run)

Scan(g, list, c, x, n, run) ==
    /\ c.segment \in DOMAIN g.segments
    /\ Elsewhere(g, list, c) /\ InSegment(g, list, c, x, n, run)

SInv(g) ==
    /\ DInv /\ grid = g
    /\ stage = "scan" => Scan(g, found, cursor, baseline, seen, breach_run)
    /\ stage = "dedupe" => \A k \in DOMAIN g.segments, r \in DOMAIN Resolutions :
                              ScannedRightly(g, found, k, r)

\* The next bucket: it is the next of the thick ones, or none of them.
ReadsOn(g, key, res, n) ==
    LET b == BucketOf(g, key, res.width, n)
        B == BucketsOf(g, key, res)
        l == Len(ThickOf(g, key, res, n))
    IN  /\ IsThickList(B, res) /\ l \in Nat
        /\ b.attempts >= res.min_attempts =>
              /\ Len(ThickOf(g, key, res, n + 1)) = l + 1
              /\ l + 1 <= Len(B) /\ b = B[l + 1]
        /\ ~ (b.attempts >= res.min_attempts) => Len(ThickOf(g, key, res, n + 1)) = l

\* So it is, on any grid.
LEMMA NextBucket ==
    ASSUME NEW g, IsGrid(g), NEW key \in DOMAIN g.slots, NEW res, IsResolution(res),
           NEW n \in Nat, n <= LastOf(g, key, res)
    PROVE  ReadsOn(g, key, res, n)
<1>0. PICK b, B, l : /\ b = BucketOf(g, key, res.width, n) /\ B = BucketsOf(g, key, res)
                     /\ l = Len(ThickOf(g, key, res, n))
  OBVIOUS
<1>1. LastOf(g, key, res) \in Nat
  BY LastIsNat
<1>2. PICK m \in Nat : m = LastOf(g, key, res) + 1 /\ n + 1 <= m /\ n + 1 \in Nat
  BY <1>1
<1>3. B = ThickOf(g, key, res, m)
  BY <1>0, <1>2 DEF BucketsOf
<1>4. PICK P, Q : P = ThickOf(g, key, res, n) /\ Q = ThickOf(g, key, res, n + 1)
  OBVIOUS
<1>5. IsThickList(B, res) /\ IsThickList(P, res) /\ IsThickList(Q, res)
  BY <1>2, <1>3, <1>4, ThickIsList
<1>6. Begins(Q, B)
  BY <1>2, <1>3, <1>4, ThickBegins
<1>7. Q = IF b.attempts >= res.min_attempts THEN Append(P, b) ELSE P
  BY <1>0, <1>4, ThickStep
<1>8. l \in Nat /\ DOMAIN P = 1 .. l /\ l = Len(P) /\ Len(B) \in Nat
      /\ Len(Q) \in Nat /\ DOMAIN Q = 1 .. Len(Q)
  <2>1. IsList(P) /\ IsList(Q) /\ IsList(B)
    BY <1>5 DEF IsThickList
  <2>2. Len(P) \in Nat /\ DOMAIN P = 1 .. Len(P)
    BY <2>1, ListFacts
  <2>3. Len(Q) \in Nat /\ DOMAIN Q = 1 .. Len(Q) /\ Len(B) \in Nat
    BY <2>1, ListFacts
  <2>. QED  BY <1>0, <1>4, <2>2, <2>3
<1>9. CASE b.attempts >= res.min_attempts
  <2>1. Q = Append(P, b) /\ IsList(P)
    BY <1>5, <1>7, <1>9 DEF IsThickList
  <2>2. DOMAIN Q = DOMAIN P \cup {l + 1} /\ Q[l + 1] = b
    BY <1>8, <2>1, AppendList
  <2>3. 1 .. Len(Q) = 1 .. l + 1
    <3>1. 1 .. l + 1 = 1 .. l \cup {l + 1}
      BY <1>8
    <3>. QED  BY <1>8, <2>2, <3>1
  <2>4. l + 1 \in Nat
    BY <1>8
  <2>5. Len(Q) = l + 1
    BY <1>8, <2>3, <2>4, SameEnds
  <2>6. l + 1 <= Len(B) /\ B[l + 1] = b
    BY <1>6, <2>2, <2>5 DEF Begins
  <2>. QED  BY <1>0, <1>4, <1>5, <1>8, <1>9, <2>5, <2>6 DEF ReadsOn
<1>10. CASE ~ (b.attempts >= res.min_attempts)
  BY <1>0, <1>4, <1>5, <1>7, <1>8, <1>10 DEF ReadsOn
<1>. QED  BY <1>9, <1>10

LEMMA AreResolutions ==
    ASSUME NEW r \in DOMAIN Resolutions
    PROVE  IsResolution(Resolutions[r])
<1>. DEFINE T == [width : Nat \ {0}, min_attempts : Nat \ {0}, sustained_buckets : Nat \ {0}]
<1>1. Resolutions \in Seq(T)
  BY DetectionAssumption
<1>2. \A x \in T : IsResolution(x)
  BY DEF IsResolution
<1>. HIDE DEF T
<1>3. Resolutions[r] \in T
  BY <1>1
<1>. QED  BY <1>2, <1>3

LEMMA KeysAreSlots ==
    ASSUME NEW g, IsGrid(g), NEW k \in DOMAIN g.segments
    PROVE  KeyOf(g, k) \in DOMAIN g.slots
<1>1. g.segments \in Seq(DOMAIN g.slots)
  BY DEF IsGrid
<1>. QED  BY <1>1 DEF KeyOf

\* What the scan reads, in terms of the grid.
LEMMA WhatIsRead ==
    ASSUME NEW g, IsGrid(g), SInv(g), stage = "scan",
           NEW key, key = KeyOf(g, cursor.segment),
           NEW res, res = Resolutions[cursor.resolution]
    PROVE  /\ key \in DOMAIN g.slots /\ IsResolution(res) /\ cursor.bucket \in Nat
           /\ cursor.resolution \in DOMAIN Resolutions
           /\ cursor.segment \in DOMAIN g.segments
           /\ Key = key /\ Resolution = res
           /\ Here = BucketOf(g, key, res.width, cursor.bucket)
           /\ LastBucket = LastOf(g, key, res)
<1>1. grid = g /\ cursor.segment \in DOMAIN g.segments /\ Shape
  BY DEF SInv, Scan, DInv
<1>2. cursor.resolution \in DOMAIN Resolutions /\ cursor.bucket \in Nat
  BY <1>1, ResolutionFacts
<1>3. Key = key /\ Resolution = res
  BY <1>1 DEF Key, KeyOf, Resolution
<1>4. Here = BucketOf(g, key, res.width, cursor.bucket)
  BY <1>1, <1>3, GridsBuckets DEF Here
<1>5. LastBucket = LastOf(g, key, res)
  BY Zenon, <1>1, <1>3 DEF LastBucket, LastOf, Slots
<1>. QED  BY <1>1, <1>2, <1>3, <1>4, <1>5, AreResolutions, KeysAreSlots

\* Nothing is said of another segment, or at another resolution.
SaysElse(new, list, it, at) ==
    \A key, r : key # it \/ r # at => Said(new, key, r) = Said(list, key, r)

\* What is said of the segment that is scanned says nothing of the others.
LEMMA ElsewhereKept ==
    ASSUME NEW g, IsGrid(g), NEW c, c.segment \in DOMAIN g.segments,
           NEW list, Elsewhere(g, list, c),
           NEW new, SaysElse(new, list, KeyOf(g, c.segment), c.resolution)
    PROVE  Elsewhere(g, new, c)
<1>1. ASSUME NEW k \in DOMAIN g.segments, NEW r \in DOMAIN Resolutions,
             Passed(c, k, r) \/ Coming(c, k, r)
      PROVE  Said(new, KeyOf(g, k), r) = Said(list, KeyOf(g, k), r)
  <2>1. k \in Nat /\ c.segment \in Nat /\ r \in Nat
    <3>1. g.segments \in Seq(DOMAIN g.slots)
      BY DEF IsGrid
    <3>2. DOMAIN g.segments \subseteq Nat
      BY <3>1
    <3>3. DOMAIN Resolutions \subseteq Nat
      BY DetectionAssumption
    <3>. QED  BY <3>2, <3>3
  <2>2. CASE r = c.resolution
    <3>1. k # c.segment
      BY <1>1, <2>1, <2>2 DEF Passed, Coming
    <3>2. KeyOf(g, k) # KeyOf(g, c.segment)
      BY <3>1 DEF IsGrid, KeyOf
    <3>. QED  BY <3>2 DEF SaysElse
  <2>3. CASE r # c.resolution
    BY <2>3 DEF SaysElse
  <2>. QED  BY <2>2, <2>3
<1>2. ASSUME NEW k \in DOMAIN g.segments, NEW r \in DOMAIN Resolutions, Passed(c, k, r)
      PROVE  ScannedRightly(g, new, k, r)
  <2>1. Said(new, KeyOf(g, k), r) = Said(list, KeyOf(g, k), r)
    BY <1>1, <1>2
  <2>2. ScannedRightly(g, list, k, r)
    BY <1>2 DEF Elsewhere
  <2>. QED  BY <2>1, <2>2 DEF ScannedRightly, RightlySaid
<1>3. ASSUME NEW k \in DOMAIN g.segments, NEW r \in DOMAIN Resolutions, Coming(c, k, r)
      PROVE  Said(new, KeyOf(g, k), r) = {}
  <2>1. Said(new, KeyOf(g, k), r) = Said(list, KeyOf(g, k), r)
    BY <1>1, <1>3
  <2>2. Said(list, KeyOf(g, k), r) = {}
    BY <1>3 DEF Elsewhere
  <2>. QED  BY <2>1, <2>2
<1>. QED  BY <1>2, <1>3 DEF Elsewhere

LEMMA NextInSegment ==
    ASSUME NEW g, IsGrid(g), NEW c, NEW d, c.segment \in DOMAIN g.segments,
           d.segment = c.segment, d.resolution = c.resolution,
           NEW new, Elsewhere(g, new, c), NEW x, NEW n, NEW run, InSegment(g, new, d, x, n, run)
    PROVE  Scan(g, new, d, x, n, run)
<1>1. Elsewhere(g, new, d)
  BY Zenon DEF Elsewhere, Passed, Coming
<1>. QED  BY <1>1 DEF Scan

\* One bucket: thin, of the warm-up, of an outage or healthy.
LEMMA StepScanning ==
    ASSUME NEW g, IsGrid(g), SInv(g), SkipThin \/ LearnBaseline \/ Breach \/ Recover
    PROVE  Scan(g, found', cursor', baseline', seen', breach_run')
<1>1. PICK key, res : key = KeyOf(g, cursor.segment) /\ res = Resolutions[cursor.resolution]
  OBVIOUS
<1>2. PICK B, b, n : /\ B = BucketsOf(g, key, res) /\ n = cursor.bucket
                     /\ b = BucketOf(g, key, res.width, n)
  OBVIOUS
<1>3. /\ stage = "scan" /\ cursor.bucket <= LastBucket
      /\ cursor' = [cursor EXCEPT !.bucket = @ + 1]
  BY DEF SkipThin, LearnBaseline, Breach, Recover, Thick, Scanning, Advance
<1>4. /\ key \in DOMAIN g.slots /\ IsResolution(res) /\ n \in Nat
      /\ cursor.segment \in DOMAIN g.segments
      /\ Key = key /\ Resolution = res /\ Here = b /\ LastBucket = LastOf(g, key, res)
      /\ n <= LastOf(g, key, res)
  BY <1>1, <1>2, <1>3, WhatIsRead
<1>5. /\ cursor'.segment = cursor.segment /\ cursor'.resolution = cursor.resolution
      /\ cursor'.bucket = n + 1
  <2>1. cursor \in [resolution : DOMAIN Resolutions, segment : Nat, bucket : Nat]
    BY DEF SInv, DInv, Shape
  <2>. QED  BY <1>2, <1>3, <2>1
<1>6. /\ Scan(g, found, cursor, baseline, seen, breach_run) /\ Shape
      /\ Elsewhere(g, found, cursor)
      /\ InSegment(g, found, cursor, baseline, seen, breach_run)
  BY <1>3 DEF SInv, DInv, Scan
<1>7. /\ seen = Len(ThickOf(g, key, res, n))
      /\ ClearCut(B) =>
            ScansRightly(found, key, cursor.resolution, B, res, baseline, seen, breach_run)
  BY <1>1, <1>2, <1>6 DEF InSegment
<1>8. /\ IsThickList(B, res) /\ seen \in Nat
      /\ b.attempts >= res.min_attempts =>
            /\ Len(ThickOf(g, key, res, n + 1)) = seen + 1
            /\ seen + 1 <= Len(B) /\ b = B[seen + 1]
      /\ ~ (b.attempts >= res.min_attempts) => Len(ThickOf(g, key, res, n + 1)) = seen
  <2>1. ReadsOn(g, key, res, n)
    BY <1>4, NextBucket
  <2>. QED  BY <1>2, <1>7, <2>1 DEF ReadsOn
<1>9. Thick <=> b.attempts >= res.min_attempts
  BY <1>3, <1>4 DEF Thick, Scanning
<1>10. n + 1 <= LastOf(g, key, res) + 1
  BY <1>4, LastIsNat
<1>11. IsList(breach_run) /\ warmup_buckets \in Nat
  BY <1>6, DetectionAssumption DEF Shape, RunInOrder
<1>12. SUFFICES /\ Elsewhere(g, found', cursor)
                /\ seen' = Len(ThickOf(g, key, res, n + 1))
                /\ ClearCut(B) => ScansRightly(found', key, cursor.resolution, B, res,
                                               baseline', seen', breach_run')
  <2>1. ASSUME Elsewhere(g, found', cursor),
               seen' = Len(ThickOf(g, key, res, n + 1)),
               ClearCut(B) => ScansRightly(found', key, cursor.resolution, B, res,
                                           baseline', seen', breach_run')
        PROVE  Scan(g, found', cursor', baseline', seen', breach_run')
    <3>1. InSegment(g, found', cursor', baseline', seen', breach_run')
      BY <1>1, <1>2, <1>5, <1>10, <2>1 DEF InSegment
    <3>. QED  BY <1>4, <1>5, <2>1, <3>1, NextInSegment
  <2>. QED  BY <2>1
<1>13. CASE SkipThin
  <2>1. UNCHANGED <<found, baseline, seen, breach_run>> /\ ~ Thick
    BY <1>13 DEF SkipThin
  <2>. QED  BY <1>6, <1>7, <1>8, <1>9, <2>1
<1>14. CASE LearnBaseline
  <2>1. /\ UNCHANGED <<found, breach_run>> /\ Thick /\ seen' = seen + 1
        /\ seen < warmup_buckets
        /\ baseline' = IF seen = 0 THEN rate(b) ELSE Learned(baseline, b)
    BY <1>4, <1>14 DEF LearnBaseline
  <2>2. ClearCut(B) => ScansRightly(found, key, cursor.resolution, B, res,
                          IF seen = 0 THEN rate(b) ELSE Learned(baseline, b), seen + 1,
                          breach_run)
    BY <1>4, <1>7, <1>8, <1>9, <2>1, ScanLearns
  <2>. QED  BY <1>6, <1>8, <1>9, <2>1, <2>2
<1>15. CASE Breach
  <2>1. /\ UNCHANGED <<found, baseline>> /\ Thick /\ seen' = seen + 1
        /\ seen >= warmup_buckets /\ Breaching(b, baseline)
        /\ breach_run' = Append(breach_run, b)
    BY <1>4, <1>15 DEF Breach
  <2>2. ClearCut(B) => ScansRightly(found, key, cursor.resolution, B, res, baseline,
                                    seen + 1, Append(breach_run, b))
    BY <1>4, <1>7, <1>8, <1>9, <1>11, <2>1, ScanBreaches
  <2>. QED  BY <1>6, <1>8, <1>9, <2>1, <2>2
<1>16. CASE Recover
  <2>1. /\ Thick /\ seen' = seen + 1 /\ found' = Emitted
        /\ seen >= warmup_buckets /\ ~ Breaching(b, baseline)
        /\ breach_run' = <<>> /\ baseline' = Learned(baseline, b)
    BY <1>4, <1>16 DEF Recover
  <2>2. /\ Adds(Emitted, found, key, cursor.resolution, res, baseline,
                breach_run, Len(breach_run))
        /\ SaysElse(Emitted, found, key, cursor.resolution)
    BY <1>4, <1>6, EmittedAdds DEF SaysElse
  <2>3. ClearCut(B) => ScansRightly(Emitted, key, cursor.resolution, B, res,
                                    Learned(baseline, b), seen + 1, <<>>)
    BY <1>4, <1>7, <1>8, <1>9, <1>11, <2>1, <2>2, ScanRecovers
  <2>4. Elsewhere(g, Emitted, cursor)
    BY <1>1, <1>4, <1>6, <2>2, ElsewhereKept
  <2>. QED  BY <1>8, <1>9, <2>1, <2>3, <2>4
<1>. QED  BY <1>13, <1>14, <1>15, <1>16

LEMMA GridSegments ==
    ASSUME NEW g, IsGrid(g)
    PROVE  /\ Len(g.segments) \in Nat /\ Len(g.segments) # 0
           /\ DOMAIN g.segments = 1 .. Len(g.segments)
           /\ Len(Resolutions) \in Nat /\ Len(Resolutions) # 0
           /\ DOMAIN Resolutions = 1 .. Len(Resolutions)
<1>1. g.segments \in Seq(DOMAIN g.slots) /\ g.segments # <<>>
  BY DEF IsGrid
<1>2. PICK s : s = g.segments
  OBVIOUS
<1>3. IsList(s) /\ s # <<>>
  BY <1>1, <1>2, SeqIsList
<1>4. IsList(Resolutions) /\ Resolutions # <<>>
  BY DetectionAssumption, SeqIsList
<1>. QED  BY <1>2, <1>3, <1>4, ListFacts

\* A segment the scan has not come to yet.
LEMMA Anew ==
    ASSUME NEW g, IsGrid(g), NEW c, c.segment \in DOMAIN g.segments,
           c.resolution \in DOMAIN Resolutions, c.bucket = 0,
           NEW list, Said(list, KeyOf(g, c.segment), c.resolution) = {}
    PROVE  InSegment(g, list, c, 0, 0, <<>>)
<1>1. PICK key, res, B : /\ key = KeyOf(g, c.segment) /\ res = Resolutions[c.resolution]
                         /\ B = BucketsOf(g, key, res)
  OBVIOUS
<1>2. key \in DOMAIN g.slots /\ IsResolution(res)
  BY <1>1, KeysAreSlots, AreResolutions
<1>3. LastOf(g, key, res) \in Nat
  BY <1>2, LastIsNat
<1>4. IsThickList(B, res)
  <2>1. LastOf(g, key, res) + 1 \in Nat
    BY <1>3
  <2>. QED  BY <1>1, <1>2, <2>1, ThickIsList DEF BucketsOf
<1>5. ThickOf(g, key, res, 0) = <<>>
  <2>1. 0 \in Nat
    OBVIOUS
  <2>. QED  BY <2>1, ThickStep
<1>6. 0 = Len(ThickOf(g, key, res, 0)) /\ 0 <= LastOf(g, key, res) + 1
  BY <1>3, <1>5, EmptyList, ListFacts
<1>7. ScansRightly(list, key, c.resolution, B, res, 0, 0, <<>>)
  BY <1>1, <1>2, <1>4, ScanBegins
<1>. QED  BY <1>1, <1>6, <1>7 DEF InSegment

\* All that was scanned, and the segment that has just been, is said rightly.
LEMMA SegmentDone ==
    ASSUME NEW g, IsGrid(g), SInv(g), stage = "scan", cursor.bucket > LastBucket
    PROVE  /\ Elsewhere(g, Emitted, cursor)
           /\ ScannedRightly(g, Emitted, cursor.segment, cursor.resolution)
<1>1. PICK key, res : key = KeyOf(g, cursor.segment) /\ res = Resolutions[cursor.resolution]
  OBVIOUS
<1>2. PICK B, n : B = BucketsOf(g, key, res) /\ n = LastOf(g, key, res) + 1
  OBVIOUS
<1>3. /\ key \in DOMAIN g.slots /\ IsResolution(res) /\ cursor.bucket \in Nat
      /\ cursor.segment \in DOMAIN g.segments
      /\ Key = key /\ Resolution = res /\ LastBucket = LastOf(g, key, res)
  BY <1>1, WhatIsRead
<1>4. /\ Shape /\ Elsewhere(g, found, cursor)
      /\ InSegment(g, found, cursor, baseline, seen, breach_run)
  BY DEF SInv, DInv, Scan
<1>5. /\ cursor.bucket <= LastOf(g, key, res) + 1
      /\ seen = Len(ThickOf(g, key, res, cursor.bucket))
      /\ ClearCut(B) =>
            ScansRightly(found, key, cursor.resolution, B, res, baseline, seen, breach_run)
  BY <1>1, <1>2, <1>4 DEF InSegment
<1>6. LastOf(g, key, res) \in Nat
  BY <1>3, LastIsNat
<1>7. cursor.bucket = n /\ n \in Nat
  BY <1>2, <1>3, <1>5, <1>6
<1>8. B = ThickOf(g, key, res, n)
  BY <1>2 DEF BucketsOf
<1>9. IsThickList(B, res)
  BY <1>3, <1>7, <1>8, ThickIsList
<1>10. seen = Len(B) /\ IsList(breach_run)
  BY <1>4, <1>5, <1>7, <1>8 DEF Shape, RunInOrder
<1>11. /\ Adds(Emitted, found, key, cursor.resolution, res, baseline,
              breach_run, Len(breach_run))
       /\ SaysElse(Emitted, found, key, cursor.resolution)
  BY <1>3, <1>4, EmittedAdds DEF SaysElse
<1>12. Elsewhere(g, Emitted, cursor)
  BY <1>1, <1>3, <1>4, <1>11, ElsewhereKept
<1>13. ASSUME ClearCut(B)
       PROVE  RightlySaid(Emitted, key, cursor.resolution, B, res, Len(B))
  <2>1. warmup_buckets \in Nat /\ Len(B) \in Nat
    BY <1>9, DetectionAssumption, ListFacts DEF IsThickList
  <2>2. Len(B) # 0 /\ ~ IsBad(B, Len(B) + 1)
    BY <1>13, <2>1 DEF ClearCut, IsBad
  <2>3. PICK m \in Nat : m = Len(B)
    BY <2>1
  <2>4. RightlySaid(Emitted, key, cursor.resolution, B, res, m)
    BY <1>3, <1>5, <1>9, <1>10, <1>11, <1>13, <2>2, <2>3, ScanEmits
  <2>. QED  BY <2>3, <2>4
<1>14. ScannedRightly(g, Emitted, cursor.segment, cursor.resolution)
  BY <1>1, <1>2, <1>13 DEF ScannedRightly, TheirBuckets
<1>. QED  BY <1>12, <1>14

\* The end of a segment, of a resolution, or of the scan.
LEMMA StepFinishing ==
    ASSUME NEW g, IsGrid(g), SInv(g), FinishSegment
    PROVE  /\ stage' = "scan" => Scan(g, found', cursor', baseline', seen', breach_run')
           /\ stage' = "dedupe" => \A k \in DOMAIN g.segments, r \in DOMAIN Resolutions :
                                      ScannedRightly(g, found', k, r)
<1>. DEFINE last == cursor.segment = Len(g.segments)
<1>1. /\ stage = "scan" /\ cursor.bucket > LastBucket /\ grid = g
      /\ found' = Emitted /\ breach_run' = <<>> /\ baseline' = 0 /\ seen' = 0
      /\ IF last /\ cursor.resolution = Len(Resolutions) THEN stage' = "dedupe"
         ELSE /\ cursor' = [resolution |-> cursor.resolution + IF last THEN 1 ELSE 0,
                            segment |-> IF last THEN 1 ELSE cursor.segment + 1,
                            bucket |-> 0]
              /\ stage' = stage
  BY DEF FinishSegment, SInv
<1>2. /\ Elsewhere(g, Emitted, cursor)
      /\ ScannedRightly(g, Emitted, cursor.segment, cursor.resolution)
  BY <1>1, SegmentDone
<1>3. /\ Len(g.segments) \in Nat /\ Len(g.segments) # 0
      /\ DOMAIN g.segments = 1 .. Len(g.segments)
      /\ Len(Resolutions) \in Nat /\ Len(Resolutions) # 0
      /\ DOMAIN Resolutions = 1 .. Len(Resolutions)
  BY GridSegments
<1>4. PICK s, t : s = cursor.segment /\ t = cursor.resolution
  OBVIOUS
<1>5. s \in 1 .. Len(g.segments) /\ t \in 1 .. Len(Resolutions)
  BY <1>1, <1>3, <1>4, WhatIsRead
<1>6. \A k \in DOMAIN g.segments, r \in DOMAIN Resolutions :
         /\ r < t \/ (r = t /\ k < s) => ScannedRightly(g, found', k, r)
         /\ r = t /\ k = s => ScannedRightly(g, found', k, r)
         /\ r > t \/ (r = t /\ k > s) => Said(found', KeyOf(g, k), r) = {}
  BY <1>1, <1>2, <1>4 DEF Elsewhere, Passed, Coming
<1>7. CASE last /\ cursor.resolution = Len(Resolutions)
  <2>1. stage' = "dedupe" /\ s = Len(g.segments) /\ t = Len(Resolutions)
    BY <1>1, <1>4, <1>7
  <2>2. ASSUME NEW k \in DOMAIN g.segments, NEW r \in DOMAIN Resolutions
        PROVE  ScannedRightly(g, found', k, r)
    <3>1. r < t \/ (r = t /\ k < s) \/ (r = t /\ k = s)
      BY <1>3, <2>1
    <3>. QED  BY <1>6, <3>1
  <2>. QED  BY <2>1, <2>2
<1>8. CASE ~ (last /\ cursor.resolution = Len(Resolutions))
  <2>1. PICK c : c = cursor'
    OBVIOUS
  <2>2. /\ stage' = "scan" /\ c.bucket = 0
        /\ c.resolution = t + (IF s = Len(g.segments) THEN 1 ELSE 0)
        /\ c.segment = IF s = Len(g.segments) THEN 1 ELSE s + 1
    BY <1>1, <1>4, <1>8, <2>1
  <2>3. PICK p, q : p = c.segment /\ q = c.resolution
    OBVIOUS
  <2>4. p \in DOMAIN g.segments /\ q \in DOMAIN Resolutions
    BY <1>3, <1>4, <1>5, <1>8, <2>2, <2>3
  <2>5. q > t \/ (q = t /\ p > s)
    BY <1>5, <2>2, <2>3
  <2>6. ASSUME NEW k \in DOMAIN g.segments, NEW r \in DOMAIN Resolutions
        PROVE  /\ Passed(c, k, r) => ScannedRightly(g, found', k, r)
               /\ Coming(c, k, r) => Said(found', KeyOf(g, k), r) = {}
    <3>1. r < q \/ (r = q /\ k < p) => r < t \/ (r = t /\ k < s) \/ (r = t /\ k = s)
      BY <1>3, <1>5, <2>2, <2>3
    <3>2. r > q \/ (r = q /\ k > p) => r > t \/ (r = t /\ k > s)
      BY <1>3, <1>5, <2>2, <2>3
    <3>. QED  BY <1>6, <2>3, <3>1, <3>2 DEF Passed, Coming
  <2>7. Said(found', KeyOf(g, p), q) = {}
    BY <1>6, <2>4, <2>5
  <2>8. InSegment(g, found', c, 0, 0, <<>>)
    BY <2>2, <2>3, <2>4, <2>7, Anew
  <2>9. Elsewhere(g, found', c)
    BY <2>6 DEF Elsewhere
  <2>10. Scan(g, found', c, 0, 0, <<>>)
    BY <2>3, <2>4, <2>8, <2>9 DEF Scan
  <2>. QED  BY <1>1, <2>1, <2>2, <2>10
<1>. QED  BY <1>7, <1>8

\* The invariant is inductive.
LEMMA StepSInv ==
    ASSUME NEW g, IsGrid(g), SInv(g), [Detect]_detection
    PROVE  SInv(g)'
<1>1. DInv'
  BY StepDInv DEF SInv
<1>2. grid' = g
  BY DEF SInv, Detect, detection, SkipThin, LearnBaseline, Breach, Recover, FinishSegment,
         _dedupe, StartCorrelating, correlate, FinishCorrelating
<1>3. CASE SkipThin \/ LearnBaseline \/ Breach \/ Recover
  <2>1. stage' = "scan"
    BY <1>3 DEF SkipThin, LearnBaseline, Breach, Recover, Thick, Scanning
  <2>2. Scan(g, found', cursor', baseline', seen', breach_run')
    BY <1>3, StepScanning
  <2>. QED  BY <1>1, <1>2, <2>1, <2>2 DEF SInv
<1>4. CASE FinishSegment
  BY <1>1, <1>2, <1>4, StepFinishing DEF SInv
<1>5. CASE UNCHANGED detection
  <2>1. UNCHANGED <<stage, found, cursor, baseline, seen, breach_run>>
    BY <1>5 DEF detection
  <2>. QED  BY <1>1, <1>2, <2>1 DEF SInv
<1>6. CASE _dedupe \/ StartCorrelating \/ correlate \/ FinishCorrelating
  <2>1. /\ UNCHANGED found /\ stage' # "scan"
        /\ stage' = "dedupe" => stage = "dedupe"
    BY <1>6 DEF _dedupe, StartCorrelating, correlate, FinishCorrelating
  <2>. QED  BY <1>1, <1>2, <2>1 DEF SInv
<1>. QED  BY <1>3, <1>4, <1>5, <1>6 DEF Detect

LEMMA InitSInv ==
    ASSUME NEW g, IsGrid(g), InitDetection(g)
    PROVE  SInv(g)
<1>1. /\ grid = g /\ stage = "scan" /\ baseline = 0 /\ seen = 0 /\ breach_run = <<>>
      /\ found = <<>> /\ cursor = [resolution |-> 1, segment |-> 1, bucket |-> 0]
  BY DEF InitDetection
<1>2. DInv
  BY InitDInv
<1>3. /\ cursor.segment = 1 /\ cursor.resolution = 1 /\ cursor.bucket = 0
      /\ DOMAIN g.segments \subseteq Nat \ {0} /\ DOMAIN Resolutions \subseteq Nat \ {0}
      /\ 1 \in DOMAIN g.segments /\ 1 \in DOMAIN Resolutions
  BY <1>1, GridSegments
<1>4. \A key, r : Said(found, key, r) = {}
  BY <1>1, EmptyList DEF Said
<1>5. InSegment(g, found, cursor, 0, 0, <<>>)
  BY <1>3, <1>4, Anew
<1>6. Elsewhere(g, found, cursor)
  <2>1. ASSUME NEW k \in DOMAIN g.segments, NEW r \in DOMAIN Resolutions
        PROVE  ~ Passed(cursor, k, r)
    BY <1>3 DEF Passed
  <2>. QED  BY <1>4, <2>1 DEF Elsewhere
<1>. QED  BY <1>1, <1>2, <1>3, <1>5, <1>6 DEF SInv, Scan

\* And after the scan it says what is claimed.
LEMMA AllIsSaid ==
    ASSUME NEW g, IsGrid(g), SInv(g)
    PROVE  EveryIncidentIsSignalled
<1>1. grid = g
  BY DEF SInv
<1>. DEFINE Right(key, res, r, B) ==
                ClearCut(B) =>
                    /\ {Window(B, res, run) : run \in Outages(B, res, Lowest(B))}
                          \subseteq Said(found, key, r)
                    /\ Said(found, key, r)
                          \subseteq {Window(B, res, run) : run \in Outages(B, res, Highest(B))}
<1>0. (\A k \in DOMAIN grid.segments, r \in DOMAIN Resolutions :
          Right(grid.segments[k], Resolutions[r], r,
                ThickBuckets(grid.segments[k], Resolutions[r])))
         => EveryIncidentIsSignalled
  BY Zenon DEF EveryIncidentIsSignalled, Window, Said, Lowest, Highest
<1>2. ASSUME stage = "dedupe", NEW k \in DOMAIN g.segments, NEW r \in DOMAIN Resolutions
      PROVE  Right(g.segments[k], Resolutions[r], r,
                   ThickBuckets(g.segments[k], Resolutions[r]))
  <2>1. PICK key, res : key = g.segments[k] /\ res = Resolutions[r]
    OBVIOUS
  <2>2. PICK B : B = ThickBuckets(key, res)
    OBVIOUS
  <2>3. SUFFICES ASSUME ClearCut(B)
                 PROVE  Right(key, res, r, B)
    <3>. HIDE DEF Right
    <3>1. ClearCut(B) \/ Right(key, res, r, B)
      BY DEF Right
    <3>. QED  BY <2>1, <2>2, <3>1
  <2>4. B = BucketsOf(g, key, res)
    BY <1>1, <2>2, GridsBuckets
  <2>5. ScannedRightly(g, found, k, r)
    BY <1>2 DEF SInv
  <2>6. RightlySaid(found, key, r, B, res, Len(B))
    BY <2>1, <2>3, <2>4, <2>5 DEF ScannedRightly, TheirBuckets, KeyOf
  <2>7. IsResolution(res) /\ key \in DOMAIN g.slots
    BY <2>1, AreResolutions, KeysAreSlots DEF KeyOf
  <2>8. IsThickList(B, res)
    <3>1. LastOf(g, key, res) + 1 \in Nat
      BY <2>7, LastIsNat
    <3>. QED  BY <2>4, <2>7, <3>1, ThickIsList DEF BucketsOf
  <2>9. Len(B) \in Nat /\ DOMAIN B = 1 .. Len(B)
    BY <2>8, ListFacts DEF IsThickList
  <2>10. \A base : WindowsUpTo(B, res, base, Len(B))
                      = {Window(B, res, run) : run \in Outages(B, res, base)}
    <3>1. ASSUME NEW base, NEW run \in Outages(B, res, base)
          PROVE  run[2] <= Len(B)
      <4>1. run[2] \in DOMAIN B
        BY DEF Outages
      <4>. QED  BY <2>9, <4>1
    <3>. QED  BY <3>1 DEF WindowsUpTo
  <2>. QED  BY <2>6, <2>10 DEF RightlySaid
<1>. HIDE DEF Right
<1>3. CASE stage # "dedupe"
  BY <1>3 DEF EveryIncidentIsSignalled
<1>. QED  BY <1>0, <1>1, <1>2, <1>3

\* However a segment's traffic went, as long as it is clear-cut, every outage in it
\* that lasts and costs enough is signalled, from its first bucket to its last, and
\* nothing else is (Detector._scan_segment, _emit).
THEOREM EveryIncident ==
    ASSUME NEW g, IsGrid(g)
    PROVE  InitDetection(g) /\ [][Detect]_detection => []EveryIncidentIsSignalled
<1>1. InitDetection(g) => SInv(g)
  BY InitSInv
<1>2. SInv(g) /\ [Detect]_detection => SInv(g)'
  BY StepSInv
<1>3. SInv(g) => EveryIncidentIsSignalled
  BY AllIsSaid
<1>. QED  BY <1>1, <1>2, <1>3, PTL
===============================================================================
