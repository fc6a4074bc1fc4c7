------------------------------- MODULE Detection -------------------------------
(***************************************************************************)
(* detect/: a batch of attempts is scanned for revenue at risk, segment by *)
(* segment, at several widths of bucket (Detector); what several widths    *)
(* saw of one incident is collapsed (MultiResolutionDetector); and what    *)
(* several segments saw of it is grouped, and given the scope it actually  *)
(* has (correlate).                                                        *)
(*                                                                         *)
(* A grid says how many attempts each segment saw in each slot of time,    *)
(* the narrowest bucket.  Rates are whole per mille, rounded down.         *)
(***************************************************************************)
EXTENDS Integers, Sequences, FiniteSets, FiniteSetsExt

CONSTANTS
    Resolutions,       \* finest first: width in slots, min_attempts, sustained
    z_threshold, min_absolute_drop, warmup_buckets, ewma_alpha, \* DetectorConfig
    min_money_at_risk,
    margin             \* correlate, in percent

ASSUME DetectionAssumption ==
    /\ Resolutions \in Seq([width : Nat \ {0}, min_attempts : Nat \ {0},
                            sustained_buckets : Nat \ {0}])
    /\ Resolutions # <<>>
    /\ z_threshold \in Nat /\ min_absolute_drop \in Nat
    /\ warmup_buckets \in Nat \ {0} /\ ewma_alpha \in 0 .. 100
    /\ min_money_at_risk \in Nat /\ margin \in Nat

VARIABLES
    grid,        \* the segments in the order they were met, and their slots
    stage,       \* "scan", "dedupe", "correlate", "detected"
    cursor,      \* the resolution, the segment and the bucket scanned next
    baseline,    \* _SegmentState of that segment
    seen,
    breach_run,  \* the buckets below the baseline, of the run that is open
    found,       \* what Detector.run has returned, with its resolution
    todo,        \* those signals _dedupe or correlate has not looked at
    kept,        \* what _dedupe kept
    groups       \* correlate's groups

detection == <<grid, stage, cursor, baseline, seen, breach_run, found, todo,
               kept, groups>>
-------------------------------------------------------------------------------
(* The first element, in the order of their numbers, that no other precedes *)
Foremost(S, Precedes(_, _)) ==
    CHOOSE n \in S : \A m \in S : /\ ~ Precedes(m, n)
                                  /\ Precedes(n, m) \/ n <= m

Slots(key) == DOMAIN grid.slots[key]

\* What Detector.run makes of the attempts it is given: the segments they are in,
\* each once, and how many were made in each slot.
IsGrid(g) ==
    /\ g.segments \in Seq(DOMAIN g.slots) /\ g.segments # <<>>
    /\ \A k, l \in DOMAIN g.segments : g.segments[k] = g.segments[l] => k = l
    /\ \A key \in DOMAIN g.slots :
           LET slots == g.slots[key]
           IN  /\ DOMAIN slots \subseteq Nat /\ IsFiniteSet(DOMAIN slots)
               /\ \A t \in DOMAIN slots : /\ slots[t].attempts \in Nat
                                         /\ slots[t].successes \in Nat
                                         /\ slots[t].amount \in Nat

\* One bucket: the slots it covers, added up.
Bucket(key, width, n) ==
    LET slots == grid.slots[key]
        inside == {t \in DOMAIN slots : t \div width = n}
    IN  [attempts |-> SumFunction([t \in inside |-> slots[t].attempts]),
         successes |-> SumFunction([t \in inside |-> slots[t].successes]),
         amount |-> SumFunction([t \in inside |-> slots[t].amount]),
         declines |-> [code \in grid.codes |->
                          SumFunction([t \in inside |-> slots[t].declines[code]])],
         at |-> n * width]

rate(b) == (1000 * b.successes) \div b.attempts

\* z <= -z_threshold, squared: a baseline of nought or of a thousand has no
\* deviation, and breaches nothing.
Breaching(b, base) ==
    LET drop == base - rate(b)
    IN  /\ base \in 1 .. 999
        /\ drop > 0
        /\ drop * drop * b.attempts
               >= z_threshold * z_threshold * base * (1000 - base)
        /\ drop >= min_absolute_drop

Learned(base, b) == base + (ewma_alpha * (rate(b) - base)) \div 100
-------------------------------------------------------------------------------
(* Detector._scan_segment, one bucket at a time *)

Resolution == Resolutions[cursor.resolution]
Key == grid.segments[cursor.segment]
Here == Bucket(Key, Resolution.width, cursor.bucket)

LastBucket == Max(Slots(Key) \cup {0}) \div Resolution.width
Scanning == stage = "scan" /\ cursor.bucket <= LastBucket
Thick == Scanning /\ Here.attempts >= Resolution.min_attempts

Advance == cursor' = [cursor EXCEPT !.bucket = @ + 1]

\* The most frequent decline; of a tie one, always the same.
dominant_decline(mix) ==
    CHOOSE code \in grid.codes : \A other \in grid.codes : mix[other] <= mix[code]

\* _emit: the signal of the run that ends here, if it lasted and mattered.
Run(f(_)) == SumFunction([n \in DOMAIN breach_run |-> f(breach_run[n])])

run_attempts == Run(LAMBDA b : b.attempts)
run_drop == baseline - (1000 * Run(LAMBDA b : b.successes)) \div run_attempts
run_mix == [code \in grid.codes |-> Run(LAMBDA b : b.declines[code])]

money_at_risk ==
    ((Run(LAMBDA b : b.amount) \div run_attempts)
        * Max({0, run_drop * run_attempts})) \div 1000

RiskSignal == [resolution |-> cursor.resolution,
               segment |-> Key,
               starts_at |-> breach_run[1].at,
               ends_at |-> breach_run[Len(breach_run)].at + Resolution.width,
               rate_drop |-> run_drop,
               dominant_decline |-> dominant_decline(run_mix)]

_emit == IF \/ Len(breach_run) < Resolution.sustained_buckets
            \/ money_at_risk < min_money_at_risk
         THEN <<>> ELSE <<RiskSignal>>

SkipThin ==
    /\ Scanning /\ ~ Thick
    /\ Advance
    /\ UNCHANGED <<grid, stage, baseline, seen, breach_run, found, todo, kept, groups>>

\* The first bucket is the baseline, those of the warm-up move it.
LearnBaseline ==
    /\ Thick /\ seen < warmup_buckets
    /\ seen' = seen + 1
    /\ baseline' = IF seen = 0 THEN rate(Here) ELSE Learned(baseline, Here)
    /\ Advance
    /\ UNCHANGED <<grid, stage, breach_run, found, todo, kept, groups>>

\* Mutant: the baseline goes on learning during an incident.
Breach_Learning ==
    /\ Thick /\ seen >= warmup_buckets
    /\ Breaching(Here, baseline)
    /\ seen' = seen + 1
    /\ breach_run' = Append(breach_run, Here)
    /\ baseline' = Learned(baseline, Here)
    /\ Advance
    /\ UNCHANGED <<grid, stage, found, todo, kept, groups>>

\* The baseline is frozen while a run is open.
Breach ==
    /\ Thick /\ seen >= warmup_buckets
    /\ Breaching(Here, baseline)
    /\ seen' = seen + 1
    /\ breach_run' = Append(breach_run, Here)
    /\ Advance
    /\ UNCHANGED <<grid, stage, baseline, found, todo, kept, groups>>

Emitted == IF breach_run = <<>> THEN found ELSE found \o _emit

Recover ==
    /\ Thick /\ seen >= warmup_buckets
    /\ ~ Breaching(Here, baseline)
    /\ seen' = seen + 1
    /\ found' = Emitted
    /\ breach_run' = <<>>
    /\ baseline' = Learned(baseline, Here)
    /\ Advance
    /\ UNCHANGED <<grid, stage, todo, kept, groups>>

\* The segment's buckets are read: a run still open is emitted, and the next
\* segment starts anew, or the first one at the next resolution.
FinishSegment ==
    LET last == cursor.segment = Len(grid.segments)
    IN  /\ stage = "scan" /\ cursor.bucket > LastBucket
        /\ found' = Emitted
        /\ breach_run' = <<>> /\ baseline' = 0 /\ seen' = 0
        /\ IF last /\ cursor.resolution = Len(Resolutions)
           THEN /\ stage' = "dedupe" /\ todo' = DOMAIN found'
                /\ UNCHANGED cursor
           ELSE /\ cursor' = [resolution |-> cursor.resolution + IF last THEN 1 ELSE 0,
                              segment |-> IF last THEN 1 ELSE cursor.segment + 1,
                              bucket |-> 0]
                /\ UNCHANGED <<stage, todo>>
        /\ UNCHANGED <<grid, kept, groups>>
-------------------------------------------------------------------------------
(* MultiResolutionDetector._dedupe and correlate, one signal at a time *)

_overlap(a, b) == a.starts_at <= b.ends_at /\ b.starts_at <= a.ends_at

FinerOrEarlier(m, n) ==
    \/ found[m].resolution < found[n].resolution
    \/ /\ found[m].resolution = found[n].resolution
       /\ found[m].starts_at < found[n].starts_at

\* The finest resolution wins, within a segment.
_dedupe ==
    LET n == Foremost(todo, FinerOrEarlier)
        sig == found[n]
        duplicate == \E k \in DOMAIN kept :
                         kept[k].segment = sig.segment /\ _overlap(kept[k], sig)
    IN  /\ stage = "dedupe" /\ todo # {}
        /\ kept' = IF duplicate THEN kept ELSE Append(kept, sig)
        /\ todo' = todo \ {n}
        /\ UNCHANGED <<grid, stage, cursor, baseline, seen, breach_run, found, groups>>

StartCorrelating ==
    /\ stage = "dedupe" /\ todo = {}
    /\ stage' = "correlate" /\ todo' = DOMAIN kept
    /\ UNCHANGED <<grid, cursor, baseline, seen, breach_run, found, kept, groups>>

Earlier(m, n) == kept[m].starts_at < kept[n].starts_at

\* Mutant: a signal is compared with the first of a group only.
Joins_First(sig, group) ==
    /\ group[1].dominant_decline = sig.dominant_decline
    /\ _overlap(sig, group[1])

\* The same problem: the same decline, at a time one of the group covers.
Joins(sig, group) ==
    /\ group[1].dominant_decline = sig.dominant_decline
    /\ \E other \in DOMAIN group : _overlap(sig, group[other])

correlate ==
    LET n == Foremost(todo, Earlier)
        sig == kept[n]
        fits == {g \in DOMAIN groups : Joins(sig, groups[g])}
    IN  /\ stage = "correlate" /\ todo # {}
        /\ groups' = IF fits = {} THEN Append(groups, <<sig>>)
                     ELSE [groups EXCEPT ![Min(fits)] = Append(@, sig)]
        /\ todo' = todo \ {n}
        /\ UNCHANGED <<grid, stage, cursor, baseline, seen, breach_run, found, kept>>

FinishCorrelating ==
    /\ stage = "correlate" /\ todo = {}
    /\ stage' = "detected"
    /\ UNCHANGED <<grid, cursor, baseline, seen, breach_run, found, todo, kept, groups>>

SPECIFICITY == [global |-> 0, rail |-> 1, issuer |-> 1, acquirer |-> 1,
                rail_issuer |-> 2, issuer_bin |-> 3]
specificity(sig) == SPECIFICITY[sig.segment.dimension]

\* The scope a group has: its sharpest slice, if that is sharper than the
\* broadest by the margin.
_elect(group) ==
    LET Broader(m, n) ==
            \/ specificity(group[m]) < specificity(group[n])
            \/ /\ specificity(group[m]) = specificity(group[n])
               /\ group[m].rate_drop > group[n].rate_drop
        Sharper(m, n) ==
            \/ group[m].rate_drop > group[n].rate_drop
            \/ /\ group[m].rate_drop = group[n].rate_drop
               /\ specificity(group[m]) > specificity(group[n])
        broadest == group[Foremost(DOMAIN group, Broader)]
        sharpest == group[Foremost(DOMAIN group, Sharper)]
    IN  IF 100 * sharpest.rate_drop >= margin * broadest.rate_drop
        THEN sharpest ELSE broadest

RiskCluster(group) ==
    [segment |-> _elect(group).segment,
     starts_at |-> Min({group[n].starts_at : n \in DOMAIN group}),
     ends_at |-> Max({group[n].ends_at : n \in DOMAIN group})]

Clusters == [g \in DOMAIN groups |-> RiskCluster(groups[g])]
-------------------------------------------------------------------------------
InitDetection(g) ==
    /\ grid = g /\ stage = "scan"
    /\ cursor = [resolution |-> 1, segment |-> 1, bucket |-> 0]
    /\ baseline = 0 /\ seen = 0 /\ breach_run = <<>>
    /\ found = <<>> /\ todo = {} /\ kept = <<>> /\ groups = <<>>

Detect == \/ SkipThin \/ LearnBaseline \/ Breach \/ Recover \/ FinishSegment
          \/ _dedupe \/ StartCorrelating \/ correlate \/ FinishCorrelating
-------------------------------------------------------------------------------
(* What the signals say, against the grid itself *)

\* The buckets of a segment that are thick enough at a resolution, in order: those
\* among the first n, and all.
ThickAmong(key, res, n) ==
    LET Among[m \in 0 .. n] ==
            IF m = 0 THEN <<>>
            ELSE LET b == Bucket(key, res.width, m - 1)
                 IN  IF b.attempts >= res.min_attempts THEN Append(Among[m - 1], b)
                     ELSE Among[m - 1]
    IN  Among[n]

ThickBuckets(key, res) ==
    ThickAmong(key, res, Max(Slots(key) \cup {0}) \div res.width + 1)

\* The rates of the warm-up, from the lowest to the highest.
Healthy(buckets) ==
    LET warm == {rate(buckets[n]) : n \in 1 .. warmup_buckets}
    IN  Min(warm) .. Max(warm)

\* The warm-up saw no outage, and after it every bucket is as healthy as then
\* or clearly an outage.
ClearCut(buckets) ==
    /\ Len(buckets) > warmup_buckets
    /\ Max(Healthy(buckets)) - Min(Healthy(buckets)) < min_absolute_drop
    /\ \A n \in warmup_buckets + 1 .. Len(buckets) :
           \/ rate(buckets[n]) \in Healthy(buckets)
           \/ \A base \in Healthy(buckets) : Breaching(buckets[n], base)

\* What the buckets from and to, and those between, lose against a baseline.
Loss(buckets, base, from, to) ==
    LET Total(f(_)) == SumFunction([n \in from .. to |-> f(buckets[n])])
        attempts == Total(LAMBDA b : b.attempts)
        drop == base - (1000 * Total(LAMBDA b : b.successes)) \div attempts
    IN  ((Total(LAMBDA b : b.amount) \div attempts) * drop * attempts) \div 1000

\* A bucket of an outage.
IsBad(buckets, n) ==
    /\ n \in warmup_buckets + 1 .. Len(buckets)
    /\ rate(buckets[n]) \notin Healthy(buckets)

\* The outages that last, and cost enough against this baseline: the buckets
\* from and to of each.
Outages(buckets, res, base) ==
    {run \in (DOMAIN buckets) \X (DOMAIN buckets) :
        /\ run[2] - run[1] + 1 >= res.sustained_buckets
        /\ \A n \in run[1] .. run[2] : IsBad(buckets, n)
        /\ ~ IsBad(buckets, run[1] - 1) /\ ~ IsBad(buckets, run[2] + 1)
        /\ Loss(buckets, base, run[1], run[2]) >= min_money_at_risk}

\* Every outage that lasts and costs enough is signalled, from its first bucket
\* to its last, however long it is, and nothing else is: the baseline that is
\* learned between the outages, and frozen in them, neither hides one nor
\* invents one (Detector._scan_segment, _emit).
EveryIncidentIsSignalled ==
    stage = "dedupe" =>
        \A k \in DOMAIN grid.segments, r \in DOMAIN Resolutions :
            LET key == grid.segments[k]
                res == Resolutions[r]
                buckets == ThickBuckets(key, res)
                Windows(base) ==
                    {<<buckets[run[1]].at, buckets[run[2]].at + res.width>> :
                        run \in Outages(buckets, res, base)}
                signalled == {<<found[n].starts_at, found[n].ends_at>> :
                                 n \in {m \in DOMAIN found :
                                           /\ found[m].segment = key
                                           /\ found[m].resolution = r}}
            IN  ClearCut(buckets) =>
                    /\ Windows(Min(Healthy(buckets))) \subseteq signalled
                    /\ signalled \subseteq Windows(Max(Healthy(buckets)))

\* One incident is one cluster: no two signals kept for a segment touch, every
\* signal found touches one that was kept, and no two groups of one decline
\* touch, in whatever order the signals came (_dedupe, correlate).
OneProblemOneCluster ==
    stage # "scan" =>
        /\ stage # "dedupe" =>
               \A n \in DOMAIN found : \E k \in DOMAIN kept :
                   kept[k].segment = found[n].segment /\ _overlap(kept[k], found[n])
        /\ \A k, l \in DOMAIN kept :
               k # l /\ kept[k].segment = kept[l].segment => ~ _overlap(kept[k], kept[l])
        /\ \A g, h \in DOMAIN groups :
               g # h /\ groups[g][1].dominant_decline = groups[h][1].dominant_decline =>
                   \A m \in DOMAIN groups[g], n \in DOMAIN groups[h] :
                       ~ _overlap(groups[g][m], groups[h][n])
===============================================================================
