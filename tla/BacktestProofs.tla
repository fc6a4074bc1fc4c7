----------------------------- MODULE BacktestProofs -----------------------------
(***************************************************************************)
(* What the backtest claims, for any batches, any answers of the model and *)
(* any thresholds.                                                         *)
(*                                                                         *)
(* Of the planning: what is proposed is always a list of actions about the *)
(* subjects of the batch, and every failed order is in it or excused.      *)
(*                                                                         *)
(* Of the arms: what an arm did is a walk: a first standing, and from each *)
(* standing the one that working its next action leads to.  Neither arm    *)
(* chooses: the standing, the world and the proposals determine the        *)
(* action, the ruling and the result.  So two arms that agree up to a      *)
(* point stand at the same place there, and they work the same actions     *)
(* whether they agree or not.                                              *)
(*                                                                         *)
(* Of the audit: it rules again in other contexts than the arm did, as     *)
(* contacts land in another order than they are looked at.  But of the     *)
(* contacts in a window that ends where one of them landed, the last one   *)
(* to be looked at had all the others on record, in its own window; as     *)
(* none of the caps spoke against it, there are fewer than a cap.          *)
(***************************************************************************)
EXTENDS Backtest, DetectionProofs, FiniteSetTheorems

(* What flattening gives *)

\* Everything in the list is in the set.
Within(s, T) == IsList(s) /\ \A n \in DOMAIN s : s[n] \in T
\* x is in the list.
In(x, s) == \E n \in DOMAIN s : s[n] = x

\* What is in two lists is in the one after the other.
LEMMA ConcatList ==
    ASSUME NEW s, IsList(s), NEW t, IsList(t)
    PROVE  /\ IsList(s \o t)
           /\ \A x : In(x, s \o t) <=> In(x, s) \/ In(x, t)
<1>. DEFINE T == {s[n] : n \in DOMAIN s} \cup {t[n] : n \in DOMAIN t}
            m == Len(s)
            n == Len(t)
<1>1. s \in Seq(T) /\ t \in Seq(T)
  <2>1. (\A k \in DOMAIN s : s[k] \in T) /\ (\A k \in DOMAIN t : t[k] \in T)
    OBVIOUS
  <2>. HIDE DEF T
  <2>. QED  BY <2>1, ListIn
<1>. HIDE DEF T
<1>2. /\ s \o t \in Seq(T) /\ m \in Nat /\ n \in Nat
      /\ DOMAIN s = 1 .. m /\ DOMAIN t = 1 .. n
      /\ DOMAIN (s \o t) = 1 .. m + n
      /\ \A k \in 1 .. m + n : (s \o t)[k] = IF k <= m THEN s[k] ELSE t[k - m]
  <2>1. /\ s \o t \in Seq(T) /\ Len(s \o t) = m + n
        /\ \A k \in 1 .. m + n : (s \o t)[k] = IF k <= m THEN s[k] ELSE t[k - m]
    BY <1>1, ConcatProperties
  <2>2. m \in Nat /\ n \in Nat /\ DOMAIN s = 1 .. m /\ DOMAIN t = 1 .. n
    BY <1>1
  <2>. HIDE DEF m, n
  <2>3. DOMAIN (s \o t) = 1 .. Len(s \o t)
    BY <2>1
  <2>. QED  BY <2>1, <2>2, <2>3
<1>3. IsList(s \o t)
  BY <1>2, SeqIsList
<1>. HIDE DEF m, n
<1>4. ASSUME NEW x, In(x, s \o t)
      PROVE  In(x, s) \/ In(x, t)
  <2>1. PICK k \in 1 .. m + n : (s \o t)[k] = x
    BY <1>2, <1>4 DEF In
  <2>2. CASE k <= m
    BY <1>2, <2>1, <2>2 DEF In
  <2>3. CASE k > m
    <3>1. k - m \in DOMAIN t /\ t[k - m] = x
      BY <1>2, <2>1, <2>3
    <3>. QED  BY <3>1 DEF In
  <2>. QED  BY <1>2, <2>1, <2>2, <2>3
<1>5. ASSUME NEW x, In(x, s)
      PROVE  In(x, s \o t)
  <2>1. PICK k \in 1 .. m : s[k] = x
    BY <1>2, <1>5 DEF In
  <2>2. k \in 1 .. m + n /\ (s \o t)[k] = x
    BY <1>2, <2>1
  <2>. QED  BY <1>2, <2>2 DEF In
<1>6. ASSUME NEW x, In(x, t)
      PROVE  In(x, s \o t)
  <2>1. PICK k \in 1 .. n : t[k] = x
    BY <1>2, <1>6 DEF In
  <2>2. k + m \in 1 .. m + n /\ ~ (k + m <= m) /\ k + m - m = k
    BY <1>2, <2>1
  <2>3. (s \o t)[k + m] = x
    BY <1>2, <2>1, <2>2
  <2>. QED  BY <1>2, <2>2, <2>3 DEF In
<1>. QED  BY <1>3, <1>4, <1>5, <1>6

LEMMA ConcatWithin ==
    ASSUME NEW T, NEW s, Within(s, T), NEW t, Within(t, T)
    PROVE  Within(s \o t, T)
<1>1. IsList(s \o t) /\ \A x : In(x, s \o t) => In(x, s) \/ In(x, t)
  BY ConcatList DEF Within
<1>2. \A x : In(x, s) \/ In(x, t) => x \in T
  BY DEF Within, In
<1>. QED  BY <1>1, <1>2 DEF Within, In

\* The first k lists of s, one after the other, for every k.
Joined(s, f, k) ==
    f = [i \in 1 .. k |-> IF i = 1 THEN s[i] ELSE f[i - 1] \o s[i]]

LEMMA JoinedExists ==
    ASSUME NEW s, NEW k \in Nat
    PROVE  \E f : Joined(s, f, k)
<1>. DEFINE Bad == {x \in Nat : ~ \E f : Joined(s, f, x)}
<1>1. SUFFICES ASSUME Bad # {}
               PROVE  FALSE
  OBVIOUS
<1>2. PICK x \in Bad : \A y \in Bad : x <= y
  <2>1. Bad \in SUBSET Nat
    OBVIOUS
  <2>. HIDE DEF Bad
  <2>. QED  BY <1>1, <2>1, LeastNumber
<1>3. x \in Nat /\ ~ \E f : Joined(s, f, x)
  BY <1>2
<1>4. x # 0
  <2>. DEFINE e == [i \in 1 .. 0 |-> i]
  <2>1. e = [i \in 1 .. 0 |-> IF i = 1 THEN s[i] ELSE e[i - 1] \o s[i]]
    OBVIOUS
  <2>2. Joined(s, e, 0)
    BY <2>1 DEF Joined
  <2>. QED  BY <1>3, <2>2
<1>5. PICK g : Joined(s, g, x - 1)
  <2>1. x - 1 \in Nat /\ x - 1 \notin Bad
    <3>. HIDE DEF Bad
    <3>. QED  BY <1>2, <1>3, <1>4
  <2>. QED  BY <2>1
<1>. DEFINE h == [i \in 1 .. x |-> IF i = x THEN (IF x = 1 THEN s[x] ELSE g[x - 1] \o s[x])
                                   ELSE g[i]]
<1>6. \A i \in 1 .. x - 1 : g[i] = IF i = 1 THEN s[i] ELSE g[i - 1] \o s[i]
  BY Zenon, <1>5 DEF Joined
<1>7. \A i \in 1 .. x : h[i] = IF i = 1 THEN s[i] ELSE h[i - 1] \o s[i]
  <2>1. ASSUME NEW i \in 1 .. x
        PROVE  h[i] = IF i = 1 THEN s[i] ELSE h[i - 1] \o s[i]
    <3>1. i \in Int /\ (i # 1 => i - 1 \in 1 .. x /\ i - 1 # x)
      BY <1>3
    <3>2. i # 1 => h[i - 1] = g[i - 1]
      BY <3>1
    <3>3. CASE i = x
      BY <3>2, <3>3
    <3>4. CASE i # x
      <4>1. i \in 1 .. x - 1
        BY <1>3, <3>4
      <4>. QED  BY <1>6, <3>2, <3>4, <4>1
    <3>. QED  BY <3>3, <3>4
  <2>. QED  BY <2>1
<1>8. h = [i \in 1 .. x |-> h[i]]
  OBVIOUS
<1>. HIDE DEF h
<1>9. Joined(s, h, x)
  <2>1. [i \in 1 .. x |-> h[i]] = [i \in 1 .. x |-> IF i = 1 THEN s[i] ELSE h[i - 1] \o s[i]]
    BY <1>7
  <2>. QED  BY <1>8, <2>1 DEF Joined
<1>. QED  BY <1>3, <1>9

\* The library's flattening is the last of these.
LEMMA FlattenIsJoined ==
    ASSUME NEW s, Len(s) # 0, Len(s) \in Nat
    PROVE  \E f : Joined(s, f, Len(s)) /\ FlattenSeq(s) = f[Len(s)]
<1>. DEFINE F == CHOOSE f : f = [i \in 1 .. Len(s) |->
                                    IF i = 1 THEN s[i] ELSE f[i - 1] \o s[i]]
<1>1. F = [i \in 1 .. Len(s) |-> IF i = 1 THEN s[i] ELSE F[i - 1] \o s[i]]
  <2>1. \E f : f = [i \in 1 .. Len(s) |-> IF i = 1 THEN s[i] ELSE f[i - 1] \o s[i]]
    BY Zenon, JoinedExists DEF Joined
  <2>. QED  BY Zenon, <2>1
<1>2. FlattenSeq(s) = F[Len(s)]
  BY Zenon DEF FlattenSeq
<1>3. Joined(s, F, Len(s))
  BY Zenon, <1>1 DEF Joined
<1>. QED  BY Zenon, <1>2, <1>3

\* A flattened list of lists is a list, of what is in any of them.
LEMMA FlattenList ==
    ASSUME NEW s, IsList(s), \A n \in DOMAIN s : IsList(s[n])
    PROVE  /\ IsList(FlattenSeq(s))
           /\ \A x : In(x, FlattenSeq(s)) <=> \E n \in DOMAIN s : In(x, s[n])
<1>1. Len(s) \in Nat /\ DOMAIN s = 1 .. Len(s)
  BY ListFacts
<1>2. CASE Len(s) = 0
  <2>1. s = <<>> /\ FlattenSeq(s) = s
    BY <1>2, ListFacts DEF FlattenSeq
  <2>. QED  BY <2>1, EmptyList DEF In
<1>3. CASE Len(s) # 0
  <2>1. PICK f : Joined(s, f, Len(s)) /\ FlattenSeq(s) = f[Len(s)]
    BY <1>1, <1>3, FlattenIsJoined
  <2>2. \A i \in 1 .. Len(s) : f[i] = IF i = 1 THEN s[i] ELSE f[i - 1] \o s[i]
    BY Zenon, <2>1 DEF Joined
  <2>. DEFINE Good(i) == /\ IsList(f[i])
                         /\ \A x : In(x, f[i]) <=> \E n \in 1 .. i : In(x, s[n])
              Bad == {i \in 1 .. Len(s) : ~ Good(i)}
  <2>3. Bad = {}
    <3>1. SUFFICES ASSUME Bad # {}
                   PROVE  FALSE
      OBVIOUS
    <3>2. PICK i \in Bad : \A j \in Bad : i <= j
      <4>1. Bad \in SUBSET Nat
        BY <1>1
      <4>. HIDE DEF Bad
      <4>. QED  BY <3>1, <4>1, LeastNumber
    <3>3. i \in 1 .. Len(s) /\ ~ Good(i)
      BY <3>2
    <3>4. CASE i = 1
      <4>1. f[i] = s[i] /\ 1 .. i = {i}
        BY <2>2, <3>3, <3>4
      <4>2. Good(i)
        BY <1>1, <3>3, <4>1
      <4>. QED  BY <3>3, <4>2
    <3>5. CASE i # 1
      <4>1. i - 1 \in 1 .. Len(s) /\ i - 1 < i
        BY <1>1, <3>3, <3>5
      <4>2. Good(i - 1)
        <5>1. i - 1 \notin Bad
          <6>. HIDE DEF Bad
          <6>. QED  BY <3>2, <3>3, <4>1
        <5>. HIDE DEF Good
        <5>. QED  BY <4>1, <5>1
      <4>3. f[i] = f[i - 1] \o s[i] /\ IsList(s[i])
        BY <1>1, <2>2, <3>3, <3>5
      <4>4. /\ IsList(f[i])
            /\ \A x : In(x, f[i]) <=> In(x, f[i - 1]) \/ In(x, s[i])
        BY <4>2, <4>3, ConcatList
      <4>5. 1 .. i = 1 .. (i - 1) \cup {i}
        BY <1>1, <3>3
      <4>6. Good(i)
        BY <4>2, <4>4, <4>5
      <4>. QED  BY <3>3, <4>6
    <3>. QED  BY <3>4, <3>5
  <2>4. Good(Len(s))
    <3>. HIDE DEF Good
    <3>. QED  BY <1>1, <1>3, <2>3
  <2>. QED  BY <1>1, <2>1, <2>4
<1>. QED  BY <1>2, <1>3
-------------------------------------------------------------------------------
(* What the planner proposes is a list of actions about its subject *)

Kinds == CHARGING_ACTIONS \cup CONTACT_ACTIONS \cup INERT_ACTIONS
Acts(ids) == [subject : ids, type : Kinds, channel : Channel \cup {None}, at : Int,
              offered : 0 .. 100 \cup {None}]
Plays == [type : Kinds, delay : Nat, channel : Channel \cup {None}, attempts : Nat]

\* Something is proposed, and all of it is about this subject.
Proposes(list, id) == Within(list, Acts({id})) /\ list # <<>>

LEMMA ListOf ==
    ASSUME NEW T, NEW k \in Nat, NEW f \in [1 .. k -> T]
    PROVE  Within(f, T) /\ (k # 0 => f # <<>>)
<1>1. f \in Seq(T)
  BY SeqDef
<1>2. IsList(f) /\ DOMAIN f = 1 .. k
  BY <1>1, SeqIsList
<1>3. k # 0 => f # <<>>
  BY <1>2, EmptyList
<1>. QED  BY <1>2, <1>3 DEF Within

LEMMA ProposalIsAct ==
    ASSUME NEW id, NEW type \in Kinds, NEW channel \in Channel \cup {None}, NEW at \in Int
    PROVE  Proposal(id, type, channel, at) \in Acts({id})
BY DEF Proposal, Acts

LEMMA KnownKinds ==
    /\ {"retry_payment", "switch_route", "send_dunning", "request_mandate_reregistration",
        "offer_part_payment", "wait", "escalate_to_human", "escalate_to_risk"} \subseteq Kinds
    /\ {"email", "sms"} \subseteq Channel
BY DEF Kinds, CHARGING_ACTIONS, CONTACT_ACTIONS, INERT_ACTIONS, Channel

LEMMA PlayIsPlay ==
    ASSUME NEW type \in Kinds, NEW delay \in Nat, NEW channel \in Channel \cup {None},
           NEW attempts \in Nat
    PROVE  Play(type, delay, channel, attempts) \in Plays
BY DEF Play, Plays

LEMMA RetryClasses ==
    ASSUME NEW code \in Code
    PROVE  DECLINE_SPECS[code].retry_class \in DOMAIN TAIL_PLAYBOOK
BY DEF Code, DECLINE_SPECS, Decline, TAIL_PLAYBOOK

LEMMA TailPlays ==
    /\ \A class \in DOMAIN TAIL_PLAYBOOK :
          TAIL_PLAYBOOK[class] \in Plays /\ TAIL_PLAYBOOK[class].attempts # 0
    /\ \A code \in DOMAIN MANDATE_PLAYBOOK :
          MANDATE_PLAYBOOK[code] \in Plays /\ MANDATE_PLAYBOOK[code].attempts # 0
BY KnownKinds DEF TAIL_PLAYBOOK, MANDATE_PLAYBOOK, Reregister, Play, Plays, Hours

LEMMA MandatePlays ==
    \A status \in DOMAIN MANDATE_RECOVERY_PLAYBOOK :
        MANDATE_RECOVERY_PLAYBOOK[status] \in Plays
BY KnownKinds DEF MANDATE_RECOVERY_PLAYBOOK, Reregister, Play, Plays, Hours

\* The playbook of the tail has something for every decline.
LEMMA TailProposes ==
    ASSUME NEW id, NEW order, order.last_attempt.at \in Int, order.last_attempt.code \in Code
    PROVE  Proposes(tail_actions(id, order), id)
<1>. DEFINE code == order.last_attempt.code
            play == IF code \in DOMAIN MANDATE_PLAYBOOK THEN MANDATE_PLAYBOOK[code]
                    ELSE TAIL_PLAYBOOK[retry_class(order)]
<1>1. play \in Plays /\ play.attempts # 0
  BY TailPlays, RetryClasses DEF retry_class
<1>2. tail_actions(id, order) =
          [n \in 1 .. play.attempts |->
              Proposal(id, play.type, play.channel, order.last_attempt.at +
                  (IF n = 1 THEN play.delay ELSE (32 * play.delay + 9) \div 10))]
  BY Zenon DEF tail_actions, Attempts
<1>. HIDE DEF play
<1>3. play.delay \in Nat /\ play.attempts \in Nat
  BY <1>1 DEF Plays
<1>4. tail_actions(id, order) \in [1 .. play.attempts -> Acts({id})]
  <2>1. \A n \in 1 .. play.attempts : order.last_attempt.at +
            (IF n = 1 THEN play.delay ELSE (32 * play.delay + 9) \div 10) \in Int
    BY <1>3
  <2>2. play.type \in Kinds /\ play.channel \in Channel \cup {None}
    BY <1>1 DEF Plays
  <2>. QED  BY <1>2, <2>1, <2>2, ProposalIsAct
<1>. QED  BY <1>1, <1>3, <1>4, ListOf DEF Proposes

\* A strategy has something for a class it plays at least once.
LEMMA ExpandProposes ==
    ASSUME NEW id, NEW order, order.last_attempt.at \in Int,
           NEW hold \in Int \cup {None}, NEW strategy,
           \A class \in DOMAIN by_class(strategy) : by_class(strategy)[class] \in Plays
    PROVE  /\ Within(expand(strategy, id, order, hold), Acts({id}))
           /\ /\ retry_class(order) \in DOMAIN by_class(strategy)
              /\ by_class(strategy)[retry_class(order)].attempts # 0
              => Proposes(expand(strategy, id, order, hold), id)
<1>. DEFINE plays == by_class(strategy)
            play == plays[retry_class(order)]
            Held(at) == IF hold = None THEN at ELSE Max({at, hold})
<1>1. CASE retry_class(order) \notin DOMAIN plays
  <2>1. expand(strategy, id, order, hold) = <<>>
    BY <1>1 DEF expand
  <2>. QED  BY <1>1, <2>1, EmptyList DEF Within
<1>2. CASE retry_class(order) \in DOMAIN plays
  <2>1. play \in Plays
    BY <1>2
  <2>2. expand(strategy, id, order, hold) =
            [n \in 1 .. play.attempts |->
                Proposal(id, play.type, play.channel,
                         Held(order.last_attempt.at + play.delay * n))]
    BY Zenon, <1>2 DEF expand, Attempts
  <2>3. \A at \in Int : Held(at) \in Int
    <3>1. ASSUME NEW at \in Int, hold \in Int
          PROVE  Max({at, hold}) \in Int
      <4>1. CASE at >= hold
        <5>1. at \in {at, hold} /\ \A y \in {at, hold} : at >= y
          BY <3>1, <4>1
        <5>2. Max({at, hold}) \in {at, hold}
          BY <5>1 DEF Max
        <5>. QED  BY <3>1, <5>2
      <4>2. CASE hold >= at
        <5>1. hold \in {at, hold} /\ \A y \in {at, hold} : hold >= y
          BY <3>1, <4>2
        <5>2. Max({at, hold}) \in {at, hold}
          BY <5>1 DEF Max
        <5>. QED  BY <3>1, <5>2
      <4>. QED  BY <3>1, <4>1, <4>2
    <3>. QED  BY <3>1
  <2>. HIDE DEF play, Held
  <2>4. play.delay \in Nat /\ play.attempts \in Nat
    BY <2>1 DEF Plays
  <2>5. \A n \in 1 .. play.attempts : order.last_attempt.at + play.delay * n \in Int
    <3>1. \A d, n \in Nat : d * n \in Int
      OBVIOUS
    <3>2. \A n \in 1 .. play.attempts : play.delay * n \in Int
      BY <2>4, <3>1
    <3>. QED  BY <3>2
  <2>6. expand(strategy, id, order, hold) \in [1 .. play.attempts -> Acts({id})]
    <3>1. play.type \in Kinds /\ play.channel \in Channel \cup {None}
      BY <2>1 DEF Plays
    <3>2. \A n \in 1 .. play.attempts :
              Held(order.last_attempt.at + play.delay * n) \in Int
      BY <2>3, <2>5
    <3>3. \A n \in 1 .. play.attempts :
              Proposal(id, play.type, play.channel,
                       Held(order.last_attempt.at + play.delay * n)) \in Acts({id})
      BY <3>1, <3>2, ProposalIsAct
    <3>. QED  BY <2>2, <3>3
  <2>8. /\ Within(expand(strategy, id, order, hold), Acts({id}))
        /\ play.attempts # 0 => expand(strategy, id, order, hold) # <<>>
    BY <2>4, <2>6, ListOf
  <2>. QED  BY <2>8 DEF Proposes, play
<1>. HIDE DEF plays
<1>. QED  BY <1>1, <1>2 DEF plays
-------------------------------------------------------------------------------
LEMMA GreatestNumber ==
    ASSUME NEW k \in Nat, NEW S \in SUBSET (1 .. k), S # {}
    PROVE  Max(S) \in S /\ \A x \in S : x <= Max(S)
<1>. DEFINE Above == {y \in Nat : \A x \in S : x <= y}
<1>1. k \in Above
  OBVIOUS
<1>2. PICK m \in Above : \A y \in Above : m <= y
  <2>1. Above \in SUBSET Nat /\ Above # {}
    BY <1>1
  <2>. HIDE DEF Above
  <2>. QED  BY <2>1, LeastNumber
<1>3. m \in S
  <2>1. SUFFICES ASSUME m \notin S
                 PROVE  FALSE
    OBVIOUS
  <2>2. PICK x \in S : TRUE
    OBVIOUS
  <2>3. m \in Nat /\ m # 0
    BY <1>2, <2>2
  <2>4. m - 1 \in Above
    BY <1>2, <2>1, <2>3
  <2>. HIDE DEF Above
  <2>. QED  BY <1>2, <2>3, <2>4
<1>4. m \in S /\ \A y \in S : m >= y
  BY <1>2, <1>3
<1>5. Max(S) \in S /\ \A y \in S : Max(S) >= y
  <2>. HIDE DEF Above
  <2>. QED  BY <1>4 DEF Max
<1>. QED  BY <1>5

\* What a strategy has for a class is a play.
LEMMA StrategyPlays ==
    ASSUME NEW strategy \in Strategies
    PROVE  \A class \in DOMAIN by_class(strategy) : by_class(strategy)[class] \in Plays
<1>. DEFINE T == [retry_class : DOMAIN TAIL_PLAYBOOK, play : Plays]
            Ns(class) == {n \in DOMAIN strategy : strategy[n].retry_class = class}
<1>1. strategy \in Seq(T)
  BY BacktestAssumption DEF Plays, Kinds
<1>2. /\ \A n \in DOMAIN strategy : strategy[n] \in T
      /\ DOMAIN strategy = 1 .. Len(strategy) /\ Len(strategy) \in Nat
  <2>. HIDE DEF T
  <2>. QED  BY <1>1
<1>3. ASSUME NEW class \in {strategy[n].retry_class : n \in DOMAIN strategy}
      PROVE  strategy[Max(Ns(class))].play \in Plays
  <2>1. Ns(class) \in SUBSET (1 .. Len(strategy)) /\ Ns(class) # {}
    BY <1>2, <1>3
  <2>2. Max(Ns(class)) \in Ns(class)
    <3>. HIDE DEF Ns
    <3>. QED  BY <1>2, <2>1, GreatestNumber
  <2>3. Max(Ns(class)) \in DOMAIN strategy
    BY <2>2
  <2>. HIDE DEF Ns
  <2>. QED  BY <1>2, <2>3
<1>. QED  BY <1>3 DEF by_class

\* A lapsed mandate gets actions, or none.
LEMMA MandateProposes ==
    ASSUME NEW id, NEW sub, NEW now \in Int,
           sub.mandate_status \in DOMAIN MANDATE_RECOVERY_PLAYBOOK \cup {"active"}
    PROVE  Within(mandate_actions(id, sub, now), Acts({id}))
<1>. DEFINE play == MANDATE_RECOVERY_PLAYBOOK[sub.mandate_status]
<1>1. CASE sub.cancelled \/ is_chargeable(sub)
  <2>1. mandate_actions(id, sub, now) = <<>>
    BY <1>1 DEF mandate_actions
  <2>. QED  BY <2>1, EmptyList DEF Within
<1>2. CASE ~ (sub.cancelled \/ is_chargeable(sub))
  <2>1. play \in Plays
    BY <1>2, MandatePlays DEF is_chargeable
  <2>2. mandate_actions(id, sub, now) =
            [n \in 1 .. play.attempts |->
                Proposal(id, play.type, play.channel,
                         now + play.delay + REREGISTRATION_SPACING * (n - 1))]
    BY Zenon, <1>2 DEF mandate_actions, Attempts
  <2>. HIDE DEF play
  <2>3. /\ play.delay \in Nat /\ play.attempts \in Nat
        /\ play.type \in Kinds /\ play.channel \in Channel \cup {None}
    BY <2>1 DEF Plays
  <2>4. \A n \in 1 .. play.attempts :
            now + play.delay + REREGISTRATION_SPACING * (n - 1) \in Int
    BY <2>3 DEF REREGISTRATION_SPACING, Days
  <2>5. mandate_actions(id, sub, now) \in [1 .. play.attempts -> Acts({id})]
    <3>1. \A n \in 1 .. play.attempts :
              Proposal(id, play.type, play.channel,
                  now + play.delay + REREGISTRATION_SPACING * (n - 1)) \in Acts({id})
      BY <2>3, <2>4, ProposalIsAct
    <3>. QED  BY <2>2, <3>1
  <2>. QED  BY <2>3, <2>5, ListOf
<1>. QED  BY <1>1, <1>2

\* Both rungs of a ladder are plays.
LEMMA LadderPlays ==
    ASSUME NEW days
    PROVE  Within(RECEIVABLES_LADDER[bucket_for(days)], Plays)
<1>. DEFINE Remind(delay) == Step("send_dunning", delay, "email")
            Offer(delay) == Step("offer_part_payment", delay, "email")
            b == bucket_for(days)
<1>1. b \in {"current", "1-30", "31-60", "61-90", "90+"}
  BY DEF bucket_for
<1>2. /\ b = "current" => RECEIVABLES_LADDER[b] = <<>>
      /\ b = "1-30" => RECEIVABLES_LADDER[b] = <<Remind(Hours(24))>>
      /\ b = "31-60" => RECEIVABLES_LADDER[b]
                            = <<Remind(Hours(12)), Offer(Hours(12) + Days(7))>>
      /\ b = "61-90" => RECEIVABLES_LADDER[b]
                            = <<Remind(Hours(12)), Offer(Hours(12) + Days(4))>>
      /\ b = "90+" => RECEIVABLES_LADDER[b] = <<Step("escalate_to_human", 0, None)>>
  <2>. HIDE DEF b
  <2>. QED  BY <1>1 DEF RECEIVABLES_LADDER
<1>3. /\ \A delay \in Nat : Remind(delay) \in Plays /\ Offer(delay) \in Plays
      /\ Step("escalate_to_human", 0, None) \in Plays
  BY KnownKinds, PlayIsPlay DEF Step
<1>4. Hours(24) \in Nat /\ Hours(12) \in Nat /\ Days(7) \in Nat /\ Days(4) \in Nat
      /\ Hours(12) + Days(7) \in Nat /\ Hours(12) + Days(4) \in Nat
  BY DEF Hours, Days
<1>5. /\ Remind(Hours(24)) \in Plays /\ Remind(Hours(12)) \in Plays
      /\ Offer(Hours(12) + Days(7)) \in Plays /\ Offer(Hours(12) + Days(4)) \in Plays
  <2>. HIDE DEF Remind, Offer
  <2>. QED  BY <1>3, <1>4
<1>. HIDE DEF Remind, Offer, b
<1>6. RECEIVABLES_LADDER[b] \in Seq(Plays)
  <2>1. \A x, y \in Plays : <<>> \in Seq(Plays) /\ <<x>> \in Seq(Plays)
                            /\ <<x, y>> \in Seq(Plays)
    OBVIOUS
  <2>2. \E p \in Plays : TRUE
    BY <1>3
  <2>. QED  BY <1>1, <1>2, <1>3, <1>5, <2>1, <2>2
<1>7. IsList(RECEIVABLES_LADDER[b]) /\
      \A n \in DOMAIN RECEIVABLES_LADDER[b] : RECEIVABLES_LADDER[b][n] \in Plays
  BY <1>6, SeqIsList
<1>. QED  BY <1>7 DEF Within, b

LEMMA OneProposed ==
    ASSUME NEW T, NEW x \in T
    PROVE  Within(<<x>>, T) /\ <<x>> # <<>>
<1>1. <<x>> \in Seq(T) /\ <<x>> # <<>> /\ DOMAIN <<x>> = {1} /\ <<x>>[1] = x
  OBVIOUS
<1>2. IsList(<<x>>)
  BY <1>1, SeqIsList
<1>. QED  BY <1>1, <1>2 DEF Within

\* So does an overdue invoice.
LEMMA ReceivableProposes ==
    ASSUME NEW id, NEW inv, NEW now \in Int
    PROVE  Within(receivable_actions(id, inv, now), Acts({id}))
<1>. DEFINE ladder == RECEIVABLES_LADDER[bucket_for(days_overdue(inv, now))]
            Rung(n) ==
              [Proposal(id, ladder[n].type, ladder[n].channel, now + ladder[n].delay)
                  EXCEPT !.offered = IF ladder[n].type = "offer_part_payment"
                                     THEN PART_PAYMENT_OFFER_SHARE ELSE None]
            list == receivable_actions(id, inv, now)
<1>1. \/ list = <<>>
      \/ list = <<Proposal(id, "escalate_to_human", None, now)>>
      \/ list = <<Proposal(id, "wait", None, now)>>
      \/ list = [n \in DOMAIN ladder |-> Rung(n)]
  BY Zenon DEF receivable_actions
<1>2. Within(<<>>, Acts({id}))
  BY EmptyList DEF Within
<1>3. /\ Within(<<Proposal(id, "escalate_to_human", None, now)>>, Acts({id}))
      /\ Within(<<Proposal(id, "wait", None, now)>>, Acts({id}))
  BY KnownKinds, ProposalIsAct, OneProposed
<1>4. Within([n \in DOMAIN ladder |-> Rung(n)], Acts({id}))
  <2>1. Within(ladder, Plays)
    BY LadderPlays
  <2>. HIDE DEF ladder
  <2>2. DOMAIN ladder = 1 .. Len(ladder) /\ Len(ladder) \in Nat
    BY <2>1, ListFacts DEF Within
  <2>3. ASSUME NEW n \in DOMAIN ladder
        PROVE  Rung(n) \in Acts({id})
    <3>1. /\ ladder[n].type \in Kinds /\ ladder[n].channel \in Channel \cup {None}
          /\ ladder[n].delay \in Nat
      BY <2>1, <2>3 DEF Within, Plays
    <3>2. now + ladder[n].delay \in Int
      BY <3>1
    <3>. QED  BY <3>1, <3>2, ProposalIsAct DEF Proposal, Acts, PART_PAYMENT_OFFER_SHARE
  <2>. HIDE DEF Rung
  <2>4. [n \in DOMAIN ladder |-> Rung(n)] \in [1 .. Len(ladder) -> Acts({id})]
    BY <2>2, <2>3
  <2>. QED  BY <2>2, <2>4, ListOf
<1>. HIDE DEF ladder, Rung
<1>. QED  BY <1>1, <1>2, <1>3, <1>4

\* The same of the baseline.
LEMMA NaiveRetryProposes ==
    ASSUME NEW id, NEW order, order.last_attempt.at \in Int
    PROVE  Within(naive_retry(id, order), Acts({id}))
<1>. DEFINE at == order.last_attempt.at
            tries == [n \in 1 .. 3 |-> Proposal(id, "retry_payment", None, at + Hours(n))]
            chase == <<Proposal(id, "send_dunning", "email", at + Hours(4))>>
<1>1. naive_retry(id, order) = tries \o chase
  BY DEF naive_retry, Attempts, Play
<1>2. \A n \in 1 .. 4 : at + Hours(n) \in Int
  BY DEF Hours
<1>3. Within(tries, Acts({id}))
  <2>1. tries \in [1 .. 3 -> Acts({id})]
    BY <1>2, KnownKinds, ProposalIsAct
  <2>. HIDE DEF tries
  <2>. QED  BY <2>1, ListOf
<1>4. Within(chase, Acts({id}))
  BY <1>2, KnownKinds, ProposalIsAct, OneProposed
<1>. HIDE DEF tries, chase
<1>. QED  BY <1>1, <1>3, <1>4, ConcatWithin

LEMMA ChaseProposes ==
    ASSUME NEW id, NEW type \in Kinds, NEW now \in Int
    PROVE  Within(NaiveChase(id, type, now), Acts({id}))
<1>1. \A n \in 1 .. 3 : now + Hours(6 * n) \in Int
  BY DEF Hours
<1>2. NaiveChase(id, type, now) \in [1 .. 3 -> Acts({id})]
  BY <1>1, KnownKinds, ProposalIsAct DEF NaiveChase
<1>. QED  BY <1>2, ListOf
-------------------------------------------------------------------------------
(* What is gathered from the batch is a list of actions about its subjects *)

IsBatch(w) == \E each \in Worlds : w = each.batch
\* Something in the list is about this subject.
Speaks(list, id) == \E n \in DOMAIN list : list[n].subject = id

\* What the assumption says of a batch.
LEMMA BatchFacts ==
    ASSUME NEW w, IsBatch(w)
    PROVE  /\ IsList(w.ids)
           /\ \A n \in DOMAIN w.ids : w.ids[n] \in DOMAIN w.subjects
           /\ \A id \in DOMAIN w.subjects : \E n \in DOMAIN w.ids : w.ids[n] = id
           /\ w.ends_at \in Int
           /\ \A id \in DOMAIN w.subjects : IsSubject(w.subjects[id])
<1>1. /\ w.ids \in Seq(DOMAIN w.subjects) /\ ToSet(w.ids) = DOMAIN w.subjects
      /\ w.ends_at \in Int
      /\ \A id \in DOMAIN w.subjects : IsSubject(w.subjects[id])
  BY BacktestAssumption DEF IsBatch
<1>2. IsList(w.ids) /\ ToSet(w.ids) = {w.ids[n] : n \in DOMAIN w.ids}
  BY <1>1, SeqIsList DEF ToSet
<1>. QED  BY <1>1, <1>2

LEMMA WithinMore ==
    ASSUME NEW T, NEW U, T \subseteq U, NEW list, Within(list, T)
    PROVE  Within(list, U)
BY DEF Within

LEMMA MoreActs ==
    ASSUME NEW ids, NEW id \in ids
    PROVE  Acts({id}) \subseteq Acts(ids)
BY DEF Acts

\* Lists about the batch's subjects, gathered, are one about the batch.
LEMMA Gather ==
    ASSUME NEW w, IsBatch(w), NEW L, DOMAIN L = DOMAIN w.ids, L = [n \in DOMAIN L |-> L[n]],
           \A n \in DOMAIN w.ids : Within(L[n], Acts({w.ids[n]}))
    PROVE  /\ Within(FlattenSeq(L), Acts(DOMAIN w.subjects))
           /\ \A n \in DOMAIN w.ids : L[n] # <<>> => Speaks(FlattenSeq(L), w.ids[n])
<1>1. IsList(w.ids) /\ \A n \in DOMAIN w.ids : w.ids[n] \in DOMAIN w.subjects
  BY BatchFacts
<1>2. IsList(L)
  <2>1. DOMAIN L = 1 .. Len(w.ids) /\ Len(w.ids) \in Nat
    BY <1>1, ListFacts
  <2>2. L \in [1 .. Len(w.ids) -> {L[n] : n \in DOMAIN L}]
    BY <2>1
  <2>. QED  BY <2>1, <2>2, ListOf DEF Within
<1>3. \A n \in DOMAIN L : IsList(L[n])
  BY DEF Within
<1>4. /\ IsList(FlattenSeq(L))
      /\ \A x : In(x, FlattenSeq(L)) <=> \E n \in DOMAIN L : In(x, L[n])
  BY <1>2, <1>3, FlattenList
<1>5. ASSUME NEW k \in DOMAIN FlattenSeq(L)
      PROVE  FlattenSeq(L)[k] \in Acts(DOMAIN w.subjects)
  <2>1. In(FlattenSeq(L)[k], FlattenSeq(L))
    BY DEF In
  <2>2. PICK n \in DOMAIN L : In(FlattenSeq(L)[k], L[n])
    BY <1>4, <2>1
  <2>3. FlattenSeq(L)[k] \in Acts({w.ids[n]})
    BY <2>2 DEF In, Within
  <2>. QED  BY <1>1, <2>3, MoreActs
<1>6. ASSUME NEW n \in DOMAIN w.ids, L[n] # <<>>
      PROVE  Speaks(FlattenSeq(L), w.ids[n])
  <2>1. L[n][1] \in Acts({w.ids[n]}) /\ In(L[n][1], L[n])
    <3>1. IsList(L[n]) /\ 1 \in DOMAIN L[n]
      <4>1. PICK s : s = L[n]
        OBVIOUS
      <4>2. IsList(s) /\ s # <<>>
        BY <1>6, <4>1 DEF Within
      <4>3. Len(s) \in Nat /\ DOMAIN s = 1 .. Len(s) /\ Len(s) # 0
        BY <4>2, ListFacts
      <4>. QED  BY <4>1, <4>2, <4>3
    <3>. QED  BY <3>1 DEF Within, In
  <2>2. In(L[n][1], FlattenSeq(L)) /\ L[n][1].subject = w.ids[n]
    BY <1>4, <2>1 DEF Acts
  <2>. QED  BY <2>2 DEF In, Speaks
<1>. QED  BY <1>4, <1>5, <1>6 DEF Within

LEMMA JoinedSpeaks ==
    ASSUME NEW s, IsList(s), NEW t, IsList(t), NEW id, Speaks(s, id) \/ Speaks(t, id)
    PROVE  Speaks(s \o t, id)
<1>1. \A x : In(x, s \o t) <=> In(x, s) \/ In(x, t)
  BY ConcatList
<1>2. PICK x : (In(x, s) \/ In(x, t)) /\ x.subject = id
  BY DEF Speaks, In
<1>3. In(x, s \o t)
  BY <1>1, <1>2
<1>. QED  BY <1>2, <1>3 DEF Speaks, In
-------------------------------------------------------------------------------
(* The playbooks, and the baseline *)

\* What the tail's playbook has for each order it is asked about, and so on.
LEMMA PlaybooksPlan ==
    ASSUME IsBatch(world)
    PROVE  /\ Within(Playbooks, Acts(DOMAIN world.subjects))
           /\ \A id \in DOMAIN world.subjects :
                  IsFailed(id) /\ id \notin proposal.planned => Speaks(Playbooks, id)
<1>. DEFINE ids == world.ids
            Orders == [n \in DOMAIN ids |->
                        IF IsFailed(ids[n]) /\ ids[n] \notin proposal.planned
                        THEN tail_actions(ids[n], Subject(ids[n]).order) ELSE <<>>]
            Mandates == [n \in DOMAIN ids |->
                        IF IsLapsed(ids[n])
                        THEN mandate_actions(ids[n], Subject(ids[n]).subscription,
                                             world.ends_at) ELSE <<>>]
            Invoices == [n \in DOMAIN ids |->
                        IF IsOverdue(ids[n])
                        THEN receivable_actions(ids[n], Subject(ids[n]).invoice,
                                                world.ends_at) ELSE <<>>]
<1>1. Playbooks = FlattenSeq(Orders) \o FlattenSeq(Mandates) \o FlattenSeq(Invoices)
  BY Zenon DEF Playbooks, All
<1>2. \A T : Within(<<>>, T)
  BY EmptyList DEF Within
<1>3. /\ world.ends_at \in Int
      /\ \A n \in DOMAIN ids : ids[n] \in DOMAIN world.subjects
      /\ \A n \in DOMAIN ids : IsSubject(Subject(ids[n]))
  BY BatchFacts DEF Subject
<1>4. ASSUME NEW n \in DOMAIN ids
      PROVE  /\ Within(Orders[n], Acts({ids[n]}))
             /\ IsFailed(ids[n]) /\ ids[n] \notin proposal.planned => Orders[n] # <<>>
  <2>1. CASE IsFailed(ids[n]) /\ ids[n] \notin proposal.planned
    <3>1. /\ Subject(ids[n]).order.last_attempt.at \in Int
          /\ Subject(ids[n]).order.last_attempt.code \in Code
      BY <1>3, <2>1 DEF IsSubject, IsFailed, is_captured
    <3>2. Proposes(tail_actions(ids[n], Subject(ids[n]).order), ids[n])
      BY <3>1, TailProposes
    <3>. QED  BY <2>1, <3>2 DEF Proposes
  <2>2. CASE ~ (IsFailed(ids[n]) /\ ids[n] \notin proposal.planned)
    BY <1>2, <2>2
  <2>. QED  BY <2>1, <2>2
<1>5. ASSUME NEW n \in DOMAIN ids
      PROVE  Within(Mandates[n], Acts({ids[n]}))
  <2>1. CASE IsLapsed(ids[n])
    <3>1. Subject(ids[n]).subscription.mandate_status
              \in DOMAIN MANDATE_RECOVERY_PLAYBOOK \cup {"active"}
      BY <1>3, <2>1 DEF IsSubject, IsLapsed, IsSubscription
    <3>2. Within(mandate_actions(ids[n], Subject(ids[n]).subscription, world.ends_at),
                 Acts({ids[n]}))
      BY <1>3, <3>1, MandateProposes
    <3>. QED  BY <2>1, <3>2
  <2>2. CASE ~ IsLapsed(ids[n])
    BY <1>2, <2>2
  <2>. QED  BY <2>1, <2>2
<1>6. ASSUME NEW n \in DOMAIN ids
      PROVE  Within(Invoices[n], Acts({ids[n]}))
  BY <1>2, <1>3, ReceivableProposes
<1>7. /\ DOMAIN Orders = DOMAIN ids /\ Orders = [n \in DOMAIN Orders |-> Orders[n]]
      /\ DOMAIN Mandates = DOMAIN ids /\ Mandates = [n \in DOMAIN Mandates |-> Mandates[n]]
      /\ DOMAIN Invoices = DOMAIN ids /\ Invoices = [n \in DOMAIN Invoices |-> Invoices[n]]
  OBVIOUS
<1>. HIDE DEF Orders, Mandates, Invoices
<1>8. /\ Within(FlattenSeq(Orders), Acts(DOMAIN world.subjects))
      /\ \A n \in DOMAIN ids : Orders[n] # <<>> => Speaks(FlattenSeq(Orders), ids[n])
      /\ Within(FlattenSeq(Mandates), Acts(DOMAIN world.subjects))
      /\ Within(FlattenSeq(Invoices), Acts(DOMAIN world.subjects))
  <2>1. /\ Within(FlattenSeq(Orders), Acts(DOMAIN world.subjects))
        /\ \A n \in DOMAIN ids : Orders[n] # <<>> => Speaks(FlattenSeq(Orders), ids[n])
    BY <1>4, <1>7, Gather
  <2>2. Within(FlattenSeq(Mandates), Acts(DOMAIN world.subjects))
    BY <1>5, <1>7, Gather
  <2>3. Within(FlattenSeq(Invoices), Acts(DOMAIN world.subjects))
    BY <1>6, <1>7, Gather
  <2>. QED  BY <2>1, <2>2, <2>3
<1>9. Within(FlattenSeq(Orders) \o FlattenSeq(Mandates), Acts(DOMAIN world.subjects))
  BY <1>8, ConcatWithin
<1>10. Within(Playbooks, Acts(DOMAIN world.subjects))
  BY <1>1, <1>8, <1>9, ConcatWithin
<1>11. ASSUME NEW id \in DOMAIN world.subjects, IsFailed(id), id \notin proposal.planned
       PROVE  Speaks(Playbooks, id)
  <2>1. PICK n \in DOMAIN ids : ids[n] = id
    BY BatchFacts
  <2>2. Speaks(FlattenSeq(Orders), id)
    BY <1>4, <1>8, <1>11, <2>1
  <2>3. Speaks(FlattenSeq(Orders) \o FlattenSeq(Mandates), id)
    BY <1>8, <2>2, JoinedSpeaks DEF Within
  <2>. QED  BY <1>1, <1>8, <1>9, <2>3, JoinedSpeaks DEF Within
<1>. QED  BY <1>10, <1>11
-------------------------------------------------------------------------------
(* There is a first one, of any finitely many *)

\* Of finitely many moments, there is a lowest.
LEMMA LowerBound ==
    ASSUME NEW k \in Nat, NEW S \in SUBSET (1 .. k), NEW key, \A n \in S : key[n] \in Int
    PROVE  \E b \in Int : \A n \in S : b <= key[n]
<1>. DEFINE Bounded(j) == \E b \in Int : \A n \in S : n <= j => b <= key[n]
            Bad == {j \in 0 .. k : ~ Bounded(j)}
<1>0. \A n \in S : n \in Nat /\ n <= k
  OBVIOUS
<1>1. SUFFICES Bad = {}
  <2>1. ASSUME Bad = {}
        PROVE  Bounded(k)
    <3>1. k \in 0 .. k
      OBVIOUS
    <3>. HIDE DEF Bounded
    <3>. QED  BY <2>1, <3>1
  <2>2. ASSUME Bounded(k)
        PROVE  \E b \in Int : \A n \in S : b <= key[n]
    BY <1>0, <2>2
  <2>. QED  BY <2>1, <2>2
<1>2. SUFFICES ASSUME Bad # {}
               PROVE  FALSE
  OBVIOUS
<1>3. PICK j \in Bad : \A i \in Bad : j <= i
  <2>1. Bad \in SUBSET Nat
    OBVIOUS
  <2>. HIDE DEF Bad
  <2>. QED  BY <1>2, <2>1, LeastNumber
<1>4. j \in 0 .. k /\ ~ Bounded(j)
  BY <1>3
<1>5. j # 0
  <2>1. \A n \in S : n <= 0 => 0 <= key[n]
    OBVIOUS
  <2>. QED  BY <1>4, <2>1
<1>6. Bounded(j - 1)
  <2>1. j - 1 \notin Bad /\ j - 1 \in 0 .. k
    <3>. HIDE DEF Bad
    <3>. QED  BY <1>3, <1>4, <1>5
  <2>. QED  BY <2>1
<1>7. PICK b \in Int : \A n \in S : n <= j - 1 => b <= key[n]
  BY <1>6
<1>8. CASE j \in S
  <2>1. PICK c \in Int : c <= b /\ c <= key[j]
    <3>1. key[j] \in Int
      BY <1>8
    <3>2. \A x, y \in Int : \E c \in Int : c <= x /\ c <= y
      <4>1. ASSUME NEW x \in Int, NEW y \in Int
            PROVE  \E c \in Int : c <= x /\ c <= y
        <5>1. CASE x <= y
          <6>1. x <= x /\ x <= y
            BY <5>1
          <6>. QED  BY <6>1
        <5>2. CASE y <= x
          <6>1. y <= x /\ y <= y
            BY <5>2
          <6>. QED  BY <6>1
        <5>. QED  BY <5>1, <5>2
      <4>. QED  BY <4>1
    <3>. QED  BY <3>1, <3>2
  <2>2. ASSUME NEW n \in S, n <= j
        PROVE  c <= key[n]
    <3>1. n = j \/ n <= j - 1
      BY <1>4, <2>2
    <3>2. key[n] \in Int
      OBVIOUS
    <3>. QED  BY <1>7, <2>1, <3>1, <3>2
  <2>. QED  BY <1>4, <2>2
<1>9. CASE j \notin S
  <2>1. ASSUME NEW n \in S, n <= j
        PROVE  b <= key[n]
    <3>1. n # j /\ n \in Nat /\ j \in Nat
      BY <1>0, <1>4, <1>9
    <3>2. n <= j - 1
      BY <2>1, <3>1
    <3>. QED  BY <1>7, <3>2
  <2>. QED  BY <1>4, <2>1
<1>. QED  BY <1>8, <1>9

LEMMA EarliestExists ==
    ASSUME NEW k \in Nat, NEW S \in SUBSET (1 .. k), S # {}, NEW key,
           \A n \in S : key[n] \in Int
    PROVE  \E n \in S : \A m \in S : /\ ~ (key[m] < key[n])
                                     /\ key[n] < key[m] \/ n <= m
<1>1. PICK b \in Int : \A n \in S : b <= key[n]
  BY LowerBound
<1>. DEFINE R == {key[n] - b : n \in S}
<1>2. PICK r \in R : \A x \in R : r <= x
  <2>1. \A n \in S : key[n] - b \in Nat
    <3>1. \A n \in S : key[n] \in Int /\ b <= key[n]
      BY <1>1
    <3>2. \A x \in Int : b <= x => x - b \in Nat
      OBVIOUS
    <3>. QED  BY <3>1, <3>2
  <2>2. R \in SUBSET Nat /\ R # {}
    BY <2>1
  <2>. HIDE DEF R
  <2>. QED  BY <2>2, LeastNumber
<1>. DEFINE D == {n \in S : key[n] - b = r}
<1>3. PICK n \in D : \A m \in D : n <= m
  <2>1. D \in SUBSET Nat
    <3>1. S \in SUBSET Nat
      OBVIOUS
    <3>. QED  BY <3>1
  <2>2. D # {}
    BY <1>2
  <2>. HIDE DEF D
  <2>. QED  BY <2>1, <2>2, LeastNumber
<1>4. n \in S /\ key[n] - b = r
  BY <1>3
<1>5. ASSUME NEW m \in S
      PROVE  ~ (key[m] < key[n]) /\ (key[n] < key[m] \/ n <= m)
  <2>1. r <= key[m] - b /\ key[m] \in Int /\ key[n] \in Int
    BY <1>2, <1>4
  <2>2. key[m] - b = r => n <= m
    BY <1>3
  <2>. QED  BY <1>1, <1>4, <2>1, <2>2
<1>. QED  BY <1>4, <1>5

\* The action that is due first is one of those that are left.
LEMMA NextIsPending ==
    ASSUME NEW list, IsList(list), \A n \in DOMAIN list : list[n].at \in Int,
           NEW left \in SUBSET DOMAIN list, left # {}
    PROVE  Foremost(left, LAMBDA m, n : list[m].at < list[n].at) \in left
<1>. DEFINE key == [n \in left |-> list[n].at]
<1>1. DOMAIN list = 1 .. Len(list) /\ Len(list) \in Nat
  BY ListFacts
<1>2. /\ left \in SUBSET (1 .. Len(list)) /\ \A n \in left : key[n] \in Int
      /\ \A n \in left : key[n] = list[n].at
  BY <1>1
<1>. HIDE DEF key
<1>3. \E n \in left : \A m \in left : /\ ~ (key[m] < key[n])
                                      /\ key[n] < key[m] \/ n <= m
  BY <1>1, <1>2, EarliestExists
<1>4. \E n \in left : \A m \in left : /\ ~ (list[m].at < list[n].at)
                                      /\ list[n].at < list[m].at \/ n <= m
  BY <1>2, <1>3
<1>. QED  BY <1>4, Zenon DEF Foremost

\* When a cluster starts and ends is a moment.
LEMMA ClusterFacts ==
    ASSUME DInv, NEW g \in DOMAIN Clusters
    PROVE  Clusters[g].starts_at \in Nat /\ Clusters[g].ends_at \in Nat
<1>1. g \in DOMAIN groups /\ Clusters[g] = RiskCluster(groups[g])
  BY DEF Clusters
<1>2. PICK s : s = groups[g]
  OBVIOUS
<1>3. Signals(s) /\ s # <<>>
  BY <1>1, <1>2 DEF DInv, Shape
<1>4. /\ DOMAIN s = 1 .. Len(s) /\ Len(s) \in Nat /\ Len(s) # 0
      /\ \A n \in DOMAIN s : s[n].starts_at \in Nat /\ s[n].ends_at \in Nat
  BY <1>3, ListFacts DEF Signals, IsSignal
<1>5. Min({s[n].starts_at : n \in DOMAIN s}) \in Nat
  <2>. DEFINE R == {s[n].starts_at : n \in DOMAIN s}
  <2>1. R \in SUBSET Nat /\ R # {}
    <3>1. 1 \in DOMAIN s
      BY <1>4
    <3>. QED  BY <1>4, <3>1
  <2>. HIDE DEF R
  <2>2. Min(R) \in R
    BY <2>1, LeastFit
  <2>. QED  BY <2>1, <2>2 DEF R
<1>6. Max({s[n].ends_at : n \in DOMAIN s}) \in Nat
  <2>. DEFINE R == {s[n].ends_at : n \in DOMAIN s}
              key == [n \in DOMAIN s |-> 0 - s[n].ends_at]
  <2>1. PICK n \in DOMAIN s : \A m \in DOMAIN s : ~ (key[m] < key[n])
    <3>1. \A n \in DOMAIN s : key[n] \in Int
      BY <1>4
    <3>2. DOMAIN s \in SUBSET (1 .. Len(s)) /\ DOMAIN s # {}
      <4>1. 1 \in DOMAIN s
        BY <1>4
      <4>. QED  BY <1>4, <4>1
    <3>. HIDE DEF key
    <3>. QED  BY <1>4, <3>1, <3>2, EarliestExists
  <2>2. s[n].ends_at \in R /\ \A x \in R : s[n].ends_at >= x
    BY <1>4, <2>1
  <2>. HIDE DEF R
  <2>3. Max(R) \in R
    BY <2>2 DEF Max
  <2>. QED  BY <1>4, <2>3 DEF R
<1>. QED  BY <1>1, <1>2, <1>5, <1>6 DEF RiskCluster

\* The cluster that started first is one of those that are left.
LEMMA CurrentIsLeft ==
    ASSUME DInv, Left # {}
    PROVE  Current \in Left
<1>. DEFINE key == [n \in Left |-> Clusters[n].starts_at]
<1>1. Left \in SUBSET (1 .. Len(groups)) /\ Len(groups) \in Nat
  BY ListFacts DEF Left, Clusters, DInv, Shape
<1>2. \A n \in Left : key[n] \in Int /\ key[n] = Clusters[n].starts_at
  BY ClusterFacts DEF Left
<1>. HIDE DEF key
<1>3. \E n \in Left : \A m \in Left : /\ ~ (key[m] < key[n])
                                      /\ key[n] < key[m] \/ n <= m
  BY <1>1, <1>2, EarliestExists
<1>4. \E n \in Left : \A m \in Left :
          /\ ~ (Clusters[m].starts_at < Clusters[n].starts_at)
          /\ Clusters[n].starts_at < Clusters[m].starts_at \/ n <= m
  BY <1>2, <1>3
<1>. QED  BY <1>4, Zenon DEF Foremost, Current
-------------------------------------------------------------------------------
(* The proposals *)

TypedProposal(w, p) ==
    /\ p = [actions |-> p.actions, diagnosis |-> p.diagnosis, outage |-> p.outage,
            planned |-> p.planned, strategies |-> p.strategies]
    /\ Within(p.actions, Acts(DOMAIN w.subjects))
    /\ \A id \in DOMAIN p.outage : p.outage[id] \in Int
    /\ IsList(p.strategies)

\* The strategy is for an incident the order was in, and has nothing for its class.
Excuses(s, w, id) ==
    LET plays == by_class(s.strategy)
        class == retry_class(w.subjects[id].order)
    IN  id \in s.members /\ (class \notin DOMAIN plays \/ plays[class].attempts = 0)

\* Somebody proposes something about the order, or has an excuse.
Catered(w, p, id) ==
    \/ Speaks(p.actions, id)
    \/ \E n \in DOMAIN p.strategies : Excuses(p.strategies[n], w, id)

\* What is proposed is about the batch; who counts as planned for is catered for
\* and, once the planning is over, so is everybody who failed.
TInv ==
    /\ IsBatch(world)
    /\ TypedProposal(world, proposal)
    /\ \A id \in proposal.planned : Catered(world, proposal, id)
    /\ arm \in PlannedArms =>
           \A id \in DOMAIN world.subjects : IsFailed(id) => Catered(world, proposal, id)
    /\ looked \subseteq DOMAIN Clusters /\ (stage # "detected" => looked = {})

\* A diagnosis changes neither the actions nor who is planned for.
LEMMA DiagnosedTyped ==
    ASSUME TypedProposal(world, proposal), NEW cluster, cluster.ends_at \in Int, NEW cause
    PROVE  LET q == Diagnosed(cluster, cause)
           IN  /\ TypedProposal(world, q)
               /\ q.actions = proposal.actions /\ q.planned = proposal.planned
               /\ q.strategies = proposal.strategies
<1>. DEFINE members == orders_in_cluster(cluster)
            d == Override(proposal.diagnosis, [id \in members |-> cause])
            o == IF cause \notin SELF_HEALING THEN proposal.outage
                 ELSE Override(proposal.outage, [id \in members |-> cluster.ends_at])
            q == Diagnosed(cluster, cause)
<1>1. q = [proposal EXCEPT !.diagnosis = d, !.outage = o]
  BY Zenon DEF Diagnosed
<1>2. \A id \in DOMAIN o : o[id] \in Int
  BY DEF TypedProposal, Override
<1>. HIDE DEF d, o, q
<1>3. q = [actions |-> proposal.actions, diagnosis |-> d, outage |-> o,
           planned |-> proposal.planned, strategies |-> proposal.strategies]
  <2>1. PICK p : p = proposal
    OBVIOUS
  <2>2. p = [actions |-> p.actions, diagnosis |-> p.diagnosis, outage |-> p.outage,
             planned |-> p.planned, strategies |-> p.strategies]
    BY <2>1 DEF TypedProposal
  <2>3. [p EXCEPT !.diagnosis = d, !.outage = o]
            = [actions |-> p.actions, diagnosis |-> d, outage |-> o,
               planned |-> p.planned, strategies |-> p.strategies]
    <3>1. PICK x, y : x = d /\ y = o
      OBVIOUS
    <3>2. PICK e : e = [p EXCEPT !.diagnosis = x, !.outage = y]
      OBVIOUS
    <3>3. e = [actions |-> p.actions, diagnosis |-> x, outage |-> y,
               planned |-> p.planned, strategies |-> p.strategies]
      BY <2>2, <3>2
    <3>. QED  BY Zenon, <3>1, <3>2, <3>3
  <2>4. q = [p EXCEPT !.diagnosis = d, !.outage = o]
    BY Zenon, <1>1, <2>1
  <2>. QED  BY Zenon, <2>1, <2>3, <2>4
<1>. QED  BY <1>2, <1>3 DEF TypedProposal, q

\* What a strategy adds, given what it expands to.
LEMMA StrategyPlans ==
    ASSUME IsBatch(world), NEW p, TypedProposal(world, p), NEW cluster,
           NEW cause, cluster.ends_at \in Int, NEW strategy \in Strategies, strategy # None
    PROVE  \E more : 
             /\ WithStrategy(p, cluster, cause, strategy)
                   = [p EXCEPT !.actions = @ \o more,
                               !.planned = @ \cup orders_in_cluster(cluster),
                               !.strategies = Append(@,
                                    [members |-> orders_in_cluster(cluster),
                                     strategy |-> strategy])]
             /\ Within(more, Acts(DOMAIN world.subjects))
             /\ \A id \in orders_in_cluster(cluster) :
                   \/ Speaks(more, id)
                   \/ Excuses([members |-> orders_in_cluster(cluster),
                               strategy |-> strategy], world, id)
<1>. DEFINE members == orders_in_cluster(cluster)
            hold == IF cause \in SELF_HEALING THEN cluster.ends_at ELSE None
            ids == world.ids
            L == [n \in DOMAIN ids |->
                     IF ids[n] \in members
                     THEN expand(strategy, ids[n], Subject(ids[n]).order, hold) ELSE <<>>]
            more == FlattenSeq(L)
<1>1. WithStrategy(p, cluster, cause, strategy)
          = [p EXCEPT !.actions = @ \o more, !.planned = @ \cup members,
                      !.strategies = Append(@, [members |-> members,
                                                strategy |-> strategy])]
  BY Zenon DEF WithStrategy, All
<1>2. \A id \in members : id \in DOMAIN world.subjects /\ IsFailed(id)
  BY Zenon DEF orders_in_cluster, Of
<1>3. hold \in Int \cup {None}
  OBVIOUS
<1>4. \A class \in DOMAIN by_class(strategy) : by_class(strategy)[class] \in Plays
  BY StrategyPlays
<1>. HIDE DEF members, hold
<1>5. ASSUME NEW n \in DOMAIN ids
      PROVE  /\ Within(L[n], Acts({ids[n]}))
             /\ \/ ids[n] \notin members \/ L[n] # <<>>
                \/ Excuses([members |-> members, strategy |-> strategy], world, ids[n])
  <2>1. CASE ids[n] \notin members
    BY <2>1, EmptyList DEF Within
  <2>2. CASE ids[n] \in members
    <3>1. Subject(ids[n]).order.last_attempt.at \in Int
      BY <1>2, <2>2, BatchFacts DEF IsSubject, IsFailed, Subject
    <3>2. /\ Within(expand(strategy, ids[n], Subject(ids[n]).order, hold), Acts({ids[n]}))
          /\ /\ retry_class(Subject(ids[n]).order) \in DOMAIN by_class(strategy)
             /\ by_class(strategy)[retry_class(Subject(ids[n]).order)].attempts # 0
             => expand(strategy, ids[n], Subject(ids[n]).order, hold) # <<>>
      BY <1>3, <1>4, <3>1, ExpandProposes DEF Proposes
    <3>. QED  BY <2>2, <3>2 DEF Excuses, Subject
  <2>. QED  BY <2>1, <2>2
<1>6. DOMAIN L = DOMAIN ids /\ L = [n \in DOMAIN L |-> L[n]]
  OBVIOUS
<1>. HIDE DEF L
<1>7. /\ Within(more, Acts(DOMAIN world.subjects))
      /\ \A n \in DOMAIN ids : L[n] # <<>> => Speaks(more, ids[n])
  BY <1>5, <1>6, Gather
<1>8. ASSUME NEW id \in members
      PROVE  \/ Speaks(more, id)
             \/ Excuses([members |-> members, strategy |-> strategy], world, id)
  <2>1. PICK n \in DOMAIN ids : ids[n] = id
    BY <1>2, BatchFacts
  <2>. QED  BY <1>5, <1>7, <2>1
<1>. HIDE DEF more
<1>. QED  BY <1>1, <1>7, <1>8 DEF members

\* Who is catered for stays so, when actions or strategies are added.
LEMMA CateredStays ==
    ASSUME NEW w, NEW p, NEW q, NEW id, Catered(w, p, id), IsList(p.actions),
           IsList(p.strategies),
           \/ q.actions = p.actions
           \/ \E more : IsList(more) /\ q.actions = p.actions \o more,
           q.strategies = p.strategies \/ \E s : q.strategies = Append(p.strategies, s)
    PROVE  Catered(w, q, id)
<1>1. Speaks(p.actions, id) => Speaks(q.actions, id)
  BY JoinedSpeaks
<1>2. \A n \in DOMAIN p.strategies :
          n \in DOMAIN q.strategies /\ q.strategies[n] = p.strategies[n]
  BY AppendList
<1>. QED  BY <1>1, <1>2 DEF Catered

\* What a strategy for a cluster makes of the proposals.
LEMMA PlannedWithStrategy ==
    ASSUME IsBatch(world), NEW p, TypedProposal(world, p), NEW cluster,
           \A id \in p.planned : Catered(world, p, id),
           NEW cause, cluster.ends_at \in Int, NEW strategy \in Strategies \cup {None}
    PROVE  LET q == WithStrategy(p, cluster, cause, strategy)
           IN  /\ TypedProposal(world, q)
               /\ \A id \in q.planned : Catered(world, q, id)
<1>1. CASE strategy = None
  <2>1. WithStrategy(p, cluster, cause, strategy) = p
    BY Zenon, <1>1 DEF WithStrategy
  <2>. QED  BY <2>1
<1>2. CASE strategy # None
  <2>1. strategy \in Strategies
    BY <1>2
  <2>2. PICK members : members = orders_in_cluster(cluster)
    OBVIOUS
  <2>3. PICK s : s = [members |-> members, strategy |-> strategy]
    OBVIOUS
  <2>4. PICK more :
             /\ WithStrategy(p, cluster, cause, strategy)
                   = [p EXCEPT !.actions = @ \o more, !.planned = @ \cup members,
                               !.strategies = Append(@, s)]
             /\ Within(more, Acts(DOMAIN world.subjects))
             /\ \A id \in members : Speaks(more, id) \/ Excuses(s, world, id)
    BY <1>2, <2>1, <2>2, <2>3, StrategyPlans
  <2>5. PICK q : q = WithStrategy(p, cluster, cause, strategy)
    OBVIOUS
  <2>6. q = [actions |-> p.actions \o more, diagnosis |-> p.diagnosis,
             outage |-> p.outage, planned |-> p.planned \cup members,
             strategies |-> Append(p.strategies, s)]
    <3>1. p = [actions |-> p.actions, diagnosis |-> p.diagnosis, outage |-> p.outage,
               planned |-> p.planned, strategies |-> p.strategies]
      BY DEF TypedProposal
    <3>. QED  BY <2>4, <2>5, <3>1
  <2>7. /\ q.actions = p.actions \o more /\ q.planned = p.planned \cup members
        /\ q.outage = p.outage /\ q.strategies = Append(p.strategies, s)
        /\ q = [actions |-> q.actions, diagnosis |-> q.diagnosis, outage |-> q.outage,
                planned |-> q.planned, strategies |-> q.strategies]
    BY <2>6
  <2>8. /\ Within(p.actions, Acts(DOMAIN world.subjects)) /\ IsList(p.strategies)
        /\ \A id \in DOMAIN p.outage : p.outage[id] \in Int
    BY DEF TypedProposal
  <2>9. /\ IsList(q.strategies) /\ Len(p.strategies) + 1 \in DOMAIN q.strategies
        /\ q.strategies[Len(p.strategies) + 1] = s
    BY <2>7, <2>8, AppendList
  <2>10. TypedProposal(world, q)
    <3>1. Within(q.actions, Acts(DOMAIN world.subjects))
      BY <2>4, <2>7, <2>8, ConcatWithin
    <3>. QED  BY <2>7, <2>8, <2>9, <3>1 DEF TypedProposal
  <2>11. ASSUME NEW id \in q.planned
         PROVE  Catered(world, q, id)
    <3>1. CASE id \in p.planned
      BY <2>4, <2>7, <2>8, <3>1, CateredStays DEF Within
    <3>2. CASE id \in members
      <4>1. Speaks(more, id) => Speaks(q.actions, id)
        BY <2>4, <2>7, <2>8, JoinedSpeaks DEF Within
      <4>. QED  BY <2>4, <2>9, <3>2, <4>1 DEF Catered
    <3>. QED  BY <2>7, <2>11, <3>1, <3>2
  <2>. QED  BY <2>5, <2>10, <2>11
<1>. QED  BY <1>1, <1>2
-------------------------------------------------------------------------------
(* The planning *)

LEMMA SameClusters ==
    ASSUME UNCHANGED groups
    PROVE  Clusters' = Clusters
BY DEF Clusters

LEMMA StillDetecting ==
    ASSUME detect
    PROVE  stage # "detected"
BY DEF detect, Detect, SkipThin, LearnBaseline, Breach, Recover, FinishSegment, _dedupe,
       StartCorrelating, correlate, FinishCorrelating, Thick, Scanning

LEMMA InitTInv ==
    ASSUME Init
    PROVE  TInv
<1>1. /\ IsBatch(world) /\ looked = {} /\ arm = "do-nothing"
      /\ proposal = [actions |-> <<>>, diagnosis |-> << >>, outage |-> << >>,
                     planned |-> {}, strategies |-> <<>>]
  BY DEF Init, IsBatch
<1>2. TypedProposal(world, proposal)
  BY <1>1, EmptyList DEF TypedProposal, Within
<1>. QED  BY <1>1, <1>2 DEF TInv, PlannedArms

LEMMA StepPlanCluster ==
    ASSUME TInv, DInv, plan_cluster
    PROVE  TInv'
<1>1. /\ arm = "planning" /\ arm' = arm /\ stage = "detected" /\ stage' = stage
      /\ Left # {} /\ looked' = looked \cup {Current} /\ world' = world
      /\ groups' = groups
  BY DEF plan_cluster, Planning, detection
<1>2. Clusters' = Clusters
  BY <1>1, SameClusters
<1>3. Current \in Left /\ Left \subseteq DOMAIN Clusters
  BY <1>1, CurrentIsLeft DEF Left
<1>. DEFINE cluster == Clusters[Current]
<1>4. cluster.ends_at \in Int
  BY <1>3, ClusterFacts
<1>5. \/ proposal' = proposal
      \/ \E cause \in Answers(Causes), strategy \in Answers(Strategies) :
            proposal' = WithStrategy(Diagnosed(cluster, cause), cluster, cause, strategy)
  BY Zenon DEF plan_cluster
<1>. HIDE DEF cluster
<1>6. /\ TypedProposal(world, proposal')
      /\ \A id \in proposal'.planned : Catered(world, proposal', id)
  <2>1. /\ TypedProposal(world, proposal) /\ IsBatch(world)
        /\ \A id \in proposal.planned : Catered(world, proposal, id)
    BY DEF TInv
  <2>2. ASSUME NEW cause, NEW strategy \in Answers(Strategies),
               proposal' = WithStrategy(Diagnosed(cluster, cause), cluster, cause, strategy)
        PROVE  /\ TypedProposal(world, proposal')
               /\ \A id \in proposal'.planned : Catered(world, proposal', id)
    <3>1. PICK q : q = Diagnosed(cluster, cause)
      OBVIOUS
    <3>2. /\ TypedProposal(world, q)
          /\ q.actions = proposal.actions /\ q.planned = proposal.planned
          /\ q.strategies = proposal.strategies
      BY <1>4, <2>1, <3>1, DiagnosedTyped
    <3>3. \A id \in q.planned : Catered(world, q, id)
      BY <2>1, <3>2 DEF Catered
    <3>4. strategy \in Strategies \cup {None}
      BY <2>2 DEF Answers, structured, Reply
    <3>5. PICK r : r = WithStrategy(q, cluster, cause, strategy)
      OBVIOUS
    <3>6. /\ TypedProposal(world, r) /\ \A id \in r.planned : Catered(world, r, id)
      BY <1>4, <2>1, <3>2, <3>3, <3>4, <3>5, PlannedWithStrategy
    <3>7. proposal' = r
      BY Zenon, <2>2, <3>1, <3>5
    <3>. QED  BY <3>6, <3>7
  <2>. QED  BY <1>5, <2>1, <2>2
<1>. QED  BY <1>1, <1>2, <1>3, <1>6 DEF TInv, PlannedArms

LEMMA StepPlanRest ==
    ASSUME TInv, plan_the_rest
    PROVE  TInv'
<1>1. /\ proposal' = [proposal EXCEPT !.actions = @ \o Playbooks]
      /\ arm' = "planner-unpoliced"
      /\ UNCHANGED <<world, looked, stage, groups>>
  BY DEF plan_the_rest, detection
<1>2. PICK p : p = proposal
  OBVIOUS
<1>3. PICK more : more = Playbooks
  OBVIOUS
<1>4. /\ IsBatch(world) /\ TypedProposal(world, p)
      /\ \A id \in p.planned : Catered(world, p, id)
  BY <1>2 DEF TInv
<1>5. /\ Within(more, Acts(DOMAIN world.subjects))
      /\ \A id \in DOMAIN world.subjects :
            IsFailed(id) /\ id \notin p.planned => Speaks(more, id)
  BY <1>2, <1>3, <1>4, PlaybooksPlan
<1>6. PICK q : q = proposal'
  OBVIOUS
<1>7. q = [actions |-> p.actions \o more, diagnosis |-> p.diagnosis, outage |-> p.outage,
           planned |-> p.planned, strategies |-> p.strategies]
  <2>1. p = [actions |-> p.actions, diagnosis |-> p.diagnosis, outage |-> p.outage,
             planned |-> p.planned, strategies |-> p.strategies]
    BY <1>4 DEF TypedProposal
  <2>2. q = [p EXCEPT !.actions = @ \o more]
    BY Zenon, <1>1, <1>2, <1>3, <1>6
  <2>. QED  BY <2>1, <2>2
<1>8. /\ q.actions = p.actions \o more /\ q.planned = p.planned
      /\ q.outage = p.outage /\ q.strategies = p.strategies
      /\ q = [actions |-> q.actions, diagnosis |-> q.diagnosis, outage |-> q.outage,
              planned |-> q.planned, strategies |-> q.strategies]
  BY <1>7
<1>9. /\ Within(p.actions, Acts(DOMAIN world.subjects)) /\ IsList(p.strategies)
      /\ \A id \in DOMAIN p.outage : p.outage[id] \in Int
  BY <1>4 DEF TypedProposal
<1>10. TypedProposal(world, q)
  <2>1. Within(q.actions, Acts(DOMAIN world.subjects))
    BY <1>5, <1>8, <1>9, ConcatWithin
  <2>. QED  BY <1>8, <1>9, <2>1 DEF TypedProposal
<1>11. \A id : Catered(world, p, id) => Catered(world, q, id)
  BY <1>5, <1>8, <1>9, CateredStays DEF Within
<1>12. ASSUME NEW id \in DOMAIN world.subjects, IsFailed(id)
       PROVE  Catered(world, q, id)
  <2>1. CASE id \in p.planned
    BY <1>4, <1>11, <2>1
  <2>2. CASE id \notin p.planned
    <3>1. Speaks(more, id)
      BY <1>5, <1>12, <2>2
    <3>2. Speaks(q.actions, id)
      BY <1>5, <1>8, <1>9, <3>1, JoinedSpeaks DEF Within
    <3>. QED  BY <3>2 DEF Catered
  <2>. QED  BY <2>1, <2>2
<1>13. \A id : IsFailed(id)' <=> IsFailed(id)
  BY <1>1 DEF IsFailed, Subject
<1>14. Clusters' = Clusters
  BY <1>1, SameClusters
<1>. QED  BY <1>1, <1>4, <1>6, <1>8, <1>10, <1>11, <1>12, <1>13, <1>14 DEF TInv

LEMMA NextTInv ==
    ASSUME TInv, DInv, [Next]_vars
    PROVE  TInv'
<1>1. CASE plan_cluster
  BY <1>1, StepPlanCluster
<1>2. CASE plan_the_rest
  BY <1>2, StepPlanRest
<1>3. CASE detect
  <2>1. /\ arm = "planning" /\ UNCHANGED <<world, proposal, looked, arm>>
        /\ looked = {}
    BY <1>3, StillDetecting DEF detect, pipeline, TInv
  <2>. QED  BY <2>1 DEF TInv, PlannedArms
<1>4. CASE UNCHANGED <<world, proposal, looked, stage, groups>> /\ arm' = arm
  <2>1. Clusters' = Clusters /\ \A id : IsFailed(id)' <=> IsFailed(id)
    BY <1>4, SameClusters DEF IsFailed, Subject
  <2>. QED  BY <1>4, <2>1 DEF TInv
<1>5. CASE NextArm
  <2>1. /\ UNCHANGED <<world, proposal, looked, stage, groups>>
        /\ arm' \in PlannedArms => arm \in PlannedArms
    <3>1. UNCHANGED <<world, proposal, looked, stage, groups>> /\ arm' = After_arm[arm]
          /\ arm \in Arms
      BY <1>5 DEF NextArm, pipeline, detection
    <3>2. arm = "do-nothing" => arm' = "naive-retry"
      BY <3>1 DEF After_arm, Arms
    <3>3. arm = "naive-retry" => arm' = "planning"
      BY <3>1 DEF After_arm, Arms
    <3>. QED  BY <3>1, <3>2, <3>3 DEF Arms, PlannedArms
  <2>2. Clusters' = Clusters /\ \A id : IsFailed(id)' <=> IsFailed(id)
    BY <2>1, SameClusters DEF IsFailed, Subject
  <2>. QED  BY <2>1, <2>2 DEF TInv
<1>6. CASE Execute \/ Withhold \/ UNCHANGED vars
  <2>1. UNCHANGED <<world, proposal, looked, stage, groups>> /\ arm' = arm
    BY <1>6 DEF Execute, Withhold, vars, pipeline, detection
  <2>. QED  BY <1>4, <2>1
<1>. QED  BY <1>1, <1>2, <1>3, <1>5, <1>6 DEF Next
-------------------------------------------------------------------------------
(* What an arm did is a walk *)

\* Where an arm stands.
Standing == [pending |-> pending, settled |-> settled, book |-> book]
Start(p) == [pending |-> DOMAIN p.actions, settled |-> {}, book |-> <<>>]

\* The model's helpers, of a world and proposals that are given.
NextOf(actions, left) ==
    Foremost(left, LAMBDA m, n : actions[m].at < actions[n].at)

ContextIn(w, p, a, contacts) ==
    LET s == w.subjects[a.subject]
    IN  [now |-> a.at, customer |-> w.people[s.customer],
         order |-> s.order, invoice |-> s.invoice, subscription |-> s.subscription,
         contacts |->
             [n \in {m \in DOMAIN contacts : contacts[m].subject = a.subject} |->
                 contacts[n].at],
         customer_contacts |->
             [n \in {m \in DOMAIN contacts : contacts[m].customer = s.customer} |->
                 contacts[n].at],
         diagnosis |-> Known(p.diagnosis, a.subject),
         outage_until |-> Known(p.outage, a.subject)]

ContactIn(w, a, at) ==
    [subject |-> a.subject, customer |-> w.subjects[a.subject].customer, at |-> at]

EntryIn(w, a, ruling, execution) ==
    [action |-> a, surface |-> surface(w.subjects[a.subject]), ruling |-> ruling,
     execution |-> execution]

\* What an arm at that standing does next; the last arm is enforced.
Asked(p, st) == p.actions[NextOf(p.actions, st.pending)]
Ruling(w, p, st) ==
    evaluate(DEFAULT_RULES, Asked(p, st), ContextIn(w, p, Asked(p, st), st.book))
Refused(w, p, who, st) == who = "backstop" /\ ~ allowed(Ruling(w, p, st))
Final(w, p, who, st) ==
    IF who = "backstop" THEN Ruling(w, p, st).final ELSE Asked(p, st)

\* What running an action brings, to an arm that has these subjects settled.
Brings(w, a, done) ==
    execute(a, a.at, w.subjects[a.subject], w.latent[a.subject], done)

Entry(w, p, who, st) ==
    LET final == Final(w, p, who, st)
    IN  IF Refused(w, p, who, st)
        THEN EntryIn(w, Asked(p, st), Ruling(w, p, st), None)
        ELSE EntryIn(w, final, Ruling(w, p, st), Brings(w, final, st.settled))

\* Where it stands when an action was left, and when it was executed.
Left_alone(p, st) ==
    [pending |-> st.pending \ {NextOf(p.actions, st.pending)},
     settled |-> st.settled, book |-> st.book]
Worked(w, p, a, st) ==
    [pending |-> st.pending \ {NextOf(p.actions, st.pending)},
     settled |-> IF Brings(w, a, st.settled).outcome = "recovered"
                 THEN st.settled \cup {a.subject} ELSE st.settled,
     book |-> IF Recorded(a) THEN Append(st.book, ContactIn(w, a, a.at)) ELSE st.book]

Onward(w, p, who, st) ==
    IF Refused(w, p, who, st) THEN Left_alone(p, st)
    ELSE Worked(w, p, Final(w, p, who, st), st)

\* The entries are those of this walk.
Walk(w, p, who, entries, T) ==
    /\ DOMAIN T = 0 .. Len(entries)
    /\ T[0] = Start(p)
    /\ \A k \in 1 .. Len(entries) :
          /\ T[k - 1].pending # {}
          /\ entries[k] = Entry(w, p, who, T[k - 1])
          /\ T[k] = Onward(w, p, who, T[k - 1])

\* An arm has come to this standing, and has nothing left to do.
WalkedTo(w, p, who, entries, st) ==
    \E T : Walk(w, p, who, entries, T) /\ T[Len(entries)] = st
Done(w, p, who, entries) ==
    \E T : Walk(w, p, who, entries, T) /\ T[Len(entries)].pending = {}

\* The entries of the two planned arms are walks: of the one that runs, to where it
\* stands; of one that has run, to its end.
BInv ==
    /\ DOMAIN ledger = Arms /\ \A a \in PlannedArms : IsList(ledger[a])
    /\ arm \in {"do-nothing", "naive-retry", "planning"} =>
           ledger["planner-unpoliced"] = <<>> /\ ledger["backstop"] = <<>>
    /\ arm = "planning" => Standing = [pending |-> {}, settled |-> {}, book |-> <<>>]
    /\ arm = "planner-unpoliced" =>
           /\ ledger["backstop"] = <<>>
           /\ WalkedTo(world, proposal, "planner-unpoliced",
                       ledger["planner-unpoliced"], Standing)
    /\ arm = "backstop" =>
           WalkedTo(world, proposal, "backstop", ledger["backstop"], Standing)
    /\ arm \in {"backstop", "reported"} =>
           Done(world, proposal, "planner-unpoliced", ledger["planner-unpoliced"])
    /\ arm = "reported" => Done(world, proposal, "backstop", ledger["backstop"])
    /\ arm \in Arms \cup {"planning", "reported"}
-------------------------------------------------------------------------------
(* What a step of a planned arm does, in those terms *)

LEMMA StandsNext ==
    ASSUME arm \in PlannedArms
    PROVE  /\ Actions = proposal.actions
           /\ Next_n = NextOf(proposal.actions, Standing.pending)
           /\ Actions[Next_n] = Asked(proposal, Standing)
           /\ Ruled = Ruling(world, proposal, Standing)
<1>1. Actions = proposal.actions
  BY DEF Actions, PlannedArms
<1>2. Next_n = NextOf(Actions, pending)
  BY DEF Next_n, NextOf
<1>3. Standing.pending = pending /\ Standing.book = book
  BY DEF Standing
<1>4. Actions[Next_n] = Asked(proposal, Standing)
  BY <1>1, <1>2, <1>3 DEF Asked
<1>5. \A a, c : context(a, c) = ContextIn(world, proposal, a, c)
  BY Zenon DEF context, ContextIn, Subject
<1>6. Ruled = evaluate(DEFAULT_RULES, Asked(proposal, Standing),
                       context(Asked(proposal, Standing), book))
  BY <1>4 DEF Ruled
<1>. QED  BY <1>1, <1>2, <1>3, <1>4, <1>5, <1>6 DEF Ruling

LEMMA StepExecute ==
    ASSUME arm \in PlannedArms, Execute
    PROVE  /\ Standing.pending # {}
           /\ ledger' = [ledger EXCEPT ![arm] =
                            Append(ledger[arm], Entry(world, proposal, arm, Standing))]
           /\ Standing' = Onward(world, proposal, arm, Standing)
<1>. DEFINE final == IF Enforce THEN Ruled.final ELSE Actions[Next_n]
            result == execute(final, final.at, Subject(final.subject),
                              world.latent[final.subject], settled)
<1>1. /\ pending # {} /\ (Enforce => allowed(Ruled))
      /\ ledger' = [ledger EXCEPT ![arm] = Append(@, LedgerEntry(final, Ruled, result))]
      /\ settled' = IF result.outcome = "recovered"
                    THEN settled \cup {final.subject} ELSE settled
      /\ book' = IF Recorded(final) THEN Append(book, Contact(final, final.at)) ELSE book
      /\ pending' = pending \ {Next_n}
  BY Zenon DEF Execute
<1>2. /\ Standing.pending = pending /\ Standing.settled = settled
      /\ Standing.book = book
  BY DEF Standing
<1>3. final = Final(world, proposal, arm, Standing)
  BY StandsNext DEF Final, Enforce
<1>4. ~ Refused(world, proposal, arm, Standing)
  <2>1. Ruled = Ruling(world, proposal, Standing)
    BY StandsNext
  <2>2. arm = "backstop" => allowed(Ruled)
    BY <1>1 DEF Enforce
  <2>. QED  BY Zenon, <2>1, <2>2 DEF Refused
<1>5. result = Brings(world, final, settled)
  BY DEF Brings, Subject
<1>6. LedgerEntry(final, Ruled, result) = EntryIn(world, final, Ruled, result)
  BY DEF LedgerEntry, EntryIn, Subject
<1>7. Contact(final, final.at) = ContactIn(world, final, final.at)
  BY DEF Contact, ContactIn, Subject
<1>. HIDE DEF final, result
<1>8. LedgerEntry(final, Ruled, result) = Entry(world, proposal, arm, Standing)
  BY <1>2, <1>3, <1>4, <1>5, <1>6, StandsNext DEF Entry
<1>9. Standing' = Worked(world, proposal, final, Standing)
  <2>1. pending' = Standing.pending \ {NextOf(proposal.actions, Standing.pending)}
    BY <1>1, <1>2, StandsNext
  <2>2. settled' = IF Brings(world, final, Standing.settled).outcome = "recovered"
                   THEN Standing.settled \cup {final.subject} ELSE Standing.settled
    BY <1>1, <1>2, <1>5
  <2>3. book' = IF Recorded(final)
                THEN Append(Standing.book, ContactIn(world, final, final.at))
                ELSE Standing.book
    BY <1>1, <1>2, <1>7
  <2>4. Standing' = [pending |-> pending', settled |-> settled', book |-> book']
    BY DEF Standing
  <2>. HIDE DEF Standing
  <2>. QED  BY Zenon, <2>1, <2>2, <2>3, <2>4 DEF Worked
<1>10. Standing' = Onward(world, proposal, arm, Standing)
  <2>. HIDE DEF Standing
  <2>. QED  BY Zenon, <1>3, <1>4, <1>9 DEF Onward
<1>. QED  BY <1>1, <1>2, <1>8, <1>10

LEMMA StepWithhold ==
    ASSUME arm \in PlannedArms, Withhold
    PROVE  /\ Standing.pending # {}
           /\ ledger' = [ledger EXCEPT ![arm] =
                            Append(ledger[arm], Entry(world, proposal, arm, Standing))]
           /\ Standing' = Onward(world, proposal, arm, Standing)
<1>1. /\ pending # {} /\ Enforce /\ ~ allowed(Ruled)
      /\ ledger' = [ledger EXCEPT ![arm] =
                        Append(@, LedgerEntry(Actions[Next_n], Ruled, None))]
      /\ settled' = settled /\ book' = book
      /\ pending' = pending \ {Next_n}
  BY Zenon DEF Withhold
<1>2. /\ Standing.pending = pending /\ Standing.settled = settled
      /\ Standing.book = book
  BY DEF Standing
<1>3. Refused(world, proposal, arm, Standing)
  BY <1>1, StandsNext DEF Refused, Enforce
<1>4. LedgerEntry(Actions[Next_n], Ruled, None)
          = EntryIn(world, Actions[Next_n], Ruled, None)
  BY DEF LedgerEntry, EntryIn, Subject
<1>5. LedgerEntry(Actions[Next_n], Ruled, None)
          = Entry(world, proposal, arm, Standing)
  BY <1>3, <1>4, StandsNext DEF Entry
<1>6. Standing' = Left_alone(proposal, Standing)
  BY <1>1, <1>2, StandsNext DEF Standing, Left_alone
<1>. QED  BY <1>1, <1>2, <1>3, <1>5, <1>6 DEF Onward
-------------------------------------------------------------------------------
(* Walks *)

\* Before its first action, an arm stands at the start.
LEMMA WalkStarts ==
    ASSUME NEW w, NEW p, NEW who
    PROVE  WalkedTo(w, p, who, <<>>, Start(p))
<1>. DEFINE T == [k \in 0 .. 0 |-> Start(p)]
<1>1. Len(<<>>) = 0
  OBVIOUS
<1>2. T[0] = Start(p) /\ DOMAIN T = 0 .. 0 /\ 1 .. 0 = {}
  OBVIOUS
<1>. HIDE DEF T
<1>3. Walk(w, p, who, <<>>, T)
  BY <1>1, <1>2 DEF Walk
<1>. QED  BY <1>1, <1>2, <1>3 DEF WalkedTo

LEMMA WalkGoesOn ==
    ASSUME NEW w, NEW p, NEW who, NEW entries, IsList(entries), NEW st,
           WalkedTo(w, p, who, entries, st), st.pending # {}
    PROVE  WalkedTo(w, p, who, Append(entries, Entry(w, p, who, st)),
                    Onward(w, p, who, st))
<1>1. PICK T : Walk(w, p, who, entries, T) /\ T[Len(entries)] = st
  BY DEF WalkedTo
<1>. DEFINE n == Len(entries)
            more == Append(entries, Entry(w, p, who, st))
            U == [k \in 0 .. n + 1 |->
                     IF k = n + 1 THEN Onward(w, p, who, st) ELSE T[k]]
<1>2. n \in Nat /\ DOMAIN entries = 1 .. n
  BY ListFacts
<1>3. /\ IsList(more) /\ DOMAIN more = DOMAIN entries \cup {n + 1}
      /\ \A k \in DOMAIN entries : more[k] = entries[k]
      /\ more[n + 1] = Entry(w, p, who, st)
  BY AppendList
<1>4. Len(more) = n + 1
  <2>1. Len(more) \in Nat /\ DOMAIN more = 1 .. Len(more)
    BY <1>3, ListFacts
  <2>. HIDE DEF n, more
  <2>2. 1 .. Len(more) = 1 .. n \cup {n + 1}
    BY <1>2, <1>3, <2>1
  <2>3. n + 1 \in 1 .. Len(more) /\ (Len(more) # 0 => Len(more) \in 1 .. n + 1)
    BY <1>2, <2>1, <2>2
  <2>4. \A x, y \in Nat : y + 1 \in 1 .. x /\ (x # 0 => x \in 1 .. y + 1) => x = y + 1
    OBVIOUS
  <2>. QED  BY <1>2, <2>1, <2>3, <2>4
<1>. HIDE DEF more
<1>5. /\ DOMAIN U = 0 .. n + 1 /\ U[n + 1] = Onward(w, p, who, st)
      /\ \A k \in 0 .. n : U[k] = T[k]
  BY <1>2
<1>. HIDE DEF U
<1>6. /\ T[0] = Start(p) /\ T[n] = st
      /\ \A k \in 1 .. n : /\ T[k - 1].pending # {}
                           /\ entries[k] = Entry(w, p, who, T[k - 1])
                           /\ T[k] = Onward(w, p, who, T[k - 1])
  BY <1>1 DEF Walk
<1>. HIDE DEF n
<1>7. U[0] = Start(p)
  BY <1>2, <1>5, <1>6
<1>8. ASSUME NEW k \in 1 .. n + 1
      PROVE  /\ U[k - 1].pending # {}
             /\ more[k] = Entry(w, p, who, U[k - 1])
             /\ U[k] = Onward(w, p, who, U[k - 1])
  <2>1. CASE k = n + 1
    <3>1. U[k - 1] = st
      BY <1>2, <1>5, <1>6, <2>1
    <3>. QED  BY <1>3, <1>5, <2>1, <3>1
  <2>2. CASE k \in 1 .. n
    <3>1. U[k - 1] = T[k - 1] /\ U[k] = T[k] /\ more[k] = entries[k]
      BY <1>2, <1>3, <1>5, <2>2
    <3>. QED  BY <1>6, <2>2, <3>1
  <2>. QED  BY <1>2, <2>1, <2>2
<1>9. Walk(w, p, who, more, U)
  BY <1>4, <1>5, <1>7, <1>8 DEF Walk
<1>. QED  BY <1>4, <1>5, <1>9 DEF WalkedTo, more
(* Two walks over the same proposals *)

LEMMA OnwardPending ==
    ASSUME NEW w, NEW p, NEW who, NEW st
    PROVE  Onward(w, p, who, st).pending
               = st.pending \ {NextOf(p.actions, st.pending)}
BY DEF Onward, Left_alone, Worked

\* Both work the actions in one order, whatever becomes of each.
LEMMA SameOrder ==
    ASSUME NEW w, NEW p, NEW d, NEW e, NEW A, NEW B, IsList(A), IsList(B),
           NEW S, NEW T, Walk(w, p, d, A, S), Walk(w, p, e, B, T)
    PROVE  \A k \in 0 .. Len(A) : k <= Len(B) => S[k].pending = T[k].pending
<1>. DEFINE Bad == {x \in 0 .. Len(A) : x <= Len(B) /\ S[x].pending # T[x].pending}
<1>1. Len(A) \in Nat /\ Len(B) \in Nat
  BY ListFacts
<1>2. /\ S[0] = T[0]
      /\ \A x \in 1 .. Len(A) : S[x] = Onward(w, p, d, S[x - 1])
      /\ \A x \in 1 .. Len(B) : T[x] = Onward(w, p, e, T[x - 1])
  BY DEF Walk
<1>3. SUFFICES ASSUME Bad # {}
               PROVE  FALSE
  BY <1>1
<1>4. Bad \in SUBSET Nat
  BY <1>1
<1>5. PICK x \in Bad : \A y \in Bad : x <= y
  <2>. HIDE DEF Bad
  <2>. QED  BY <1>3, <1>4, LeastNumber
<1>6. /\ x \in Nat /\ x # 0 /\ x \in 1 .. Len(A) /\ x \in 1 .. Len(B)
      /\ x - 1 \in 0 .. Len(A) /\ x - 1 <= Len(B) /\ S[x].pending # T[x].pending
  BY <1>1, <1>2, <1>5
<1>7. S[x - 1].pending = T[x - 1].pending
  <2>1. x - 1 \notin Bad
    <3>. HIDE DEF Bad
    <3>. QED  BY <1>4, <1>5, <1>6
  <2>. QED  BY <1>6, <2>1
<1>8. /\ S[x].pending = S[x - 1].pending \ {NextOf(p.actions, S[x - 1].pending)}
      /\ T[x].pending = T[x - 1].pending \ {NextOf(p.actions, T[x - 1].pending)}
  BY <1>2, <1>6, OnwardPending
<1>. QED  BY <1>6, <1>7, <1>8

\* So the one cannot be done before the other.
LEMMA SameLength ==
    ASSUME NEW w, NEW p, NEW d, NEW e, NEW A, NEW B, IsList(A), IsList(B),
           NEW S, NEW T, Walk(w, p, d, A, S), Walk(w, p, e, B, T),
           S[Len(A)].pending = {}
    PROVE  Len(B) <= Len(A)
<1>1. Len(A) \in Nat /\ Len(B) \in Nat
  BY ListFacts
<1>2. SUFFICES ASSUME Len(B) > Len(A)
               PROVE  FALSE
  BY <1>1
<1>3. T[Len(A)].pending = {}
  <2>1. Len(A) \in 0 .. Len(A) /\ Len(A) <= Len(B)
    BY <1>1, <1>2
  <2>2. \A k \in 0 .. Len(A) : k <= Len(B) => S[k].pending = T[k].pending
    BY SameOrder
  <2>. QED  BY <2>1, <2>2
<1>4. Len(A) + 1 \in 1 .. Len(B) /\ Len(A) + 1 - 1 = Len(A)
  BY <1>1, <1>2
<1>. QED  BY <1>3, <1>4 DEF Walk

\* Up to here the rulings refused nothing and moved nothing.
AgreedTo(A, B, n) ==
    \A m \in 1 .. n : allowed(A[m].ruling) /\ A[m].ruling.final = B[m].action

\* What is entered of an action that both arms work alike.
LEMMA SameEntry ==
    ASSUME NEW w, NEW p, NEW st, NEW who
    PROVE  /\ Entry(w, p, who, st).ruling = Ruling(w, p, st)
           /\ Entry(w, p, "planner-unpoliced", st).action = Asked(p, st)
           /\ allowed(Ruling(w, p, st)) /\ Ruling(w, p, st).final = Asked(p, st) =>
                  /\ Entry(w, p, "backstop", st) = Entry(w, p, "planner-unpoliced", st)
                  /\ Onward(w, p, "backstop", st)
                         = Onward(w, p, "planner-unpoliced", st)
<1>1. ~ Refused(w, p, "planner-unpoliced", st)
  BY Zenon DEF Refused
<1>2. Final(w, p, "planner-unpoliced", st) = Asked(p, st)
  BY Zenon DEF Final
<1>3. Entry(w, p, who, st).ruling = Ruling(w, p, st)
  BY DEF Entry, EntryIn
<1>4. Entry(w, p, "planner-unpoliced", st)
          = EntryIn(w, Asked(p, st), Ruling(w, p, st),
                    Brings(w, Asked(p, st), st.settled))
  BY Zenon, <1>1, <1>2 DEF Entry
<1>5. Entry(w, p, "planner-unpoliced", st).action = Asked(p, st)
  BY <1>4 DEF EntryIn
<1>6. ASSUME allowed(Ruling(w, p, st)), Ruling(w, p, st).final = Asked(p, st)
      PROVE  /\ Entry(w, p, "backstop", st) = Entry(w, p, "planner-unpoliced", st)
             /\ Onward(w, p, "backstop", st) = Onward(w, p, "planner-unpoliced", st)
  <2>1. ~ Refused(w, p, "backstop", st)
    BY Zenon, <1>6 DEF Refused
  <2>2. Final(w, p, "backstop", st) = Asked(p, st)
    BY Zenon, <1>6 DEF Final
  <2>3. Entry(w, p, "backstop", st)
            = EntryIn(w, Asked(p, st), Ruling(w, p, st),
                      Brings(w, Asked(p, st), st.settled))
    BY Zenon, <2>1, <2>2 DEF Entry
  <2>4. /\ Onward(w, p, "backstop", st) = Worked(w, p, Asked(p, st), st)
        /\ Onward(w, p, "planner-unpoliced", st) = Worked(w, p, Asked(p, st), st)
    BY Zenon, <1>1, <1>2, <2>1, <2>2 DEF Onward
  <2>. QED  BY <1>4, <2>3, <2>4
<1>. QED  BY <1>3, <1>5, <1>6

\* And up to here they stand at the same place.
LEMMA SameStanding ==
    ASSUME NEW w, NEW p, NEW A, NEW B, IsList(A), IsList(B), Len(A) = Len(B),
           NEW S, Walk(w, p, "backstop", A, S),
           NEW T, Walk(w, p, "planner-unpoliced", B, T),
           NEW n \in 0 .. Len(A), AgreedTo(A, B, n)
    PROVE  S[n] = T[n]
<1>. DEFINE Bad == {x \in 0 .. n : S[x] # T[x]}
<1>1. Len(A) \in Nat /\ n \in Nat
  BY ListFacts
<1>2. /\ S[0] = T[0]
      /\ \A x \in 1 .. Len(A) : /\ A[x] = Entry(w, p, "backstop", S[x - 1])
                                /\ S[x] = Onward(w, p, "backstop", S[x - 1])
                                /\ B[x] = Entry(w, p, "planner-unpoliced", T[x - 1])
                                /\ T[x] = Onward(w, p, "planner-unpoliced", T[x - 1])
  BY DEF Walk
<1>3. SUFFICES ASSUME Bad # {}
               PROVE  FALSE
  BY <1>1
<1>4. Bad \in SUBSET Nat
  BY <1>1
<1>5. PICK x \in Bad : \A y \in Bad : x <= y
  <2>. HIDE DEF Bad
  <2>. QED  BY <1>3, <1>4, LeastNumber
<1>6. /\ x \in Nat /\ x # 0 /\ x \in 1 .. Len(A) /\ x \in 1 .. n
      /\ x - 1 \in 0 .. n /\ S[x] # T[x]
  BY <1>1, <1>2, <1>5
<1>7. S[x - 1] = T[x - 1]
  <2>1. x - 1 \notin Bad
    <3>. HIDE DEF Bad
    <3>. QED  BY <1>4, <1>5, <1>6
  <2>. QED  BY <1>6, <2>1
<1>8. allowed(A[x].ruling) /\ A[x].ruling.final = B[x].action
  BY <1>6 DEF AgreedTo
<1>9. /\ A[x].ruling = Ruling(w, p, S[x - 1]) /\ B[x].action = Asked(p, S[x - 1])
  BY <1>2, <1>6, <1>7, SameEntry
<1>10. Onward(w, p, "backstop", S[x - 1]) = Onward(w, p, "planner-unpoliced", S[x - 1])
  BY <1>8, <1>9, SameEntry
<1>. QED  BY <1>2, <1>6, <1>7, <1>10
(* The arms, one after the other *)

LEMMA InitBInv ==
    ASSUME Init
    PROVE  BInv
<1>1. DOMAIN ledger = Arms /\ \A a \in Arms : ledger[a] = <<>>
  BY DEF Init
<1>2. PlannedArms \subseteq Arms
  BY DEF Arms
<1>. QED  BY <1>1, <1>2, EmptyList DEF Init, BInv, Arms, PlannedArms

\* Nothing of the arms but the planning.
LEMMA StepPlanning ==
    ASSUME BInv, arm = "planning", arm' = "planning",
           UNCHANGED running
    PROVE  BInv'
BY DEF BInv, running, Standing, Arms, PlannedArms

LEMMA StepStutter ==
    ASSUME BInv, UNCHANGED vars
    PROVE  BInv'
<1>1. UNCHANGED <<world, proposal, arm, ledger, Standing>>
  BY DEF vars, pipeline, running, Standing
<1>. HIDE DEF Standing
<1>. QED  BY <1>1 DEF BInv

LEMMA StepPlanTheRest ==
    ASSUME BInv, plan_the_rest
    PROVE  BInv'
<1>1. /\ arm = "planning" /\ arm' = "planner-unpoliced"
      /\ UNCHANGED <<ledger, settled, book>>
      /\ pending' = DOMAIN proposal'.actions
  BY DEF plan_the_rest, Planning
<1>2. /\ ledger["planner-unpoliced"] = <<>> /\ ledger["backstop"] = <<>>
      /\ settled = {} /\ book = <<>>
  BY <1>1 DEF BInv, Standing
<1>3. Standing' = Start(proposal')
  BY <1>1, <1>2 DEF Standing, Start
<1>4. WalkedTo(world', proposal', "planner-unpoliced",
               ledger'["planner-unpoliced"], Standing')
  BY <1>1, <1>2, <1>3, WalkStarts
<1>. QED  BY <1>1, <1>2, <1>4 DEF BInv, Arms, PlannedArms

\* A step of an arm that is not one of the two.
LEMMA StepOtherArm ==
    ASSUME BInv, Execute \/ Withhold, arm \notin PlannedArms
    PROVE  BInv'
<1>1. /\ UNCHANGED <<world, proposal, arm>> /\ pending # {}
      /\ DOMAIN ledger' = DOMAIN ledger
      /\ \A a \in DOMAIN ledger : a # arm => ledger'[a] = ledger[a]
  BY Zenon DEF Execute, Withhold, pipeline
<1>2. arm # "planning" /\ arm # "planner-unpoliced" /\ arm # "backstop"
  BY <1>1 DEF BInv, Standing, PlannedArms
<1>3. /\ ledger'["planner-unpoliced"] = ledger["planner-unpoliced"]
      /\ ledger'["backstop"] = ledger["backstop"]
  BY <1>1, <1>2 DEF BInv, Arms, PlannedArms
<1>. QED  BY <1>1, <1>2, <1>3 DEF BInv, Arms, PlannedArms

LEMMA StepPlannedArm ==
    ASSUME BInv, Execute \/ Withhold, arm \in PlannedArms
    PROVE  BInv'
<1>1. /\ Standing.pending # {}
      /\ ledger' = [ledger EXCEPT ![arm] =
                       Append(ledger[arm], Entry(world, proposal, arm, Standing))]
      /\ Standing' = Onward(world, proposal, arm, Standing)
  BY StepExecute, StepWithhold
<1>2. UNCHANGED <<world, proposal, arm>>
  BY DEF Execute, Withhold, pipeline
<1>3. arm = "planner-unpoliced" \/ arm = "backstop"
  BY DEF PlannedArms
<1>4. /\ DOMAIN ledger = Arms /\ IsList(ledger[arm])
      /\ WalkedTo(world, proposal, arm, ledger[arm], Standing)
  BY <1>3 DEF BInv
<1>5. /\ DOMAIN ledger' = Arms /\ IsList(ledger'[arm])
      /\ ledger'[arm] = Append(ledger[arm], Entry(world, proposal, arm, Standing))
      /\ \A a \in PlannedArms : a # arm => ledger'[a] = ledger[a]
  <2>1. arm \in DOMAIN ledger /\ PlannedArms \subseteq DOMAIN ledger
    BY <1>4 DEF Arms
  <2>2. IsList(Append(ledger[arm], Entry(world, proposal, arm, Standing)))
    BY <1>4, AppendList
  <2>. QED  BY <1>1, <1>4, <2>1, <2>2
<1>6. WalkedTo(world, proposal, arm, ledger'[arm], Standing')
  <2>. HIDE DEF Standing
  <2>1. WalkedTo(world, proposal, arm,
                 Append(ledger[arm], Entry(world, proposal, arm, Standing)),
                 Onward(world, proposal, arm, Standing))
    BY <1>1, <1>4, WalkGoesOn
  <2>. QED  BY <1>1, <1>5, <2>1
<1>7. \A a \in PlannedArms : IsList(ledger'[a])
  BY <1>5 DEF BInv
<1>. HIDE DEF Standing
<1>8. CASE arm = "planner-unpoliced"
  <2>1. ledger'["backstop"] = <<>>
    BY <1>5, <1>8 DEF BInv, PlannedArms
  <2>. QED  BY <1>2, <1>5, <1>6, <1>7, <1>8, <2>1 DEF BInv
<1>9. CASE arm = "backstop"
  <2>1. ledger'["planner-unpoliced"] = ledger["planner-unpoliced"]
    BY <1>5, <1>9 DEF PlannedArms
  <2>. QED  BY <1>2, <1>5, <1>6, <1>7, <1>9, <2>1 DEF BInv
<1>. QED  BY <1>3, <1>8, <1>9

LEMMA StepNextArm ==
    ASSUME BInv, NextArm
    PROVE  BInv'
<1>1. /\ arm \in Arms /\ pending = {} /\ UNCHANGED <<world, proposal, ledger>>
      /\ arm' = After_arm[arm] /\ pending' = DOMAIN Actions'
      /\ settled' = {} /\ book' = <<>>
  BY DEF NextArm, pipeline
<1>2. CASE arm = "do-nothing"
  <2>1. arm' = "naive-retry"
    BY <1>1, <1>2 DEF After_arm, Arms
  <2>. QED  BY <1>1, <1>2, <2>1 DEF BInv, Arms, PlannedArms
<1>3. CASE arm = "naive-retry"
  <2>1. arm' = "planning"
    BY <1>1, <1>3 DEF After_arm, Arms
  <2>2. pending' = {}
    BY <1>1, <2>1, EmptyList DEF Actions, PlannedArms
  <2>. QED  BY <1>1, <1>3, <2>1, <2>2 DEF BInv, Standing, Arms, PlannedArms
<1>4. CASE arm = "planner-unpoliced"
  <2>1. arm' = "backstop"
    BY <1>1, <1>4 DEF After_arm, Arms, PlannedArms
  <2>2. Actions' = proposal'.actions
    BY <2>1 DEF Actions, PlannedArms
  <2>3. Standing' = Start(proposal') /\ Standing.pending = {}
    BY <1>1, <2>2 DEF Standing, Start
  <2>4. WalkedTo(world', proposal', "backstop", ledger'["backstop"], Standing')
    <3>1. ledger'["backstop"] = <<>>
      BY <1>1, <1>4 DEF BInv
    <3>. QED  BY <2>3, <3>1, WalkStarts
  <2>5. Done(world', proposal', "planner-unpoliced", ledger'["planner-unpoliced"])
    BY <1>1, <1>4, <2>3 DEF BInv, WalkedTo, Done
  <2>. HIDE DEF Standing
  <2>. QED  BY <1>1, <1>4, <2>1, <2>4, <2>5 DEF BInv, Arms, PlannedArms
<1>5. CASE arm = "backstop"
  <2>1. arm' = "reported"
    BY <1>1, <1>5 DEF After_arm, Arms, PlannedArms
  <2>2. Standing.pending = {}
    BY <1>1 DEF Standing
  <2>3. Done(world', proposal', "backstop", ledger'["backstop"])
    BY <1>1, <1>5, <2>2 DEF BInv, WalkedTo, Done
  <2>. HIDE DEF Standing
  <2>. QED  BY <1>1, <1>5, <2>1, <2>3 DEF BInv, Arms, PlannedArms
<1>. QED  BY <1>1, <1>2, <1>3, <1>4, <1>5 DEF Arms, PlannedArms

LEMMA NextBInv ==
    ASSUME BInv, [Next]_vars
    PROVE  BInv'
<1>1. CASE UNCHANGED vars
  BY <1>1, StepStutter
<1>2. CASE detect
  BY <1>2, StepPlanning DEF detect
<1>3. CASE plan_cluster
  BY <1>3, StepPlanning DEF plan_cluster, Planning
<1>4. CASE plan_the_rest
  BY <1>4, StepPlanTheRest
<1>5. CASE Execute \/ Withhold
  BY <1>5, StepOtherArm, StepPlannedArm
<1>6. CASE NextArm
  BY <1>6, StepNextArm
<1>. QED  BY <1>1, <1>2, <1>3, <1>4, <1>5, <1>6 DEF Next
(* What the arms' walks say of the report *)

LEMMA WalksCompared ==
    ASSUME NEW w, NEW p, NEW A, NEW B, IsList(A), IsList(B),
           NEW S, Walk(w, p, "backstop", A, S), S[Len(A)].pending = {},
           NEW T, Walk(w, p, "planner-unpoliced", B, T), T[Len(B)].pending = {}
    PROVE  /\ Len(A) = Len(B)
           /\ \A n \in DOMAIN A : /\ AgreedTo(A, B, n) => A[n] = B[n]
                                  /\ AgreedTo(A, B, n - 1) => A[n].ruling = B[n].ruling
<1>1. Len(A) \in Nat /\ DOMAIN A = 1 .. Len(A) /\ Len(B) \in Nat
  BY ListFacts
<1>2. Len(A) <= Len(B)
  BY SameLength
<1>3. Len(B) <= Len(A)
  BY SameLength
<1>4. Len(A) = Len(B)
  BY <1>1, <1>2, <1>3
<1>5. ASSUME NEW n \in DOMAIN A, AgreedTo(A, B, n - 1)
      PROVE  /\ A[n] = Entry(w, p, "backstop", S[n - 1])
             /\ B[n] = Entry(w, p, "planner-unpoliced", S[n - 1])
  <2>1. n - 1 \in 0 .. Len(A) /\ n \in 1 .. Len(A) /\ n \in 1 .. Len(B)
    BY <1>1, <1>4
  <2>2. S[n - 1] = T[n - 1]
    BY <1>4, <1>5, <2>1, SameStanding
  <2>. QED  BY <2>1, <2>2 DEF Walk
<1>6. ASSUME NEW n \in DOMAIN A, AgreedTo(A, B, n - 1)
      PROVE  A[n].ruling = B[n].ruling
  BY <1>5, <1>6, SameEntry
<1>7. ASSUME NEW n \in DOMAIN A, AgreedTo(A, B, n)
      PROVE  A[n] = B[n]
  <2>1. AgreedTo(A, B, n - 1) /\ allowed(A[n].ruling) /\ A[n].ruling.final = B[n].action
    BY <1>1, <1>7 DEF AgreedTo
  <2>2. /\ A[n] = Entry(w, p, "backstop", S[n - 1])
        /\ B[n] = Entry(w, p, "planner-unpoliced", S[n - 1])
    BY <1>5, <2>1
  <2>3. A[n].ruling = Ruling(w, p, S[n - 1]) /\ B[n].action = Asked(p, S[n - 1])
    BY <2>2, SameEntry
  <2>. QED  BY <2>1, <2>2, <2>3, SameEntry
<1>. QED  BY <1>4, <1>6, <1>7

LEMMA WhatTheReportSays ==
    ASSUME BInv
    PROVE  ArmsDifferByRulings
<1>. SUFFICES ASSUME arm = "reported"
              PROVE  ArmsDifferByRulings
  BY DEF ArmsDifferByRulings
<1>. DEFINE A == ledger["backstop"]
            B == ledger["planner-unpoliced"]
<1>1. /\ IsList(A) /\ IsList(B)
      /\ Done(world, proposal, "backstop", A)
      /\ Done(world, proposal, "planner-unpoliced", B)
  BY DEF BInv, PlannedArms
<1>2. PICK S : Walk(world, proposal, "backstop", A, S) /\ S[Len(A)].pending = {}
  BY <1>1 DEF Done
<1>3. PICK T : /\ Walk(world, proposal, "planner-unpoliced", B, T)
               /\ T[Len(B)].pending = {}
  BY <1>1 DEF Done
<1>4. /\ Len(A) = Len(B)
      /\ \A n \in DOMAIN A : /\ AgreedTo(A, B, n) => A[n] = B[n]
                             /\ AgreedTo(A, B, n - 1) => A[n].ruling = B[n].ruling
  <2>. HIDE DEF A, B
  <2>. QED  BY <1>1, <1>2, <1>3, WalksCompared
<1>. QED  BY <1>4 DEF ArmsDifferByRulings, AgreedTo
-------------------------------------------------------------------------------
(* Where a permitted action lands *)

\* The same action at another moment.
At(a, t) == [a EXCEPT !.at = t]

\* What the engine knows of the moments before which an action is too early.
Timed(c) ==
    /\ Declined(c) => earliest(c) \in Int
    /\ c.outage_until # None => c.outage_until \in Int

LEMMA AtFacts ==
    ASSUME NEW ids, NEW a \in Acts(ids), NEW t \in Int
    PROVE  /\ At(a, t) \in Acts(ids)
           /\ At(a, t).at = t /\ At(a, t).type = a.type
           /\ At(a, t).channel = a.channel /\ At(a, t).subject = a.subject
           /\ is_charging(At(a, t)) <=> is_charging(a)
           /\ is_contact(At(a, t)) <=> is_contact(a)
           /\ is_inert(At(a, t)) <=> is_inert(a)
           /\ At(a, a.at) = a
BY DEF At, Acts, is_charging, is_contact, is_inert

\* The end of the quiet hours is later, and not quiet.
LEMMA QuietHoursEnd ==
    ASSUME NEW t \in Int, IsQuiet(t)
    PROVE  next_ok(t) \in Int /\ next_ok(t) > t /\ ~ IsQuiet(next_ok(t))
<1>. DEFINE e == 2 * quiet_hours_end_ist
            s == 2 * quiet_hours_start_ist
            l == (t + 11) % 48
<1>1. e \in Int /\ s \in Int /\ 0 <= e /\ e < s /\ s < 48
  BY PolicyAssumption
<1>2. l \in 0 .. 47
  OBVIOUS
<1>3. PICK d \in Int : t + 11 = 48 * d + l
  OBVIOUS
<1>4. l < e \/ l >= s
  BY DEF IsQuiet, local, e, s, l
<1>5. next_ok(t) = IF l >= s THEN t - l + e + 48 ELSE t - l + e
  BY DEF next_ok, local, e, s, l
<1>. HIDE DEF e, s, l
<1>6. \A k \in Int : (48 * k + e) % 48 = e
  BY <1>1
<1>7. PICK k \in Int : next_ok(t) + 11 = 48 * k + e
  <2>1. t - l = 48 * d - 11 /\ 48 * d - 11 + e + 48 + 11 = 48 * (d + 1) + e
    BY <1>1, <1>2, <1>3
  <2>2. next_ok(t) + 11 = 48 * (d + 1) + e \/ next_ok(t) + 11 = 48 * d + e
    BY <1>1, <1>2, <1>5, <2>1
  <2>3. d + 1 \in Int
    OBVIOUS
  <2>. QED  BY <2>2, <2>3
<1>8. local(next_ok(t)) = e
  BY <1>6, <1>7 DEF local
<1>9. ~ IsQuiet(next_ok(t))
  BY <1>1, <1>8 DEF IsQuiet, e, s
<1>10. next_ok(t) \in Int /\ next_ok(t) > t
  BY <1>1, <1>2, <1>4, <1>5
<1>. QED  BY <1>9, <1>10

LEMMA ChargingMoves ==
    ASSUME NEW a, NEW c, is_charging(a)
    PROVE  Reschedules(DEFAULT_RULES, a, c) =
             Verdict(Declined(c) /\ a.at < earliest(c), "retry_spacing", earliest(c))
             \cup Verdict(c.outage_until # None /\ a.at < c.outage_until,
                          "outage_hold", c.outage_until)
<1>1. ~ is_contact(a)
  BY DEF is_charging, is_contact, CHARGING_ACTIONS, CONTACT_ACTIONS
<1>2. "retry_spacing" \in DEFAULT_RULES /\ "outage_hold" \in DEFAULT_RULES
  BY DEF DEFAULT_RULES, TimingRules
<1>. QED  BY <1>1, <1>2 DEF Reschedules, TimingVerdicts, RetrySpacing, OutageHold,
                            QuietHours, Verdict

LEMMA ContactMoves ==
    ASSUME NEW a, NEW c, ~ is_charging(a)
    PROVE  Reschedules(DEFAULT_RULES, a, c) =
             Verdict(is_contact(a) /\ a.channel \notin {None, "email"} /\ IsQuiet(a.at),
                     "quiet_hours", next_ok(a.at))
<1>1. "quiet_hours" \in DEFAULT_RULES
  BY DEF DEFAULT_RULES, TimingRules
<1>. QED  BY <1>1 DEF Reschedules, TimingVerdicts, RetrySpacing, OutageHold, QuietHours,
                      Verdict

LEMMA Moved ==
    ASSUME NEW S, S # {}, NEW x \in Int, NEW y \in Int,
           {v.reschedule_to : v \in S} = {x, y}, NEW a
    PROVE  MovedBy(S, a) = At(a, IF x >= y THEN x ELSE y)
BY MaxOfTwo DEF MovedBy, LatestOf, At

\* One look moves it out of reach of every rule that moves.
LEMMA OneLookLands ==
    ASSUME NEW ids, NEW a \in Acts(ids), NEW c, Timed(c)
    PROVE  \E t \in Int : /\ t >= a.at
                          /\ MovedBy(Reschedules(DEFAULT_RULES, a, c), a) = At(a, t)
                          /\ Reschedules(DEFAULT_RULES, At(a, t), c) = {}
<1>. DEFINE R == DEFAULT_RULES
            e == earliest(c)
            o == c.outage_until
            v == [rule |-> "retry_spacing", reschedule_to |-> e]
            w == [rule |-> "outage_hold", reschedule_to |-> o]
            S == Reschedules(R, a, c)
<1>1. a.at \in Int
  BY DEF Acts
<1>2. CASE is_charging(a)
  <2>. DEFINE p == Declined(c)
              q == c.outage_until # None
  <2>1. (p => e \in Int) /\ (q => o \in Int)
    BY DEF Timed
  <2>2. \A t \in Int : Reschedules(R, At(a, t), c)
            = (IF p /\ t < e THEN {v} ELSE {}) \cup (IF q /\ t < o THEN {w} ELSE {})
    BY <1>2, ChargingMoves, AtFacts DEF Verdict
  <2>3. S = (IF p /\ a.at < e THEN {v} ELSE {}) \cup (IF q /\ a.at < o THEN {w} ELSE {})
    BY <1>2, ChargingMoves DEF Verdict
  <2>4. v.reschedule_to = e /\ w.reschedule_to = o
    OBVIOUS
  <2>. HIDE DEF p, q, e, o, v, w, S, R
  <2>5. CASE ~ (p /\ a.at < e) /\ ~ (q /\ a.at < o)
    <3>1. S = {}
      BY <2>3, <2>5
    <3>2. MovedBy(S, a) = At(a, a.at) /\ At(a, a.at) = a
      BY <1>1, <3>1, AtFacts DEF MovedBy
    <3>. QED  BY <1>1, <3>1, <3>2 DEF S, R
  <2>6. CASE (p /\ a.at < e) /\ ~ (q /\ a.at < o)
    <3>1. S = {v}
      BY <2>3, <2>6
    <3>2. MovedBy(S, a) = At(a, e)
      <4>1. {x.reschedule_to : x \in S} = {e} /\ S # {}
        BY <2>4, <3>1
      <4>2. {x.reschedule_to : x \in S} = {e, e} /\ e \in Int
        BY <2>1, <2>6, <4>1
      <4>. QED  BY <4>1, <4>2, Moved
    <3>3. Reschedules(R, At(a, e), c) = {} /\ e >= a.at /\ e \in Int
      BY <1>1, <2>1, <2>2, <2>6
    <3>. QED  BY <3>2, <3>3 DEF S, R
  <2>7. CASE ~ (p /\ a.at < e) /\ (q /\ a.at < o)
    <3>1. S = {w}
      BY <2>3, <2>7
    <3>2. MovedBy(S, a) = At(a, o)
      <4>1. {x.reschedule_to : x \in S} = {o} /\ S # {}
        BY <2>4, <3>1
      <4>2. {x.reschedule_to : x \in S} = {o, o} /\ o \in Int
        BY <2>1, <2>7, <4>1
      <4>. QED  BY <4>1, <4>2, Moved
    <3>3. Reschedules(R, At(a, o), c) = {} /\ o >= a.at /\ o \in Int
      BY <1>1, <2>1, <2>2, <2>7
    <3>. QED  BY <3>2, <3>3 DEF S, R
  <2>8. CASE (p /\ a.at < e) /\ (q /\ a.at < o)
    <3>. DEFINE t == IF e >= o THEN e ELSE o
    <3>1. S = {v, w}
      BY <2>3, <2>8
    <3>2. MovedBy(S, a) = At(a, t)
      <4>1. {x.reschedule_to : x \in S} = {e, o} /\ S # {} /\ e \in Int /\ o \in Int
        BY <2>1, <2>4, <2>8, <3>1
      <4>. QED  BY <4>1, Moved
    <3>3. t >= a.at /\ t \in Int /\ ~ (t < e) /\ ~ (t < o)
      BY <1>1, <2>1, <2>8
    <3>. HIDE DEF t
    <3>4. Reschedules(R, At(a, t), c) = {}
      BY <2>2, <3>3
    <3>. QED  BY <3>2, <3>3, <3>4 DEF S, R
  <2>. QED  BY <2>5, <2>6, <2>7, <2>8
<1>3. CASE ~ is_charging(a)
  <2>. DEFINE p == is_contact(a) /\ a.channel \notin {None, "email"}
              x(t) == [rule |-> "quiet_hours", reschedule_to |-> next_ok(t)]
  <2>1. \A t \in Int : Reschedules(R, At(a, t), c) = IF p /\ IsQuiet(t) THEN {x(t)} ELSE {}
    BY <1>3, ContactMoves, AtFacts DEF Verdict
  <2>2. S = IF p /\ IsQuiet(a.at) THEN {x(a.at)} ELSE {}
    BY <1>3, ContactMoves DEF Verdict
  <2>3. x(a.at).reschedule_to = next_ok(a.at)
    OBVIOUS
  <2>. HIDE DEF p, x, S, R
  <2>4. CASE p /\ IsQuiet(a.at)
    <3>1. next_ok(a.at) \in Int /\ next_ok(a.at) > a.at /\ ~ IsQuiet(next_ok(a.at))
      BY <1>1, <2>4, QuietHoursEnd
    <3>2. MovedBy(S, a) = At(a, next_ok(a.at))
      <4>1. {y.reschedule_to : y \in S} = {next_ok(a.at)} /\ S # {}
        BY <2>2, <2>3, <2>4
      <4>2. {y.reschedule_to : y \in S} = {next_ok(a.at), next_ok(a.at)}
        BY <4>1
      <4>. QED  BY <3>1, <4>1, <4>2, Moved
    <3>3. Reschedules(R, At(a, next_ok(a.at)), c) = {} /\ next_ok(a.at) >= a.at
      BY <1>1, <2>1, <3>1
    <3>. QED  BY <3>1, <3>2, <3>3 DEF S, R
  <2>5. CASE ~ (p /\ IsQuiet(a.at))
    <3>1. S = {}
      BY <2>2, <2>5
    <3>2. MovedBy(S, a) = At(a, a.at) /\ At(a, a.at) = a
      BY <1>1, <3>1, AtFacts DEF MovedBy
    <3>. QED  BY <1>1, <3>1, <3>2 DEF S, R
  <2>. QED  BY <2>4, <2>5
<1>. QED  BY <1>2, <1>3

\* What is permitted lands there, and what no rule moves stays.
LEMMA Landing ==
    ASSUME NEW ids, NEW a \in Acts(ids), NEW c, Timed(c), denials(DEFAULT_RULES, a, c) = {}
    PROVE  \E t \in Int : /\ t >= a.at
                          /\ evaluate(DEFAULT_RULES, a, c).final = At(a, t)
                          /\ Reschedules(DEFAULT_RULES, At(a, t), c) = {}
<1>. DEFINE S == Reschedules(DEFAULT_RULES, a, c)
            first == [final |-> MovedBy(S, a), moves |-> S]
<1>1. PICK t \in Int : /\ t >= a.at /\ MovedBy(S, a) = At(a, t)
                       /\ Reschedules(DEFAULT_RULES, At(a, t), c) = {}
  BY OneLookLands
<1>2. Settle(DEFAULT_RULES, c, first) = first
  <2>1. MovedBy({}, At(a, t)) = At(a, t)
    BY DEF MovedBy
  <2>2. first.final = At(a, t) /\ At(a, t).at = t
    BY <1>1, AtFacts
  <2>. HIDE DEF first
  <2>. QED  BY <1>1, <2>1, <2>2 DEF Settle
<1>3. Scheduled(DEFAULT_RULES, a, c) = first
  <2>. HIDE DEF first, S
  <2>. QED  BY <1>2 DEF Scheduled, first, S
<1>4. evaluate(DEFAULT_RULES, a, c).final = MovedBy(S, a)
  BY <1>3 DEF evaluate
<1>. QED  BY <1>1, <1>4

LEMMA StaysPut ==
    ASSUME NEW a, NEW c, denials(DEFAULT_RULES, a, c) = {},
           Reschedules(DEFAULT_RULES, a, c) = {}
    PROVE  evaluate(DEFAULT_RULES, a, c).final = a
BY DEF evaluate, Scheduled, MovedBy
-------------------------------------------------------------------------------
(* What ran, and what was on record when it was looked at *)

\* The moments that a subject of the batch imposes are moments.
LEMMA ContextTimed ==
    ASSUME NEW w, IsBatch(w), NEW p, TypedProposal(w, p),
           NEW a \in Acts(DOMAIN w.subjects), NEW contacts
    PROVE  Timed(ContextIn(w, p, a, contacts))
<1>. DEFINE s == w.subjects[a.subject]
            c == ContextIn(w, p, a, contacts)
<1>1. c.order = s.order /\ c.outage_until = Known(p.outage, a.subject)
  BY DEF ContextIn
<1>2. IsSubject(s)
  BY BatchFacts DEF Acts
<1>. HIDE DEF c, s
<1>3. c.outage_until # None => c.outage_until \in Int
  BY <1>1 DEF Known, TypedProposal
<1>4. ASSUME Declined(c)
      PROVE  earliest(c) \in Int
  <2>1. c.order # None /\ last_decline(c) = c.order.last_attempt.code
        /\ last_decline(c) # None
    BY <1>4 DEF Declined, last_decline
  <2>2. c.order.last_attempt.at \in Int /\ c.order.last_attempt.code \in Code \cup {None}
    BY <1>1, <1>2, <2>1 DEF IsSubject, surface
  <2>3. \A code \in Code : DECLINE_SPECS[code].min_retry_delay \in Int
    BY DEF Code, DECLINE_SPECS, Decline
  <2>. QED  BY <2>1, <2>2, <2>3 DEF earliest, spec
<1>. QED  BY <1>3, <1>4 DEF Timed, c

\* The next action is one of the proposals.
LEMMA AskedIsAct ==
    ASSUME NEW w, NEW p, TypedProposal(w, p), NEW st,
           st.pending \subseteq DOMAIN p.actions, st.pending # {}
    PROVE  Asked(p, st) \in Acts(DOMAIN w.subjects)
<1>1. Within(p.actions, Acts(DOMAIN w.subjects))
  BY DEF TypedProposal
<1>2. \A n \in DOMAIN p.actions : p.actions[n].at \in Int
  BY <1>1 DEF Within, Acts
<1>3. NextOf(p.actions, st.pending) \in st.pending
  BY <1>1, <1>2, NextIsPending DEF NextOf, Within
<1>. QED  BY <1>1, <1>3 DEF Asked, Within

\* t is s, perhaps with one more.
OneMoreAtMost(s, t) == t = s \/ \E x : t = Append(s, x)

LEMMA StepBook ==
    ASSUME NEW w, NEW p, NEW who, NEW st
    PROVE  OneMoreAtMost(st.book, Onward(w, p, who, st).book)
BY DEF OneMoreAtMost, Onward, Left_alone, Worked

LEMMA PerhapsOneMore ==
    ASSUME NEW s, IsList(s), NEW t, OneMoreAtMost(s, t)
    PROVE  IsList(t) /\ \A n \in DOMAIN s : n \in DOMAIN t /\ t[n] = s[n]
<1>1. CASE t = s
  BY <1>1
<1>2. ASSUME NEW x, t = Append(s, x)
      PROVE  IsList(t) /\ \A n \in DOMAIN s : n \in DOMAIN t /\ t[n] = s[n]
  BY <1>2, AppendList
<1>. QED  BY <1>1, <1>2 DEF OneMoreAtMost

\* At every standing what is left is proposed, and the book is a list.
LEMMA WalkShape ==
    ASSUME NEW w, NEW p, NEW who, NEW A, IsList(A), NEW T, Walk(w, p, who, A, T)
    PROVE  \A k \in 0 .. Len(A) : T[k].pending \subseteq DOMAIN p.actions /\ IsList(T[k].book)
<1>. DEFINE Good(k) == T[k].pending \subseteq DOMAIN p.actions /\ IsList(T[k].book)
            Bad == {k \in 0 .. Len(A) : ~ Good(k)}
<1>1. Len(A) \in Nat
  BY ListFacts
<1>2. /\ T[0] = Start(p)
      /\ \A k \in 1 .. Len(A) : T[k] = Onward(w, p, who, T[k - 1])
  BY DEF Walk
<1>3. Good(0)
  BY <1>2, EmptyList DEF Start
<1>4. ASSUME NEW k \in 1 .. Len(A), Good(k - 1)
      PROVE  Good(k)
  <2>1. T[k] = Onward(w, p, who, T[k - 1])
    BY <1>2
  <2>2. T[k].pending \subseteq T[k - 1].pending
    BY <2>1, OnwardPending
  <2>3. OneMoreAtMost(T[k - 1].book, T[k].book)
    BY <2>1, StepBook
  <2>4. IsList(T[k].book)
    BY <1>4, <2>3, PerhapsOneMore
  <2>. QED  BY <1>4, <2>2, <2>4
<1>. HIDE DEF Good
<1>5. SUFFICES ASSUME Bad # {}
               PROVE  FALSE
  BY DEF Good
<1>6. PICK k \in Bad : \A j \in Bad : k <= j
  <2>1. Bad \in SUBSET Nat
    OBVIOUS
  <2>. HIDE DEF Bad
  <2>. QED  BY <1>5, <2>1, LeastNumber
<1>7. k \in 1 .. Len(A) /\ k - 1 \in 0 .. Len(A) /\ k - 1 < k /\ ~ Good(k)
  BY <1>1, <1>3, <1>6
<1>8. Good(k - 1)
  <2>1. k - 1 \notin Bad
    <3>. HIDE DEF Bad
    <3>. QED  BY <1>6, <1>7
  <2>. QED  BY <1>7, <2>1
<1>. QED  BY <1>4, <1>7, <1>8

\* What is on record stays on record.
LEMMA BookGrows ==
    ASSUME NEW w, NEW p, NEW who, NEW A, IsList(A), NEW T, Walk(w, p, who, A, T),
           NEW i \in 0 .. Len(A)
    PROVE  \A j \in i .. Len(A) : \A n \in DOMAIN T[i].book :
              n \in DOMAIN T[j].book /\ T[j].book[n] = T[i].book[n]
<1>. DEFINE Good(j) == \A n \in DOMAIN T[i].book :
                          n \in DOMAIN T[j].book /\ T[j].book[n] = T[i].book[n]
            Bad == {j \in i .. Len(A) : ~ Good(j)}
<1>1. Len(A) \in Nat
  BY ListFacts
<1>2. \A k \in 1 .. Len(A) : T[k] = Onward(w, p, who, T[k - 1])
  BY DEF Walk
<1>3. Good(i)
  OBVIOUS
<1>4. ASSUME NEW k \in i + 1 .. Len(A), Good(k - 1)
      PROVE  Good(k)
  <2>1. k \in 1 .. Len(A) /\ k - 1 \in 0 .. Len(A)
    BY <1>1
  <2>2. OneMoreAtMost(T[k - 1].book, T[k].book)
    BY <1>2, <2>1, StepBook
  <2>3. IsList(T[k - 1].book)
    BY <2>1, WalkShape
  <2>4. \A n \in DOMAIN T[k - 1].book :
            n \in DOMAIN T[k].book /\ T[k].book[n] = T[k - 1].book[n]
    BY <2>2, <2>3, PerhapsOneMore
  <2>. QED  BY <1>4, <2>4
<1>. HIDE DEF Good
<1>5. SUFFICES ASSUME Bad # {}
               PROVE  FALSE
  BY DEF Good
<1>6. PICK k \in Bad : \A j \in Bad : k <= j
  <2>1. Bad \in SUBSET Nat
    OBVIOUS
  <2>. HIDE DEF Bad
  <2>. QED  BY <1>5, <2>1, LeastNumber
<1>7. k \in i + 1 .. Len(A) /\ k - 1 \in i .. Len(A) /\ k - 1 < k /\ ~ Good(k)
  BY <1>1, <1>3, <1>6
<1>8. Good(k - 1)
  <2>1. k - 1 \notin Bad
    <3>. HIDE DEF Bad
    <3>. QED  BY <1>6, <1>7
  <2>. QED  BY <1>7, <2>1
<1>. QED  BY <1>4, <1>7, <1>8

\* The m-th action of the enforced arm ran: it was a proposal, a, that nothing
\* spoke against when it was looked at, and it ran at t, where nothing moves it.
RanAs(w, p, A, T, m, a, t) ==
    LET c == ContextIn(w, p, a, T[m - 1].book)
    IN  /\ a \in Acts(DOMAIN w.subjects) /\ t \in Int /\ t >= a.at
        /\ A[m].action = At(a, t) /\ A[m].execution.at = t
        /\ denials(DEFAULT_RULES, a, c) = {}
        /\ Reschedules(DEFAULT_RULES, At(a, t), c) = {}
        /\ T[m].book = IF Recorded(At(a, t))
                       THEN Append(T[m - 1].book, ContactIn(w, At(a, t), t))
                       ELSE T[m - 1].book

LEMMA WhatRan ==
    ASSUME NEW w, IsBatch(w), NEW p, TypedProposal(w, p), NEW A, IsList(A), NEW T,
           Walk(w, p, "backstop", A, T), NEW m \in 1 .. Len(A), A[m].execution # None
    PROVE  \E a, t : RanAs(w, p, A, T, m, a, t)
<1>. DEFINE st == T[m - 1]
            a == Asked(p, st)
            c == ContextIn(w, p, a, st.book)
<1>1. /\ st.pending # {} /\ A[m] = Entry(w, p, "backstop", st)
      /\ T[m] = Onward(w, p, "backstop", st)
  BY DEF Walk
<1>2. a \in Acts(DOMAIN w.subjects)
  <2>1. m - 1 \in 0 .. Len(A)
    BY ListFacts
  <2>2. st.pending \subseteq DOMAIN p.actions
    BY <2>1, WalkShape
  <2>. QED  BY <1>1, <2>2, AskedIsAct
<1>3. Timed(c)
  BY <1>2, ContextTimed
<1>4. Ruling(w, p, st) = evaluate(DEFAULT_RULES, a, c)
  BY DEF Ruling
<1>5. ~ Refused(w, p, "backstop", st)
  <2>1. ASSUME Refused(w, p, "backstop", st)
        PROVE  A[m].execution = None
    BY <1>1, <2>1 DEF Entry, EntryIn
  <2>. QED  BY <2>1
<1>. HIDE DEF st, a, c
<1>6. denials(DEFAULT_RULES, a, c) = {}
  <2>1. ASSUME denials(DEFAULT_RULES, a, c) # {}
        PROVE  Refused(w, p, "backstop", st)
    <3>1. evaluate(DEFAULT_RULES, a, c).disposition = "deny"
      BY <2>1 DEF evaluate
    <3>. QED  BY <1>4, <3>1 DEF Refused, allowed
  <2>. QED  BY <1>5, <2>1
<1>7. PICK t \in Int : /\ t >= a.at /\ evaluate(DEFAULT_RULES, a, c).final = At(a, t)
                       /\ Reschedules(DEFAULT_RULES, At(a, t), c) = {}
  BY <1>2, <1>3, <1>6, Landing
<1>8. Final(w, p, "backstop", st) = At(a, t)
  BY <1>4, <1>7 DEF Final
<1>9. At(a, t).at = t
  BY <1>2, AtFacts
<1>10. A[m].action = At(a, t) /\ A[m].execution = Brings(w, At(a, t), st.settled)
  BY <1>1, <1>5, <1>8 DEF Entry, EntryIn
<1>11. Brings(w, At(a, t), st.settled).at = t
  BY <1>9 DEF Brings, execute, Result
<1>12. T[m].book = IF Recorded(At(a, t))
                   THEN Append(st.book, ContactIn(w, At(a, t), t)) ELSE st.book
  BY <1>1, <1>5, <1>8, <1>9 DEF Onward, Worked
<1>13. RanAs(w, p, A, T, m, a, t)
  BY <1>2, <1>6, <1>7, <1>10, <1>11, <1>12 DEF RanAs, c, st
<1>. QED  BY <1>13
-------------------------------------------------------------------------------
(* The contacts of the enforced arm *)

\* The actions that ran, and those of them that are on record as contacts.
Ran(A) == {m \in DOMAIN A : A[m].execution # None}
Contacted(A) == {m \in Ran(A) : Recorded(A[m].action)}

\* What the m-th action left in the book.
Booked(w, A, m) == ContactIn(w, A[m].action, A[m].execution.at)

\* A contact is on record from the standing after it.
LEMMA OnRecord ==
    ASSUME NEW w, IsBatch(w), NEW p, TypedProposal(w, p), NEW A, IsList(A), NEW T,
           Walk(w, p, "backstop", A, T), NEW m \in Contacted(A)
    PROVE  /\ Len(T[m].book) \in DOMAIN T[m].book
           /\ Len(T[m].book) \notin DOMAIN T[m - 1].book
           /\ T[m].book[Len(T[m].book)] = Booked(w, A, m)
<1>1. /\ m \in 1 .. Len(A) /\ A[m].execution # None /\ Recorded(A[m].action)
      /\ m - 1 \in 0 .. Len(A) /\ m \in 0 .. Len(A)
  BY ListFacts DEF Contacted, Ran
<1>2. PICK a, t : RanAs(w, p, A, T, m, a, t)
  BY <1>1, WhatRan
<1>3. PICK s, r, x : s = T[m - 1].book /\ r = T[m].book /\ x = Booked(w, A, m)
  OBVIOUS
<1>4. r = Append(s, x)
  BY <1>1, <1>2, <1>3 DEF RanAs, Booked
<1>5. IsList(s) /\ IsList(r)
  BY <1>1, <1>3, WalkShape
<1>6. /\ DOMAIN r = DOMAIN s \cup {Len(s) + 1} /\ Len(s) + 1 \notin DOMAIN s
      /\ r[Len(s) + 1] = x
  BY <1>4, <1>5, AppendList
<1>7. Len(r) = Len(s) + 1
  <2>1. Len(s) \in Nat /\ DOMAIN s = 1 .. Len(s) /\ Len(r) \in Nat /\ DOMAIN r = 1 .. Len(r)
    BY <1>5, ListFacts
  <2>2. PICK i, j \in Nat : i = Len(r) /\ j = Len(s)
    BY <2>1
  <2>3. 1 .. i = 1 .. j \cup {j + 1}
    BY <1>6, <2>1, <2>2
  <2>4. j + 1 \in 1 .. i /\ (i # 0 => i \in 1 .. j + 1)
    BY <2>3
  <2>5. i = j + 1
    BY <2>4
  <2>. QED  BY <2>2, <2>5
<1>. QED  BY <1>3, <1>6, <1>7

\* What is on record at some point stays on record.
LEMMA BookKept ==
    ASSUME NEW w, NEW p, NEW who, NEW A, IsList(A), NEW T, Walk(w, p, who, A, T),
           NEW i \in 0 .. Len(A), NEW j \in i .. Len(A), NEW n \in DOMAIN T[i].book
    PROVE  n \in DOMAIN T[j].book /\ T[j].book[n] = T[i].book[n]
<1>1. n \in DOMAIN T[j].book
  BY BookGrows
<1>2. T[j].book[n] = T[i].book[n]
  BY BookGrows
<1>. QED  BY <1>1, <1>2

\* As many are in the book before the l-th action as were left there.
LEMMA AsManyOnRecord ==
    ASSUME NEW w, IsBatch(w), NEW p, TypedProposal(w, p), NEW A, IsList(A), NEW T,
           Walk(w, p, "backstop", A, T), NEW l \in DOMAIN A,
           NEW K \in SUBSET Contacted(A), \A m \in K : m < l,
           NEW Q, Q \subseteq DOMAIN T[l - 1].book,
           \A k \in DOMAIN T[l - 1].book : 
              (\E m \in K : T[l - 1].book[k] = Booked(w, A, m)) => k \in Q
    PROVE  IsFiniteSet(Q) /\ Cardinality(K) <= Cardinality(Q)
<1>. DEFINE place == [m \in K |-> Len(T[m].book)]
<1>1. /\ Len(A) \in Nat /\ DOMAIN A = 1 .. Len(A) /\ l - 1 \in 0 .. Len(A)
      /\ \A m \in K : m \in 0 .. Len(A) /\ l - 1 \in m .. Len(A)
  BY ListFacts DEF Contacted, Ran
<1>2. IsFiniteSet(Q)
  <2>1. IsList(T[l - 1].book)
    BY <1>1, WalkShape
  <2>2. PICK j \in Nat : DOMAIN T[l - 1].book = 1 .. j
    BY <2>1, ListFacts
  <2>3. IsFiniteSet(1 .. j) /\ Q \in SUBSET (1 .. j)
    BY <2>2, FS_Interval
  <2>. QED  BY <2>3, FS_Subset
<1>3. ASSUME NEW m \in K
      PROVE  place[m] \in Q
  <2>1. /\ Len(T[m].book) \in DOMAIN T[m].book
        /\ T[m].book[Len(T[m].book)] = Booked(w, A, m)
    BY OnRecord
  <2>2. PICK j, x : j = l - 1 /\ x = Len(T[m].book)
    OBVIOUS
  <2>3. m \in 0 .. Len(A) /\ j \in m .. Len(A) /\ x \in DOMAIN T[m].book
    BY <1>1, <2>1, <2>2
  <2>4. x \in DOMAIN T[j].book /\ T[j].book[x] = T[m].book[x]
    <3>1. x \in DOMAIN T[j].book
      BY <2>3, BookKept
    <3>2. T[j].book[x] = T[m].book[x]
      BY <2>3, BookKept
    <3>. QED  BY <3>1, <3>2
  <2>5. x \in DOMAIN T[l - 1].book /\ T[l - 1].book[x] = Booked(w, A, m)
    <3>1. T[m].book[x] = Booked(w, A, m)
      BY <2>1, <2>2
    <3>2. x \in DOMAIN T[l - 1].book /\ T[l - 1].book[x] = T[m].book[x]
      BY Zenon, <2>2, <2>4
    <3>. QED  BY Zenon, <3>1, <3>2
  <2>6. x \in Q
    <3>. HIDE DEF place
    <3>. QED  BY <2>5
  <2>. QED  BY <2>2, <2>6
<1>4. ASSUME NEW m \in K, NEW n \in K, m < n
      PROVE  place[m] # place[n]
  <2>1. Len(T[m].book) \in DOMAIN T[m].book /\ Len(T[n].book) \notin DOMAIN T[n - 1].book
    BY OnRecord
  <2>2. m \in 0 .. Len(A) /\ n - 1 \in m .. Len(A)
    <3>1. m \in 0 .. Len(A) /\ n \in 0 .. Len(A) /\ Len(A) \in Nat
      BY <1>1
    <3>. QED  BY <1>4, <3>1
  <2>3. Len(T[m].book) \in DOMAIN T[n - 1].book
    <3>1. PICK j, x : j = n - 1 /\ x = Len(T[m].book)
      OBVIOUS
    <3>2. m \in 0 .. Len(A) /\ j \in m .. Len(A) /\ x \in DOMAIN T[m].book
      BY <2>1, <2>2, <3>1
    <3>3. x \in DOMAIN T[j].book
      BY <3>2, BookKept
    <3>. QED  BY <3>1, <3>3
  <2>. QED  BY <2>1, <2>3
<1>5. \A m, n \in K : m # n => m < n \/ n < m
  <2>1. \A m \in K : m \in 0 .. Len(A)
    BY <1>1
  <2>2. \A m, n \in 0 .. Len(A) : m # n => m < n \/ n < m
    BY <1>1
  <2>. QED  BY <2>1, <2>2
<1>6. place \in [K -> Q] /\ \A m, n \in K : place[m] = place[n] => m = n
  <2>1. place \in [K -> Q]
    BY <1>3
  <2>. HIDE DEF place
  <2>. QED  BY <1>4, <1>5, <2>1
<1>7. place \in Injection(K, Q)
  <2>. HIDE DEF place
  <2>. QED  BY <1>6 DEF Injection, IsInjective
<1>. QED  BY <1>2, <1>7, FS_Injection

\* Of some and one more, the last one has as many before it as there are some.
LEMMA LastOfThem ==
    ASSUME NEW k \in Nat, NEW W \in SUBSET (1 .. k), NEW n \in 1 .. k, n \notin W
    PROVE  \E l \in W \cup {n} : 
              /\ Cardinality((W \cup {n}) \ {l}) = Cardinality(W)
              /\ \A m \in (W \cup {n}) \ {l} : m < l
<1>. DEFINE K == W \cup {n}
            l == Max(K)
<1>1. K \in SUBSET (1 .. k) /\ K # {}
  OBVIOUS
<1>2. l \in K /\ \A m \in K : m <= l
  <2>. HIDE DEF K
  <2>. QED  BY <1>1, GreatestNumber
<1>3. IsFiniteSet(W)
  <2>1. IsFiniteSet(1 .. k)
    BY FS_Interval
  <2>. QED  BY <2>1, FS_Subset
<1>4. /\ Cardinality(W) \in Nat /\ IsFiniteSet(K)
      /\ Cardinality(K) = Cardinality(W) + 1
  BY <1>3, FS_AddElement, FS_CardinalityType
<1>5. Cardinality(K \ {l}) = Cardinality(K) - 1
  <2>. HIDE DEF K, l
  <2>. QED  BY <1>2, <1>4, FS_RemoveElement
<1>6. \A m \in K \ {l} : m < l
  <2>1. \A m \in K : m \in Int
    BY <1>1
  <2>. HIDE DEF K, l
  <2>. QED  BY <1>2, <2>1
<1>7. Cardinality(K \ {l}) = Cardinality(W)
  <2>. HIDE DEF K, l
  <2>. QED  BY <1>4, <1>5
<1>. HIDE DEF l
<1>. QED  BY <1>2, <1>6, <1>7
-------------------------------------------------------------------------------
(* The caps on contacts, as they are found afterwards *)

LEMMA WhenItRan ==
    ASSUME NEW w, IsBatch(w), NEW p, TypedProposal(w, p), NEW A, IsList(A), NEW T,
           Walk(w, p, "backstop", A, T), NEW m \in Ran(A)
    PROVE  m \in 1 .. Len(A) /\ A[m].execution.at \in Int
<1>1. m \in 1 .. Len(A) /\ A[m].execution # None
  BY ListFacts DEF Ran
<1>2. PICK a, t : RanAs(w, p, A, T, m, a, t)
  BY <1>1, WhatRan
<1>3. A[m].execution.at = t /\ t \in Int
  BY <1>2 DEF RanAs
<1>. QED  BY <1>1, <1>3

\* Some contacts in the window before another one.
InWindow(A, n, W) ==
    \A m \in W : /\ A[m].execution.at <= A[n].execution.at
                 /\ A[m].execution.at >= A[n].execution.at - contact_window

\* The l-th was the last of these to be looked at, and had the others in its window.
LookedAtLast(w, p, A, T, n, W, l, a, t) ==
    /\ RanAs(w, p, A, T, l, a, t)
    /\ Cardinality((W \cup {n}) \ {l}) = Cardinality(W)
    /\ \A m \in (W \cup {n}) \ {l} :
          m < l /\ A[m].execution.at >= a.at - contact_window

LEMMA LastLook ==
    ASSUME NEW w, IsBatch(w), NEW p, TypedProposal(w, p), NEW A, IsList(A), NEW T,
           Walk(w, p, "backstop", A, T), NEW n \in Contacted(A),
           NEW W \in SUBSET Contacted(A), n \notin W, InWindow(A, n, W)
    PROVE  \E l \in W \cup {n} : \E a, t : LookedAtLast(w, p, A, T, n, W, l, a, t)
<1>. DEFINE K == W \cup {n}
<1>1. Len(A) \in Nat /\ \A m \in K : m \in Ran(A) /\ m \in 1 .. Len(A)
  BY ListFacts, WhenItRan DEF Contacted
<1>2. PICK l \in K : /\ Cardinality(K \ {l}) = Cardinality(W)
                     /\ \A m \in K \ {l} : m < l
  <2>1. PICK k \in Nat : W \in SUBSET (1 .. k) /\ n \in 1 .. k
    BY <1>1
  <2>2. n \notin W
    OBVIOUS
  <2>. QED  BY <2>1, <2>2, LastOfThem
<1>3. PICK a, t : RanAs(w, p, A, T, l, a, t)
  <2>1. l \in 1 .. Len(A) /\ A[l].execution # None
    BY <1>1 DEF Ran
  <2>. QED  BY <2>1, WhatRan
<1>4. A[l].execution.at = t /\ t \in Int /\ t >= a.at /\ a.at \in Int
  BY <1>3 DEF RanAs, Acts
<1>5. \A m \in K : A[m].execution.at \in Int
  BY <1>1, WhenItRan
<1>6. contact_window \in Nat
  BY PolicyAssumption
<1>8. \A m \in W : /\ A[m].execution.at <= A[n].execution.at
                   /\ A[m].execution.at >= A[n].execution.at - contact_window
  BY DEF InWindow
<1>7. ASSUME NEW m \in K \ {l}
      PROVE  A[m].execution.at >= a.at - contact_window
  <2>1. PICK x, y : x = A[m].execution.at /\ y = A[n].execution.at
    OBVIOUS
  <2>2. x \in Int /\ y \in Int
    BY <1>5, <2>1
  <2>3. t <= y
    <3>1. l = n \/ l \in W
      OBVIOUS
    <3>2. CASE l = n
      BY <1>4, <2>1, <3>2
    <3>3. CASE l \in W
      BY <1>4, <1>8, <2>1, <3>3
    <3>. QED  BY <3>1, <3>2, <3>3
  <2>4. x >= y - contact_window
    <3>1. m = n \/ m \in W
      OBVIOUS
    <3>2. CASE m = n
      <4>1. x = y
        BY <2>1, <3>2
      <4>. QED  BY <1>6, <2>2, <4>1
    <3>3. CASE m \in W
      BY <1>8, <2>1, <3>3
    <3>. QED  BY <3>1, <3>2, <3>3
  <2>5. x >= a.at - contact_window
    BY <1>4, <1>6, <2>2, <2>3, <2>4
  <2>. QED  BY <2>1, <2>5
<1>. QED  BY <1>2, <1>3, <1>7 DEF LookedAtLast

\* What it takes for nobody to object.
Unopposed(a, c) ==
    /\ ~ FraudBlock(a, c)
    /\ ~ DisputeFreeze(a, c)
    /\ ~ PromiseToPayHolds(a, c)
    /\ ~ RevokedMandate(a, c)
    /\ ~ CancelledSubscription(a, c)
    /\ ~ NonRetryableDecline(a, c)
    /\ ~ DiagnosisGate(a, c)
    /\ ~ RetryBudget(a, c)
    /\ ~ Consent(a, c)
    /\ ~ ContactFrequency(a, c)
    /\ ~ ContactFatigue(a, c)
    /\ ~ CostOfRecovery(a, c)

LEMMA NobodyObjects ==
    ASSUME NEW a, NEW c
    PROVE  denials(DEFAULT_RULES, a, c) = {} <=> Unopposed(a, c)
<1>1. denials(DEFAULT_RULES, a, c) = {} <=> \A r \in DenyRules : ~ Objections(a, c)[r]
  BY DEF denials, DEFAULT_RULES
<1>2. (\A r \in DenyRules : ~ Objections(a, c)[r]) <=>
          /\ ~ Objections(a, c)["fraud_block"]
          /\ ~ Objections(a, c)["dispute_freeze"]
          /\ ~ Objections(a, c)["promise_to_pay"]
          /\ ~ Objections(a, c)["revoked_mandate"]
          /\ ~ Objections(a, c)["cancelled_subscription"]
          /\ ~ Objections(a, c)["non_retryable_decline"]
          /\ ~ Objections(a, c)["diagnosis_gate"]
          /\ ~ Objections(a, c)["retry_budget"]
          /\ ~ Objections(a, c)["contact_consent"]
          /\ ~ Objections(a, c)["contact_frequency"]
          /\ ~ Objections(a, c)["contact_fatigue"]
          /\ ~ Objections(a, c)["cost_of_recovery"]
  BY DEF DenyRules
<1>3. /\ Objections(a, c)["fraud_block"] = FraudBlock(a, c)
      /\ Objections(a, c)["dispute_freeze"] = DisputeFreeze(a, c)
      /\ Objections(a, c)["promise_to_pay"] = PromiseToPayHolds(a, c)
      /\ Objections(a, c)["revoked_mandate"] = RevokedMandate(a, c)
      /\ Objections(a, c)["cancelled_subscription"] = CancelledSubscription(a, c)
      /\ Objections(a, c)["non_retryable_decline"] = NonRetryableDecline(a, c)
      /\ Objections(a, c)["diagnosis_gate"] = DiagnosisGate(a, c)
      /\ Objections(a, c)["retry_budget"] = RetryBudget(a, c)
      /\ Objections(a, c)["contact_consent"] = Consent(a, c)
      /\ Objections(a, c)["contact_frequency"] = ContactFrequency(a, c)
      /\ Objections(a, c)["contact_fatigue"] = ContactFatigue(a, c)
      /\ Objections(a, c)["cost_of_recovery"] = CostOfRecovery(a, c)
  BY DEF Objections
<1>. QED  BY Zenon, <1>1, <1>2, <1>3 DEF Unopposed

\* How many of these entries of a book are within the window.
LEMMA RecentEntries ==
    ASSUME NEW B, NEW S, NEW c, NEW f, f = [k \in S |-> B[k].at],
           NEW Q, Q = {k \in S : B[k].at >= c.now - contact_window}
    PROVE  Recent(f, c) = Cardinality(Q)
<1>1. {k \in DOMAIN f : f[k] >= c.now - contact_window} = Q
  OBVIOUS
<1>. QED  BY <1>1 DEF Recent

\* Of the contacts about a subject there are no more in a window than its cap.
LEMMA SubjectCap ==
    ASSUME NEW w, IsBatch(w), NEW p, TypedProposal(w, p), NEW A, IsList(A), NEW T,
           Walk(w, p, "backstop", A, T), NEW n \in Contacted(A),
           NEW W \in SUBSET Contacted(A), n \notin W,
           InWindow(A, n, W),
           \A m \in W : Booked(w, A, m).subject = Booked(w, A, n).subject
    PROVE  Cardinality(W) < max_contacts_per_subject
<1>1. PICK l \in W \cup {n} : \E a, t : LookedAtLast(w, p, A, T, n, W, l, a, t)
  BY LastLook
<1>2. PICK a, t : LookedAtLast(w, p, A, T, n, W, l, a, t)
  BY <1>1
<1>. DEFINE B == T[l - 1].book
            c == ContextIn(w, p, a, B)
            s == a.subject
            S == {k \in DOMAIN B : B[k].subject = s}
            Q == {k \in S : B[k].at >= a.at - contact_window}
            K == (W \cup {n}) \ {l}
<1>3. l \in DOMAIN A /\ l \in Contacted(A) /\ K \in SUBSET Contacted(A)
  BY DEF Contacted, Ran
<1>4. /\ A[l].action = At(a, t) /\ a \in Acts(DOMAIN w.subjects) /\ t \in Int
      /\ denials(DEFAULT_RULES, a, c) = {}
  BY <1>2 DEF LookedAtLast, RanAs
<1>5. is_contact(a) /\ At(a, t).subject = a.subject
  BY <1>3, <1>4, AtFacts DEF Contacted, Recorded
<1>6. ~ ContactFrequency(a, c)
  BY <1>4, NobodyObjects DEF Unopposed
<1>7. c.now = a.at /\ c.contacts = [k \in S |-> B[k].at]
  BY DEF ContextIn
<1>8. \A m \in W \cup {n} : Booked(w, A, m).subject = s
  <2>1. Booked(w, A, l).subject = s
    BY <1>4, <1>5 DEF Booked, ContactIn
  <2>2. \A m \in W \cup {n} : Booked(w, A, m).subject = Booked(w, A, n).subject
    OBVIOUS
  <2>. HIDE DEF s
  <2>. QED  BY <2>1, <2>2
<1>. HIDE DEF c, s
<1>9. Recent(c.contacts, c) = Cardinality(Q)
  <2>1. PICK f : f = [k \in S |-> B[k].at]
    OBVIOUS
  <2>2. PICK U : U = Q
    OBVIOUS
  <2>3. U = {k \in S : B[k].at >= c.now - contact_window}
    BY <1>7, <2>2
  <2>. HIDE DEF S, B, Q
  <2>4. Recent(f, c) = Cardinality(U)
    BY <2>1, <2>3, RecentEntries
  <2>. QED  BY <1>7, <2>1, <2>2, <2>4
<1>10. IsFiniteSet(Q) /\ Cardinality(K) <= Cardinality(Q)
  <2>1. \A m \in K : m < l
    BY <1>2 DEF LookedAtLast
  <2>2. Q \subseteq DOMAIN B
    OBVIOUS
  <2>3. ASSUME NEW k \in DOMAIN B, NEW m \in K, B[k] = Booked(w, A, m)
        PROVE  k \in Q
    <3>1. B[k].subject = s
      BY <1>8, <2>3
    <3>2. B[k].at = A[m].execution.at
      BY <2>3 DEF Booked, ContactIn
    <3>3. A[m].execution.at >= a.at - contact_window
      BY <1>2 DEF LookedAtLast
    <3>. QED  BY <3>1, <3>2, <3>3
  <2>4. \A k \in DOMAIN B : (\E m \in K : B[k] = Booked(w, A, m)) => k \in Q
    BY <2>3
  <2>. HIDE DEF Q, K
  <2>5. IsFiniteSet(Q)
    <3>1. l - 1 \in 0 .. Len(A)
      BY <1>3, ListFacts
    <3>2. IsList(B)
      BY <3>1, WalkShape
    <3>3. PICK j \in Nat : DOMAIN B = 1 .. j
      BY <3>2, ListFacts
    <3>4. IsFiniteSet(1 .. j)
      BY FS_Interval
    <3>. QED  BY <2>2, <3>3, <3>4, FS_Subset
  <2>6. Cardinality(K) <= Cardinality(Q)
    BY <1>3, <2>1, <2>2, <2>4, AsManyOnRecord
  <2>. QED  BY <2>5, <2>6
<1>. HIDE DEF Q, K
<1>11. Cardinality(Q) \in Nat /\ max_contacts_per_subject \in Nat
  BY <1>10, FS_CardinalityType, PolicyAssumption
<1>12. ~ (Cardinality(Q) >= max_contacts_per_subject)
  BY <1>5, <1>6, <1>9 DEF ContactFrequency
<1>13. Cardinality(K) = Cardinality(W) /\ Cardinality(K) \in Nat
  <2>1. PICK k \in Nat : W \in SUBSET (1 .. k)
    BY ListFacts DEF Contacted, Ran
  <2>2. Cardinality(W) \in Nat
    <3>1. IsFiniteSet(1 .. k)
      BY FS_Interval
    <3>2. IsFiniteSet(W)
      BY <2>1, <3>1, FS_Subset
    <3>. QED  BY <3>2, FS_CardinalityType
  <2>. QED  BY <1>2, <2>2 DEF K, LookedAtLast
<1>. QED  BY <1>10, <1>11, <1>12, <1>13

\* Of the contacts of a customer, no more than theirs.
LEMMA CustomerCap ==
    ASSUME NEW w, IsBatch(w), NEW p, TypedProposal(w, p), NEW A, IsList(A), NEW T,
           Walk(w, p, "backstop", A, T), NEW n \in Contacted(A),
           NEW W \in SUBSET Contacted(A), n \notin W,
           InWindow(A, n, W),
           \A m \in W : Booked(w, A, m).customer = Booked(w, A, n).customer
    PROVE  Cardinality(W) < max_contacts_per_customer
<1>1. PICK l \in W \cup {n} : \E a, t : LookedAtLast(w, p, A, T, n, W, l, a, t)
  BY LastLook
<1>2. PICK a, t : LookedAtLast(w, p, A, T, n, W, l, a, t)
  BY <1>1
<1>. DEFINE B == T[l - 1].book
            c == ContextIn(w, p, a, B)
            s == w.subjects[a.subject].customer
            S == {k \in DOMAIN B : B[k].customer = s}
            Q == {k \in S : B[k].at >= a.at - contact_window}
            K == (W \cup {n}) \ {l}
<1>3. l \in DOMAIN A /\ l \in Contacted(A) /\ K \in SUBSET Contacted(A)
  BY DEF Contacted, Ran
<1>4. /\ A[l].action = At(a, t) /\ a \in Acts(DOMAIN w.subjects) /\ t \in Int
      /\ denials(DEFAULT_RULES, a, c) = {}
  BY <1>2 DEF LookedAtLast, RanAs
<1>5. is_contact(a) /\ At(a, t).subject = a.subject
  BY <1>3, <1>4, AtFacts DEF Contacted, Recorded
<1>6. ~ ContactFatigue(a, c) /\ c.customer # None
  BY <1>4, NobodyObjects, <1>5 DEF Unopposed, Consent
<1>7. c.now = a.at /\ c.customer_contacts = [k \in S |-> B[k].at]
  BY DEF ContextIn
<1>8. \A m \in W \cup {n} : Booked(w, A, m).customer = s
  <2>1. Booked(w, A, l).customer = s
    BY <1>4, <1>5 DEF Booked, ContactIn
  <2>2. \A m \in W \cup {n} : Booked(w, A, m).customer = Booked(w, A, n).customer
    OBVIOUS
  <2>. HIDE DEF s
  <2>. QED  BY <2>1, <2>2
<1>. HIDE DEF c, s
<1>9. Recent(c.customer_contacts, c) = Cardinality(Q)
  <2>1. PICK f : f = [k \in S |-> B[k].at]
    OBVIOUS
  <2>2. PICK U : U = Q
    OBVIOUS
  <2>3. U = {k \in S : B[k].at >= c.now - contact_window}
    BY <1>7, <2>2
  <2>. HIDE DEF S, B, Q
  <2>4. Recent(f, c) = Cardinality(U)
    BY <2>1, <2>3, RecentEntries
  <2>. QED  BY <1>7, <2>1, <2>2, <2>4
<1>10. IsFiniteSet(Q) /\ Cardinality(K) <= Cardinality(Q)
  <2>1. \A m \in K : m < l
    BY <1>2 DEF LookedAtLast
  <2>2. Q \subseteq DOMAIN B
    OBVIOUS
  <2>3. ASSUME NEW k \in DOMAIN B, NEW m \in K, B[k] = Booked(w, A, m)
        PROVE  k \in Q
    <3>1. B[k].customer = s
      BY <1>8, <2>3
    <3>2. B[k].at = A[m].execution.at
      BY <2>3 DEF Booked, ContactIn
    <3>3. A[m].execution.at >= a.at - contact_window
      BY <1>2 DEF LookedAtLast
    <3>. QED  BY <3>1, <3>2, <3>3
  <2>4. \A k \in DOMAIN B : (\E m \in K : B[k] = Booked(w, A, m)) => k \in Q
    BY <2>3
  <2>. HIDE DEF Q, K
  <2>5. IsFiniteSet(Q)
    <3>1. l - 1 \in 0 .. Len(A)
      BY <1>3, ListFacts
    <3>2. IsList(B)
      BY <3>1, WalkShape
    <3>3. PICK j \in Nat : DOMAIN B = 1 .. j
      BY <3>2, ListFacts
    <3>4. IsFiniteSet(1 .. j)
      BY FS_Interval
    <3>. QED  BY <2>2, <3>3, <3>4, FS_Subset
  <2>6. Cardinality(K) <= Cardinality(Q)
    BY <1>3, <2>1, <2>2, <2>4, AsManyOnRecord
  <2>. QED  BY <2>5, <2>6
<1>. HIDE DEF Q, K
<1>11. Cardinality(Q) \in Nat /\ max_contacts_per_customer \in Nat
  BY <1>10, FS_CardinalityType, PolicyAssumption
<1>12. ~ (Cardinality(Q) >= max_contacts_per_customer)
  BY <1>5, <1>6, <1>9 DEF ContactFatigue
<1>13. Cardinality(K) = Cardinality(W) /\ Cardinality(K) \in Nat
  <2>1. PICK k \in Nat : W \in SUBSET (1 .. k)
    BY ListFacts DEF Contacted, Ran
  <2>2. Cardinality(W) \in Nat
    <3>1. IsFiniteSet(1 .. k)
      BY FS_Interval
    <3>2. IsFiniteSet(W)
      BY <2>1, <3>1, FS_Subset
    <3>. QED  BY <3>2, FS_CardinalityType
  <2>. QED  BY <1>2, <2>2 DEF K, LookedAtLast
<1>. QED  BY <1>10, <1>11, <1>12, <1>13
-------------------------------------------------------------------------------
(* What the audit rules on *)

\* Two contexts that agree on everything but the moment and the contacts.
Alike(c, d) ==
    /\ c.customer = d.customer /\ c.order = d.order /\ c.invoice = d.invoice
    /\ c.subscription = d.subscription /\ c.diagnosis = d.diagnosis
    /\ c.outage_until = d.outage_until

\* The rules read the same of two such contexts.
LEMMA SameFacts ==
    ASSUME NEW c, NEW d, Alike(c, d)
    PROVE  /\ last_decline(c) = last_decline(d)
           /\ Declined(c) <=> Declined(d)
           /\ spec(c) = spec(d)
           /\ subject_amount(c) = subject_amount(d)
           /\ earliest(c) = earliest(d)
<1>1. last_decline(c) = last_decline(d)
  BY DEF Alike, last_decline
<1>2. spec(c) = spec(d) /\ (Declined(c) <=> Declined(d))
  BY <1>1 DEF spec, Declined
<1>3. subject_amount(c) = subject_amount(d)
  BY DEF Alike, subject_amount
<1>4. earliest(c) = earliest(d)
  BY <1>2 DEF Alike, earliest
<1>. QED  BY <1>1, <1>2, <1>3, <1>4

\* And move an action alike.
LEMMA SameMoves ==
    ASSUME NEW c, NEW d, Alike(c, d), NEW a
    PROVE  Reschedules(DEFAULT_RULES, a, c) = Reschedules(DEFAULT_RULES, a, d)
<1>1. c.outage_until = d.outage_until
  BY DEF Alike
<1>2. (Declined(c) <=> Declined(d)) /\ earliest(c) = earliest(d)
  BY SameFacts
<1>3. RetrySpacing(a, c) = RetrySpacing(a, d)
  BY <1>2 DEF RetrySpacing, Verdict
<1>4. OutageHold(a, c) = OutageHold(a, d)
  BY <1>1 DEF OutageHold
<1>5. QuietHours(a, c) = QuietHours(a, d)
  BY DEF QuietHours
<1>. QED  BY Zenon, <1>3, <1>4, <1>5 DEF Reschedules, TimingVerdicts

\* What nobody objected to earlier, nobody objects to now, but for the contacts.
LEMMA NobodyNewObjects ==
    ASSUME NEW c, NEW d, Alike(c, d), NEW ids, NEW a \in Acts(ids), NEW t \in Int,
           denials(DEFAULT_RULES, a, c) = {},
           c.now \in Int, d.now \in Int, c.now <= d.now,
           c.invoice # None /\ c.invoice.promise # None
               => c.invoice.promise.promised_for \in Int,
           ~ ContactFrequency(At(a, t), d), ~ ContactFatigue(At(a, t), d)
    PROVE  denials(DEFAULT_RULES, At(a, t), d) = {}
<1>. DEFINE b == At(a, t)
<1>1. Unopposed(a, c)
  BY NobodyObjects
<1>2. /\ (is_charging(b) <=> is_charging(a)) /\ (is_contact(b) <=> is_contact(a))
      /\ (is_inert(b) <=> is_inert(a)) /\ b.channel = a.channel
  BY AtFacts
<1>3. /\ last_decline(c) = last_decline(d) /\ (Declined(c) <=> Declined(d))
      /\ spec(c) = spec(d) /\ subject_amount(c) = subject_amount(d)
  BY SameFacts
<1>4. /\ c.customer = d.customer /\ c.order = d.order /\ c.invoice = d.invoice
      /\ c.subscription = d.subscription /\ c.diagnosis = d.diagnosis
  BY DEF Alike
<1>5. ~ ContactFrequency(b, d) /\ ~ ContactFatigue(b, d)
  OBVIOUS
<1>. HIDE DEF b
<1>6. /\ FraudBlock(b, d) => FraudBlock(a, c)
      /\ DisputeFreeze(b, d) => DisputeFreeze(a, c)
      /\ NonRetryableDecline(b, d) => NonRetryableDecline(a, c)
      /\ DiagnosisGate(b, d) => DiagnosisGate(a, c)
      /\ RetryBudget(b, d) => RetryBudget(a, c)
  BY <1>2, <1>3, <1>4 DEF FraudBlock, DisputeFreeze, NonRetryableDecline,
                          DiagnosisGate, RetryBudget
<1>7. /\ RevokedMandate(b, d) => RevokedMandate(a, c)
      /\ CancelledSubscription(b, d) => CancelledSubscription(a, c)
      /\ Consent(b, d) => Consent(a, c)
  BY <1>2, <1>3, <1>4 DEF RevokedMandate, CancelledSubscription, Consent
<1>8. CostOfRecovery(b, d) => CostOfRecovery(a, c)
  BY <1>2, <1>3 DEF CostOfRecovery
<1>9. PromiseToPayHolds(b, d) => PromiseToPayHolds(a, c)
  BY <1>2, <1>4 DEF PromiseToPayHolds, is_live
<1>10. Unopposed(b, d)
  BY Zenon, <1>1, <1>5, <1>6, <1>7, <1>8, <1>9 DEF Unopposed
<1>. QED  BY <1>10, NobodyObjects DEF b

\* What was sent by the moment the n-th action ran, that action left out.
SentBy(A, n) ==
    {m \in Ran(A) \ {n} : /\ Recorded(A[m].action)
                          /\ A[m].execution.at <= A[n].execution.at}

\* The context the n-th action is audited in.
AuditContext(w, p, A, n) ==
    ContextIn(w, p, A[n].action, [m \in SentBy(A, n) |-> Booked(w, A, m)])

\* Of those, the ones in the window that are about this subject, or to this customer.
SentAbout(w, A, n, s) ==
    {m \in SentBy(A, n) : /\ Booked(w, A, m).at >= A[n].execution.at - contact_window
                          /\ Booked(w, A, m).subject = s}
SentTo(w, A, n, x) ==
    {m \in SentBy(A, n) : /\ Booked(w, A, m).at >= A[n].execution.at - contact_window
                          /\ Booked(w, A, m).customer = x}

\* What the rules on contacts count in that context.
LEMMA SentInWindow ==
    ASSUME NEW w, NEW p, NEW A, NEW n, A[n].action.at = A[n].execution.at,
           NEW d, d = AuditContext(w, p, A, n),
           NEW subject, subject = A[n].action.subject,
           NEW customer, customer = w.subjects[subject].customer
    PROVE  /\ Recent(d.contacts, d) = Cardinality(SentAbout(w, A, n, subject))
           /\ Recent(d.customer_contacts, d) = Cardinality(SentTo(w, A, n, customer))
<1>. DEFINE c == AuditContext(w, p, A, n)
            s == subject
            x == customer
            B == [m \in SentBy(A, n) |-> Booked(w, A, m)]
            SS == {m \in DOMAIN B : B[m].subject = s}
            SC == {m \in DOMAIN B : B[m].customer = x}
            e == A[n].execution.at
<1>1. /\ c.now = e /\ c.contacts = [k \in SS |-> B[k].at]
      /\ c.customer_contacts = [k \in SC |-> B[k].at]
  BY DEF AuditContext, ContextIn
<1>2. DOMAIN B = SentBy(A, n) /\ \A m \in SentBy(A, n) : B[m] = Booked(w, A, m)
  OBVIOUS
<1>. HIDE DEF c, B
<1>3. Recent(c.contacts, c) = Cardinality({k \in SS : B[k].at >= e - contact_window})
  <2>1. PICK f, Q : /\ f = [k \in SS |-> B[k].at]
                    /\ Q = {k \in SS : B[k].at >= c.now - contact_window}
    OBVIOUS
  <2>. HIDE DEF SS
  <2>2. Recent(f, c) = Cardinality(Q)
    BY <2>1, RecentEntries
  <2>. QED  BY <1>1, <2>1, <2>2
<1>4. Recent(c.customer_contacts, c)
        = Cardinality({k \in SC : B[k].at >= e - contact_window})
  <2>1. PICK f, Q : /\ f = [k \in SC |-> B[k].at]
                    /\ Q = {k \in SC : B[k].at >= c.now - contact_window}
    OBVIOUS
  <2>. HIDE DEF SC
  <2>2. Recent(f, c) = Cardinality(Q)
    BY <2>1, RecentEntries
  <2>. QED  BY <1>1, <2>1, <2>2
<1>5. {k \in SS : B[k].at >= e - contact_window}
        = {m \in SentBy(A, n) : /\ Booked(w, A, m).at >= e - contact_window
                                /\ Booked(w, A, m).subject = s}
  BY <1>2
<1>6. {k \in SC : B[k].at >= e - contact_window}
        = {m \in SentBy(A, n) : /\ Booked(w, A, m).at >= e - contact_window
                                /\ Booked(w, A, m).customer = x}
  BY <1>2
<1>. QED  BY <1>3, <1>4, <1>5, <1>6 DEF c, SentAbout, SentTo

\* Each action, ruled on again where it ran, is permitted and stays there.
LEMMA AuditOfOne ==
    ASSUME NEW w, IsBatch(w), NEW p, TypedProposal(w, p), NEW A, IsList(A), NEW T,
           Walk(w, p, "backstop", A, T), NEW n \in Ran(A)
    PROVE  evaluate(DEFAULT_RULES, A[n].action, AuditContext(w, p, A, n)).final
               = A[n].action
<1>1. n \in 1 .. Len(A) /\ A[n].execution # None /\ A[n].execution.at \in Int
  BY WhenItRan DEF Ran
<1>2. PICK a, t : RanAs(w, p, A, T, n, a, t)
  BY <1>1, WhatRan
<1>. DEFINE c == ContextIn(w, p, a, T[n - 1].book)
            d == AuditContext(w, p, A, n)
            b == At(a, t)
            U == SentAbout(w, A, n, A[n].action.subject)
            V == SentTo(w, A, n, w.subjects[A[n].action.subject].customer)
<1>3. /\ a \in Acts(DOMAIN w.subjects) /\ t \in Int /\ t >= a.at
      /\ A[n].action = b /\ A[n].execution.at = t
      /\ denials(DEFAULT_RULES, a, c) = {} /\ Reschedules(DEFAULT_RULES, b, c) = {}
  BY <1>2 DEF RanAs
<1>4. /\ b.at = t /\ b.subject = a.subject /\ b.channel = a.channel
      /\ (is_contact(b) <=> is_contact(a))
  BY <1>3, AtFacts
<1>5. Alike(c, d) /\ c.now = a.at /\ d.now = t /\ a.at \in Int
  BY <1>3, <1>4 DEF Alike, AuditContext, ContextIn, Acts
<1>6. /\ Recent(d.contacts, d) = Cardinality(U)
      /\ Recent(d.customer_contacts, d) = Cardinality(V)
  BY <1>3, <1>4, SentInWindow
<1>7. c.invoice # None /\ c.invoice.promise # None
          => c.invoice.promise.promised_for \in Int
  <2>1. PICK s : s = w.subjects[a.subject]
    OBVIOUS
  <2>2. IsSubject(s)
    BY <1>3, <2>1, BatchFacts DEF Acts
  <2>3. c.invoice = s.invoice
    BY <2>1 DEF ContextIn
  <2>. HIDE DEF c
  <2>. QED  BY <2>2, <2>3 DEF IsSubject, surface
<1>. HIDE DEF b, c, d
<1>8. ASSUME is_contact(b)
      PROVE  Cardinality(U) < max_contacts_per_subject
             /\ Cardinality(V) < max_contacts_per_customer
  <2>1. ~ Consent(a, c)
    BY <1>3, NobodyObjects DEF Unopposed
  <2>2. a.channel # None
    BY <1>4, <1>8, <2>1 DEF Consent
  <2>3. n \in Contacted(A)
    BY <1>3, <1>4, <1>8, <2>2 DEF Contacted, Recorded
  <2>4. /\ Booked(w, A, n).subject = A[n].action.subject
        /\ Booked(w, A, n).customer = w.subjects[A[n].action.subject].customer
        /\ \A m : Booked(w, A, m).at = A[m].execution.at
    BY DEF Booked, ContactIn
  <2>5. /\ U \in SUBSET Contacted(A) /\ n \notin U /\ InWindow(A, n, U)
        /\ \A m \in U : Booked(w, A, m).subject = Booked(w, A, n).subject
    BY <2>4 DEF SentBy, SentAbout, SentTo, Contacted, InWindow
  <2>6. /\ V \in SUBSET Contacted(A) /\ n \notin V /\ InWindow(A, n, V)
        /\ \A m \in V : Booked(w, A, m).customer = Booked(w, A, n).customer
    BY <2>4 DEF SentBy, SentAbout, SentTo, Contacted, InWindow
  <2>. HIDE DEF U, V
  <2>7. Cardinality(U) < max_contacts_per_subject
    BY <2>3, <2>5, SubjectCap
  <2>8. Cardinality(V) < max_contacts_per_customer
    BY <2>3, <2>6, CustomerCap
  <2>. QED  BY <2>7, <2>8
<1>9. ~ ContactFrequency(b, d) /\ ~ ContactFatigue(b, d)
  <2>1. U \in SUBSET (1 .. Len(A)) /\ V \in SUBSET (1 .. Len(A)) /\ Len(A) \in Nat
    BY ListFacts DEF SentBy, SentAbout, SentTo, Ran
  <2>. HIDE DEF U, V
  <2>2. IsFiniteSet(1 .. Len(A))
    BY <2>1, FS_Interval
  <2>3. IsFiniteSet(U) /\ IsFiniteSet(V)
    BY <2>1, <2>2, FS_Subset
  <2>4. Cardinality(U) \in Nat /\ Cardinality(V) \in Nat
    BY <2>3, FS_CardinalityType
  <2>5. max_contacts_per_subject \in Nat /\ max_contacts_per_customer \in Nat
    BY PolicyAssumption
  <2>. QED  BY <1>6, <1>8, <2>4, <2>5 DEF ContactFrequency, ContactFatigue
<1>10. denials(DEFAULT_RULES, b, d) = {}
  BY <1>3, <1>5, <1>7, <1>9, NobodyNewObjects DEF b
<1>11. Reschedules(DEFAULT_RULES, b, d) = {}
  BY <1>3, <1>5, SameMoves
<1>12. evaluate(DEFAULT_RULES, b, d).final = b
  BY <1>10, <1>11, StaysPut
<1>. QED  BY <1>3, <1>12 DEF d

\* The audit's contexts are these.
LEMMA WhatTheAuditFinds ==
    ASSUME BInv, TInv
    PROVE  AuditFindsNothing
<1>. SUFFICES ASSUME arm = "reported"
              PROVE  audit("backstop") = {}
  BY DEF AuditFindsNothing
<1>. DEFINE A == ledger["backstop"]
<1>1. PICK T : Walk(world, proposal, "backstop", A, T)
  BY DEF BInv, Done
<1>2. IsList(A) /\ IsBatch(world) /\ TypedProposal(world, proposal)
  BY DEF BInv, TInv, PlannedArms
<1>3. audit("backstop")
          = {n \in Ran(A) : evaluate(DEFAULT_RULES, A[n].action,
                                     AuditContext(world, proposal, A, n)).final
                                # A[n].action}
  BY DEF audit, Executed, Ran, AuditContext, SentBy, Booked, context, ContextIn,
         Contact, ContactIn, Subject
<1>. HIDE DEF A
<1>4. \A n \in Ran(A) : evaluate(DEFAULT_RULES, A[n].action,
                                 AuditContext(world, proposal, A, n)).final
                            = A[n].action
  BY <1>1, <1>2, AuditOfOne
<1>. QED  BY <1>3, <1>4
-------------------------------------------------------------------------------
(* What is entered is about the batch, and brings in no more than is owed *)

\* A share of an amount, rounded, is no more than the amount.
LEMMA ShareOfWorth ==
    ASSUME NEW v \in Nat, NEW share \in 0 .. 100
    PROVE  (v * share + 50) \div 100 \in 0 .. v
<1>1. v * share \in Nat /\ v * share <= v * 100
  BY Z3
<1>2. PICK x \in Nat : x = v * share
  BY <1>1
<1>3. x <= 100 * v
  BY <1>1, <1>2
<1>4. (x + 50) \div 100 \in Int /\ 0 <= (x + 50) \div 100 /\ (x + 50) \div 100 <= v
  BY <1>3
<1>. QED  BY <1>2, <1>4

LEMMA MinOfTwo ==
    ASSUME NEW p \in Int, NEW q \in Int
    PROVE  Min({p, q}) = IF p <= q THEN p ELSE q
<1>. DEFINE m == IF p <= q THEN p ELSE q
<1>1. m \in {p, q} /\ \A y \in {p, q} : m <= y
  OBVIOUS
<1>2. \A x \in {p, q} : (\A y \in {p, q} : x <= y) => x = m
  OBVIOUS
<1>. HIDE DEF m
<1>3. (CHOOSE x \in {p, q} : \A y \in {p, q} : x <= y) = m
  BY <1>1, <1>2
<1>. QED  BY <1>3 DEF Min, m

LEMMA WorthIsAmount ==
    ASSUME NEW s, IsSubject(s)
    PROVE  worth(s) \in Nat
BY DEF worth, IsSubject, surface

\* What lands is a share, whatever was drawn.
LEMMA LandsInPercent ==
    ASSUME NEW w, IsBatch(w), NEW id \in DOMAIN w.subjects, NEW a \in Acts(DOMAIN w.subjects),
           NEW at \in Int, w.latent[id] # NotDrawn
    PROVE  landed(a, at, w.subjects[id], w.latent[id]) \in 0 .. 100
<1>1. PICK s, rec : s = w.subjects[id] /\ rec = w.latent[id]
  OBVIOUS
<1>2. rec \in Drawn(w, id) /\ IsSubject(s) /\ w.ends_at \in Int
  BY <1>1, BacktestAssumption DEF IsBatch
<1>3. surface(s) \in {"payment", "receivable", "recurring"}
  BY DEF surface
<1>4. CASE surface(s) = "payment"
  <2>1. landed(a, at, s, rec) = Share(a, at, s, rec)
    BY <1>4 DEF landed
  <2>2. Share(a, at, s, rec) \in {0, 100}
    BY DEF Share
  <2>. QED  BY <1>1, <2>1, <2>2
<1>5. CASE surface(s) = "recurring"
  <2>1. landed(a, at, s, rec) = IF is_charging(a) THEN 0 ELSE reregisters_at(rec, at)
    BY <1>5 DEF landed
  <2>2. reregisters_at(rec, at) \in {0, 100}
    BY DEF reregisters_at
  <2>. QED  BY <1>1, <2>1, <2>2
<1>6. CASE surface(s) = "receivable"
  <2>1. landed(a, at, s, rec) = IF is_charging(a) THEN 0 ELSE collects_at(rec, at, a.offered)
    BY <1>6 DEF landed
  <2>2. rec \in build_invoices(s.invoice, w.ends_at)
    BY <1>1, <1>2, <1>6 DEF Drawn
  <2>3. rec.part_payment_share \in 35 .. 75
    BY <1>1, <2>2 DEF build_invoices, PART_PAYMENT_SHARE
  <2>4. a.offered \in 0 .. 100 \cup {None}
    BY DEF Acts
  <2>5. PICK x, y : x = a.offered /\ y = rec.part_payment_share
    OBVIOUS
  <2>6. x # None => x \in Int /\ 0 <= x /\ x <= 100
    BY <2>4, <2>5
  <2>7. ASSUME x # None
        PROVE  Min({y, x}) \in 0 .. 100
    <3>1. y \in Int /\ 0 <= y /\ y <= 100 /\ x \in Int /\ 0 <= x /\ x <= 100
      BY <2>3, <2>5, <2>6, <2>7
    <3>2. Min({y, x}) = IF y <= x THEN y ELSE x
      BY <3>1, MinOfTwo
    <3>. QED  BY <3>1, <3>2
  <2>8. collects_at(rec, at, x) \in 0 .. 100
    BY <2>5, <2>6, <2>7 DEF collects_at
  <2>. QED  BY <1>1, <2>1, <2>5, <2>8
<1>. QED  BY <1>3, <1>4, <1>5, <1>6

\* What an action brings in is no more than is owed.
LEMMA BroughtIsOwed ==
    ASSUME NEW w, IsBatch(w), NEW a \in Acts(DOMAIN w.subjects), NEW done
    PROVE  Brings(w, a, done).recovered \in 0 .. worth(w.subjects[a.subject])
<1>1. a.subject \in DOMAIN w.subjects /\ a.at \in Int
  BY DEF Acts
<1>2. PICK s, rec : s = w.subjects[a.subject] /\ rec = w.latent[a.subject]
  OBVIOUS
<1>3. worth(s) \in Nat
  BY <1>1, <1>2, BatchFacts, WorthIsAmount
<1>. DEFINE share == IF rec = NotDrawn \/ a.subject \in done THEN 0
                     ELSE landed(a, a.at, s, rec)
<1>4. share \in 0 .. 100
  <2>1. CASE rec = NotDrawn \/ a.subject \in done
    BY <2>1
  <2>2. CASE rec # NotDrawn /\ a.subject \notin done
    <3>1. landed(a, a.at, s, rec) \in 0 .. 100
      BY <1>1, <1>2, <2>2, LandsInPercent
    <3>. QED  BY <2>2, <3>1
  <2>. QED  BY <2>1, <2>2
<1>. HIDE DEF share
<1>5. collected(s, share) \in 0 .. worth(s)
  BY <1>3, <1>4, ShareOfWorth DEF collected
<1>6. execute(a, a.at, s, rec, done).recovered \in {0, collected(s, share)}
  <2>1. PICK k : k = collected(s, share)
    OBVIOUS
  <2>2. execute(a, a.at, s, rec, done)
            = CASE is_inert(a) -> Result("not_applicable", a.at, 0, 0)
                [] ~ is_inert(a) /\ share = 0 ->
                       Result("no_effect", a.at, 0, for_action(a))
                [] OTHER -> Result("recovered", a.at, k, for_action(a))
    BY <2>1 DEF execute, share
  <2>. QED  BY <2>1, <2>2 DEF Result
<1>. QED  BY <1>2, <1>3, <1>5, <1>6 DEF Brings

\* What may be entered of an arm.
EntryOK(w, e) ==
    /\ e.action \in Acts(DOMAIN w.subjects)
    /\ e.execution # None =>
           e.execution.recovered \in 0 .. worth(w.subjects[e.action.subject])

\* What is left to do is in the arm's actions, and its entries are of this kind.
EInv ==
    /\ pending \subseteq DOMAIN Actions
    /\ settled \subseteq DOMAIN world.subjects
    /\ DOMAIN ledger = Arms
    /\ \A a \in Arms : /\ IsList(ledger[a])
                       /\ \A n \in DOMAIN ledger[a] : EntryOK(world, ledger[a][n])

\* What the baseline does is about the batch, too.
LEMMA BaselineActs ==
    ASSUME IsBatch(world)
    PROVE  Within(naive_actions, Acts(DOMAIN world.subjects))
<1>. DEFINE ids == world.ids
            Orders == [n \in DOMAIN ids |->
                        IF IsFailed(ids[n])
                        THEN naive_retry(ids[n], Subject(ids[n]).order) ELSE <<>>]
            Mandates == [n \in DOMAIN ids |->
                        IF IsSubscription(ids[n])
                        THEN naive_mandate_chase(ids[n], Subject(ids[n]).subscription,
                                                 world.ends_at) ELSE <<>>]
            Invoices == [n \in DOMAIN ids |->
                        IF IsInvoice(ids[n])
                        THEN naive_invoice_chase(ids[n], Subject(ids[n]).invoice,
                                                 world.ends_at) ELSE <<>>]
<1>1. naive_actions = FlattenSeq(Orders) \o FlattenSeq(Mandates) \o FlattenSeq(Invoices)
  BY Zenon DEF naive_actions, All
<1>2. \A T : Within(<<>>, T)
  BY EmptyList DEF Within
<1>3. /\ world.ends_at \in Int
      /\ \A n \in DOMAIN ids : IsSubject(Subject(ids[n]))
  BY BatchFacts DEF Subject
<1>4. ASSUME NEW n \in DOMAIN ids
      PROVE  Within(Orders[n], Acts({ids[n]}))
  <2>1. CASE IsFailed(ids[n])
    <3>1. Subject(ids[n]).order.last_attempt.at \in Int
      BY <1>3, <2>1 DEF IsSubject, IsFailed
    <3>. QED  BY <2>1, <3>1, NaiveRetryProposes
  <2>2. CASE ~ IsFailed(ids[n])
    BY <1>2, <2>2
  <2>. QED  BY <2>1, <2>2
<1>5. ASSUME NEW n \in DOMAIN ids
      PROVE  Within(Mandates[n], Acts({ids[n]}))
  <2>1. "request_mandate_reregistration" \in Kinds
    BY KnownKinds
  <2>2. Within(NaiveChase(ids[n], "request_mandate_reregistration", world.ends_at),
               Acts({ids[n]}))
    BY <1>3, <2>1, ChaseProposes
  <2>. QED  BY <1>2, <2>2 DEF naive_mandate_chase
<1>6. ASSUME NEW n \in DOMAIN ids
      PROVE  Within(Invoices[n], Acts({ids[n]}))
  <2>1. "send_dunning" \in Kinds
    BY KnownKinds
  <2>2. Within(NaiveChase(ids[n], "send_dunning", world.ends_at), Acts({ids[n]}))
    BY <1>3, <2>1, ChaseProposes
  <2>. QED  BY <1>2, <2>2 DEF naive_invoice_chase
<1>7. /\ DOMAIN Orders = DOMAIN ids /\ Orders = [n \in DOMAIN Orders |-> Orders[n]]
      /\ DOMAIN Mandates = DOMAIN ids /\ Mandates = [n \in DOMAIN Mandates |-> Mandates[n]]
      /\ DOMAIN Invoices = DOMAIN ids /\ Invoices = [n \in DOMAIN Invoices |-> Invoices[n]]
  OBVIOUS
<1>. HIDE DEF Orders, Mandates, Invoices
<1>8. Within(FlattenSeq(Orders), Acts(DOMAIN world.subjects))
  BY <1>4, <1>7, Gather
<1>9. Within(FlattenSeq(Mandates), Acts(DOMAIN world.subjects))
  BY <1>5, <1>7, Gather
<1>10. Within(FlattenSeq(Invoices), Acts(DOMAIN world.subjects))
  BY <1>6, <1>7, Gather
<1>11. Within(FlattenSeq(Orders) \o FlattenSeq(Mandates), Acts(DOMAIN world.subjects))
  BY <1>8, <1>9, ConcatWithin
<1>. QED  BY <1>1, <1>10, <1>11, ConcatWithin

LEMMA ActionsAreActs ==
    ASSUME TInv
    PROVE  Within(Actions, Acts(DOMAIN world.subjects))
<1>1. Within(naive_actions, Acts(DOMAIN world.subjects))
  BY BaselineActs DEF TInv
<1>2. Within(proposal.actions, Acts(DOMAIN world.subjects))
  BY DEF TInv, TypedProposal
<1>3. Within(<<>>, Acts(DOMAIN world.subjects))
  BY EmptyList DEF Within
<1>4. "naive-retry" \notin PlannedArms
  BY DEF PlannedArms
<1>. QED  BY <1>1, <1>2, <1>3, <1>4 DEF Actions

\* The action an arm looks at next is one of the batch.
LEMMA NextIsAct ==
    ASSUME TInv, EInv, pending # {}
    PROVE  Next_n \in pending /\ Actions[Next_n] \in Acts(DOMAIN world.subjects)
<1>1. Within(Actions, Acts(DOMAIN world.subjects))
  BY ActionsAreActs
<1>2. PICK s : s = Actions
  OBVIOUS
<1>3. /\ IsList(s) /\ pending \subseteq DOMAIN s
      /\ \A n \in DOMAIN s : s[n] \in Acts(DOMAIN world.subjects)
      /\ \A n \in DOMAIN s : s[n].at \in Int
  BY <1>1, <1>2 DEF Within, EInv, Acts
<1>4. Next_n = NextOf(s, pending)
  BY <1>2 DEF Next_n, NextOf
<1>5. NextOf(s, pending) \in pending
  BY <1>3, NextIsPending DEF NextOf
<1>. QED  BY <1>2, <1>3, <1>4, <1>5

\* What is executed of the next action is an action of the batch.
LEMMA FinalIsAct ==
    ASSUME TInv, EInv, pending # {}, Enforce => allowed(Ruled)
    PROVE  (IF Enforce THEN Ruled.final ELSE Actions[Next_n]) \in Acts(DOMAIN world.subjects)
<1>1. PICK a : a = Actions[Next_n]
  OBVIOUS
<1>2. a \in Acts(DOMAIN world.subjects)
  BY <1>1, NextIsAct
<1>3. ASSUME allowed(Ruled)
      PROVE  Ruled.final \in Acts(DOMAIN world.subjects)
  <2>1. PICK c : c = context(a, book)
    OBVIOUS
  <2>2. Timed(c)
    <3>1. context(a, book) = ContextIn(world, proposal, a, book)
      BY Zenon DEF context, ContextIn, Subject
    <3>. QED  BY <1>2, <2>1, <3>1, ContextTimed DEF TInv
  <2>3. Ruled = evaluate(DEFAULT_RULES, a, c)
    BY <1>1, <2>1 DEF Ruled
  <2>4. denials(DEFAULT_RULES, a, c) = {}
    BY <1>3, <2>3 DEF allowed, evaluate
  <2>5. PICK t \in Int : evaluate(DEFAULT_RULES, a, c).final = At(a, t)
    BY <1>2, <2>2, <2>4, Landing
  <2>. QED  BY <1>2, <2>3, <2>5, AtFacts
<1>. QED  BY <1>1, <1>2, <1>3

\* An entry more.
LEMMA OneMoreEntry ==
    ASSUME EInv, arm \in Arms, world' = world, NEW e, EntryOK(world, e),
           ledger' = [ledger EXCEPT ![arm] = Append(@, e)]
    PROVE  /\ DOMAIN ledger' = Arms
           /\ \A a \in Arms : /\ IsList(ledger'[a])
                              /\ \A n \in DOMAIN ledger'[a] : EntryOK(world', ledger'[a][n])
<1>1. /\ DOMAIN ledger = Arms
      /\ \A a \in Arms : /\ IsList(ledger[a])
                         /\ \A n \in DOMAIN ledger[a] : EntryOK(world, ledger[a][n])
  BY DEF EInv
<1>2. PICK s, t : s = ledger[arm] /\ t = ledger'[arm]
  OBVIOUS
<1>3. t = Append(s, e)
  BY <1>1, <1>2
<1>4. IsList(s) /\ \A n \in DOMAIN s : EntryOK(world, s[n])
  BY <1>1, <1>2
<1>5. /\ IsList(t) /\ DOMAIN t = DOMAIN s \cup {Len(s) + 1}
      /\ (\A n \in DOMAIN s : t[n] = s[n]) /\ t[Len(s) + 1] = e
  BY <1>3, <1>4, AppendList
<1>6. IsList(t) /\ \A n \in DOMAIN t : EntryOK(world, t[n])
  BY <1>4, <1>5
<1>7. DOMAIN ledger' = Arms /\ \A a \in Arms : a # arm => ledger'[a] = ledger[a]
  BY <1>1
<1>8. ASSUME NEW a \in Arms
      PROVE  IsList(ledger'[a]) /\ \A n \in DOMAIN ledger'[a] : EntryOK(world, ledger'[a][n])
  <2>1. CASE a = arm
    BY <1>2, <1>6, <2>1
  <2>2. CASE a # arm
    BY <1>1, <1>7, <2>2
  <2>. QED  BY <2>1, <2>2
<1>. QED  BY <1>7, <1>8

LEMMA SameActions ==
    ASSUME UNCHANGED <<world, proposal, arm>>
    PROVE  Actions' = Actions
BY DEF Actions, naive_actions, PlannedArms, All, IsFailed, IsSubscription, IsInvoice, Subject

\* Something is left to do only while an arm runs.
LEMMA OnlyArmsWork ==
    ASSUME BInv, EInv, pending # {}
    PROVE  arm \in Arms
<1>1. arm \in {"planning", "reported"} => Actions = <<>>
  BY DEF Actions, PlannedArms
<1>2. DOMAIN (<<>>) = {}
  BY EmptyList
<1>3. arm \notin {"planning", "reported"}
  BY <1>1, <1>2 DEF EInv
<1>. QED  BY <1>3 DEF BInv

LEMMA ExecuteEnters ==
    ASSUME BInv, TInv, EInv, Execute
    PROVE  EInv'
<1>. DEFINE final == IF Enforce THEN Ruled.final ELSE Actions[Next_n]
            result == execute(final, final.at, Subject(final.subject),
                              world.latent[final.subject], settled)
<1>1. /\ pending # {} /\ (Enforce => allowed(Ruled))
      /\ ledger' = [ledger EXCEPT ![arm] = Append(@, LedgerEntry(final, Ruled, result))]
      /\ settled' = IF result.outcome = "recovered"
                    THEN settled \cup {final.subject} ELSE settled
      /\ pending' = pending \ {Next_n}
      /\ UNCHANGED <<world, proposal, arm>>
  BY Zenon DEF Execute, pipeline
<1>2. final \in Acts(DOMAIN world.subjects)
  BY <1>1, FinalIsAct
<1>3. final.subject \in DOMAIN world.subjects
  BY <1>2 DEF Acts
<1>4. result = Brings(world, final, settled)
  BY Zenon DEF Brings, Subject
<1>. HIDE DEF final, result
<1>5. result.recovered \in 0 .. worth(world.subjects[final.subject])
  BY <1>2, <1>4, BroughtIsOwed DEF TInv
<1>6. PICK e : e = LedgerEntry(final, Ruled, result)
  OBVIOUS
<1>7. e.action = final /\ e.execution = result
  BY <1>6 DEF LedgerEntry
<1>8. EntryOK(world, e)
  BY <1>2, <1>5, <1>7 DEF EntryOK
<1>9. ledger' = [ledger EXCEPT ![arm] = Append(@, e)]
  BY <1>1, <1>6
<1>10. arm \in Arms
  BY <1>1, OnlyArmsWork
<1>11. /\ DOMAIN ledger' = Arms
       /\ \A a \in Arms : /\ IsList(ledger'[a])
                          /\ \A n \in DOMAIN ledger'[a] : EntryOK(world', ledger'[a][n])
  BY <1>1, <1>8, <1>9, <1>10, OneMoreEntry
<1>12. settled' \subseteq DOMAIN world'.subjects
  BY <1>1, <1>3 DEF EInv
<1>13. pending' \subseteq DOMAIN Actions'
  BY <1>1, SameActions DEF EInv
<1>. QED  BY <1>11, <1>12, <1>13 DEF EInv

LEMMA WithholdEnters ==
    ASSUME BInv, TInv, EInv, Withhold
    PROVE  EInv'
<1>1. /\ pending # {}
      /\ ledger' = [ledger EXCEPT ![arm] =
                        Append(@, LedgerEntry(Actions[Next_n], Ruled, None))]
      /\ settled' = settled /\ pending' = pending \ {Next_n}
      /\ UNCHANGED <<world, proposal, arm>>
  BY Zenon DEF Withhold, pipeline
<1>2. PICK e : e = LedgerEntry(Actions[Next_n], Ruled, None)
  OBVIOUS
<1>3. e.action = Actions[Next_n] /\ e.execution = None
  BY <1>2 DEF LedgerEntry
<1>4. EntryOK(world, e)
  BY <1>1, <1>3, NextIsAct DEF EntryOK
<1>5. arm \in Arms
  BY <1>1, OnlyArmsWork
<1>6. /\ DOMAIN ledger' = Arms
      /\ \A a \in Arms : /\ IsList(ledger'[a])
                         /\ \A n \in DOMAIN ledger'[a] : EntryOK(world', ledger'[a][n])
  BY <1>1, <1>2, <1>4, <1>5, OneMoreEntry
<1>7. pending' \subseteq DOMAIN Actions'
  BY <1>1, SameActions DEF EInv
<1>. QED  BY <1>1, <1>6, <1>7 DEF EInv

LEMMA InitEInv ==
    ASSUME Init
    PROVE  EInv
<1>1. /\ arm = "do-nothing" /\ pending = {} /\ settled = {}
      /\ ledger = [a \in Arms |-> <<>>]
  BY DEF Init
<1>. QED  BY <1>1, EmptyList DEF EInv

LEMMA NextEInv ==
    ASSUME BInv, TInv, EInv, [Next]_vars
    PROVE  EInv'
<1>1. CASE Execute
  BY <1>1, ExecuteEnters
<1>2. CASE Withhold
  BY <1>2, WithholdEnters
<1>3. CASE plan_cluster \/ detect
  <2>1. /\ arm = "planning" /\ arm' = arm /\ UNCHANGED <<world, pending, settled, ledger>>
    BY <1>3 DEF plan_cluster, detect, Planning, running
  <2>2. Actions = <<>> /\ Actions' = <<>>
    BY <2>1 DEF Actions, PlannedArms
  <2>. QED  BY <2>1, <2>2 DEF EInv
<1>4. CASE plan_the_rest
  <2>1. /\ arm' = "planner-unpoliced" /\ pending' = DOMAIN proposal'.actions
        /\ UNCHANGED <<world, settled, ledger>>
    BY <1>4 DEF plan_the_rest
  <2>2. Actions' = proposal'.actions
    BY <2>1 DEF Actions, PlannedArms
  <2>. QED  BY <2>1, <2>2 DEF EInv
<1>5. CASE NextArm
  <2>1. /\ pending' = DOMAIN Actions' /\ settled' = {} /\ UNCHANGED <<world, ledger>>
    BY <1>5 DEF NextArm
  <2>. QED  BY <2>1 DEF EInv
<1>6. CASE UNCHANGED vars
  <2>1. UNCHANGED <<world, proposal, arm, pending, settled, ledger>>
    BY <1>6 DEF vars, pipeline, running
  <2>. QED  BY <2>1, SameActions DEF EInv
<1>. QED  BY <1>1, <1>2, <1>3, <1>4, <1>5, <1>6 DEF Next

LEMMA WhatIsTyped ==
    ASSUME BInv, TInv, EInv
    PROVE  TypeOK
<1>1. /\ arm \in Arms \cup {"planning", "reported"} /\ looked \subseteq DOMAIN Clusters
      /\ pending \subseteq DOMAIN Actions /\ settled \subseteq DOMAIN world.subjects
  BY DEF BInv, TInv, EInv
<1>2. \A x : x \in Acts(DOMAIN world.subjects) <=> x \in ProposedAction
  BY DEF Acts, ProposedAction, Kinds
<1>3. \A n \in DOMAIN proposal.actions : proposal.actions[n] \in ProposedAction
  BY <1>2 DEF TInv, TypedProposal, Within
<1>4. ASSUME NEW a \in Arms, NEW n \in DOMAIN ledger[a]
      PROVE  /\ ledger[a][n].action \in ProposedAction
             /\ ledger[a][n].execution # None =>
                    ledger[a][n].execution.recovered
                        \in 0 .. worth(Subject(ledger[a][n].action.subject))
  BY <1>2 DEF EInv, EntryOK, Subject
<1>. QED  BY <1>1, <1>3, <1>4 DEF TypeOK
-------------------------------------------------------------------------------
(* The theorems *)

LEMMA StepIsDetection ==
    ASSUME [Next]_vars
    PROVE  [Detect]_detection
BY DEF Next, vars, detect, plan_cluster, plan_the_rest, Withhold, Execute, NextArm

\* The inductive invariant of the backtest.
LEMMA WhatAlwaysHolds == Spec => [](BInv /\ DInv /\ TInv /\ EInv)
<1>1. Init => BInv /\ DInv /\ TInv /\ EInv
  BY InitBInv, InitDInv, InitTInv, InitEInv DEF Init
<1>2. BInv /\ DInv /\ TInv /\ EInv /\ [Next]_vars => BInv' /\ DInv' /\ TInv' /\ EInv'
  BY NextBInv, StepIsDetection, StepDInv, NextTInv, NextEInv
<1>. QED  BY <1>1, <1>2, PTL DEF Spec

\* Whatever is planned, executed and entered is an action about a subject of the
\* batch, and nothing brings in more than the subject owes (run_arm,
\* SimulatedExecutor.execute).
THEOREM TypeCorrect == Spec => []TypeOK
<1>1. BInv /\ TInv /\ EInv => TypeOK
  BY WhatIsTyped
<1>. QED  BY <1>1, WhatAlwaysHolds, PTL

\* Somebody proposes something about every failed order, or a strategy for an
\* incident it was in has nothing for its class, whichever of the clusters the
\* model answers for and whatever it answers (build_backstop_actions).
THEOREM EveryFailureGetsAPlan == Spec => []EveryFailureIsPlannedFor
<1>1. TInv => EveryFailureIsPlannedFor
  BY DEF TInv, Catered, Speaks, Excuses, EveryFailureIsPlannedFor, Of, Subject
<1>. QED  BY <1>1, WhatAlwaysHolds, PTL

\* The arm that obeys the engine and the one that does not work the same actions
\* in the same order, get the same ruling on each until a ruling refuses or moves
\* something, and until then do and bring in the same, whatever was proposed,
\* drawn and ruled (run_arm, with enforce and without).
THEOREM TheRulingsAreTheOnlyDifference == Spec => []ArmsDifferByRulings
<1>1. BInv => ArmsDifferByRulings
  BY WhatTheReportSays
<1>. QED  BY <1>1, WhatAlwaysHolds, PTL

\* Whoever rules again on what the enforced arm did, each action at the moment it
\* ran and with all that had been sent by that moment, refuses nothing and moves
\* nothing, although the arm looked at the actions in another order
\* (RecoveryLedger.audit, run_arm).
THEOREM TheAuditFindsNothing == Spec => []AuditFindsNothing
<1>1. BInv /\ TInv => AuditFindsNothing
  BY WhatTheAuditFinds
<1>. QED  BY <1>1, WhatAlwaysHolds, PTL

\* The backtest plans for incidents of which each is one cluster: the detection
\* it starts with keeps one signal of what several widths saw, and one group of
\* what several segments saw (build_backstop_actions, detect, correlate).
THEOREM EveryProblemIsPlannedForOnce == Spec => []OneProblemOneCluster
<1>1. DInv => OneProblemOneCluster
  BY WhatItMeans
<1>. QED  BY <1>1, WhatAlwaysHolds, PTL

\* On clear-cut traffic (ClearCut) the incidents the backtest plans for are the
\* ones there are: whatever batches it is run on, every outage that lasts and
\* costs enough is signalled from its first bucket to its last, and nothing else
\* is (Detector._scan_segment, _emit).
THEOREM EveryIncidentIsFound == Spec => []EveryIncidentIsSignalled
<1>. DEFINE Reading == \E w \in Worlds : SInv(w.grid)
<1>1. \A w \in Worlds : IsGrid(w.grid)
  BY BacktestAssumption
<1>2. Init => Reading
  BY <1>1, InitSInv DEF Init
<1>3. Reading /\ [Next]_vars => Reading'
  <2>1. ASSUME NEW w \in Worlds, SInv(w.grid), [Next]_vars
        PROVE  SInv(w.grid)'
    <3>1. PICK g : g = w.grid /\ IsGrid(g) /\ SInv(g)
      BY <1>1, <2>1
    <3>2. SInv(g)'
      BY <2>1, <3>1, StepIsDetection, StepSInv
    <3>. QED  BY <3>1, <3>2
  <2>. QED  BY <2>1
<1>4. Reading => EveryIncidentIsSignalled
  BY <1>1, AllIsSaid
<1>. HIDE DEF Reading
<1>. QED  BY <1>2, <1>3, <1>4, PTL DEF Spec
===============================================================================
