------------------------------ MODULE PolicyProofs ------------------------------
(***************************************************************************)
(* The moment the engine permits an action for, for every rule set, action *)
(* and context.                                                            *)
(***************************************************************************)
EXTENDS PolicyEngine, TLAPS

LEMMA MaxOfFew ==
    ASSUME NEW p \in Int, NEW q \in Int, NEW S, S \subseteq {p, q}, S # {}
    PROVE  Max(S) \in S /\ \A x \in S : x <= Max(S)
<1>1. \E x \in S : \A y \in S : x >= y
  <2>1. CASE p \in S /\ (q \in S => p >= q)
    BY <2>1
  <2>2. CASE q \in S /\ (p \in S => q >= p)
    BY <2>2
  <2>3. p \in S \/ q \in S
    OBVIOUS
  <2>4. p >= q \/ q >= p
    OBVIOUS
  <2>. QED  BY <2>1, <2>2, <2>3, <2>4
<1>. QED  BY <1>1 DEF Max

LEMMA MaxOfOne == ASSUME NEW p \in Int PROVE Max({p}) = p
<1>1. p \in {p} /\ \A y \in {p} : p >= y
  OBVIOUS
<1>. QED  BY <1>1 DEF Max

LEMMA MaxOfTwo ==
    ASSUME NEW p \in Int, NEW q \in Int
    PROVE  Max({p, q}) = IF p >= q THEN p ELSE q
<1>. DEFINE m == IF p >= q THEN p ELSE q
<1>1. m \in {p, q} /\ \A y \in {p, q} : m >= y
  OBVIOUS
<1>2. \A x \in {p, q} : (\A y \in {p, q} : x >= y) => x = m
  OBVIOUS
<1>. HIDE DEF m
<1>3. (CHOOSE x \in {p, q} : \A y \in {p, q} : x >= y) = m
  BY <1>1, <1>2
<1>. QED  BY <1>3 DEF Max, m

\* The quiet hours end after every moment inside them, that end is outside
\* them, and every moment up to it is inside.
LEMMA QuietHoursEnd ==
    ASSUME NEW t \in Int, IsQuiet(t)
    PROVE  /\ next_ok(t) \in Int /\ next_ok(t) > t
           /\ ~IsQuiet(next_ok(t))
           /\ \A u \in Int : t <= u /\ u < next_ok(t) => IsQuiet(u)
<1>. DEFINE e == 2 * quiet_hours_end_ist
            s == 2 * quiet_hours_start_ist
            l == (t + 11) % 48
            moment(k, r) == 48 * k + r - 11
<1>0. e \in Int /\ s \in Int /\ 0 <= e /\ e < s /\ s < 48
  BY PolicyAssumption
<1>1. l \in 0 .. 47
  OBVIOUS
<1>2. PICK d \in Int : t + 11 = 48 * d + l
  OBVIOUS
<1>. HIDE DEF e, s, l
<1>3. ASSUME NEW k \in Int, NEW r \in Int, 0 <= r, r < 48
      PROVE  IsQuiet(moment(k, r)) <=> r < e \/ r >= s
  <2>1. local(moment(k, r)) = r
    BY <1>3 DEF local
  <2>. QED  BY <2>1, <1>3 DEF IsQuiet, e, s
<1>. HIDE DEF moment
<1>4. CASE l >= s
  <2>1. next_ok(t) = moment(d + 1, e)
    BY <1>4, <1>2, <1>0, <1>1 DEF next_ok, local, e, s, l, moment
  <2>2. ~IsQuiet(moment(d + 1, e))
    BY <1>3, <1>0
  <2>3. ASSUME NEW u \in Int, t <= u, u < next_ok(t)
        PROVE  IsQuiet(u)
    <3>1. CASE u + 11 < 48 * (d + 1)
      <4>1. PICK r \in Int : r = u + 11 - 48 * d
        OBVIOUS
      <4>2. s <= r /\ r < 48 /\ 0 <= r
        BY <3>1, <4>1, <2>3, <1>2, <1>4, <1>0, <1>1
      <4>3. IsQuiet(moment(d, r))
        BY <4>2, <1>3, <1>0
      <4>. QED  BY <4>1, <4>3 DEF moment
    <3>2. CASE u + 11 >= 48 * (d + 1)
      <4>1. PICK r \in Int : r = u + 11 - 48 * (d + 1)
        OBVIOUS
      <4>2. r < e /\ r < 48 /\ 0 <= r
        BY <3>2, <4>1, <2>1, <2>3, <1>0 DEF moment
      <4>3. IsQuiet(moment(d + 1, r))
        BY <4>2, <1>3, <1>0
      <4>. QED  BY <4>1, <4>3 DEF moment
    <3>. QED  BY <3>1, <3>2
  <2>. QED  BY <2>1, <2>2, <2>3, <1>0, <1>1, <1>2 DEF moment
<1>5. CASE l < e
  <2>1. next_ok(t) = moment(d, e)
    BY <1>5, <1>2, <1>0, <1>1 DEF next_ok, local, e, s, l, moment
  <2>2. ~IsQuiet(moment(d, e))
    BY <1>3, <1>0
  <2>3. ASSUME NEW u \in Int, t <= u, u < next_ok(t)
        PROVE  IsQuiet(u)
    <3>1. PICK r \in Int : r = u + 11 - 48 * d
      OBVIOUS
    <3>2. r < e /\ r < 48 /\ 0 <= r
      BY <3>1, <2>1, <2>3, <1>0, <1>1, <1>2 DEF moment
    <3>3. IsQuiet(moment(d, r))
      BY <3>2, <1>3, <1>0
    <3>. QED  BY <3>1, <3>3 DEF moment
  <2>. QED  BY <2>1, <2>2, <2>3, <1>0, <1>1, <1>2, <1>5 DEF moment
<1>6. l >= s \/ l < e
  BY DEF IsQuiet, local, e, s, l
<1>. QED  BY <1>4, <1>5, <1>6
-------------------------------------------------------------------------------
(* Who is moved by what *)

LEMMA EarliestIsMoment ==
    ASSUME NEW c \in Context, Declined(c)
    PROVE  /\ earliest(c) \in Int
           /\ last_decline(c) \in Code
<1>1. c.order \in Order /\ c.order.last_attempt \in Attempt
  BY DEF Declined, last_decline, Context, Order
<1>2. last_decline(c) \in Code
  BY <1>1 DEF Declined, last_decline, Attempt
<1>3. \A code \in Code : DECLINE_SPECS[code].min_retry_delay \in Int
  BY DEF Code, DECLINE_SPECS, Decline
<1>. QED  BY <1>1, <1>2, <1>3 DEF earliest, spec, Attempt

LEMMA ChargingMoves ==
    ASSUME NEW R, NEW a, NEW c, is_charging(a)
    PROVE  Reschedules(R, a, c) =
             Verdict("retry_spacing" \in R /\ Declined(c) /\ a.at < earliest(c),
                     "retry_spacing", earliest(c))
             \cup Verdict("outage_hold" \in R /\ c.outage_until # None
                            /\ a.at < c.outage_until,
                          "outage_hold", c.outage_until)
<1>1. ~is_contact(a)
  BY DEF is_charging, is_contact, CHARGING_ACTIONS, CONTACT_ACTIONS
<1>. QED  BY <1>1 DEF Reschedules, TimingVerdicts, RetrySpacing, OutageHold,
                      QuietHours, Verdict

LEMMA ContactMoves ==
    ASSUME NEW R, NEW a, NEW c, ~is_charging(a)
    PROVE  Reschedules(R, a, c) =
             Verdict("quiet_hours" \in R /\ is_contact(a)
                       /\ a.channel \notin {None, "email"} /\ IsQuiet(a.at),
                     "quiet_hours", next_ok(a.at))
BY DEF Reschedules, TimingVerdicts, RetrySpacing, OutageHold, QuietHours, Verdict

\* The same action at another moment.
At(a, t) == [a EXCEPT !.at = t]

LEMMA AtFacts ==
    ASSUME NEW a \in Action, NEW t \in Int
    PROVE  /\ At(a, t) \in Action
           /\ At(a, t).at = t /\ At(a, t).type = a.type
           /\ At(a, t).channel = a.channel
           /\ is_charging(At(a, t)) <=> is_charging(a)
           /\ is_contact(At(a, t)) <=> is_contact(a)
           /\ is_inert(At(a, t)) <=> is_inert(a)
           /\ \A u \in Int : At(At(a, t), u) = At(a, u)
           /\ At(a, a.at) = a
BY DEF At, Action, is_charging, is_contact, is_inert
-------------------------------------------------------------------------------
(* One look of the engine at an action settles when it leaves *)

\* b is where one look lands: on or after the moment it looked at, out of
\* reach of every rule, and no later than it must be.
Lands(R, a, c, b) ==
    /\ b \in Action /\ b.at >= a.at
    /\ b = At(a, b.at)
    /\ Reschedules(R, b, c) = {}
    /\ \A t \in Int : a.at <= t /\ t < b.at => Reschedules(R, At(a, t), c) # {}

LEMMA OneVerdict ==
    ASSUME NEW rule, NEW to \in Int, NEW a
    PROVE  MovedBy({[rule |-> rule, reschedule_to |-> to]}, a) = At(a, to)
<1>1. {v.reschedule_to : v \in {[rule |-> rule, reschedule_to |-> to]}} = {to}
  OBVIOUS
<1>. QED  BY <1>1, MaxOfOne DEF MovedBy, LatestOf, At

LEMMA ChargingLands ==
    ASSUME NEW R, NEW a \in Action, NEW c \in Context, is_charging(a)
    PROVE  Lands(R, a, c, MovedBy(Reschedules(R, a, c), a))
<1>. DEFINE p == "retry_spacing" \in R /\ Declined(c)
            q == "outage_hold" \in R /\ c.outage_until # None
            e == earliest(c)
            o == c.outage_until
            v == [rule |-> "retry_spacing", reschedule_to |-> e]
            w == [rule |-> "outage_hold", reschedule_to |-> o]
<1>1. (p => e \in Int) /\ (q => o \in Int) /\ a.at \in Int
  BY EarliestIsMoment DEF Context, Action
<1>2. ASSUME NEW t \in Int
      PROVE  Reschedules(R, At(a, t), c) =
               (IF p /\ t < e THEN {v} ELSE {}) \cup (IF q /\ t < o THEN {w} ELSE {})
  BY ChargingMoves, AtFacts DEF Verdict
<1>3. Reschedules(R, a, c) =
        (IF p /\ a.at < e THEN {v} ELSE {}) \cup (IF q /\ a.at < o THEN {w} ELSE {})
  BY ChargingMoves DEF Verdict
<1>. HIDE DEF p, q, e, o
<1>4. ASSUME NEW t \in Int, t >= a.at, p => e <= t, q => o <= t,
             \A u \in Int : a.at <= u /\ u < t => (p /\ u < e) \/ (q /\ u < o)
      PROVE  Lands(R, a, c, At(a, t))
  <2>1. At(a, t) \in Action /\ At(a, t).at = t
    BY AtFacts
  <2>2. Reschedules(R, At(a, t), c) = {}
    BY <1>2, <1>4, <1>1
  <2>3. \A u \in Int : a.at <= u /\ u < t => Reschedules(R, At(a, u), c) # {}
    BY <1>2, <1>4
  <2>. QED  BY <2>1, <2>2, <2>3, <1>4 DEF Lands
<1>5. CASE (p /\ a.at < e) /\ (q /\ a.at < o)
  <2>1. Reschedules(R, a, c) = {v, w}
    BY <1>3, <1>5
  <2>2. e \in Int /\ o \in Int
    BY <1>1, <1>5
  <2>3. MovedBy({v, w}, a) = At(a, IF e >= o THEN e ELSE o)
    <3>1. {x.reschedule_to : x \in {v, w}} = {e, o}
      OBVIOUS
    <3>. QED  BY <3>1, <2>2, MaxOfTwo DEF MovedBy, LatestOf, At
  <2>. QED  BY <2>1, <2>2, <2>3, <1>1, <1>4, <1>5
<1>6. CASE (p /\ a.at < e) /\ ~(q /\ a.at < o)
  <2>1. Reschedules(R, a, c) = {v}
    BY <1>3, <1>6
  <2>2. MovedBy(Reschedules(R, a, c), a) = At(a, e)
    BY <2>1, <1>1, <1>6, OneVerdict
  <2>. QED  BY <2>2, <1>1, <1>4, <1>6
<1>7. CASE ~(p /\ a.at < e) /\ (q /\ a.at < o)
  <2>1. Reschedules(R, a, c) = {w}
    BY <1>3, <1>7
  <2>2. MovedBy(Reschedules(R, a, c), a) = At(a, o)
    BY <2>1, <1>1, <1>7, OneVerdict
  <2>. QED  BY <2>2, <1>1, <1>4, <1>7
<1>8. CASE ~(p /\ a.at < e) /\ ~(q /\ a.at < o)
  <2>1. MovedBy(Reschedules(R, a, c), a) = At(a, a.at)
    BY <1>3, <1>8, AtFacts, <1>1 DEF MovedBy
  <2>. QED  BY <2>1, <1>1, <1>4, <1>8
<1>. QED  BY <1>5, <1>6, <1>7, <1>8

LEMMA ContactLands ==
    ASSUME NEW R, NEW a \in Action, NEW c \in Context, ~is_charging(a)
    PROVE  Lands(R, a, c, MovedBy(Reschedules(R, a, c), a))
<1>. DEFINE p == "quiet_hours" \in R /\ is_contact(a) /\ a.channel \notin {None, "email"}
            v(t) == [rule |-> "quiet_hours", reschedule_to |-> next_ok(t)]
<1>1. a.at \in Int
  BY DEF Action
<1>2. ASSUME NEW t \in Int
      PROVE  Reschedules(R, At(a, t), c) = IF p /\ IsQuiet(t) THEN {v(t)} ELSE {}
  BY ContactMoves, AtFacts DEF Verdict
<1>3. Reschedules(R, a, c) = IF p /\ IsQuiet(a.at) THEN {v(a.at)} ELSE {}
  BY ContactMoves DEF Verdict
<1>. HIDE DEF p
<1>4. CASE p /\ IsQuiet(a.at)
  <2>. DEFINE n == next_ok(a.at)
  <2>1. n \in Int /\ n > a.at /\ ~IsQuiet(n)
        /\ \A u \in Int : a.at <= u /\ u < n => IsQuiet(u)
    BY <1>1, <1>4, QuietHoursEnd
  <2>2. MovedBy(Reschedules(R, a, c), a) = At(a, n)
    BY <1>3, <1>4, <2>1, OneVerdict
  <2>. HIDE DEF n
  <2>3. At(a, n) \in Action /\ At(a, n).at = n
    BY <2>1, AtFacts
  <2>4. Reschedules(R, At(a, n), c) = {}
    BY <2>1, <1>2
  <2>5. \A u \in Int : a.at <= u /\ u < n => Reschedules(R, At(a, u), c) # {}
    BY <2>1, <1>2, <1>4
  <2>6. n >= a.at
    BY <2>1, <1>1
  <2>. QED  BY <2>2, <2>3, <2>4, <2>5, <2>6 DEF Lands
<1>5. CASE ~(p /\ IsQuiet(a.at))
  <2>1. Reschedules(R, a, c) = {} /\ MovedBy(Reschedules(R, a, c), a) = a
    BY <1>3, <1>5 DEF MovedBy
  <2>. QED  BY <2>1, <1>1, AtFacts DEF Lands
<1>. QED  BY <1>4, <1>5

LEMMA FirstLookLands ==
    ASSUME NEW R, NEW a \in Action, NEW c \in Context
    PROVE  Lands(R, a, c, MovedBy(Reschedules(R, a, c), a))
BY ChargingLands, ContactLands

\* The verdict that decides is the latest, and it is one of those given.
LEMMA LatestIsGiven ==
    ASSUME NEW R, NEW a \in Action, NEW c \in Context,
           Reschedules(R, a, c) # {}
    PROVE  /\ \E v \in Reschedules(R, a, c) :
                 v.reschedule_to = LatestOf(Reschedules(R, a, c))
           /\ MovedBy(Reschedules(R, a, c), a)
                = At(a, LatestOf(Reschedules(R, a, c)))
           /\ \A v \in Reschedules(R, a, c) :
                 /\ v.rule \in TimingRules \cap R
                 /\ v.reschedule_to \in Int /\ v.reschedule_to > a.at
                 /\ Reschedules({v.rule}, a, c) = {v}
<1>. DEFINE S == Reschedules(R, a, c)
<1>1. MovedBy(S, a) = At(a, LatestOf(S))
  BY DEF MovedBy, At
<1>2. a.at \in Int
  BY DEF Action
<1>3. \A v \in S : /\ v.rule \in TimingRules \cap R
                   /\ v.reschedule_to \in Int /\ v.reschedule_to > a.at
                   /\ Reschedules({v.rule}, a, c) = {v}
  <2>1. CASE is_charging(a)
    <3>. DEFINE e == [rule |-> "retry_spacing", reschedule_to |-> earliest(c)]
                o == [rule |-> "outage_hold", reschedule_to |-> c.outage_until]
    <3>1. ASSUME NEW Q
          PROVE  Reschedules(Q, a, c) =
                   {v \in {e} : /\ "retry_spacing" \in Q /\ Declined(c)
                                /\ a.at < earliest(c)}
                   \cup {v \in {o} : /\ "outage_hold" \in Q
                                     /\ c.outage_until # None
                                     /\ a.at < c.outage_until}
      BY <2>1, ChargingMoves DEF Verdict
    <3>2. ASSUME NEW v \in S
          PROVE  \/ /\ v = e /\ "retry_spacing" \in R
                    /\ Declined(c) /\ a.at < earliest(c)
                 \/ /\ v = o /\ "outage_hold" \in R
                    /\ c.outage_until # None /\ a.at < c.outage_until
      BY <3>1
    <3>3. /\ e.rule = "retry_spacing" /\ e.reschedule_to = earliest(c)
          /\ o.rule = "outage_hold" /\ o.reschedule_to = c.outage_until
      OBVIOUS
    <3>4. Declined(c) => earliest(c) \in Int
      BY EarliestIsMoment
    <3>5. c.outage_until # None => c.outage_until \in Int
      BY DEF Context
    <3>6. (Declined(c) /\ a.at < earliest(c)) => Reschedules({"retry_spacing"}, a, c) = {e}
      BY <3>1
    <3>7. (c.outage_until # None /\ a.at < c.outage_until)
             => Reschedules({"outage_hold"}, a, c) = {o}
      BY <3>1
    <3>. HIDE DEF e, o, S
    <3>. QED  BY <1>2, <3>2, <3>3, <3>4, <3>5, <3>6, <3>7 DEF TimingRules
  <2>2. CASE ~is_charging(a)
    BY <2>2, <1>2, ContactMoves, QuietHoursEnd DEF Verdict, TimingRules
  <2>. QED  BY <2>1, <2>2
<1>4. \E p, q \in Int : {v.reschedule_to : v \in S} \subseteq {p, q}
  <2>1. CASE is_charging(a)
    <3>. DEFINE p == IF Declined(c) THEN earliest(c) ELSE 0
                q == IF c.outage_until # None THEN c.outage_until ELSE 0
    <3>1. p \in Int /\ q \in Int
      BY EarliestIsMoment DEF Context
    <3>2. \A v \in S : v.reschedule_to \in {p, q}
      BY <2>1, ChargingMoves DEF Verdict
    <3>. HIDE DEF p, q
    <3>3. {v.reschedule_to : v \in S} \subseteq {p, q}
      BY <3>2
    <3>. HIDE DEF S
    <3>. QED  BY <3>1, <3>3, Zenon
  <2>2. CASE ~is_charging(a)
    <3>1. \A v \in S : v.reschedule_to = next_ok(a.at)
      BY <2>2, ContactMoves DEF Verdict
    <3>2. next_ok(a.at) \in Int
      BY <3>1, <1>3
    <3>3. {v.reschedule_to : v \in S} \subseteq {next_ok(a.at), next_ok(a.at)}
      BY <3>1
    <3>. HIDE DEF S
    <3>. QED  BY <3>2, <3>3, Zenon
  <2>. QED  BY <2>1, <2>2
<1>5. LatestOf(S) \in {v.reschedule_to : v \in S}
  BY <1>4, MaxOfFew DEF LatestOf
<1>. QED  BY <1>1, <1>3, <1>5
-------------------------------------------------------------------------------
(* What evaluate returns *)

\* No rule that denies, and not the approval, depends on the moment.
LEMMA DenialsIgnoreTheMoment ==
    ASSUME NEW R, NEW a \in Action, NEW t \in Int, NEW c
    PROVE  /\ denials(R, At(a, t), c) = denials(R, a, c)
           /\ NeedsApproval(R, At(a, t), c) <=> NeedsApproval(R, a, c)
<1>1. /\ FraudBlock(At(a, t), c) <=> FraudBlock(a, c)
      /\ NonRetryableDecline(At(a, t), c) <=> NonRetryableDecline(a, c)
      /\ RetryBudget(At(a, t), c) <=> RetryBudget(a, c)
      /\ Consent(At(a, t), c) <=> Consent(a, c)
      /\ ContactFrequency(At(a, t), c) <=> ContactFrequency(a, c)
      /\ ContactFatigue(At(a, t), c) <=> ContactFatigue(a, c)
  BY AtFacts DEF FraudBlock, NonRetryableDecline, RetryBudget, Consent,
                 ContactFrequency, ContactFatigue
<1>2. /\ DisputeFreeze(At(a, t), c) <=> DisputeFreeze(a, c)
      /\ PromiseToPayHolds(At(a, t), c) <=> PromiseToPayHolds(a, c)
      /\ RevokedMandate(At(a, t), c) <=> RevokedMandate(a, c)
      /\ CancelledSubscription(At(a, t), c) <=> CancelledSubscription(a, c)
      /\ DiagnosisGate(At(a, t), c) <=> DiagnosisGate(a, c)
      /\ CostOfRecovery(At(a, t), c) <=> CostOfRecovery(a, c)
      /\ HighValueApproval(At(a, t), c) <=> HighValueApproval(a, c)
  BY AtFacts DEF DisputeFreeze, PromiseToPayHolds, RevokedMandate,
                 CancelledSubscription, DiagnosisGate, CostOfRecovery,
                 HighValueApproval
<1>3. \A r \in DenyRules : Objections(At(a, t), c)[r] <=> Objections(a, c)[r]
  BY <1>1, <1>2 DEF DenyRules, Objections
<1>. QED  BY <1>2, <1>3 DEF denials, NeedsApproval

\* The bounded second, third and fourth look never find anything.
LEMMA OneLookSettles ==
    ASSUME NEW R, NEW a \in Action, NEW c \in Context
    PROVE  Scheduled(R, a, c) = [final |-> MovedBy(Reschedules(R, a, c), a),
                                 moves |-> Reschedules(R, a, c)]
<1>. DEFINE first == [final |-> MovedBy(Reschedules(R, a, c), a),
                      moves |-> Reschedules(R, a, c)]
<1>1. Lands(R, a, c, first.final)
  BY FirstLookLands
<1>2. Reschedules(R, first.final, c) = {} /\ first.final.at \in Int
  BY <1>1 DEF Lands, Action
<1>. HIDE DEF first
<1>3. Settle(R, c, first) = first
  BY <1>2 DEF Settle, MovedBy
<1>. QED  BY <1>3 DEF Scheduled, first

\* What is permitted is permitted where the first look lands.
LEMMA EvaluatePermits ==
    ASSUME NEW R, NEW a \in Action, NEW c \in Context,
           denials(R, a, c) = {}
    PROVE  /\ evaluate(R, a, c).final = MovedBy(Reschedules(R, a, c), a)
           /\ evaluate(R, a, c).moves = Reschedules(R, a, c)
           /\ evaluate(R, a, c).disposition = Disposition(R, a, c)
           /\ Lands(R, a, c, evaluate(R, a, c).final)
           /\ denials(R, evaluate(R, a, c).final, c) = {}
<1>. DEFINE b == MovedBy(Reschedules(R, a, c), a)
<1>1. /\ evaluate(R, a, c).final = b
      /\ evaluate(R, a, c).moves = Reschedules(R, a, c)
      /\ evaluate(R, a, c).disposition = Disposition(R, a, c)
  BY OneLookSettles DEF evaluate
<1>2. Lands(R, a, c, b)
  BY FirstLookLands
<1>. HIDE DEF b
<1>3. b = At(a, b.at) /\ b.at \in Int
  BY <1>2 DEF Lands, Action
<1>4. denials(R, b, c) = {}
  BY <1>3, DenialsIgnoreTheMoment
<1>. QED  BY <1>1, <1>2, <1>4 DEF b

LEMMA EvaluateDenies ==
    ASSUME NEW R, NEW a, NEW c, denials(R, a, c) # {}
    PROVE  evaluate(R, a, c) = [disposition |-> "deny", final |-> None,
                                moves |-> {}]
BY DEF evaluate

LEMMA EvaluateType ==
    ASSUME NEW R, NEW a \in Action, NEW c \in Context
    PROVE  evaluate(R, a, c) \in Ruling
<1>1. CASE denials(R, a, c) # {}
  BY <1>1, EvaluateDenies DEF Ruling, Dispositions
<1>2. CASE denials(R, a, c) = {}
  <2>1. Disposition(R, a, c) \in Dispositions
    BY <1>2 DEF Disposition, Dispositions
  <2>2. Reschedules(R, a, c) \in SUBSET Move
    <3>1. CASE is_charging(a)
      BY <3>1, ChargingMoves, EarliestIsMoment DEF Verdict, Move, TimingRules, Context
    <3>2. CASE ~is_charging(a)
      BY <3>2, ContactMoves, QuietHoursEnd DEF Verdict, Move, TimingRules, Action
    <3>. QED  BY <3>1, <3>2
  <2>3. MovedBy(Reschedules(R, a, c), a) \in Action
    BY FirstLookLands DEF Lands
  <2>4. evaluate(R, a, c) = [disposition |-> Disposition(R, a, c),
                             final |-> MovedBy(Reschedules(R, a, c), a),
                             moves |-> Reschedules(R, a, c)]
    BY <1>2, OneLookSettles DEF evaluate
  <2>. QED  BY <2>1, <2>2, <2>3, <2>4 DEF Ruling
<1>. QED  BY <1>1, <1>2
-------------------------------------------------------------------------------
(* The specification *)

\* The ruling is what the engine makes of the action that is proposed.
IInv ==
    /\ rules \subseteq DEFAULT_RULES /\ ctx \in Context /\ proposed \in Action
    /\ ruling = None \/ ruling = evaluate(rules, proposed, ctx)

LEMMA PermittedIsNotDenied ==
    ASSUME IInv, Permitted
    PROVE  /\ ruling = evaluate(rules, proposed, ctx)
           /\ denials(rules, proposed, ctx) = {}
BY EvaluateDenies DEF IInv, Permitted

LEMMA InitIInv == Init => IInv
BY EngineAssumption DEF Init, IInv

LEMMA StepIInv == IInv /\ [Next]_vars => IInv'
<1>. SUFFICES ASSUME IInv, [Next]_vars PROVE IInv'
  OBVIOUS
<1>1. CASE evaluate_proposed
  BY <1>1 DEF IInv, evaluate_proposed
<1>2. CASE evaluate_again
  <2>1. Permitted
    BY <1>2 DEF evaluate_again, Permitted
  <2>2. Lands(rules, proposed, ctx, ruling.final)
    BY <2>1, PermittedIsNotDenied, EvaluatePermits DEF IInv
  <2>3. ruling.final \in Action
    BY <2>2 DEF Lands
  <2>. QED  BY <1>2, <2>3 DEF IInv, evaluate_again
<1>3. CASE UNCHANGED vars
  BY <1>3 DEF IInv, vars
<1>. QED  BY <1>1, <1>2, <1>3 DEF Next

LEMMA AlwaysIInv == Spec => []IInv
BY InitIInv, StepIInv, PTL DEF Spec

\* Whatever the rules, the action and the context, evaluate returns a ruling.
THEOREM TypeCorrect == Spec => []TypeOK
<1>1. IInv => TypeOK
  BY EvaluateType DEF IInv, TypeOK
<1>. QED  BY <1>1, AlwaysIInv, PTL

\* "Every rule that asked for a delay is satisfied at once", for every rule
\* set, action and context: where evaluate puts a permitted action, no rule
\* denies it and none moves it, so one look would have been enough.
THEOREM PermittedMomentsPass == Spec => []FinalPassesEveryRule
<1>1. IInv => FinalPassesEveryRule
  <2>. SUFFICES ASSUME IInv, Permitted
                PROVE  /\ denials(rules, ruling.final, ctx) = {}
                       /\ Reschedules(rules, ruling.final, ctx) = {}
    BY DEF FinalPassesEveryRule
  <2>1. /\ Lands(rules, proposed, ctx, ruling.final)
        /\ denials(rules, ruling.final, ctx) = {}
    BY PermittedIsNotDenied, EvaluatePermits DEF IInv
  <2>. QED  BY <2>1 DEF Lands
<1>. QED  BY <1>1, AlwaysIInv, PTL

\* A permitted action is never early and never later than it must be: every
\* moment from the proposed one up to where it landed is one some rule moves
\* it away from.
THEOREM DelaysAreLeast == Spec => []DelayIsLeast
<1>1. IInv => DelayIsLeast
  <2>. SUFFICES ASSUME IInv, Permitted
                PROVE  /\ proposed.at <= ruling.final.at
                       /\ \A t \in proposed.at .. (ruling.final.at - 1) :
                             Reschedules(rules, At(proposed, t), ctx) # {}
    BY DEF DelayIsLeast, At
  <2>1. Lands(rules, proposed, ctx, ruling.final)
    BY PermittedIsNotDenied, EvaluatePermits DEF IInv
  <2>2. proposed.at \in Int /\ ruling.final.at \in Int
    BY <2>1 DEF Lands, Action, IInv
  <2>. QED  BY <2>1, <2>2 DEF Lands
<1>. QED  BY <1>1, AlwaysIInv, PTL

\* "The rule named here is the one that actually chose the moment": with the
\* named rule as the only one, the engine chooses the same moment.
THEOREM MoversAreNamed == Spec => []MoverChoseTheMoment
<1>1. IInv => MoverChoseTheMoment
  <2>. SUFFICES ASSUME IInv, Permitted
                PROVE  /\ moving_rules(ruling) = {} <=> ruling.final = proposed
                       /\ \A r \in moving_rules(ruling) :
                             evaluate({r}, proposed, ctx).final = ruling.final
    BY DEF MoverChoseTheMoment
  <2>. DEFINE S == Reschedules(rules, proposed, ctx)
  <2>1. ruling.final = MovedBy(S, proposed) /\ ruling.moves = S
    BY PermittedIsNotDenied, EvaluatePermits DEF IInv
  <2>2. proposed \in Action /\ ctx \in Context /\ proposed.at \in Int
    BY DEF IInv, Action
  <2>3. CASE S = {}
    BY <2>1, <2>3 DEF MovedBy, moving_rules
  <2>4. CASE S # {}
    <3>1. PICK v \in S : v.reschedule_to = LatestOf(S)
      BY <2>2, <2>4, LatestIsGiven
    <3>2. /\ ruling.final = At(proposed, LatestOf(S))
          /\ \A w \in S : /\ w.rule \in TimingRules
                          /\ w.reschedule_to \in Int
                          /\ w.reschedule_to > proposed.at
                          /\ Reschedules({w.rule}, proposed, ctx) = {w}
      BY <2>1, <2>2, <2>4, LatestIsGiven
    <3>. HIDE DEF S
    <3>3. moving_rules(ruling) = {w.rule : w \in {x \in S : x.reschedule_to = LatestOf(S)}}
      BY <2>1 DEF moving_rules
    <3>4. moving_rules(ruling) # {}
      BY <3>1, <3>3
    <3>5. ruling.final # proposed
      <4>1. LatestOf(S) \in Int /\ LatestOf(S) > proposed.at
        BY <3>1, <3>2
      <4>2. At(proposed, LatestOf(S)).at = LatestOf(S)
        BY <4>1, <2>2, AtFacts
      <4>. QED  BY <4>1, <4>2, <3>2, <2>2
    <3>6. ASSUME NEW w \in S, w.reschedule_to = LatestOf(S)
          PROVE  evaluate({w.rule}, proposed, ctx).final = ruling.final
      <4>1. denials({w.rule}, proposed, ctx) = {}
        BY <3>2, <3>6 DEF denials, TimingRules, DenyRules
      <4>2. evaluate({w.rule}, proposed, ctx).final = MovedBy({w}, proposed)
        <5>1. Reschedules({w.rule}, proposed, ctx) = {w}
          BY <3>2, <3>6
        <5>2. evaluate({w.rule}, proposed, ctx).final
                = MovedBy(Reschedules({w.rule}, proposed, ctx), proposed)
          <6>. DEFINE Q == {w.rule}
          <6>1. denials(Q, proposed, ctx) = {}
            BY <4>1
          <6>. HIDE DEF Q
          <6>2. evaluate(Q, proposed, ctx).final
                  = MovedBy(Reschedules(Q, proposed, ctx), proposed)
            BY <6>1, <2>2, EvaluatePermits
          <6>. QED  BY <6>2 DEF Q
        <5>. QED  BY <5>1, <5>2
      <4>3. {x.reschedule_to : x \in {w}} = {LatestOf(S)}
        BY <3>6
      <4>4. LatestOf({w}) = LatestOf(S)
        BY <4>3, <3>2, <3>6, MaxOfOne DEF LatestOf
      <4>. QED  BY <4>2, <4>4, <3>2 DEF MovedBy, At
    <3>. QED  BY <3>3, <3>4, <3>5, <3>6
  <2>. QED  BY <2>3, <2>4
<1>. QED  BY <1>1, AlwaysIInv, PTL

\* "Adding a rule can only ever make the system more conservative".
THEOREM RulesRestrict == Spec => []RulesOnlyRestrict
<1>1. IInv => RulesOnlyRestrict
  <2>. SUFFICES ASSUME IInv, ruling # None, NEW r \in rules
                PROVE  LET less == evaluate(rules \ {r}, proposed, ctx)
                       IN  /\ Strictness[less.disposition]
                                <= Strictness[ruling.disposition]
                           /\ Permitted => less.final.at <= ruling.final.at
    BY DEF RulesOnlyRestrict
  <2>. DEFINE R == rules \ {r}
              less == evaluate(R, proposed, ctx)
  <2>1. /\ proposed \in Action /\ ctx \in Context
        /\ ruling = evaluate(rules, proposed, ctx)
    BY DEF IInv
  <2>2. denials(R, proposed, ctx) \subseteq denials(rules, proposed, ctx)
    BY DEF denials
  <2>3. \A a : Reschedules(R, a, ctx) \subseteq Reschedules(rules, a, ctx)
    BY DEF Reschedules
  <2>4. NeedsApproval(R, proposed, ctx) => NeedsApproval(rules, proposed, ctx)
    BY DEF NeedsApproval
  <2>5. CASE denials(rules, proposed, ctx) # {}
    <3>1. ruling.disposition = "deny" /\ ~Permitted
      BY <2>1, <2>5, EvaluateDenies DEF Permitted
    <3>2. less.disposition \in Dispositions
      BY <2>1, EvaluateType DEF Ruling
    <3>. QED  BY <3>1, <3>2 DEF Strictness, Dispositions
  <2>6. CASE denials(rules, proposed, ctx) = {}
    <3>1. denials(R, proposed, ctx) = {}
      BY <2>2, <2>6
    <3>2. /\ less.disposition = Disposition(R, proposed, ctx)
          /\ ruling.disposition = Disposition(rules, proposed, ctx)
          /\ Lands(R, proposed, ctx, less.final)
          /\ Lands(rules, proposed, ctx, ruling.final)
      BY <2>1, <2>6, <3>1, EvaluatePermits
    <3>3. Strictness[less.disposition] <= Strictness[ruling.disposition]
      BY <2>4, <2>6, <3>1, <3>2 DEF Disposition, Strictness
    <3>. HIDE DEF R, less
    <3>4. less.final.at <= ruling.final.at
      <4>1. /\ proposed.at \in Int /\ less.final.at \in Int
            /\ ruling.final.at \in Int /\ proposed.at <= ruling.final.at
        BY <2>1, <3>2 DEF Lands, Action
      <4>2. Reschedules(R, At(proposed, ruling.final.at), ctx) = {}
        BY <3>2, <2>3 DEF Lands
      <4>. QED  BY <4>1, <4>2, <3>2 DEF Lands
    <3>. QED  BY <3>3, <3>4 DEF R, less
  <2>. QED  BY <2>5, <2>6
<1>. QED  BY <1>1, AlwaysIInv, PTL

\* What was permitted is permitted again for the same moment, and is never
\* moved: a held action that comes due in an unchanged world fires.
THEOREM ReRulingStable == Spec => ReRulingIsStable
<1>1. IInv /\ [Next]_vars =>
        [ Permitted => /\ ruling'.final = ruling.final
                       /\ ruling'.disposition # "reschedule" ]_vars
  <2>. SUFFICES ASSUME IInv, Next, Permitted
                PROVE  /\ ruling'.final = ruling.final
                       /\ ruling'.disposition # "reschedule"
    OBVIOUS
  <2>1. evaluate_again
    BY DEF Next, evaluate_proposed, Permitted
  <2>. DEFINE b == ruling.final
  <2>2. Lands(rules, proposed, ctx, b) /\ denials(rules, b, ctx) = {}
    BY PermittedIsNotDenied, EvaluatePermits DEF IInv
  <2>3. b \in Action /\ Reschedules(rules, b, ctx) = {} /\ ctx \in Context
    BY <2>2 DEF Lands, IInv
  <2>4. ruling' = evaluate(rules, b, ctx)
    BY <2>1 DEF evaluate_again
  <2>. HIDE DEF b
  <2>5. ruling'.final = MovedBy({}, b)
        /\ ruling'.disposition = Disposition(rules, b, ctx)
    BY <2>2, <2>3, <2>4, EvaluatePermits
  <2>. QED  BY <2>2, <2>3, <2>5 DEF MovedBy, Disposition, b
<1>. QED  BY <1>1, AlwaysIInv, PTL DEF Spec, ReRulingIsStable
===============================================================================
