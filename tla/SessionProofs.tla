----------------------------- MODULE SessionProofs -----------------------------
(***************************************************************************)
(* Whatever is executed was permitted by the rules in the world of that    *)
(* moment, and signed for when it was large, for any plan, batch and       *)
(* people.                                                                 *)
(*                                                                         *)
(* Two arguments.  What the engine makes of an action is that action at    *)
(* another moment, so its subject, its type and with them every denial and *)
(* the need for approval follow it from the plan through the desk and the  *)
(* scheduler to the ledger.  And what the rules count as recent contacts,  *)
(* in a sequence of moments, is the set of contacts on the ledger.         *)
(***************************************************************************)
EXTENDS Session, TLAPS, FiniteSetTheorems, NaturalsInduction, WellFoundedInduction

\* What is at stake for a subject: nothing in the program changes it.
Worth(s) == subject_amount(Subjects[s])

\* Somebody approved an action of this type on this subject, if it is large.
SignedBy(a, rel, req) ==
    Worth(a.subject) >= approval_threshold =>
        \E r \in rel : req[r].state = "approved" /\ r.subject = a.subject /\ r.type = a.type

Signed(a) == SignedBy(a, released, requests)
SignedThen(a) == SignedBy(a, released', requests')

AmountsStand == \A s \in DOMAIN Subjects : subject_amount(batch[s]) = Worth(s)
ReleasedWereApproved == \A r \in released : requests[r].state = "approved"
EntriesAreSigned ==
    \A e \in DOMAIN entries :
        Signed(entries[e].action) /\ ~ is_inert(entries[e].action)
RequestsAct == \A r \in DOMAIN requests : ~ is_inert(r)
LedgerIsSigned == \A x \in ledger : Signed(x.action)

IInv ==
    /\ TypeOK
    /\ IsFiniteSet(DOMAIN entries) /\ IsFiniteSet(ledger)
    /\ AmountsStand /\ RequestsAct /\ ReleasedWereApproved
    /\ EntriesAreSigned /\ LedgerIsSigned
-------------------------------------------------------------------------------
(* The first of finitely many moments, and how many there are *)

LEMMA LeastNumber ==
    ASSUME NEW T \in SUBSET Nat, T # {}
    PROVE  \E t \in T : \A u \in T : t <= u
<1>. DEFINE R == OpToRel(<, Nat)
<1>1. \E t \in T : \A u \in T : ~ (<<u, t>> \in R)
  <2>1. IsWellFoundedOn(R, Nat)
    BY NatLessThanWellFounded
  <2>. HIDE DEF R
  <2>. QED  BY <2>1, WFMin
<1>2. \A t, u \in T : <<u, t>> \in R <=> u < t
  BY DEF OpToRel
<1>. HIDE DEF R
<1>3. PICK t \in T : \A u \in T : ~ (<<u, t>> \in R)
  BY <1>1
<1>4. \A u \in T : ~ (u < t)
  BY <1>2, <1>3
<1>. QED  BY <1>4

HasLeast(S) == \E m \in S : \A x \in S : m <= x

LEMMA FiniteHasLeast ==
    ASSUME NEW S \in SUBSET Int, S # {}, IsFiniteSet(S)
    PROVE  Min(S) \in S /\ \A x \in S : Min(S) <= x
<1>. DEFINE Bad == {n \in Nat : \E T \in SUBSET S : /\ T # {} /\ Cardinality(T) = n
                                                    /\ ~ HasLeast(T)}
<1>1. HasLeast(S)
  <2>. SUFFICES ASSUME ~ HasLeast(S) PROVE FALSE
    OBVIOUS
  <2>1. Cardinality(S) \in Bad
    <3>1. Cardinality(S) \in Nat /\ S \in SUBSET S
      BY FS_CardinalityType
    <3>. QED  BY <3>1
  <2>2. PICK n \in Bad : \A k \in Bad : n <= k
    <3>1. Bad \in SUBSET Nat /\ Bad # {}
      BY <2>1
    <3>. HIDE DEF Bad
    <3>. QED  BY <3>1, LeastNumber
  <2>3. PICK T \in SUBSET S : T # {} /\ Cardinality(T) = n /\ ~ HasLeast(T)
    BY <2>2
  <2>4. PICK x \in T : TRUE
    BY <2>3
  <2>5. IsFiniteSet(T) /\ IsFiniteSet(T \ {x}) /\ Cardinality(T \ {x}) = n - 1
    BY <2>3, <2>4, FS_Subset, FS_RemoveElement
  <2>6. Cardinality(T \ {x}) \in Nat
    BY <2>5, FS_CardinalityType
  <2>7. n - 1 \in Nat /\ n \in Nat
    BY <2>2, <2>5, <2>6
  <2>8. n - 1 \notin Bad
    <3>. HIDE DEF Bad
    <3>. QED  BY <2>2, <2>7
  <2>9. T \ {x} = {} \/ HasLeast(T \ {x})
    <3>1. T \ {x} \in SUBSET S
      BY <2>3
    <3>. QED  BY <2>5, <2>7, <2>8, <3>1
  <2>10. HasLeast(T)
    <3>1. CASE T \ {x} = {}
      <4>1. T = {x} /\ x \in Int
        BY <2>3, <2>4, <3>1
      <4>. QED  BY <4>1 DEF HasLeast
    <3>2. CASE HasLeast(T \ {x})
      <4>1. PICK m \in T \ {x} : \A y \in T \ {x} : m <= y
        BY <3>2 DEF HasLeast
      <4>2. m \in Int /\ x \in Int /\ T \subseteq Int
        BY <2>3, <2>4, <4>1
      <4>3. CASE m <= x
        BY <4>1, <4>3 DEF HasLeast
      <4>4. CASE x <= m
        BY <2>4, <4>1, <4>2, <4>4 DEF HasLeast
      <4>. QED  BY <4>2, <4>3, <4>4
    <3>. QED  BY <2>9, <3>1, <3>2
  <2>. QED  BY <2>3, <2>10
<1>. QED  BY <1>1 DEF HasLeast, Min

LEMMA MaxOfTwo ==
    ASSUME NEW p \in Int, NEW q \in Int
    PROVE  Max({p, q}) = IF p >= q THEN p ELSE q
<1>. DEFINE m == IF p >= q THEN p ELSE q
<1>1. m \in {p, q} /\ \A y \in {p, q} : m >= y
  OBVIOUS
<1>2. \A x \in {p, q} : (\A y \in {p, q} : x >= y) => x = m
  OBVIOUS
<1>. HIDE DEF m
<1>. QED  BY <1>1, <1>2 DEF Max

\* A set of records as a sequence of their moments: counting those from a
\* moment on counts the records from that moment on.
LEMMA MomentsCount ==
    ASSUME NEW S, IsFiniteSet(S), NEW from
    PROVE  Cardinality({n \in DOMAIN Moments(S) : Moments(S)[n] >= from})
              = Cardinality({x \in S : x.at >= from})
<1>. DEFINE D == 1 .. Cardinality(S)
            s == SetToSeq(S)
            I == {n \in D : s[n].at >= from}
            T == {x \in S : x.at >= from}
            g == [n \in I |-> s[n]]
<1>1. Cardinality(S) \in Nat /\ IsFiniteSet(D) /\ Cardinality(D) = Cardinality(S)
  <2>1. Cardinality(S) \in Nat
    BY FS_CardinalityType
  <2>. QED  BY <2>1, FS_Interval
<1>2. s \in [D -> S] /\ IsInjective(s)
  <2>1. \E f \in [D -> S] : IsInjective(f)
    BY FS_CardinalityType DEF ExistsBijection, Bijection, Injection
  <2>. QED  BY <2>1 DEF SetToSeq
<1>. HIDE DEF s, D
<1>3. \A x \in S : \E n \in D : s[n] = x
  <2>1. s \in Injection(D, S)
    BY <1>2 DEF Injection
  <2>2. s \in Surjection(D, S)
    BY <1>1, <2>1, FS_Injection
  <2>. QED  BY <2>2 DEF Surjection
<1>4. IsFiniteSet(I)
  <2>1. I \in SUBSET D
    OBVIOUS
  <2>. QED  BY <1>1, <2>1, FS_Subset
<1>5. g \in Bijection(I, T)
  <2>1. g \in [I -> T]
    BY <1>2
  <2>2. IsInjective(g)
    BY <1>2 DEF IsInjective
  <2>3. \A x \in T : \E n \in I : g[n] = x
    BY <1>3
  <2>. QED  BY <2>1, <2>2, <2>3 DEF Bijection, Injection, Surjection
<1>6. Cardinality(T) = Cardinality(I)
  <2>1. ExistsBijection(I, T)
    BY <1>5 DEF ExistsBijection
  <2>. HIDE DEF I, T, g
  <2>. QED  BY <1>4, <2>1, FS_Bijection
<1>7. Moments(S) = [n \in D |-> s[n].at]
  BY <1>2 DEF Moments, s
<1>8. {n \in DOMAIN Moments(S) : Moments(S)[n] >= from} = I
  BY <1>7
<1>. QED  BY <1>6, <1>8

LEMMA RecentMoments ==
    ASSUME NEW S, IsFiniteSet(S), NEW c
    PROVE  Recent(Moments(S), c) = Cardinality({x \in S : x.at >= c.now - contact_window})
BY MomentsCount DEF Recent
-------------------------------------------------------------------------------
(* What the engine makes of an action is that action, at another moment *)

Same(a, b) == b \in Reference /\ b.type = a.type /\ b.subject = a.subject

LEMMA SameIsInert ==
    ASSUME NEW a, NEW b, Same(a, b)
    PROVE  /\ is_inert(b) <=> is_inert(a)
           /\ is_contact(b) <=> is_contact(a)
BY DEF Same, is_inert, is_contact

\* No outage is known to the console, and no action is both a charge and a
\* contact: one rule at most moves it.
LEMMA OneMove ==
    ASSUME NEW R, NEW b \in Reference, NEW c, c.order \in Order \cup {None},
           c.outage_until = None
    PROVE  \/ Reschedules(R, b, c) = {}
           \/ \E rule, t : /\ t \in Int
                           /\ Reschedules(R, b, c) = {[rule |-> rule, reschedule_to |-> t]}
<1>1. OutageHold(b, c) = {}
  BY DEF OutageHold, Verdict
<1>2. CASE is_charging(b)
  <2>1. ~ is_contact(b)
    BY <1>2 DEF is_charging, is_contact, CHARGING_ACTIONS, CONTACT_ACTIONS
  <2>2. QuietHours(b, c) = {}
    BY <2>1 DEF QuietHours, Verdict
  <2>3. CASE ~ Declined(c)
    BY <1>1, <2>2, <2>3 DEF Reschedules, TimingVerdicts, RetrySpacing, Verdict
  <2>4. CASE Declined(c)
    <3>. DEFINE v == [rule |-> "retry_spacing", reschedule_to |-> earliest(c)]
    <3>1. earliest(c) \in Int
      <4>1. c.order \in Order /\ c.order.last_attempt \in Attempt
        BY <2>4 DEF Declined, last_decline, Order
      <4>2. last_decline(c) \in Code
        BY <4>1, <2>4 DEF Declined, last_decline, Attempt
      <4>3. \A code \in Code : DECLINE_SPECS[code].min_retry_delay \in Int
        BY DEF Code, DECLINE_SPECS, Decline
      <4>4. c.order.last_attempt.at \in Int
        BY <4>1 DEF Attempt
      <4>. QED  BY <4>2, <4>3, <4>4 DEF earliest, spec
    <3>2. RetrySpacing(b, c) \in {{}, {v}}
      BY DEF RetrySpacing, Verdict
    <3>. HIDE DEF v
    <3>3. Reschedules(R, b, c) \in {{}, {v}}
      BY <1>1, <2>2, <3>2 DEF Reschedules, TimingVerdicts
    <3>. QED  BY <3>1, <3>3 DEF v
  <2>. QED  BY <2>3, <2>4
<1>3. CASE ~ is_charging(b)
  <2>. DEFINE v == [rule |-> "quiet_hours", reschedule_to |-> next_ok(b.at)]
  <2>1. RetrySpacing(b, c) = {} /\ QuietHours(b, c) \in {{}, {v}}
    BY <1>3 DEF RetrySpacing, QuietHours, Verdict
  <2>2. next_ok(b.at) \in Int
    BY PolicyAssumption DEF next_ok, local, Reference
  <2>. HIDE DEF v
  <2>3. Reschedules(R, b, c) \in {{}, {v}}
    BY <1>1, <2>1 DEF Reschedules, TimingVerdicts
  <2>. QED  BY <2>2, <2>3 DEF v
<1>. QED  BY <1>2, <1>3

LEMMA AnotherMoment ==
    ASSUME NEW b \in Reference, NEW t \in Int
    PROVE  Same(b, [b EXCEPT !.at = t])
BY DEF Same, Reference

LEMMA MovedIsSame ==
    ASSUME NEW R, NEW b \in Reference, NEW c, c.order \in Order \cup {None},
           c.outage_until = None
    PROVE  Same(b, MovedBy(Reschedules(R, b, c), b))
<1>. DEFINE S == Reschedules(R, b, c)
<1>1. CASE S = {}
  BY <1>1 DEF MovedBy, Same
<1>2. CASE S # {}
  <2>1. PICK rule, t : t \in Int /\ S = {[rule |-> rule, reschedule_to |-> t]}
    BY <1>2, OneMove
  <2>. HIDE DEF S
  <2>2. {v.reschedule_to : v \in S} = {t, t}
    BY <2>1
  <2>3. LatestOf(S) = t
    BY <2>1, <2>2, MaxOfTwo DEF LatestOf
  <2>4. MovedBy(S, b) = [b EXCEPT !.at = t]
    BY <1>2, <2>3, Zenon DEF MovedBy
  <2>5. Same(b, [b EXCEPT !.at = t])
    BY <2>1, AnotherMoment
  <2>. QED  BY <2>4, <2>5, Zenon DEF S
<1>. QED  BY <1>1, <1>2

LEMMA SettledIsSame ==
    ASSUME NEW R, NEW a, NEW s, Same(a, s.final), NEW c, c.order \in Order \cup {None},
           c.outage_until = None
    PROVE  Same(a, Settle(R, c, s).final)
<1>. DEFINE b == MovedBy(Reschedules(R, s.final, c), s.final)
<1>1. s.final \in Reference
  BY DEF Same
<1>2. Same(s.final, b)
  BY <1>1, MovedIsSame
<1>. HIDE DEF b
<1>3. Same(a, b)
  BY <1>2 DEF Same
<1>4. Settle(R, c, s).final \in {b, s.final}
  BY DEF Settle, b
<1>. QED  BY <1>3, <1>4

LEMMA ScheduledIsSame ==
    ASSUME NEW R, NEW a \in Reference, NEW c, c.order \in Order \cup {None},
           c.outage_until = None
    PROVE  Same(a, Scheduled(R, a, c).final)
<1>. DEFINE s0 == [final |-> MovedBy(Reschedules(R, a, c), a), moves |-> Reschedules(R, a, c)]
            s1 == Settle(R, c, s0)
            s2 == Settle(R, c, s1)
            s3 == Settle(R, c, s2)
<1>1. Same(a, s0.final)
  BY MovedIsSame
<1>2. Scheduled(R, a, c) \in {s0, s3}
  BY DEF Scheduled
<1>. HIDE DEF s0
<1>3. Same(a, s1.final)
  BY <1>1, SettledIsSame
<1>. HIDE DEF s1
<1>4. Same(a, s2.final)
  BY <1>3, SettledIsSame
<1>. HIDE DEF s2
<1>5. Same(a, s3.final)
  BY <1>4, SettledIsSame
<1>. HIDE DEF s3
<1>. QED  BY <1>1, <1>2, <1>5

LEMMA ContextFields ==
    ASSUME batch \in [DOMAIN Subjects -> Entities], NEW a \in Reference, NEW now
    PROVE  /\ context(a, now).order \in Order \cup {None}
           /\ context(a, now).outage_until = None
           /\ context(a, now).invoice = batch[a.subject].invoice
           /\ context(a, now).customer = people[customer_of(a)]
           /\ context(a, now).now = now
           /\ subject_amount(context(a, now)) = subject_amount(batch[a.subject])
           /\ a.subject \in DOMAIN Subjects /\ customer_of(a) \in DOMAIN People
<1>1. a.subject \in DOMAIN Subjects
  BY DEF Reference
<1>2. batch[a.subject] \in Entities /\ Subjects[a.subject] \in Entities
  BY <1>1, SessionAssumption
<1>3. customer_of(a) \in DOMAIN People
  BY <1>2 DEF customer_of, Entities
<1>. QED  BY <1>1, <1>2, <1>3 DEF context, Entities, subject_amount

\* What a ruling that is no denial says: the action it permits is the one that
\* was proposed, and no rule objects to it.
LEMMA Permitted ==
    ASSUME batch \in [DOMAIN Subjects -> Entities], NEW a \in Reference, NEW now,
           Rule(a, now).disposition # "deny"
    PROVE  /\ Same(a, Rule(a, now).final)
           /\ ~ DisputeFreeze(a, context(a, now)) /\ ~ Consent(a, context(a, now))
           /\ ~ ContactFrequency(a, context(a, now)) /\ ~ ContactFatigue(a, context(a, now))
           /\ Rule(a, now).disposition # "require_approval" =>
                 ~ HighValueApproval(a, context(a, now))
<1>. DEFINE c == context(a, now)
            R == DEFAULT_RULES
<1>1. c.order \in Order \cup {None} /\ c.outage_until = None
  BY ContextFields
<1>. HIDE DEF c
<1>2. denials(R, a, c) = {}
  BY DEF Rule, evaluate, c
<1>3. Rule(a, now).final = Scheduled(R, a, c).final
      /\ Rule(a, now).disposition = Disposition(R, a, c)
  <2>. HIDE DEF R
  <2>. QED  BY <1>2 DEF Rule, evaluate, c, R
<1>4. Same(a, Rule(a, now).final)
  BY <1>1, <1>3, ScheduledIsSame
<1>5. \A r \in DenyRules : ~ Objections(a, c)[r]
  BY <1>2 DEF denials, DEFAULT_RULES
<1>6. /\ Objections(a, c)["dispute_freeze"] = DisputeFreeze(a, c)
      /\ Objections(a, c)["contact_consent"] = Consent(a, c)
      /\ Objections(a, c)["contact_frequency"] = ContactFrequency(a, c)
      /\ Objections(a, c)["contact_fatigue"] = ContactFatigue(a, c)
  BY DEF Objections
<1>7. {"dispute_freeze", "contact_consent", "contact_frequency", "contact_fatigue"}
         \subseteq DenyRules
  BY DEF DenyRules
<1>8. /\ ~ Objections(a, c)["dispute_freeze"] /\ ~ Objections(a, c)["contact_consent"]
      /\ ~ Objections(a, c)["contact_frequency"] /\ ~ Objections(a, c)["contact_fatigue"]
  BY <1>5, <1>7
<1>9. Rule(a, now).disposition # "require_approval" => ~ HighValueApproval(a, c)
  BY <1>2, <1>3 DEF Disposition, NeedsApproval, DEFAULT_RULES
<1>10. ~ DisputeFreeze(a, c) /\ ~ Consent(a, c)
       /\ ~ ContactFrequency(a, c) /\ ~ ContactFatigue(a, c)
  BY <1>6, <1>8, Zenon
<1>. QED  BY <1>4, <1>9, <1>10 DEF c
-------------------------------------------------------------------------------
(* The operations *)

LEMMA FiniteImage ==
    ASSUME NEW f, IsFiniteSet(DOMAIN f)
    PROVE  IsFiniteSet({f[x] : x \in DOMAIN f})
<1>. DEFINE T == {f[x] : x \in DOMAIN f}
            g == [x \in DOMAIN f |-> f[x]]
<1>1. g \in Surjection(DOMAIN f, T)
  BY DEF Surjection
<1>. HIDE DEF g, T
<1>2. IsFiniteSet(T)
  BY <1>1, FS_Surjection
<1>. QED  BY <1>2 DEF T

LEMMA SignedStays ==
    ASSUME ReleasedWereApproved, released \subseteq released',
           \A r \in released : requests'[r].state = "approved",
           NEW a, NEW b, b.subject = a.subject, b.type = a.type, Signed(a)
    PROVE  SignedThen(b)
BY DEF Signed, SignedThen, SignedBy

\* The invariant but for what an operation says of its requests and entries.
LEMMA Carried ==
    ASSUME IInv, TypeOK', UNCHANGED <<batch, ledger>>, RequestsAct',
           IsFiniteSet(DOMAIN entries'), ReleasedWereApproved',
           released \subseteq released',
           \A r \in released : requests'[r].state = "approved",
           \A e \in DOMAIN entries' :
              \/ e \in DOMAIN entries /\ entries'[e] = entries[e]
              \/ SignedThen(entries'[e].action) /\ ~ is_inert(entries'[e].action)
    PROVE  IInv'
<1>1. AmountsStand' /\ IsFiniteSet(ledger')
  BY DEF IInv, AmountsStand
<1>2. EntriesAreSigned'
  <2>1. \A e \in DOMAIN entries :
           SignedThen(entries[e].action) /\ ~ is_inert(entries[e].action)
    BY SignedStays DEF IInv, EntriesAreSigned
  <2>2. \A e \in DOMAIN entries' :
           SignedThen(entries'[e].action) /\ ~ is_inert(entries'[e].action)
    BY <2>1
  <2>. QED  BY <2>2 DEF EntriesAreSigned, Signed, SignedThen, is_inert
<1>3. LedgerIsSigned'
  <2>1. \A x \in ledger : SignedThen(x.action)
    BY SignedStays DEF IInv, LedgerIsSigned
  <2>. QED  BY <2>1 DEF LedgerIsSigned, Signed, SignedThen
<1>. QED  BY <1>1, <1>2, <1>3 DEF IInv

LEMMA HeldFacts ==
    ASSUME NEW f \in Reference
    PROVE  Held(f) \in Entry /\ Held(f).action = f
<1>1. f.at \in Int /\ 0 \in 0 .. max_deferrals
  BY SessionAssumption DEF Reference
<1>. QED  BY <1>1 DEF Held, Entry

LEMMA InitIInv ==
    ASSUME Init
    PROVE  IInv
<1>. DEFINE P == Routed({"allow", "reschedule"})
            A == {Rule(a, a.at).final : a \in P}
<1>0. /\ clock = First /\ batch = Subjects /\ people = People /\ released = {}
      /\ ledger = {} /\ entries = [f \in A |-> Held(f)]
      /\ requests = [a \in Routed({"require_approval"}) |->
                        [state |-> "pending", submitted |-> clock]]
  BY DEF Init
<1>1. P \subseteq Plan /\ Routed({"require_approval"}) \subseteq Plan /\ Plan \subseteq Reference
      /\ IsFiniteSet(Plan) /\ Plan # {}
      /\ batch \in [DOMAIN Subjects -> Entities] /\ people \in [DOMAIN People -> Customer]
  BY <1>0, SessionAssumption DEF Routed
<1>2. clock \in Int
  <2>. DEFINE g == [a \in Plan |-> a.at]
              S == {g[a] : a \in DOMAIN g}
  <2>1. IsFiniteSet(S)
    <3>1. IsFiniteSet(DOMAIN g)
      BY <1>1
    <3>. HIDE DEF g
    <3>. QED  BY <3>1, FiniteImage
  <2>2. S \in SUBSET Int /\ S # {} /\ S = {a.at : a \in Plan}
    BY <1>1 DEF Reference
  <2>. HIDE DEF S
  <2>. QED  BY <1>0, <2>1, <2>2, FiniteHasLeast DEF First
<1>3. ASSUME NEW a \in P
      PROVE  /\ Rule(a, a.at).final \in Reference
             /\ Signed(Rule(a, a.at).final) /\ ~ is_inert(Rule(a, a.at).final)
  <2>. DEFINE f == Rule(a, a.at).final
  <2>1. a \in Reference /\ ~ is_inert(a) /\ Rule(a, a.at).disposition \in {"allow", "reschedule"}
    BY <1>1 DEF Routed
  <2>2. Same(a, f) /\ ~ HighValueApproval(a, context(a, a.at))
    BY <1>1, <2>1, Permitted
  <2>3. ~ is_inert(f) /\ f \in Reference /\ f.subject = a.subject
    BY <2>1, <2>2, SameIsInert DEF Same
  <2>4. subject_amount(context(a, a.at)) = Worth(a.subject)
    BY <1>0, <1>1, <2>1, ContextFields DEF Worth
  <2>5. ~ (Worth(f.subject) >= approval_threshold)
    BY <2>1, <2>2, <2>3, <2>4 DEF HighValueApproval
  <2>. QED  BY <2>3, <2>5 DEF Signed, SignedBy
<1>4. A \subseteq Reference
  BY <1>3
<1>5. IsFiniteSet(A)
  <2>. DEFINE g == [a \in P |-> Rule(a, a.at).final]
  <2>1. IsFiniteSet(DOMAIN g)
    <3>. HIDE DEF P
    <3>1. P \in SUBSET Plan
      BY <1>1
    <3>. QED  BY <1>1, <3>1, FS_Subset
  <2>2. A = {g[a] : a \in DOMAIN g}
    OBVIOUS
  <2>. HIDE DEF g, A
  <2>. QED  BY <2>1, <2>2, FiniteImage
<1>6. \A e \in A : Signed(e) /\ ~ is_inert(e)
  BY <1>3
<1>. HIDE DEF A, P
<1>7. \A e \in A : entries[e] \in Entry /\ entries[e].action = e
  BY <1>0, <1>4, HeldFacts
<1>8. TypeOK
  <2>1. \A r \in DOMAIN requests : requests[r] \in Request
    BY <1>0, <1>2 DEF Request
  <2>2. DOMAIN requests \subseteq Plan /\ DOMAIN entries = A
    BY <1>0, <1>1
  <2>. QED  BY <1>0, <1>1, <1>2, <1>4, <1>7, <2>1, <2>2 DEF TypeOK
<1>9. AmountsStand /\ ReleasedWereApproved /\ LedgerIsSigned
  BY <1>0 DEF AmountsStand, Worth, ReleasedWereApproved, LedgerIsSigned
<1>10. RequestsAct
  BY <1>0 DEF RequestsAct, Routed
<1>11. EntriesAreSigned
  BY <1>0, <1>6, <1>7 DEF EntriesAreSigned
<1>12. IsFiniteSet(DOMAIN entries) /\ IsFiniteSet(ledger)
  BY <1>0, <1>5, FS_EmptySet
<1>. QED  BY <1>8, <1>9, <1>10, <1>11, <1>12 DEF IInv

LEMMA StepDecide ==
    ASSUME IInv, NEW r \in DOMAIN requests, NEW answer \in {"approved", "rejected"},
           decide(r, answer)
    PROVE  IInv'
<1>. DEFINE s == IF clock >= expires(r) THEN "expired" ELSE answer
            d == [requests[r] EXCEPT !.state = s]
<1>1. /\ requests[r].state = "pending" /\ requests' = [requests EXCEPT ![r] = d]
      /\ UNCHANGED <<clock, batch, people, released, entries, ledger>>
  BY DEF decide
<1>2. TypeOK /\ requests[r] \in Request /\ s \in {"expired", "approved", "rejected"}
  BY DEF IInv, TypeOK
<1>. HIDE DEF s
<1>3. d \in Request
  BY <1>2 DEF Request
<1>. HIDE DEF d
<1>4. /\ DOMAIN requests' = DOMAIN requests /\ requests'[r] = d
      /\ \A q \in DOMAIN requests : q # r => requests'[q] = requests[q]
  BY <1>1
<1>5. \A q \in released : q \in DOMAIN requests /\ q # r /\ requests'[q].state = "approved"
  BY <1>1, <1>2, <1>4 DEF IInv, TypeOK, ReleasedWereApproved
<1>6. TypeOK'
  BY <1>1, <1>2, <1>3, <1>4 DEF TypeOK
<1>7. RequestsAct' /\ ReleasedWereApproved' /\ IsFiniteSet(DOMAIN entries')
  BY <1>1, <1>4, <1>5 DEF IInv, RequestsAct, ReleasedWereApproved
<1>. QED  BY <1>1, <1>5, <1>6, <1>7, Carried

LEMMA StepRelease ==
    ASSUME IInv, release
    PROVE  IInv'
<1>. DEFINE spent == {r \in DOMAIN requests :
                         requests[r].state = "approved" /\ r \notin released}
            P == {r \in spent : Rule(r, clock).disposition # "deny"}
            A == {Rule(r, clock).final : r \in P}
<1>0. /\ released' = released \cup spent
      /\ entries' = Submitted(A)
      /\ UNCHANGED <<clock, batch, people, requests, ledger>>
  BY DEF release
<1>1. /\ TypeOK /\ batch \in [DOMAIN Subjects -> Entities]
      /\ DOMAIN requests \subseteq Reference /\ DOMAIN requests \in SUBSET Plan
      /\ IsFiniteSet(Plan)
  BY SessionAssumption DEF IInv, TypeOK
<1>2. ASSUME NEW r \in P
      PROVE  /\ Rule(r, clock).final \in Reference
             /\ SignedThen(Rule(r, clock).final) /\ ~ is_inert(Rule(r, clock).final)
  <2>. DEFINE f == Rule(r, clock).final
  <2>1. /\ r \in DOMAIN requests /\ r \in released' /\ requests'[r].state = "approved"
        /\ r \in Reference /\ Rule(r, clock).disposition # "deny" /\ ~ is_inert(r)
    BY <1>0, <1>1 DEF IInv, RequestsAct
  <2>2. Same(r, f)
    BY <1>1, <2>1, Permitted
  <2>3. f \in Reference /\ f.subject = r.subject /\ f.type = r.type /\ ~ is_inert(f)
    BY <2>1, <2>2, SameIsInert DEF Same
  <2>. QED  BY <2>1, <2>3 DEF SignedThen, SignedBy
<1>3. IsFiniteSet(A)
  <2>. DEFINE g == [r \in P |-> Rule(r, clock).final]
  <2>1. IsFiniteSet(DOMAIN g)
    <3>1. P \in SUBSET Plan
      BY <1>1
    <3>. HIDE DEF P
    <3>. QED  BY <1>1, <3>1, FS_Subset
  <2>2. A = {g[r] : r \in DOMAIN g}
    OBVIOUS
  <2>. HIDE DEF g, A
  <2>. QED  BY <2>1, <2>2, FiniteImage
<1>4. \A e \in A : e \in Reference /\ SignedThen(e) /\ ~ is_inert(e)
  BY <1>2
<1>5. /\ released \subseteq released' /\ released' \subseteq DOMAIN requests'
      /\ \A r \in released' : requests'[r].state = "approved"
  BY <1>0, <1>1 DEF IInv, TypeOK, ReleasedWereApproved
<1>. HIDE DEF A, P, spent
<1>6. /\ DOMAIN entries' = DOMAIN entries \cup A
      /\ \A e \in DOMAIN entries : entries'[e] = entries[e]
      /\ \A e \in A : e \notin DOMAIN entries => entries'[e] = Held(e)
  BY <1>0 DEF Submitted
<1>7. \A e \in DOMAIN entries' :
         \/ e \in DOMAIN entries /\ entries'[e] = entries[e]
         \/ entries'[e] \in Entry /\ entries'[e].action = e /\ e \in A
  BY <1>4, <1>6, HeldFacts
<1>8. TypeOK'
  <2>1. DOMAIN entries' \subseteq Reference
    BY <1>1, <1>4, <1>6 DEF TypeOK
  <2>2. \A e \in DOMAIN entries' : entries'[e] \in Entry
    BY <1>1, <1>7 DEF TypeOK
  <2>3. ledger' \subseteq [id : DOMAIN entries', action : Reference, at : Int]
    BY <1>0, <1>1, <1>6 DEF TypeOK
  <2>. QED  BY <1>0, <1>1, <1>5, <2>1, <2>2, <2>3 DEF TypeOK
<1>9. RequestsAct' /\ ReleasedWereApproved'
  BY <1>0, <1>5 DEF IInv, RequestsAct, ReleasedWereApproved
<1>10. IsFiniteSet(DOMAIN entries')
  BY <1>3, <1>6, FS_Union DEF IInv
<1>11. \A e \in DOMAIN entries' :
          \/ e \in DOMAIN entries /\ entries'[e] = entries[e]
          \/ SignedThen(entries'[e].action) /\ ~ is_inert(entries'[e].action)
  BY <1>4, <1>7
<1>12. \A r \in released : requests'[r].state = "approved"
  BY <1>5
<1>. QED  BY <1>0, <1>5, <1>8, <1>9, <1>10, <1>11, <1>12, Carried
-------------------------------------------------------------------------------
(* The clock *)

LEMMA SameAgain ==
    ASSUME NEW a \in Reference
    PROVE  Same(a, a)
BY DEF Same

LEMMA MarkedStale ==
    ASSUME NEW n \in Entry, NEW m, m = [n EXCEPT !.state = "stale"]
    PROVE  m \in Entry /\ m.action = n.action /\ m.state = "stale"
BY DEF Entry

\* What _fire leaves of a waiting entry is an entry for the same action, and
\* what it fires it was permitted to fire then.
LEMMA FireFacts ==
    ASSUME IInv, NEW e \in DOMAIN entries, entries[e].state = "waiting", NEW at \in Int
    PROVE  /\ _fire(e, at) \in Entry
           /\ Same(entries[e].action, _fire(e, at).action)
           /\ _fire(e, at).state = "fired" => Rule(entries[e].action, at).disposition # "deny"
<1>. DEFINE n == entries[e]
            a == n.action
            f == Rule(a, at).final
            d == Rule(a, at).disposition
<1>1. n \in Entry /\ a \in Reference /\ batch \in [DOMAIN Subjects -> Entities]
  BY DEF IInv, TypeOK, Entry
<1>. HIDE DEF n
<1>2. _fire(e, at) = CASE d = "deny" -> [n EXCEPT !.state = "refused"]
                       [] d # "deny" /\ f.at > at -> Deferred(e, f)
                       [] OTHER -> [n EXCEPT !.state = "fired", !.action = f]
  BY DEF _fire, n
<1>3. CASE d = "deny"
  <2>1. _fire(e, at) = [n EXCEPT !.state = "refused"]
    BY <1>2, <1>3
  <2>2. /\ _fire(e, at) \in Entry /\ _fire(e, at).action = a
        /\ _fire(e, at).state = "refused"
    BY <1>1, <2>1 DEF Entry
  <2>. QED  BY <1>1, <2>2, SameAgain DEF n
<1>4. CASE d # "deny"
  <2>1. Same(a, f)
    BY <1>1, <1>4, Permitted
  <2>2. f \in Reference /\ f.at \in Int
    BY <2>1 DEF Same, Reference
  <2>. HIDE DEF f, d
  <2>3. CASE f.at > at /\ n.deferrals >= max_deferrals
    <3>1. _fire(e, at) = [n EXCEPT !.state = "abandoned"]
      BY <1>2, <1>4, <2>3 DEF Deferred, n
    <3>2. /\ _fire(e, at) \in Entry /\ _fire(e, at).action = a
          /\ _fire(e, at).state = "abandoned"
      BY <1>1, <3>1 DEF Entry
    <3>. QED  BY <1>1, <3>2, SameAgain DEF n
  <2>4. CASE f.at > at /\ ~ (n.deferrals >= max_deferrals)
    <3>1. _fire(e, at) = [n EXCEPT !.action = f, !.due = f.at, !.deferrals = @ + 1]
      BY <1>2, <1>4, <2>4 DEF Deferred, n
    <3>2. n.deferrals + 1 \in 0 .. max_deferrals
      BY <1>1, <2>4, SessionAssumption DEF Entry
    <3>3. n.state = "waiting"
      BY DEF n
    <3>4. /\ _fire(e, at) \in Entry /\ _fire(e, at).action = f
          /\ _fire(e, at).state = "waiting"
      BY <1>1, <2>2, <3>1, <3>2, <3>3 DEF Entry
    <3>. QED  BY <2>1, <3>4 DEF n
  <2>5. CASE ~ (f.at > at)
    <3>1. _fire(e, at) = [n EXCEPT !.state = "fired", !.action = f]
      BY <1>2, <1>4, <2>5
    <3>2. _fire(e, at) \in Entry /\ _fire(e, at).action = f
      BY <1>1, <2>2, <3>1 DEF Entry
    <3>. QED  BY <1>4, <2>1, <3>2 DEF n, d
  <2>. QED  BY <2>3, <2>4, <2>5
<1>. QED  BY <1>3, <1>4

LEMMA AdvanceFacts ==
    ASSUME IInv, NEW at \in Int, advance(at)
    PROVE  /\ DOMAIN entries' = DOMAIN entries
           /\ \A e \in DOMAIN entries :
                 entries'[e] \in Entry /\ Same(entries[e].action, entries'[e].action)
           /\ DOMAIN requests' = DOMAIN requests
           /\ \A r \in DOMAIN requests :
                 /\ requests'[r] \in Request
                 /\ requests[r].state = "approved" => requests'[r] = requests[r]
           /\ IsFiniteSet(ledger') /\ ledger \subseteq ledger'
           /\ \A x \in New : \E e \in DOMAIN entries :
                 /\ x = [id |-> e, action |-> entries'[e].action, at |-> at]
                 /\ Rule(entries[e].action, at).disposition # "deny"
<1>1. /\ TypeOK /\ requests' = Expired(at) /\ entries' = run_due(at)
      /\ IsFiniteSet(DOMAIN entries) /\ IsFiniteSet(ledger)
  BY DEF advance, IInv
<1>2. DOMAIN entries' = DOMAIN entries /\ DOMAIN requests' = DOMAIN requests
  BY <1>1 DEF run_due, Expired
<1>3. ASSUME NEW e \in DOMAIN entries
      PROVE  /\ entries'[e] \in Entry /\ Same(entries[e].action, entries'[e].action)
             /\ e \in Waiting /\ entries'[e].state = "fired" =>
                   Rule(entries[e].action, at).disposition # "deny"
  <2>1. entries'[e] = CASE e \in Waiting /\ is_stale(e, at) -> [entries[e] EXCEPT !.state = "stale"]
                        [] e \in Waiting /\ is_due(e, at) -> _fire(e, at)
                        [] OTHER -> entries[e]
    BY <1>1 DEF run_due
  <2>2. entries[e] \in Entry /\ entries[e].action \in Reference
    BY <1>1 DEF TypeOK, Entry
  <2>3. e \in Waiting <=> entries[e].state = "waiting"
    BY DEF Waiting
  <2>4. CASE e \in Waiting /\ is_stale(e, at)
    <3>1. entries'[e] = [entries[e] EXCEPT !.state = "stale"]
      BY <2>1, <2>4, Zenon DEF is_due
    <3>2. /\ entries'[e] \in Entry /\ entries'[e].action = entries[e].action
          /\ entries'[e].state = "stale"
      BY <2>2, <3>1, MarkedStale
    <3>. QED  BY <2>2, <3>2, SameAgain
  <2>5. CASE e \in Waiting /\ ~ is_stale(e, at) /\ is_due(e, at)
    <3>1. entries'[e] = _fire(e, at)
      BY <2>1, <2>5
    <3>. QED  BY <2>3, <2>5, <3>1, FireFacts
  <2>6. CASE ~ (e \in Waiting /\ is_stale(e, at)) /\ ~ (e \in Waiting /\ is_due(e, at))
    <3>1. entries'[e] = entries[e]
      BY <2>1, <2>6
    <3>. QED  BY <2>2, <2>3, <3>1, SameAgain
  <2>. QED  BY <2>4, <2>5, <2>6
<1>4. ASSUME NEW r \in DOMAIN requests
      PROVE  /\ requests'[r] \in Request
             /\ requests[r].state = "approved" => requests'[r] = requests[r]
  <2>1. requests[r] \in Request
    BY <1>1 DEF TypeOK
  <2>2. [requests[r] EXCEPT !.state = "expired"] \in Request
    BY <2>1 DEF Request
  <2>3. requests'[r] = IF requests[r].state = "pending" /\ at >= expires(r)
                       THEN [requests[r] EXCEPT !.state = "expired"] ELSE requests[r]
    BY <1>1 DEF Expired
  <2>. QED  BY <2>1, <2>2, <2>3
<1>. DEFINE W == {f \in Waiting : entries'[f].state = "fired"}
            g == [e \in W |-> [id |-> e, action |-> entries'[e].action, at |-> at]]
            T == {g[e] : e \in DOMAIN g}
<1>5. ledger' = ledger \cup T
  BY DEF advance
<1>6. W \in SUBSET DOMAIN entries
  BY DEF Waiting
<1>7. IsFiniteSet(T)
  <2>1. IsFiniteSet(DOMAIN g)
    <3>. HIDE DEF W
    <3>. QED  BY <1>1, <1>6, FS_Subset
  <2>. HIDE DEF g
  <2>. QED  BY <2>1, FiniteImage
<1>8. \A x \in T : \E e \in W : x = [id |-> e, action |-> entries'[e].action, at |-> at]
  OBVIOUS
<1>. HIDE DEF T, g
<1>9. IsFiniteSet(ledger') /\ ledger \subseteq ledger'
  BY <1>1, <1>5, <1>7, FS_Union
<1>10. \A x \in New : \E e \in DOMAIN entries :
          /\ x = [id |-> e, action |-> entries'[e].action, at |-> at]
          /\ Rule(entries[e].action, at).disposition # "deny"
  <2>1. ASSUME NEW x \in New
        PROVE  \E e \in DOMAIN entries :
                  /\ x = [id |-> e, action |-> entries'[e].action, at |-> at]
                  /\ Rule(entries[e].action, at).disposition # "deny"
    <3>1. PICK e \in W : x = [id |-> e, action |-> entries'[e].action, at |-> at]
      BY <1>5, <1>8, <2>1 DEF New
    <3>2. e \in DOMAIN entries /\ e \in Waiting /\ entries'[e].state = "fired"
      BY <1>6, <3>1
    <3>3. Rule(entries[e].action, at).disposition # "deny"
      BY <1>3, <3>2
    <3>. QED  BY <3>1, <3>2, <3>3
  <2>. QED  BY <2>1
<1>. QED  BY <1>2, <1>3, <1>4, <1>9, <1>10

LEMMA StepAdvance ==
    ASSUME IInv, NEW at \in Int, advance(at)
    PROVE  IInv'
<1>1. /\ DOMAIN entries' = DOMAIN entries
      /\ \A e \in DOMAIN entries :
            entries'[e] \in Entry /\ Same(entries[e].action, entries'[e].action)
      /\ DOMAIN requests' = DOMAIN requests
      /\ \A r \in DOMAIN requests :
            /\ requests'[r] \in Request
            /\ requests[r].state = "approved" => requests'[r] = requests[r]
      /\ IsFiniteSet(ledger') /\ ledger \subseteq ledger'
  BY AdvanceFacts
<1>2. \A x \in New : \E e \in DOMAIN entries :
         x = [id |-> e, action |-> entries'[e].action, at |-> at]
  BY AdvanceFacts
<1>3. /\ TypeOK /\ IsFiniteSet(DOMAIN entries) /\ AmountsStand /\ RequestsAct
      /\ ReleasedWereApproved /\ EntriesAreSigned /\ LedgerIsSigned
      /\ clock' = at /\ UNCHANGED <<batch, people, released>>
  BY DEF IInv, advance
<1>4. \A r \in released : r \in DOMAIN requests /\ requests'[r].state = "approved"
  BY <1>1, <1>3 DEF TypeOK, ReleasedWereApproved
<1>5. \A e \in DOMAIN entries :
         /\ SignedThen(entries'[e].action) /\ ~ is_inert(entries'[e].action)
         /\ entries'[e].action \in Reference
  <2>1. ASSUME NEW e \in DOMAIN entries
        PROVE  /\ SignedThen(entries'[e].action) /\ ~ is_inert(entries'[e].action)
               /\ entries'[e].action \in Reference
    <3>1. Signed(entries[e].action) /\ ~ is_inert(entries[e].action)
      BY <1>3 DEF EntriesAreSigned
    <3>2. Same(entries[e].action, entries'[e].action)
      BY <1>1
    <3>3. SignedThen(entries'[e].action)
      BY <1>3, <1>4, <3>1, <3>2, SignedStays DEF Same
    <3>. QED  BY <3>1, <3>2, <3>3, SameIsInert DEF Same
  <2>. QED  BY <2>1
<1>6. TypeOK'
  <2>1. ledger' \subseteq [id : DOMAIN entries', action : Reference, at : Int]
    <3>1. ASSUME NEW x \in ledger'
          PROVE  x \in [id : DOMAIN entries', action : Reference, at : Int]
      <4>1. CASE x \in ledger
        BY <1>1, <1>3, <4>1 DEF TypeOK
      <4>2. CASE x \in New
        BY <1>1, <1>2, <1>5, <4>2
      <4>. QED  BY <3>1, <4>1, <4>2 DEF New
    <3>. QED  BY <3>1
  <2>. QED  BY <1>1, <1>3, <2>1 DEF TypeOK
<1>7. LedgerIsSigned'
  <2>1. \A x \in ledger' : SignedThen(x.action)
    <3>1. ASSUME NEW x \in ledger
          PROVE  SignedThen(x.action)
      BY <1>3, <1>4, SignedStays DEF LedgerIsSigned
    <3>2. ASSUME NEW x \in New
          PROVE  SignedThen(x.action)
      BY <1>2, <1>5, <3>2
    <3>. QED  BY <3>1, <3>2 DEF New
  <2>. QED  BY <2>1 DEF LedgerIsSigned, Signed, SignedThen
<1>8. EntriesAreSigned'
  BY <1>1, <1>5 DEF EntriesAreSigned, Signed, SignedThen, is_inert
<1>9. AmountsStand' /\ RequestsAct' /\ ReleasedWereApproved'
  BY <1>1, <1>3, <1>4 DEF AmountsStand, RequestsAct, ReleasedWereApproved
<1>. QED  BY <1>1, <1>3, <1>6, <1>7, <1>8, <1>9 DEF IInv

LEMMA StepAdvances ==
    ASSUME IInv, advance_hours \/ advance_to_next
    PROVE  \E at \in Int : advance(at)
<1>1. TypeOK /\ clock \in Int /\ IsFiniteSet(DOMAIN entries)
  BY DEF IInv, TypeOK
<1>2. CASE advance_hours
  BY <1>1, <1>2, SessionAssumption DEF advance_hours
<1>3. CASE advance_to_next /\ Waiting = {}
  BY <1>1, <1>3 DEF advance_to_next
<1>4. CASE advance_to_next /\ Waiting # {}
  <2>. DEFINE g == [e \in Waiting |-> entries[e].due]
              S == {g[e] : e \in DOMAIN g}
  <2>1. Waiting \in SUBSET DOMAIN entries
    BY DEF Waiting
  <2>2. IsFiniteSet(S)
    <3>1. IsFiniteSet(DOMAIN g)
      BY <1>1, <2>1, FS_Subset
    <3>. HIDE DEF g
    <3>. QED  BY <3>1, FiniteImage
  <2>3. S \in SUBSET Int /\ S # {} /\ S = {entries[e].due : e \in Waiting}
    BY <1>1, <1>4, <2>1 DEF TypeOK, Entry
  <2>. HIDE DEF S
  <2>4. Min(S) \in Int
    BY <2>2, <2>3, FiniteHasLeast
  <2>5. Max({clock, Min(S)}) \in Int
    BY <1>1, <2>4, MaxOfTwo
  <2>6. advance(Max({clock, Min(S)}))
    BY <1>4, <2>3 DEF advance_to_next
  <2>. QED  BY <2>5, <2>6
<1>. QED  BY <1>2, <1>3, <1>4
-------------------------------------------------------------------------------
(* The world *)

\* What happens to the batch and its people leaves what is at stake, and
\* nothing that the session keeps.
LEMMA WorldMoves ==
    ASSUME IInv, UNCHANGED <<clock, requests, released, entries, ledger>>,
           batch' \in [DOMAIN Subjects -> Entities], people' \in [DOMAIN People -> Customer],
           \A s \in DOMAIN Subjects : subject_amount(batch'[s]) = subject_amount(batch[s])
    PROVE  IInv'
<1>1. TypeOK'
  BY DEF IInv, TypeOK
<1>2. AmountsStand'
  <2>1. \A s \in DOMAIN Subjects : subject_amount(batch'[s]) = Worth(s)
    BY DEF IInv, AmountsStand
  <2>. QED  BY <2>1, Zenon DEF AmountsStand, Worth, subject_amount
<1>3. RequestsAct' /\ ReleasedWereApproved'
      /\ IsFiniteSet(DOMAIN entries') /\ IsFiniteSet(ledger')
  BY DEF IInv, RequestsAct, ReleasedWereApproved
<1>4. EntriesAreSigned' /\ LedgerIsSigned'
  BY DEF IInv, EntriesAreSigned, LedgerIsSigned, Signed, is_inert
<1>. QED  BY <1>1, <1>2, <1>3, <1>4 DEF IInv

LEMMA Disputed ==
    ASSUME NEW b \in Entities, b.invoice # None,
           NEW d, d = [b EXCEPT !.invoice.disputed = TRUE]
    PROVE  d \in Entities /\ subject_amount(d) = subject_amount(b)
<1>. DEFINE v == [b.invoice EXCEPT !.disputed = TRUE]
<1>1. b.invoice \in Invoice
  BY DEF Entities
<1>2. v \in Invoice /\ v.outstanding = b.invoice.outstanding
  BY <1>1 DEF Invoice
<1>3. d = [b EXCEPT !.invoice = v]
  OBVIOUS
<1>. HIDE DEF v
<1>4. /\ d \in Entities /\ d.invoice = v /\ d.order = b.order
      /\ d.subscription = b.subscription
  BY <1>2, <1>3 DEF Entities
<1>5. v # None
  BY <1>2, SessionAssumption
<1>. QED  BY <1>2, <1>4, <1>5 DEF subject_amount

LEMMA TriedAgain ==
    ASSUME NEW b \in Entities, b.order # None, b.order.last_attempt # None,
           NEW t \in Int, NEW d, d = [b EXCEPT !.order.last_attempt.at = t]
    PROVE  d \in Entities /\ subject_amount(d) = subject_amount(b)
<1>. DEFINE u == [b.order.last_attempt EXCEPT !.at = t]
            v == [b.order EXCEPT !.last_attempt = u]
<1>1. b.order \in Order
  BY DEF Entities
<1>2. b.order.last_attempt \in Attempt
  BY <1>1 DEF Order
<1>3. u \in Attempt
  BY <1>2 DEF Attempt
<1>4. d = [b EXCEPT !.order = v]
  OBVIOUS
<1>. HIDE DEF u
<1>5. v \in Order /\ v.amount = b.order.amount
  BY <1>1, <1>3 DEF Order
<1>. HIDE DEF v
<1>6. d \in Entities /\ d.order = v
  BY <1>4, <1>5 DEF Entities
<1>7. v # None
  BY <1>5, SessionAssumption
<1>. QED  BY <1>5, <1>6, <1>7 DEF subject_amount

LEMMA StepDispute ==
    ASSUME IInv, NEW s \in DOMAIN batch, Dispute(s)
    PROVE  IInv'
<1>1. /\ batch \in [DOMAIN Subjects -> Entities] /\ people \in [DOMAIN People -> Customer]
      /\ batch[s].invoice # None /\ batch' = [batch EXCEPT ![s].invoice.disputed = TRUE]
      /\ UNCHANGED <<clock, people, requests, released, entries, ledger>>
  BY DEF IInv, TypeOK, Dispute
<1>2. s \in DOMAIN Subjects /\ batch[s] \in Entities
  BY <1>1
<1>3. PICK d : d = [batch[s] EXCEPT !.invoice.disputed = TRUE]
  OBVIOUS
<1>4. batch' = [batch EXCEPT ![s] = d]
  BY <1>1, <1>3
<1>5. d \in Entities /\ subject_amount(d) = subject_amount(batch[s])
  BY <1>1, <1>2, <1>3, Disputed
<1>6. /\ batch' \in [DOMAIN Subjects -> Entities]
      /\ \A q \in DOMAIN Subjects : subject_amount(batch'[q]) = subject_amount(batch[q])
  BY <1>1, <1>2, <1>4, <1>5
<1>. QED  BY <1>1, <1>6, WorldMoves

LEMMA StepAttemptFails ==
    ASSUME IInv, NEW s \in DOMAIN batch, AttemptFails(s)
    PROVE  IInv'
<1>1. /\ batch \in [DOMAIN Subjects -> Entities] /\ people \in [DOMAIN People -> Customer]
      /\ batch[s].order # None /\ batch[s].order.last_attempt # None /\ clock \in Int
      /\ batch' = [batch EXCEPT ![s].order.last_attempt.at = clock]
      /\ UNCHANGED <<clock, people, requests, released, entries, ledger>>
  BY DEF IInv, TypeOK, AttemptFails
<1>2. s \in DOMAIN Subjects /\ batch[s] \in Entities
  BY <1>1
<1>3. PICK d : d = [batch[s] EXCEPT !.order.last_attempt.at = clock]
  OBVIOUS
<1>4. batch' = [batch EXCEPT ![s] = d]
  BY <1>1, <1>3
<1>5. d \in Entities /\ subject_amount(d) = subject_amount(batch[s])
  BY <1>1, <1>2, <1>3, TriedAgain
<1>6. /\ batch' \in [DOMAIN Subjects -> Entities]
      /\ \A q \in DOMAIN Subjects : subject_amount(batch'[q]) = subject_amount(batch[q])
  BY <1>1, <1>2, <1>4, <1>5
<1>. QED  BY <1>1, <1>6, WorldMoves

LEMMA StepOptOut ==
    ASSUME IInv, NEW p \in DOMAIN people, OptOut(p)
    PROVE  IInv'
<1>1. /\ people \in [DOMAIN People -> Customer] /\ batch \in [DOMAIN Subjects -> Entities]
      /\ people' = [people EXCEPT ![p].opted_out = TRUE]
      /\ UNCHANGED <<clock, batch, requests, released, entries, ledger>>
  BY DEF IInv, TypeOK, OptOut
<1>2. people[p] \in Customer
  BY <1>1
<1>3. PICK d : d = [people[p] EXCEPT !.opted_out = TRUE]
  OBVIOUS
<1>4. people' = [people EXCEPT ![p] = d]
  BY <1>1, <1>3
<1>5. d \in Customer
  BY <1>2, <1>3 DEF Customer
<1>6. people' \in [DOMAIN People -> Customer]
  BY <1>1, <1>4, <1>5
<1>7. /\ batch' \in [DOMAIN Subjects -> Entities]
      /\ \A q \in DOMAIN Subjects : subject_amount(batch'[q]) = subject_amount(batch[q])
  BY <1>1
<1>. QED  BY <1>1, <1>6, <1>7, WorldMoves

LEMMA StepIInv ==
    ASSUME IInv, [Next]_vars
    PROVE  IInv'
<1>1. CASE UNCHANGED vars
  <2>1. batch \in [DOMAIN Subjects -> Entities] /\ people \in [DOMAIN People -> Customer]
    BY DEF IInv, TypeOK
  <2>2. batch' = batch /\ people' = people
        /\ UNCHANGED <<clock, requests, released, entries, ledger>>
    BY <1>1 DEF vars
  <2>. QED  BY <2>1, <2>2, WorldMoves
<1>2. CASE \E r \in DOMAIN requests, answer \in {"approved", "rejected"} : decide(r, answer)
  BY <1>2, StepDecide
<1>3. CASE release
  BY <1>3, StepRelease
<1>4. CASE advance_hours \/ advance_to_next
  BY <1>4, StepAdvances, StepAdvance
<1>5. CASE \E s \in DOMAIN batch : Dispute(s) \/ AttemptFails(s)
  BY <1>5, StepDispute, StepAttemptFails
<1>6. CASE \E p \in DOMAIN people : OptOut(p)
  BY <1>6, StepOptOut
<1>. QED  BY <1>1, <1>2, <1>3, <1>4, <1>5, <1>6 DEF Next

LEMMA AlwaysIInv == Spec => []IInv
BY InitIInv, StepIInv, PTL DEF Spec
-------------------------------------------------------------------------------
(* What a console session guarantees *)

\* Requests, entries and the ledger keep their shape, every executed action
\* belongs to an entry, and only requests that exist are released
\* (reset_operations, decide, release, advance).
THEOREM TypeCorrect == Spec => []TypeOK
<1>1. IInv => TypeOK
  BY DEF IInv
<1>. QED  BY <1>1, AlwaysIInv, PTL

\* Whatever is executed for an amount at the threshold was approved at the desk
\* and released from there: run_due fires an action that requires approval, but
\* none reaches it that nobody approved (_rule_stream, release, advance).
THEOREM LargeSumsAreSignedFor == Spec => []LargeSumsWereApproved
<1>1. IInv => LargeSumsWereApproved
  <2>. SUFFICES ASSUME IInv, NEW x \in ledger,
                       HighValueApproval(x.action, context(x.action, x.at))
                PROVE  \E r \in released :
                          /\ requests[r].state = "approved"
                          /\ r.subject = x.action.subject /\ r.type = x.action.type
    BY DEF LargeSumsWereApproved
  <2>1. batch \in [DOMAIN Subjects -> Entities] /\ x.action \in Reference
    BY DEF IInv, TypeOK
  <2>2. x.action.subject \in DOMAIN Subjects
        /\ subject_amount(context(x.action, x.at)) = subject_amount(batch[x.action.subject])
    BY <2>1, ContextFields
  <2>3. Worth(x.action.subject) >= approval_threshold
    BY <2>2 DEF HighValueApproval, IInv, AmountsStand
  <2>4. Signed(x.action)
    BY DEF IInv, LedgerIsSigned
  <2>. QED  BY <2>3, <2>4 DEF Signed, SignedBy
<1>. QED  BY <1>1, AlwaysIInv, PTL

\* Only the clock executes anything, and it executes what the rules permit at
\* that moment to an action of the same type on the same subject.
LEMMA WhatIsNewWasPermitted ==
    ASSUME IInv, [Next]_vars, NEW x \in New
    PROVE  /\ x.at \in Int /\ x.action \in Reference
           /\ \E a \in Reference : /\ Same(a, x.action) /\ ~ is_inert(a)
                                   /\ Rule(a, x.at).disposition # "deny"
<1>1. ledger' # ledger
  BY DEF New
<1>2. \E at \in Int : advance(at)
  BY <1>1, StepAdvances
     DEF Next, vars, decide, release, Dispute, AttemptFails, OptOut
<1>3. PICK at \in Int : advance(at)
  BY <1>2
<1>4. PICK e \in DOMAIN entries :
         /\ x = [id |-> e, action |-> entries'[e].action, at |-> at]
         /\ Rule(entries[e].action, at).disposition # "deny"
  BY <1>3, AdvanceFacts
<1>5. Same(entries[e].action, entries'[e].action) /\ entries[e].action \in Reference
      /\ ~ is_inert(entries[e].action)
  BY <1>3, AdvanceFacts DEF IInv, TypeOK, Entry, EntriesAreSigned
<1>6. x.at = at /\ x.action = entries'[e].action
  BY <1>4
<1>. QED  BY <1>3, <1>4, <1>5, <1>6 DEF Same

\* A denial still denies at the later clock: nothing is executed for a disputed
\* invoice, and nobody who opted out is contacted, however long ago the action
\* was planned, approved, released or deferred (advance, through run_due and
\* _fire, which rule again).
THEOREM TheWorldIsReadAgain == Spec => WorldIsReadAtFireTime
<1>1. IInv /\ [Next]_vars =>
         [\A x \in New :
            LET invoice == batch[x.action.subject].invoice
            IN  /\ invoice # None => ~ invoice.disputed
                /\ is_contact(x.action) => ~ people[customer_of(x.action)].opted_out]_vars
  <2>. SUFFICES ASSUME IInv, [Next]_vars, NEW x \in New
                PROVE  /\ batch[x.action.subject].invoice # None =>
                             ~ batch[x.action.subject].invoice.disputed
                       /\ is_contact(x.action) => ~ people[customer_of(x.action)].opted_out
    OBVIOUS
  <2>1. PICK a \in Reference : /\ Same(a, x.action) /\ ~ is_inert(a)
                               /\ Rule(a, x.at).disposition # "deny"
    BY WhatIsNewWasPermitted
  <2>2. batch \in [DOMAIN Subjects -> Entities]
    BY DEF IInv, TypeOK
  <2>. DEFINE c == context(a, x.at)
  <2>3. ~ DisputeFreeze(a, c) /\ ~ Consent(a, c)
    BY <2>1, <2>2, Permitted
  <2>4. c.invoice = batch[a.subject].invoice /\ c.customer = people[customer_of(a)]
    BY <2>2, ContextFields
  <2>. HIDE DEF c
  <2>5. batch[a.subject].invoice # None => ~ batch[a.subject].invoice.disputed
    BY <2>1, <2>3, <2>4 DEF DisputeFreeze
  <2>6. is_contact(a) => ~ people[customer_of(a)].opted_out
    BY <2>3, <2>4 DEF Consent, reachable_on
  <2>7. x.action.subject = a.subject /\ customer_of(x.action) = customer_of(a)
        /\ (is_contact(x.action) <=> is_contact(a))
    BY <2>1, SameIsInert DEF Same, customer_of
  <2>. QED  BY <2>5, <2>6, <2>7
<1>. QED  BY <1>1, AlwaysIInv, PTL DEF Spec, WorldIsReadAtFireTime

\* No contact is made that the ledger already holds enough of inside the window,
\* for the subject or for the person (advance; what one advance does is not on
\* the ledger until it is over).
THEOREM CapsAreKept == Spec => CapsHoldBetweenAdvances
<1>1. IInv /\ [Next]_vars =>
         [\A x \in New : is_contact(x.action) =>
            LET recent == RecentTo(customer_of(x.action), x.at)
            IN  /\ Cardinality(recent) < max_contacts_per_customer
                /\ Cardinality({r \in recent : r.action.subject = x.action.subject})
                       < max_contacts_per_subject]_vars
  <2>. SUFFICES ASSUME IInv, [Next]_vars, NEW x \in New, is_contact(x.action)
                PROVE  /\ Cardinality(RecentTo(customer_of(x.action), x.at))
                             < max_contacts_per_customer
                       /\ Cardinality({r \in RecentTo(customer_of(x.action), x.at) :
                                          r.action.subject = x.action.subject})
                             < max_contacts_per_subject
    OBVIOUS
  <2>1. PICK a \in Reference : /\ Same(a, x.action) /\ ~ is_inert(a)
                               /\ Rule(a, x.at).disposition # "deny"
    BY WhatIsNewWasPermitted
  <2>2. batch \in [DOMAIN Subjects -> Entities] /\ IsFiniteSet(ledger)
    BY DEF IInv, TypeOK
  <2>3. /\ is_contact(a) /\ customer_of(x.action) = customer_of(a)
        /\ x.action.subject = a.subject
    BY <2>1, SameIsInert DEF Same, customer_of
  <2>. DEFINE c == context(a, x.at)
              p == customer_of(a)
              S == {r \in Contacts : r.action.subject = a.subject}
              C == {r \in Contacts : customer_of(r.action) = p}
              from == x.at - contact_window
              SR == {r \in S : r.at >= from}
              CR == {r \in C : r.at >= from}
              X == RecentTo(p, x.at)
              Y == {r \in X : r.action.subject = a.subject}
  <2>4. c.now = x.at /\ c.contacts = Moments(S) /\ c.customer_contacts = Moments(C)
    BY DEF context
  <2>5. ~ Consent(a, c) /\ ~ ContactFrequency(a, c) /\ ~ ContactFatigue(a, c)
    BY <2>1, <2>2, Permitted
  <2>6. Contacts \in SUBSET ledger
    BY DEF Contacts
  <2>7. S \in SUBSET ledger /\ C \in SUBSET ledger
    BY <2>6
  <2>8. X \in SUBSET CR /\ Y \in SUBSET SR
    BY DEF RecentTo
  <2>9. CR \in SUBSET C /\ SR \in SUBSET S
    OBVIOUS
  <2>. HIDE DEF S, C, X, Y, c, from, p
  <2>10. IsFiniteSet(S) /\ IsFiniteSet(C)
    BY <2>2, <2>7, FS_Subset
  <2>11. /\ Recent(c.contacts, c) = Cardinality(SR)
         /\ Recent(c.customer_contacts, c) = Cardinality(CR)
    <3>1. /\ Recent(Moments(S), c) = Cardinality({r \in S : r.at >= c.now - contact_window})
          /\ Recent(Moments(C), c) = Cardinality({r \in C : r.at >= c.now - contact_window})
      BY <2>10, RecentMoments
    <3>2. c.now - contact_window = from
      BY <2>4 DEF from
    <3>. QED  BY <2>4, <3>1, <3>2, Zenon
  <2>12. IsFiniteSet(SR) /\ IsFiniteSet(CR)
    BY <2>9, <2>10, FS_Subset
  <2>. HIDE DEF SR, CR
  <2>13. /\ Cardinality(X) <= Cardinality(CR) /\ Cardinality(Y) <= Cardinality(SR)
         /\ IsFiniteSet(X) /\ IsFiniteSet(Y)
    BY <2>8, <2>12, FS_Subset
  <2>14. /\ Cardinality(X) \in Nat /\ Cardinality(CR) \in Nat
         /\ Cardinality(Y) \in Nat /\ Cardinality(SR) \in Nat
    BY <2>12, <2>13, FS_CardinalityType
  <2>15. c.customer # None
    BY <2>3, <2>5 DEF Consent
  <2>16. ~ (Cardinality(CR) >= max_contacts_per_customer)
         /\ ~ (Cardinality(SR) >= max_contacts_per_subject)
    BY <2>3, <2>5, <2>11, <2>15 DEF ContactFrequency, ContactFatigue
  <2>17. Cardinality(X) < max_contacts_per_customer
         /\ Cardinality(Y) < max_contacts_per_subject
    BY <2>13, <2>14, <2>16, PolicyAssumption
  <2>. QED  BY <2>3, <2>17 DEF X, Y, p
<1>. QED  BY <1>1, AlwaysIInv, PTL DEF Spec, CapsHoldBetweenAdvances
===============================================================================
