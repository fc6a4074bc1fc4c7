---------------------------- MODULE LivePathProofs ----------------------------
(***************************************************************************)
(* One reference is sent once, kept, and booked once for what was paid on  *)
(* it, for any references, threads, payments and faults.                   *)
(*                                                                         *)
(* Three arguments run side by side.  What is remembered, in memory, in    *)
(* the journal or by a call, is an entity the provider holds under that    *)
(* reference, and what it holds only grows.  A reference that is not an    *)
(* order is created once in all, so one call at most may announce it.  And *)
(* as long as nothing overlaps a dispatch, the only call there is knows    *)
(* what was told and credited of its reference so far.                     *)
(*                                                                         *)
(* The journal's open line is what the books are kept against: whatever is *)
(* credited is on disk to stay, or was swallowed by a tear that swallows   *)
(* nothing else (Used), or the process that credited it still lives.       *)
(***************************************************************************)
EXTENDS LivePath, TLAPS, FiniteSetTheorems, SequenceTheorems

Linked == {"record", "write", "notify"}

\* What is known of a call, whatever runs beside it.
CallIsSound(t) ==
    /\ calls[t].at \in Linked => calls[t].ext \in EntitiesOf(calls[t].ref)
    /\ calls[t].fresh => calls[t].at \in Linked
    /\ calls[t].at = "notify" => calls[t].fresh /\ kind[calls[t].ref] = "payment_link"
    /\ calls[t].fresh /\ kind[calls[t].ref] # "order" =>
          messages[calls[t].ref] <= 1 + mishaps

\* What is known of it as long as it is the only one.
CallIsAlone(t) ==
    /\ torn = 0 => told[calls[t].ref] = NoId
    /\ notify \/ calls[t].at = "notify" => calls[t].ref \in asked
    /\ calls[t].at = "create" /\ kind[calls[t].ref] = "order" =>
          Cardinality(EntitiesOf(calls[t].ref)) <= mishaps
    /\ calls[t].at \in {"write", "notify"} => dispatched[calls[t].ref] = calls[t].ext
    /\ calls[t].at = "notify" /\ torn = 0 => disk[calls[t].ref].id = calls[t].ext
    /\ calls[t].at = "write" => calls[t].flag = (calls[t].ref \in reconciled)

CallsAreSound == \A t \in Running : CallIsSound(t)

CallsAreAlone ==
    ~overlapped => /\ \A t, u \in Running : t = u
                   /\ \A t \in Running : CallIsAlone(t)

\* An announced link or auth link has one creator.
OneCreator ==
    /\ \A r \in Refs : EntitiesOf(r) = {} => messages[r] = 0
    /\ \A t, u \in Running :
          /\ calls[t].fresh /\ calls[u].fresh /\ calls[t].ref = calls[u].ref
          /\ kind[calls[t].ref] # "order"
          => t = u

\* What memory and the journal hold for a reference exists under it.
Provenance ==
    \A r \in Refs :
        {dispatched[r], disk[r].id, kept[r].id} \subseteq EntitiesOf(r) \cup {NoId}

\* What w is worth on r was paid on an entity of r.
WasPaid(r, w) ==
    \E k \in EntitiesOf(r) :
        IF kind[r] = "invoice" THEN entities[k].paid = Due ELSE w <= entities[k].paid

Payments ==
    /\ \A k \in DOMAIN entities :
          kind[entities[k].ref] # "payment_link" => entities[k].paid \in {0, Due}
    /\ \A x \in poll.out : WasPaid(x[1], x[2])

\* A poll runs alone, over what was dispatched.
PollIsAlone ==
    /\ poll.todo # {} \/ poll.out # {} => poll.on
    /\ poll.on => Running = {}
    /\ \A r \in poll.todo : dispatched[r] # NoId

\* An open line was left by an append that was torn, and every torn append is a fault.
JournalIsSound ==
    /\ ~gap => kept = disk
    /\ gap => torn >= 1
    /\ torn <= faults

\* What was told survives a restart.
ToldIsKept ==
    ~overlapped /\ torn = 0 => \A r \in Refs :
        told[r] # NoId => dispatched[r] = told[r] /\ disk[r].id = told[r]

\* The torn appends that have swallowed what they may.
Used == IF gap THEN torn - 1 ELSE torn

\* The recoveries reported on a reference, or about to be.
Polled(r) == \E w \in Amounts : <<r, w>> \in poll.out
Credits(r) == IF Polled(r) THEN Len(booked[r]) + 1 ELSE Len(booked[r])

\* What a restart would restore is remembered, and a credit that stays on no
\* disk was swallowed.
Covered(r) ==
    /\ kept[r].reconciled => disk[r].reconciled
    /\ disk[r].reconciled => r \in reconciled
    /\ kept[r].reconciled => Credits(r) <= Used + 1
    /\ ~kept[r].reconciled => Credits(r) <= Used

CreditsAreCovered == ~overlapped => \A r \in Refs : Covered(r)

IInv ==
    /\ TypeOK
    /\ CallsAreSound /\ CallsAreAlone /\ OneCreator
    /\ Provenance /\ Payments /\ PollIsAlone
    /\ JournalIsSound /\ ToldIsKept /\ CreditsAreCovered /\ BookedWasPaid
    /\ AReplayIsNotASecondContact /\ OrdersAreDoubledByLostAnswersOnly
-------------------------------------------------------------------------------
(* The record of a call *)

LEMMA StepNames ==
    /\ Linked \subseteq Steps /\ "look" \in Steps /\ "create" \in Steps /\ "find" \in Steps
    /\ "record" \in Linked /\ "write" \in Linked /\ "notify" \in Linked
    /\ "look" \notin Linked /\ "create" \notin Linked /\ "find" \notin Linked
    /\ "idle" \notin Steps
BY DEF Steps, Linked

LEMMA CallFields ==
    ASSUME NEW c \in Calls
    PROVE  /\ c.at \in Steps /\ c.ref \in Refs /\ c.ext \in Ids \cup {NoId}
           /\ c.fresh \in BOOLEAN /\ c.flag \in BOOLEAN /\ c.tries \in 1 .. Tries
           /\ c # Idle
<1>1. c.at \in Steps /\ c.ref \in Refs /\ c.ext \in Ids \cup {NoId}
      /\ c.fresh \in BOOLEAN /\ c.flag \in BOOLEAN /\ c.tries \in 1 .. Tries
  BY DEF Calls
<1>2. Idle.at = "idle"
  BY DEF Idle
<1>. QED  BY <1>1, <1>2, StepNames

LEMMA WithAt ==
    ASSUME NEW c \in Calls, NEW s \in Steps
    PROVE  LET d == [c EXCEPT !.at = s]
           IN  /\ d \in Calls /\ d.at = s /\ d.ref = c.ref /\ d.ext = c.ext
               /\ d.fresh = c.fresh /\ d.flag = c.flag
BY DEF Calls

LEMMA WithTries ==
    ASSUME NEW c \in Calls, NEW n \in 1 .. Tries
    PROVE  LET d == [c EXCEPT !.tries = n]
           IN  /\ d \in Calls /\ d.at = c.at /\ d.ref = c.ref /\ d.ext = c.ext
               /\ d.fresh = c.fresh /\ d.flag = c.flag
BY DEF Calls

LEMMA WithExt ==
    ASSUME NEW c \in Calls, NEW k \in Ids
    PROVE  LET d == [c EXCEPT !.ext = k]
           IN  /\ d \in Calls /\ d.at = c.at /\ d.ref = c.ref /\ d.ext = k
               /\ d.fresh = c.fresh /\ d.flag = c.flag
BY DEF Calls

LEMMA WithFresh ==
    ASSUME NEW c \in Calls
    PROVE  LET d == [c EXCEPT !.fresh = TRUE]
           IN  /\ d \in Calls /\ d.at = c.at /\ d.ref = c.ref /\ d.ext = c.ext
               /\ d.fresh = TRUE /\ d.flag = c.flag
BY DEF Calls

LEMMA WithFlag ==
    ASSUME NEW c \in Calls, NEW b \in BOOLEAN
    PROVE  LET d == [c EXCEPT !.flag = b]
           IN  /\ d \in Calls /\ d.at = c.at /\ d.ref = c.ref /\ d.ext = c.ext
               /\ d.fresh = c.fresh /\ d.flag = b
BY DEF Calls

LEMMA AtStep ==
    ASSUME TypeOK, NEW t \in Threads, NEW s \in Steps, calls[t].at = s
    PROVE  calls[t] \in Calls /\ t \in Running
<1>1. calls[t] \in Calls \cup {Idle}
  BY DEF TypeOK
<1>2. Idle.at = "idle"
  BY DEF Idle
<1>. QED  BY <1>1, <1>2, StepNames, CallFields DEF Running

LEMMA RunningCall ==
    ASSUME TypeOK, NEW t \in Running
    PROVE  t \in Threads /\ calls[t] \in Calls
BY DEF TypeOK, Running

\* A call that goes to its next step, with a new count of tries.
LEMMA GotoFields ==
    ASSUME TypeOK, NEW t \in Threads, calls[t] \in Calls, NEW s \in Steps, Goto(t, s)
    PROVE  /\ calls' \in [Threads -> Calls \cup {Idle}] /\ calls'[t] \in Calls
           /\ calls'[t].at = s /\ calls'[t].ref = calls[t].ref
           /\ calls'[t].ext = calls[t].ext /\ calls'[t].fresh = calls[t].fresh
           /\ calls'[t].flag = calls[t].flag
           /\ \A u \in Threads : u # t => calls'[u] = calls[u]
<1>. DEFINE c == [calls[t] EXCEPT !.at = s]
            d == [c EXCEPT !.tries = 1]
<1>1. calls \in [Threads -> Calls \cup {Idle}] /\ 1 \in 1 .. Tries
  BY LivePathAssumption DEF TypeOK
<1>2. calls' = [calls EXCEPT ![t] = d]
  <2>1. [calls EXCEPT ![t].at = s, ![t].tries = 1]
          = [[calls EXCEPT ![t].at = s] EXCEPT ![t].tries = 1]
    OBVIOUS
  <2>. QED  BY <1>1, <2>1 DEF Goto
<1>3. /\ c \in Calls /\ c.at = s /\ c.ref = calls[t].ref /\ c.ext = calls[t].ext
      /\ c.fresh = calls[t].fresh /\ c.flag = calls[t].flag
  BY WithAt
<1>. HIDE DEF c
<1>4. /\ d \in Calls /\ d.at = s /\ d.ref = calls[t].ref /\ d.ext = calls[t].ext
      /\ d.fresh = calls[t].fresh /\ d.flag = calls[t].flag
  BY <1>1, <1>3, WithTries
<1>. HIDE DEF d
<1>5. calls'[t] = d /\ \A u \in Threads : u # t => calls'[u] = calls[u]
  BY <1>1, <1>2
<1>6. calls' \in [Threads -> Calls \cup {Idle}]
  BY <1>1, <1>2, <1>4
<1>. QED  BY <1>4, <1>5, <1>6

LEMMA EndsFields ==
    ASSUME TypeOK, NEW t \in Threads, Ends(t)
    PROVE  /\ calls' \in [Threads -> Calls \cup {Idle}] /\ calls'[t] = Idle
           /\ \A u \in Threads : u # t => calls'[u] = calls[u]
BY DEF TypeOK, Ends

LEMMA ResendFields ==
    ASSUME TypeOK, NEW t \in Threads, calls[t] \in Calls, Resend(t)
    PROVE  /\ calls' \in [Threads -> Calls \cup {Idle}]
           /\ \/ calls'[t] = Idle
              \/ /\ calls'[t] \in Calls
                 /\ calls'[t].at = calls[t].at /\ calls'[t].ref = calls[t].ref
                 /\ calls'[t].ext = calls[t].ext /\ calls'[t].fresh = calls[t].fresh
                 /\ calls'[t].flag = calls[t].flag
           /\ \A u \in Threads : u # t => calls'[u] = calls[u]
<1>1. CASE calls[t].tries < Tries
  <2>. DEFINE n == calls[t].tries + 1
              d == [calls[t] EXCEPT !.tries = n]
  <2>1. calls \in [Threads -> Calls \cup {Idle}] /\ n \in 1 .. Tries
    <3>1. calls[t].tries \in 1 .. Tries
      BY CallFields
    <3>. QED  BY <1>1, <3>1, LivePathAssumption DEF TypeOK
  <2>2. calls' = [calls EXCEPT ![t] = d]
    BY <1>1, <2>1 DEF Resend
  <2>. HIDE DEF n
  <2>3. /\ d \in Calls /\ d.at = calls[t].at /\ d.ref = calls[t].ref
        /\ d.ext = calls[t].ext /\ d.fresh = calls[t].fresh /\ d.flag = calls[t].flag
    BY <2>1, WithTries
  <2>. HIDE DEF d
  <2>4. calls'[t] = d /\ \A u \in Threads : u # t => calls'[u] = calls[u]
    BY <2>1, <2>2
  <2>5. calls' \in [Threads -> Calls \cup {Idle}]
    BY <2>1, <2>2, <2>3
  <2>. QED  BY <2>3, <2>4, <2>5
<1>2. CASE ~ (calls[t].tries < Tries)
  <2>1. Ends(t)
    BY <1>2 DEF Resend
  <2>. QED  BY <2>1, EndsFields
<1>. QED  BY <1>1, <1>2

LEMMA CreatedFields ==
    ASSUME TypeOK, NEW t \in Threads, calls[t] \in Calls, NEW k \in Ids,
           calls' = [calls EXCEPT ![t].at = "record", ![t].fresh = TRUE, ![t].ext = k]
    PROVE  /\ calls' \in [Threads -> Calls \cup {Idle}] /\ calls'[t] \in Calls
           /\ calls'[t].at = "record" /\ calls'[t].ref = calls[t].ref
           /\ calls'[t].ext = k /\ calls'[t].fresh = TRUE
           /\ \A u \in Threads : u # t => calls'[u] = calls[u]
<1>. DEFINE c == [calls[t] EXCEPT !.at = "record"]
            d == [c EXCEPT !.fresh = TRUE]
            e == [d EXCEPT !.ext = k]
<1>1. calls \in [Threads -> Calls \cup {Idle}] /\ "record" \in Steps
  BY StepNames DEF TypeOK
<1>2. calls' = [calls EXCEPT ![t] = e]
  <2>1. [calls EXCEPT ![t].at = "record", ![t].fresh = TRUE, ![t].ext = k]
          = [[[calls EXCEPT ![t].at = "record"] EXCEPT ![t].fresh = TRUE] EXCEPT ![t].ext = k]
    OBVIOUS
  <2>2. [[[calls EXCEPT ![t].at = "record"] EXCEPT ![t].fresh = TRUE] EXCEPT ![t].ext = k]
          = [calls EXCEPT ![t] = e]
    BY <1>1
  <2>. QED  BY <2>1, <2>2
<1>3. /\ c \in Calls /\ c.at = "record" /\ c.ref = calls[t].ref
  BY <1>1, WithAt
<1>. HIDE DEF c
<1>4. /\ d \in Calls /\ d.at = "record" /\ d.ref = calls[t].ref /\ d.fresh = TRUE
  BY <1>3, WithFresh
<1>. HIDE DEF d
<1>5. /\ e \in Calls /\ e.at = "record" /\ e.ref = calls[t].ref /\ e.fresh = TRUE
      /\ e.ext = k
  BY <1>4, WithExt
<1>. HIDE DEF e
<1>6. calls'[t] = e /\ \A u \in Threads : u # t => calls'[u] = calls[u]
  BY <1>1, <1>2
<1>7. calls' \in [Threads -> Calls \cup {Idle}]
  BY <1>1, <1>2, <1>5
<1>. QED  BY <1>5, <1>6, <1>7

LEMMA FoundFields ==
    ASSUME TypeOK, NEW t \in Threads, calls[t] \in Calls, NEW k \in Ids,
           calls' = [calls EXCEPT ![t].at = "record", ![t].ext = k]
    PROVE  /\ calls' \in [Threads -> Calls \cup {Idle}] /\ calls'[t] \in Calls
           /\ calls'[t].at = "record" /\ calls'[t].ref = calls[t].ref
           /\ calls'[t].ext = k /\ calls'[t].fresh = calls[t].fresh
           /\ \A u \in Threads : u # t => calls'[u] = calls[u]
<1>. DEFINE c == [calls[t] EXCEPT !.at = "record"]
            e == [c EXCEPT !.ext = k]
<1>1. calls \in [Threads -> Calls \cup {Idle}] /\ "record" \in Steps
  BY StepNames DEF TypeOK
<1>2. calls' = [calls EXCEPT ![t] = e]
  <2>1. [calls EXCEPT ![t].at = "record", ![t].ext = k]
          = [[calls EXCEPT ![t].at = "record"] EXCEPT ![t].ext = k]
    OBVIOUS
  <2>. QED  BY <1>1, <2>1
<1>3. /\ c \in Calls /\ c.at = "record" /\ c.ref = calls[t].ref
      /\ c.fresh = calls[t].fresh
  BY <1>1, WithAt
<1>. HIDE DEF c
<1>4. /\ e \in Calls /\ e.at = "record" /\ e.ref = calls[t].ref
      /\ e.fresh = calls[t].fresh /\ e.ext = k
  BY <1>3, WithExt
<1>. HIDE DEF e
<1>5. calls'[t] = e /\ \A u \in Threads : u # t => calls'[u] = calls[u]
  BY <1>1, <1>2
<1>6. calls' \in [Threads -> Calls \cup {Idle}]
  BY <1>1, <1>2, <1>4
<1>. QED  BY <1>4, <1>5, <1>6

LEMMA RecordedFields ==
    ASSUME TypeOK, NEW t \in Threads, calls[t] \in Calls, NEW b \in BOOLEAN,
           calls' = [calls EXCEPT ![t].at = "write", ![t].flag = b]
    PROVE  /\ calls' \in [Threads -> Calls \cup {Idle}] /\ calls'[t] \in Calls
           /\ calls'[t].at = "write" /\ calls'[t].ref = calls[t].ref
           /\ calls'[t].ext = calls[t].ext /\ calls'[t].fresh = calls[t].fresh
           /\ calls'[t].flag = b
           /\ \A u \in Threads : u # t => calls'[u] = calls[u]
<1>. DEFINE c == [calls[t] EXCEPT !.at = "write"]
            e == [c EXCEPT !.flag = b]
<1>1. calls \in [Threads -> Calls \cup {Idle}] /\ "write" \in Steps
  BY StepNames DEF TypeOK
<1>2. calls' = [calls EXCEPT ![t] = e]
  <2>1. [calls EXCEPT ![t].at = "write", ![t].flag = b]
          = [[calls EXCEPT ![t].at = "write"] EXCEPT ![t].flag = b]
    OBVIOUS
  <2>. QED  BY <1>1, <2>1
<1>3. /\ c \in Calls /\ c.at = "write" /\ c.ref = calls[t].ref
      /\ c.fresh = calls[t].fresh /\ c.ext = calls[t].ext
  BY <1>1, WithAt
<1>. HIDE DEF c
<1>4. /\ e \in Calls /\ e.at = "write" /\ e.ref = calls[t].ref
      /\ e.fresh = calls[t].fresh /\ e.ext = calls[t].ext /\ e.flag = b
  BY <1>3, WithFlag
<1>. HIDE DEF e
<1>5. calls'[t] = e /\ \A u \in Threads : u # t => calls'[u] = calls[u]
  BY <1>1, <1>2
<1>6. calls' \in [Threads -> Calls \cup {Idle}]
  BY <1>1, <1>2, <1>4
<1>. QED  BY <1>4, <1>5, <1>6
-------------------------------------------------------------------------------
(* What the provider holds only grows *)

Entity == [ref : Refs, paid : 0 .. Due]

LEMMA EntityFacts ==
    ASSUME TypeOK
    PROVE  /\ entities \in Seq(Entity) /\ Len(entities) \in Nat
           /\ Len(entities) <= MaxEntities /\ DOMAIN entities = 1 .. Len(entities)
           /\ \A k \in DOMAIN entities :
                 /\ k \in Ids /\ k \in Nat /\ k # NoId
                 /\ entities[k].ref \in Refs /\ entities[k].paid \in 0 .. Due
           /\ \A r : /\ EntitiesOf(r) \subseteq DOMAIN entities
                     /\ IsFiniteSet(EntitiesOf(r)) /\ NoId \notin EntitiesOf(r)
                     /\ Cardinality(EntitiesOf(r)) \in Nat
<1>1. /\ entities \in Seq(Entity) /\ Len(entities) \in Nat
      /\ Len(entities) <= MaxEntities /\ DOMAIN entities = 1 .. Len(entities)
  BY LenProperties DEF TypeOK, Entity
<1>2. ASSUME NEW k \in DOMAIN entities
      PROVE  /\ k \in Ids /\ k \in Nat /\ k # NoId
             /\ entities[k].ref \in Refs /\ entities[k].paid \in 0 .. Due
  <2>1. entities[k] \in Entity
    BY <1>1
  <2>. QED  BY <1>1, <2>1, LivePathAssumption DEF Ids, NoId, Entity
<1>3. ASSUME NEW r
      PROVE  /\ EntitiesOf(r) \subseteq DOMAIN entities
             /\ IsFiniteSet(EntitiesOf(r)) /\ NoId \notin EntitiesOf(r)
             /\ Cardinality(EntitiesOf(r)) \in Nat
  <2>1. EntitiesOf(r) \in SUBSET DOMAIN entities
    BY DEF EntitiesOf
  <2>2. IsFiniteSet(DOMAIN entities)
    BY <1>1, FS_Interval
  <2>3. IsFiniteSet(EntitiesOf(r))
    BY <2>1, <2>2, FS_Subset
  <2>4. Cardinality(EntitiesOf(r)) \in Nat
    BY <2>3, FS_CardinalityType
  <2>. QED  BY <1>2, <2>1, <2>3, <2>4
<1>. QED  BY <1>1, <1>2, <1>3

EntitiesGrow ==
    /\ \A k \in DOMAIN entities :
          /\ k \in DOMAIN entities' /\ entities'[k].ref = entities[k].ref
          /\ entities'[k].paid \in entities[k].paid .. Due
    /\ \A k \in DOMAIN entities' :
          kind[entities'[k].ref] # "payment_link" =>
             \/ entities'[k].paid \in {0, Due}
             \/ k \in DOMAIN entities /\ entities'[k] = entities[k]

LEMMA SameEntitiesGrow ==
    ASSUME TypeOK, entities' = entities
    PROVE  EntitiesGrow
BY EntityFacts DEF EntitiesGrow

LEMMA CreatedGrows ==
    ASSUME TypeOK, NEW r \in Refs, Created(r)
    PROVE  /\ entities' \in Seq(Entity) /\ Len(entities') <= MaxEntities
           /\ Len(entities') \in EntitiesOf(r)' /\ Len(entities') \in Ids
           /\ EntitiesOf(r)' = EntitiesOf(r) \cup {Len(entities')}
           /\ Cardinality(EntitiesOf(r)') = Cardinality(EntitiesOf(r)) + 1
           /\ \A q : q # r => EntitiesOf(q)' = EntitiesOf(q)
           /\ EntitiesGrow
<1>. DEFINE e == [ref |-> r, paid |-> 0]
            k == Len(entities')
<1>1. e \in Entity /\ e.ref = r /\ e.paid = 0
  BY LivePathAssumption DEF Entity
<1>2. entities' = Append(entities, e) /\ Len(entities) < MaxEntities
  BY DEF Created
<1>. HIDE DEF e
<1>3. /\ entities' \in Seq(Entity) /\ k = Len(entities) + 1 /\ entities'[k] = e
      /\ DOMAIN entities' = 1 .. Len(entities) + 1
      /\ \A j \in 1 .. Len(entities) : entities'[j] = entities[j]
  BY <1>1, <1>2, EntityFacts, AppendProperties
<1>4. k \in Ids /\ k <= MaxEntities /\ k \notin DOMAIN entities
  BY <1>2, <1>3, EntityFacts, LivePathAssumption DEF Ids
<1>. HIDE DEF k
<1>5. DOMAIN entities' = DOMAIN entities \cup {k}
  BY <1>3, EntityFacts
<1>6. entities'[k].ref = r
  BY <1>1, <1>3
<1>7. \A j \in DOMAIN entities : entities'[j] = entities[j]
  BY <1>3, EntityFacts
<1>8. EntitiesOf(r)' = EntitiesOf(r) \cup {k}
  BY <1>5, <1>6, <1>7 DEF EntitiesOf
<1>9. \A q : q # r => EntitiesOf(q)' = EntitiesOf(q)
  BY <1>5, <1>6, <1>7 DEF EntitiesOf
<1>10. Cardinality(EntitiesOf(r)') = Cardinality(EntitiesOf(r)) + 1
  <2>1. k \notin EntitiesOf(r)
    BY <1>4 DEF EntitiesOf
  <2>2. IsFiniteSet(EntitiesOf(r))
    BY EntityFacts
  <2>3. Cardinality(EntitiesOf(r) \cup {k}) = Cardinality(EntitiesOf(r)) + 1
    BY <2>1, <2>2, FS_AddElement
  <2>. QED  BY <1>8, <2>3
<1>11. EntitiesGrow
  <2>1. entities'[k].paid \in {0, Due}
    BY <1>1, <1>3
  <2>. QED  BY <1>5, <1>7, <2>1, EntityFacts DEF EntitiesGrow
<1>. QED  BY <1>3, <1>4, <1>8, <1>9, <1>10, <1>11 DEF k

LEMMA PayGrows ==
    ASSUME TypeOK, NEW k \in DOMAIN entities, pay(k)
    PROVE  /\ entities' \in Seq(Entity) /\ Len(entities') <= MaxEntities
           /\ \A q : EntitiesOf(q)' = EntitiesOf(q)
           /\ EntitiesGrow
<1>1. PICK p \in entities[k].paid + 1 .. Due :
         /\ kind[entities[k].ref] # "payment_link" => p = Due
         /\ entities' = [entities EXCEPT ![k].paid = p]
  BY DEF pay
<1>. DEFINE e == [entities[k] EXCEPT !.paid = p]
<1>2. entities[k] \in Entity /\ entities[k].paid \in Nat /\ p \in entities[k].paid .. Due
      /\ p \in 0 .. Due /\ k \in 1 .. Len(entities)
  <2>1. entities[k] \in Entity
    BY EntityFacts
  <2>. QED  BY <1>1, <2>1, EntityFacts, LivePathAssumption
<1>3. e \in Entity /\ e.ref = entities[k].ref /\ e.paid = p
  BY <1>2 DEF Entity
<1>4. entities' = [entities EXCEPT ![k] = e]
  BY <1>1, EntityFacts
<1>. HIDE DEF e
<1>5. /\ entities' \in Seq(Entity) /\ Len(entities') = Len(entities)
      /\ \A j \in 1 .. Len(entities) : entities'[j] = IF j = k THEN e ELSE entities[j]
  BY <1>2, <1>3, <1>4, EntityFacts, ExceptSeq
<1>6. DOMAIN entities' = DOMAIN entities
  BY <1>4
<1>7. \A q : EntitiesOf(q)' = EntitiesOf(q)
  BY <1>3, <1>5, <1>6, EntityFacts DEF EntitiesOf
<1>8. EntitiesGrow
  <2>1. ASSUME NEW j \in DOMAIN entities
        PROVE  /\ j \in DOMAIN entities' /\ entities'[j].ref = entities[j].ref
               /\ entities'[j].paid \in entities[j].paid .. Due
    <3>1. CASE j = k
      BY <1>2, <1>3, <1>5, <1>6, <3>1
    <3>2. CASE j # k
      BY <1>5, <1>6, <3>2, EntityFacts
    <3>. QED  BY <3>1, <3>2
  <2>2. ASSUME NEW j \in DOMAIN entities', kind[entities'[j].ref] # "payment_link"
        PROVE  \/ entities'[j].paid \in {0, Due}
               \/ j \in DOMAIN entities /\ entities'[j] = entities[j]
    <3>1. CASE j = k
      BY <1>1, <1>2, <1>3, <1>5, <2>2, <3>1
    <3>2. CASE j # k
      BY <1>5, <1>6, <3>2, EntityFacts
    <3>. QED  BY <3>1, <3>2
  <2>. QED  BY <2>1, <2>2 DEF EntitiesGrow
<1>. QED  BY <1>5, <1>7, <1>8, EntityFacts

LEMMA GrownHolds ==
    ASSUME TypeOK, EntitiesGrow, NEW r
    PROVE  EntitiesOf(r) \subseteq EntitiesOf(r)'
BY EntityFacts DEF EntitiesOf, EntitiesGrow

LEMMA WasPaidStays ==
    ASSUME TypeOK, EntitiesGrow, kind' = kind, NEW r \in Refs, NEW w \in Amounts,
           WasPaid(r, w)
    PROVE  WasPaid(r, w)'
<1>1. PICK k \in EntitiesOf(r) :
         IF kind[r] = "invoice" THEN entities[k].paid = Due ELSE w <= entities[k].paid
  BY DEF WasPaid
<1>2. k \in DOMAIN entities /\ k \in EntitiesOf(r)' /\ w \in Nat /\ Due \in Nat
  BY EntityFacts, GrownHolds, LivePathAssumption DEF Amounts, Annual
<1>3. entities[k].paid \in 0 .. Due /\ entities'[k].paid \in entities[k].paid .. Due
  BY <1>2, EntityFacts DEF EntitiesGrow
<1>4. IF kind[r] = "invoice" THEN entities'[k].paid = Due ELSE w <= entities'[k].paid
  BY <1>1, <1>2, <1>3
<1>. QED  BY <1>2, <1>4 DEF WasPaid

\* The books stand as long as nobody is credited, dispatched or told.
Books ==
    /\ Provenance /\ Payments /\ JournalIsSound
    /\ ToldIsKept /\ CreditsAreCovered /\ BookedWasPaid

LEMMA BooksStand ==
    ASSUME IInv, EntitiesGrow, overlapped => overlapped',
           UNCHANGED <<kind, dispatched, reconciled, disk, kept, gap, torn, poll, booked, faults>>,
           \A r \in Refs : told'[r] # told[r] =>
              (~ overlapped /\ torn = 0 => dispatched[r] = told'[r] /\ disk[r].id = told'[r])
    PROVE  Books'
<1>. USE DEF IInv
<1>1. Provenance'
  <2>1. \A r \in Refs : EntitiesOf(r) \subseteq EntitiesOf(r)'
    BY GrownHolds
  <2>. QED  BY <2>1 DEF Provenance
<1>2. Payments'
  <2>1. ASSUME NEW k \in DOMAIN entities', kind[entities'[k].ref] # "payment_link"
        PROVE  entities'[k].paid \in {0, Due}
    <3>1. CASE k \in DOMAIN entities /\ entities'[k] = entities[k]
      BY <2>1, <3>1 DEF Payments
    <3>. QED  BY <2>1, <3>1 DEF EntitiesGrow
  <2>2. ASSUME NEW x \in poll.out PROVE WasPaid(x[1], x[2])'
    <3>1. x[1] \in Refs /\ x[2] \in Amounts
      BY DEF TypeOK
    <3>2. WasPaid(x[1], x[2])
      BY DEF Payments
    <3>. QED  BY <3>1, <3>2, WasPaidStays
  <2>. QED  BY <2>1, <2>2 DEF Payments
<1>3. JournalIsSound' /\ ToldIsKept' /\ CreditsAreCovered'
  BY DEF JournalIsSound, ToldIsKept, CreditsAreCovered, Covered, Credits, Polled, Used
<1>4. BookedWasPaid'
  <2>. SUFFICES ASSUME NEW r \in Refs, NEW n \in DOMAIN booked[r]
                PROVE  WasPaid(r, booked[r][n])'
    BY DEF BookedWasPaid, WasPaid
  <2>1. booked[r][n] \in Amounts
    BY DEF TypeOK
  <2>2. \A w \in Amounts : WasPaid(r, w) =>
           \E k \in EntitiesOf(r)' :
              IF kind[r] = "invoice" THEN entities'[k].paid = Due ELSE w <= entities'[k].paid
    BY WasPaidStays DEF WasPaid
  <2>3. WasPaid(r, booked[r][n])
    BY DEF BookedWasPaid, WasPaid
  <2>4. \E k \in EntitiesOf(r)' :
            IF kind[r] = "invoice" THEN entities'[k].paid = Due
            ELSE booked[r][n] <= entities'[k].paid
    BY <2>1, <2>2, <2>3
  <2>. QED  BY <2>4 DEF WasPaid
<1>. QED  BY <1>1, <1>2, <1>3, <1>4 DEF Books
-------------------------------------------------------------------------------
(* What an append does to the journal, and to what is kept in it *)

\* What an append of d for r that returned, failed or was torn leaves.
StoreMoves(r, d) ==
    /\ disk' \in [Refs -> Records] /\ kept' \in [Refs -> Records]
    /\ gap' \in BOOLEAN /\ torn' \in {torn, torn + 1}
    /\ ~gap' => kept' = disk'
    /\ gap' => torn' >= 1
    /\ \A q \in Refs : q # r => kept'[q] = kept[q] /\ disk'[q] \in {disk[q], kept[q]}
    /\ kept'[r] \in {kept[r], d}
    /\ disk'[r] \in {disk[r], kept[r], d}
    /\ (kept[r].reconciled => disk[r].reconciled) /\ (kept[r].reconciled => d.reconciled) =>
          (kept'[r].reconciled => disk'[r].reconciled)

LEMMA CountFacts ==
    ASSUME IInv
    PROVE  /\ Used \in Nat /\ torn \in Nat /\ faults \in Nat /\ Used <= torn
           /\ \A r \in Refs : /\ Len(booked[r]) \in Nat
                              /\ Credits(r) \in Nat /\ Len(booked[r]) <= Credits(r)
<1>1. /\ torn \in Nat /\ faults \in Nat /\ gap \in BOOLEAN
      /\ gap => torn >= 1
  BY LivePathAssumption DEF IInv, TypeOK, JournalIsSound
<1>2. Used \in Nat /\ Used <= torn
  BY <1>1 DEF Used
<1>3. ASSUME NEW r \in Refs
      PROVE  /\ Len(booked[r]) \in Nat
             /\ Credits(r) \in Nat /\ Len(booked[r]) <= Credits(r)
  <2>1. Len(booked[r]) \in Nat
    <3>1. booked[r] \in Seq(Amounts)
      BY DEF IInv, TypeOK
    <3>. QED  BY <3>1, LenProperties
  <2>2. CASE Polled(r)
    BY <2>1, <2>2 DEF Credits
  <2>3. CASE ~ Polled(r)
    BY <2>1, <2>3 DEF Credits
  <2>. QED  BY <2>1, <2>2, <2>3
<1>. QED  BY <1>1, <1>2, <1>3

LEMMA StoreStep ==
    ASSUME IInv, NEW r \in Refs, NEW d \in Records,
           UNCHANGED store \/ AppendFails(r, d)
    PROVE  StoreMoves(r, d) /\ Used <= Used' /\ Used' \in Nat
<1>1. /\ torn \in Nat /\ gap \in BOOLEAN
      /\ disk \in [Refs -> Records] /\ kept \in [Refs -> Records]
      /\ (~ gap => kept = disk)
      /\ (gap => torn >= 1)
  BY CountFacts DEF IInv, TypeOK, JournalIsSound
<1>2. CASE UNCHANGED store
  <2>1. disk' = disk /\ kept' = kept /\ gap' = gap /\ torn' = torn
    BY <1>2 DEF store
  <2>2. Used' = Used
    BY <2>1 DEF Used
  <2>. QED  BY <1>1, <2>1, <2>2, CountFacts DEF StoreMoves
<1>3. CASE Appended(r, d)
  <2>1. disk' = kept' /\ gap' = FALSE /\ torn' = torn
    BY <1>3 DEF Appended
  <2>2. kept' = kept \/ kept' = [kept EXCEPT ![r] = d]
    BY <1>3 DEF Appended
  <2>3. /\ kept' \in [Refs -> Records] /\ kept'[r] \in {kept[r], d}
        /\ \A q \in Refs : q # r => kept'[q] = kept[q]
    BY <1>1, <2>2
  <2>4. Used <= Used' /\ Used' \in Nat
    BY <1>1, <2>1 DEF Used
  <2>5. StoreMoves(r, d)
    BY <1>1, <2>1, <2>3 DEF StoreMoves
  <2>. QED  BY <2>4, <2>5
<1>4. CASE AppendTorn(r, d)
  <2>1. kept' = kept /\ gap' = TRUE /\ torn' = torn + 1
    BY <1>4 DEF AppendTorn
  <2>2. disk' = kept \/ disk' = [kept EXCEPT ![r] = d]
    BY <1>4 DEF AppendTorn
  <2>3. /\ disk' \in [Refs -> Records] /\ disk'[r] \in {kept[r], d}
        /\ \A q \in Refs : q # r => disk'[q] = kept[q]
    BY <1>1, <2>2
  <2>4. Used <= Used' /\ Used' \in Nat
    BY <1>1, <2>1 DEF Used
  <2>5. StoreMoves(r, d)
    BY <1>1, <2>1, <2>3 DEF StoreMoves
  <2>. QED  BY <2>4, <2>5
<1>. QED  BY <1>2, <1>3, <1>4 DEF AppendFails

\* Without a tear, the last snapshot is the one a restart finds.
LEMMA Untorn ==
    ASSUME IInv, NEW r \in Refs, NEW d \in Records, StoreMoves(r, d), torn' = 0
    PROVE  /\ torn = 0 /\ disk'[r] \in {disk[r], d}
           /\ \A q \in Refs : q # r => disk'[q] = disk[q]
<1>1. torn \in Nat /\ torn = 0
  BY CountFacts DEF StoreMoves
<1>2. kept = disk
  BY <1>1 DEF IInv, JournalIsSound
<1>. QED  BY <1>1, <1>2 DEF StoreMoves

LEMMA JournalStays ==
    ASSUME IInv, NEW r \in Refs, NEW d \in Records, StoreMoves(r, d),
           faults' \in 0 .. MaxFaults, torn' = torn \/ faults' = faults + 1,
           faults' = faults \/ faults' = faults + 1
    PROVE  JournalIsSound' /\ torn' \in 0 .. MaxFaults
<1>1. torn \in Nat /\ faults \in Nat /\ torn <= faults /\ torn' \in {torn, torn + 1}
  BY CountFacts DEF IInv, JournalIsSound, StoreMoves
<1>2. torn' \in 0 .. MaxFaults /\ torn' <= faults'
  BY <1>1, LivePathAssumption
<1>. QED  BY <1>2 DEF JournalIsSound, StoreMoves

LEMMA SourceStays ==
    ASSUME IInv, NEW r \in Refs, NEW d \in Records, StoreMoves(r, d),
           d.id \in EntitiesOf(r) \cup {NoId}, NEW q \in Refs
    PROVE  {disk'[q].id, kept'[q].id} \subseteq EntitiesOf(q) \cup {NoId}
BY DEF StoreMoves, IInv, Provenance

\* What is on disk is remembered, as long as the process lives.
LEMMA DiskIsRemembered ==
    ASSUME IInv, ~ overlapped, NEW r \in Refs, NEW d \in Records, StoreMoves(r, d),
           reconciled \subseteq reconciled', d.reconciled => r \in reconciled',
           NEW q \in Refs, disk'[q].reconciled
    PROVE  q \in reconciled'
BY DEF StoreMoves, IInv, CreditsAreCovered, Covered

LEMMA CoveredStays ==
    ASSUME IInv, ~ overlapped, NEW r \in Refs, NEW d \in Records, StoreMoves(r, d),
           Used <= Used', Used' \in Nat, NEW q \in Refs,
           Credits(q)' \in {Credits(q), Len(booked[q])},
           disk'[q].reconciled => q \in reconciled', kept[r].reconciled => d.reconciled
    PROVE  Covered(q)'
<1>1. /\ kept[q].reconciled => disk[q].reconciled
      /\ kept[q].reconciled => Credits(q) <= Used + 1
      /\ ~ kept[q].reconciled => Credits(q) <= Used
  BY DEF IInv, CreditsAreCovered, Covered
<1>2. /\ kept[q].reconciled => kept'[q].reconciled
      /\ kept'[q].reconciled => disk'[q].reconciled
  BY <1>1 DEF StoreMoves
<1>3. /\ Credits(q) \in Nat /\ Used \in Nat
      /\ Credits(q)' \in Nat /\ Credits(q)' <= Credits(q)
  BY CountFacts
<1>4. /\ kept'[q].reconciled => Credits(q)' <= Used' + 1
      /\ ~ kept'[q].reconciled => Credits(q)' <= Used'
  BY <1>1, <1>2, <1>3
<1>. QED  BY <1>2, <1>4 DEF Covered

\* A credit whose append returned is on disk to stay, or closed the open line.
LEMMA CreditIsCovered ==
    ASSUME IInv, ~ overlapped, NEW r \in Refs, r \notin reconciled, r \in reconciled',
           NEW d \in Records, d.reconciled, Appended(r, d),
           Credits(r)' \in {Credits(r), Credits(r) + 1}
    PROVE  Covered(r)'
<1>1. ~ kept[r].reconciled /\ Credits(r) <= Used
  BY DEF IInv, CreditsAreCovered, Covered
<1>2. /\ Credits(r) \in Nat /\ Used \in Nat /\ torn \in Nat
      /\ kept \in [Refs -> Records]
  BY CountFacts DEF IInv, TypeOK
<1>3. disk' = kept' /\ ~ gap' /\ torn' = torn
  BY DEF Appended
<1>4. Used' = torn
  BY <1>3 DEF Used
<1>5. CASE gap
  <2>1. kept' = kept /\ Used = torn - 1
    BY <1>5 DEF Appended, Used
  <2>2. Credits(r)' <= Used'
    BY <1>1, <1>2, <1>4, <2>1
  <2>3. ~ kept'[r].reconciled
    BY <1>1, <2>1
  <2>. QED  BY <1>3, <2>2, <2>3 DEF Covered
<1>6. CASE ~ gap
  <2>1. kept' = [kept EXCEPT ![r] = d] /\ Used = torn
    BY <1>6 DEF Appended, Used
  <2>2. Credits(r)' <= Used' + 1
    BY <1>1, <1>2, <1>4, <2>1
  <2>3. kept'[r].reconciled
    BY <1>2, <2>1
  <2>. QED  BY <1>3, <2>2, <2>3 DEF Covered
<1>. QED  BY <1>5, <1>6
-------------------------------------------------------------------------------
(* A call on its way *)

\* What a call may do to the rest by going to another step.
LEMMA CallMoves ==
    ASSUME IInv, NEW t \in Running,
           calls' \in [Threads -> Calls \cup {Idle}],
           \A u \in Threads : u # t => calls'[u] = calls[u],
           UNCHANGED <<kind, overlapped, notify, memory, disk, kept, gap, torn, poll, outside, ghosts>>,
           mishaps' \in 0 .. MaxMishaps, mishaps' >= mishaps,
           calls'[t] # Idle => /\ calls'[t].ref = calls[t].ref
                               /\ calls'[t].fresh = calls[t].fresh
                               /\ CallIsSound(t)'
                               /\ ~ overlapped => CallIsAlone(t)'
    PROVE  IInv'
<1>1. /\ TypeOK /\ t \in Threads /\ mishaps \in Nat /\ mishaps' \in Nat
      /\ \A r \in Refs : messages[r] \in Nat
      /\ Running \subseteq Threads /\ Running' \subseteq Running
  BY LivePathAssumption DEF IInv, TypeOK, Running
<1>2. TypeOK'
  BY DEF IInv, TypeOK, memory, outside, ghosts, EntitiesOf
<1>3. entities' = entities /\ messages' = messages /\ \A r : EntitiesOf(r)' = EntitiesOf(r)
  BY DEF outside, EntitiesOf
<1>4. Books'
  <2>1. EntitiesGrow
    BY <1>1, <1>3, SameEntitiesGrow
  <2>2. /\ UNCHANGED <<kind, dispatched, reconciled, disk, kept, gap, torn, poll, booked, faults>>
        /\ \A r \in Refs : told'[r] = told[r]
        /\ overlapped => overlapped'
    BY DEF memory, ghosts
  <2>3. Books'
    BY <2>1, <2>2, BooksStand
  <2>. QED  BY <2>3
<1>5. CallsAreSound'
  <2>1. ASSUME NEW u \in Running' PROVE CallIsSound(u)'
    <3>1. CASE u = t
      BY <2>1, <3>1 DEF Running
    <3>2. CASE u # t
      <4>1. CallIsSound(u) /\ calls'[u] = calls[u] /\ calls[u] \in Calls /\ u \in Running
        BY <1>1, <2>1, <3>2, RunningCall DEF IInv, CallsAreSound
      <4>2. calls[u].ref \in Refs
        BY <4>1, CallFields
      <4>. QED  BY <1>1, <1>3, <4>1, <4>2 DEF CallIsSound
    <3>. QED  BY <3>1, <3>2
  <2>. QED  BY <2>1 DEF CallsAreSound
<1>6. CallsAreAlone'
  <2>. SUFFICES ASSUME ~ overlapped
                PROVE  /\ \A u, v \in Running' : u = v
                       /\ \A u \in Running' : CallIsAlone(u)'
    BY DEF CallsAreAlone
  <2>1. \A u \in Running' : u = t /\ u \in Running
    BY <1>1 DEF IInv, CallsAreAlone
  <2>. QED  BY <2>1 DEF Running
<1>7. OneCreator'
  <2>1. \A u \in Running' :
           calls'[u].ref = calls[u].ref /\ calls'[u].fresh = calls[u].fresh /\ u \in Running
    BY <1>1 DEF Running
  <2>. QED  BY <1>3, <2>1 DEF IInv, OneCreator
<1>8. PollIsAlone'
  BY <1>1 DEF IInv, PollIsAlone, memory
<1>9. AReplayIsNotASecondContact'
  BY <1>1, <1>3 DEF IInv, AReplayIsNotASecondContact
<1>10. OrdersAreDoubledByLostAnswersOnly'
  <2>1. \A r : Cardinality(EntitiesOf(r)) \in Nat
    BY <1>1, EntityFacts
  <2>. QED  BY <1>1, <1>3, <2>1 DEF IInv, OrdersAreDoubledByLostAnswersOnly
<1>. QED  BY <1>2, <1>4, <1>5, <1>6, <1>7, <1>8, <1>9, <1>10 DEF IInv, Books
-------------------------------------------------------------------------------
(* The requests of a call *)

LEMMA CallKnows ==
    ASSUME IInv, NEW t \in Threads, NEW s \in Steps, calls[t].at = s
    PROVE  /\ TypeOK /\ t \in Running /\ calls[t] \in Calls /\ calls[t].ref \in Refs
           /\ CallIsSound(t) /\ (~ overlapped => CallIsAlone(t))
           /\ mishaps \in Nat /\ mishaps \in 0 .. MaxMishaps
           /\ (mishaps < MaxMishaps => mishaps + 1 \in 0 .. MaxMishaps)
<1>1. TypeOK /\ t \in Running /\ calls[t] \in Calls
  BY AtStep DEF IInv
<1>2. mishaps \in 0 .. MaxMishaps
  BY <1>1 DEF TypeOK
<1>3. mishaps \in Nat /\ (mishaps < MaxMishaps => mishaps + 1 \in 0 .. MaxMishaps)
  BY <1>2, LivePathAssumption
<1>4. calls[t].ref \in Refs
  BY <1>1, CallFields
<1>. QED  BY <1>1, <1>2, <1>3, <1>4 DEF IInv, CallsAreSound, CallsAreAlone

LEMMA StepEnds ==
    ASSUME IInv, NEW t \in Running, Ends(t), mishaps' \in 0 .. MaxMishaps, mishaps' >= mishaps,
           UNCHANGED <<kind, overlapped, notify, memory, disk, kept, gap, torn, poll, outside, ghosts>>
    PROVE  IInv'
<1>1. t \in Threads /\ TypeOK
  BY RunningCall DEF IInv
<1>. QED  BY <1>1, EndsFields, CallMoves

LEMMA StepLook ==
    ASSUME IInv, NEW t \in Threads, look(t)
    PROVE  IInv'
<1>. DEFINE r == calls[t].ref
            next == IF EntitiesOf(r) = {} THEN "create" ELSE "find"
<1>1. /\ calls[t].at = "look" /\ "look" \in Steps /\ next \in Steps /\ next \notin Linked
      /\ Goto(t, next)
      /\ UNCHANGED <<kind, overlapped, notify, memory, disk, kept, gap, torn, poll, outside, ghosts, mishaps>>
  BY StepNames DEF look, At, store
<1>2. /\ TypeOK /\ t \in Running /\ calls[t] \in Calls /\ r \in Refs
      /\ CallIsSound(t) /\ (~ overlapped => CallIsAlone(t)) /\ mishaps \in Nat
      /\ mishaps \in 0 .. MaxMishaps
  BY <1>1, CallKnows
<1>3. next = "create" => Cardinality(EntitiesOf(r)) <= mishaps
  <2>1. next = "create" => EntitiesOf(r) = {}
    OBVIOUS
  <2>. QED  BY <1>2, <2>1, FS_EmptySet
<1>4. next \in {"create", "find"}
  OBVIOUS
<1>. HIDE DEF next
<1>5. /\ calls' \in [Threads -> Calls \cup {Idle}]
      /\ calls'[t].at = next /\ calls'[t].ref = r /\ calls'[t].fresh = calls[t].fresh
      /\ \A u \in Threads : u # t => calls'[u] = calls[u]
  BY <1>1, <1>2, GotoFields
<1>6. calls[t].fresh = FALSE
  BY <1>1, <1>2, StepNames, CallFields DEF CallIsSound
<1>7. CallIsSound(t)'
  BY <1>1, <1>4, <1>5, <1>6 DEF CallIsSound
<1>8. ASSUME ~ overlapped PROVE CallIsAlone(t)'
  <2>1. CallIsAlone(t) /\ entities' = entities
    BY <1>1, <1>2, <1>8 DEF outside
  <2>. QED  BY <1>1, <1>3, <1>4, <1>5, <2>1 DEF CallIsAlone, ghosts, memory, EntitiesOf
<1>9. mishaps' \in 0 .. MaxMishaps /\ mishaps' >= mishaps
  BY <1>1, <1>2
<1>. HIDE DEF r
<1>. QED  BY <1>1, <1>2, <1>5, <1>7, <1>8, <1>9, CallMoves DEF r

LEMMA StepLookupLost ==
    ASSUME IInv, NEW t \in Threads, lookup_lost(t)
    PROVE  IInv'
<1>1. /\ mishaps < MaxMishaps /\ mishaps' = mishaps + 1
      /\ UNCHANGED <<notify, memory, disk, kept, gap, torn, poll, outside, ghosts>>
  BY DEF lookup_lost, store
<1>2. CASE At(t, "look") /\ Goto(t, "create")
  <2>. DEFINE r == calls[t].ref
  <2>1. calls[t].at = "look" /\ UNCHANGED <<kind, overlapped>>
    BY <1>2 DEF At
  <2>2. /\ TypeOK /\ t \in Running /\ calls[t] \in Calls /\ r \in Refs
        /\ CallIsSound(t) /\ (~ overlapped => CallIsAlone(t)) /\ mishaps \in Nat
        /\ mishaps + 1 \in 0 .. MaxMishaps
    BY <1>1, <2>1, CallKnows, StepNames
  <2>3. /\ calls' \in [Threads -> Calls \cup {Idle}]
        /\ calls'[t].at = "create" /\ calls'[t].ref = r
        /\ calls'[t].fresh = calls[t].fresh
        /\ \A u \in Threads : u # t => calls'[u] = calls[u]
    BY <1>2, <2>2, GotoFields, StepNames
  <2>4. calls[t].fresh = FALSE
    BY <2>1, <2>2, StepNames, CallFields DEF CallIsSound
  <2>5. CallIsSound(t)'
    BY <2>3, <2>4, StepNames DEF CallIsSound
  <2>6. ASSUME ~ overlapped PROVE CallIsAlone(t)'
    <3>1. CallIsAlone(t) /\ entities' = entities
      BY <1>1, <2>2, <2>6 DEF outside
    <3>2. Cardinality(EntitiesOf(r)) <= mishaps'
      BY <1>1, <2>2, <2>6 DEF IInv, OrdersAreDoubledByLostAnswersOnly
    <3>. QED  BY <1>1, <2>1, <2>3, <3>1, <3>2
              DEF CallIsAlone, ghosts, memory, EntitiesOf
  <2>7. mishaps' \in 0 .. MaxMishaps /\ mishaps' >= mishaps
    BY <1>1, <2>2
  <2>. HIDE DEF r
  <2>. QED  BY <1>1, <2>1, <2>2, <2>3, <2>5, <2>6, <2>7, CallMoves DEF r
<1>3. ASSUME NEW s \in {"look", "find"}, At(t, s), Ends(t) PROVE IInv'
  <2>1. calls[t].at = s /\ s \in Steps /\ UNCHANGED <<kind, overlapped>>
    BY <1>3, StepNames DEF At
  <2>2. t \in Running /\ mishaps' \in 0 .. MaxMishaps /\ mishaps' >= mishaps
    BY <1>1, <2>1, CallKnows
  <2>. QED  BY <1>1, <1>3, <2>1, <2>2, StepEnds
<1>. QED  BY <1>2, <1>3 DEF lookup_lost

LEMMA StepCreateRefused ==
    ASSUME IInv, NEW t \in Threads, create_refused(t)
    PROVE  IInv'
<1>1. /\ calls[t].at = "create" /\ "create" \in Steps /\ Ends(t)
      /\ UNCHANGED <<kind, overlapped, notify, memory, disk, kept, gap, torn, poll, outside, ghosts, mishaps>>
  BY StepNames DEF create_refused, At, store
<1>2. t \in Running /\ mishaps' \in 0 .. MaxMishaps /\ mishaps' >= mishaps
  BY <1>1, CallKnows
<1>. QED  BY <1>1, <1>2, StepEnds

LEMMA StepFind ==
    ASSUME IInv, NEW t \in Threads, _find_dispatched(t)
    PROVE  IInv'
<1>. DEFINE r == calls[t].ref
<1>1. /\ calls[t].at = "find" /\ "find" \in Steps
      /\ UNCHANGED <<kind, overlapped, notify, memory, disk, kept, gap, torn, poll, outside, ghosts, mishaps>>
  BY StepNames DEF _find_dispatched, At, store
<1>2. /\ TypeOK /\ t \in Running /\ calls[t] \in Calls /\ r \in Refs
      /\ CallIsSound(t) /\ (~ overlapped => CallIsAlone(t))
      /\ mishaps' \in 0 .. MaxMishaps /\ mishaps' >= mishaps
  BY <1>1, CallKnows
<1>3. CASE Ends(t)
  BY <1>1, <1>2, <1>3, StepEnds
<1>4. ASSUME NEW k \in EntitiesOf(r),
             calls' = [calls EXCEPT ![t].at = "record", ![t].ext = k]
      PROVE  IInv'
  <2>1. k \in Ids
    BY <1>2, EntityFacts
  <2>2. /\ calls' \in [Threads -> Calls \cup {Idle}]
        /\ calls'[t].at = "record" /\ calls'[t].ref = r /\ calls'[t].ext = k
        /\ calls'[t].fresh = calls[t].fresh
        /\ \A u \in Threads : u # t => calls'[u] = calls[u]
    BY <1>2, <1>4, <2>1, FoundFields
  <2>3. calls[t].fresh = FALSE
    BY <1>1, <1>2, StepNames, CallFields DEF CallIsSound
  <2>4. CallIsSound(t)'
    BY <1>1, <1>4, <2>2, <2>3, StepNames DEF CallIsSound, EntitiesOf, outside
  <2>5. ASSUME ~ overlapped PROVE CallIsAlone(t)'
    BY <1>1, <1>2, <2>2, <2>5 DEF CallIsAlone, ghosts, memory
  <2>. HIDE DEF r
  <2>. QED  BY <1>1, <1>2, <2>2, <2>4, <2>5, CallMoves DEF r
<1>. QED  BY <1>3, <1>4 DEF _find_dispatched

\* A POST that reached the provider: nothing stood in its way.
LEMMA CallCreates ==
    ASSUME IInv, NEW t \in Threads, calls[t].at = "create", Created(calls[t].ref),
           calls' \in [Threads -> Calls \cup {Idle}],
           \A u \in Threads : u # t => calls'[u] = calls[u],
           UNCHANGED <<kind, overlapped, notify, memory, disk, kept, gap, torn, poll, ghosts>>,
           \/ /\ mishaps' = mishaps /\ calls'[t].at = "record"
              /\ calls'[t].ref = calls[t].ref /\ calls'[t].fresh = TRUE
              /\ calls'[t].ext = Len(entities')
           \/ /\ mishaps < MaxMishaps /\ mishaps' = mishaps + 1
              /\ \/ calls'[t] = Idle
                 \/ /\ calls'[t].at = "create" /\ calls'[t].ref = calls[t].ref
                    /\ calls'[t].fresh = calls[t].fresh
    PROVE  IInv'
<1>0. PICK r \in Refs : r = calls[t].ref
  BY CallKnows, StepNames
<1>1. /\ TypeOK /\ t \in Running /\ calls[t] \in Calls /\ Created(r)
      /\ CallIsSound(t) /\ (~ overlapped => CallIsAlone(t)) /\ mishaps \in Nat
      /\ mishaps \in 0 .. MaxMishaps /\ (mishaps < MaxMishaps => mishaps + 1 \in 0 .. MaxMishaps)
  BY <1>0, CallKnows, StepNames
<1>2. calls[t].fresh = FALSE
  BY <1>1, StepNames, CallFields DEF CallIsSound
<1>3. /\ entities' \in Seq(Entity) /\ Len(entities') <= MaxEntities
      /\ Len(entities') \in EntitiesOf(r)'
      /\ Cardinality(EntitiesOf(r)') = Cardinality(EntitiesOf(r)) + 1
      /\ \A q : q # r => EntitiesOf(q)' = EntitiesOf(q)
      /\ EntitiesGrow
  BY <1>1, CreatedGrows
<1>4. kind[r] # "order" => EntitiesOf(r) = {}
  BY <1>1 DEF Created, Refused
<1>5. /\ messages \in [Refs -> Nat] /\ messages' \in [Refs -> Nat]
      /\ \A q \in Refs : q # r \/ kind[r] = "order" => messages'[q] = messages[q]
      /\ kind[r] # "order" => messages'[r] <= 1
  <2>1. messages' = IF notify /\ kind[r] # "order"
                    THEN [messages EXCEPT ![r] = @ + 1] ELSE messages
    BY <1>1 DEF Created
  <2>2. messages \in [Refs -> Nat]
    BY <1>1 DEF TypeOK
  <2>3. kind[r] # "order" => messages[r] = 0
    BY <1>1, <1>4 DEF IInv, OneCreator
  <2>. QED  BY <1>1, <2>1, <2>2, <2>3
<1>6. mishaps' \in 0 .. MaxMishaps /\ mishaps' \in Nat /\ mishaps' >= mishaps
  BY <1>1, LivePathAssumption
<1>7. /\ Running \subseteq Threads /\ Running' \subseteq Running
  BY <1>1 DEF Running
<1>8. TypeOK'
  <2>1. answered' = answered
    BY <1>1 DEF Created
  <2>. QED  BY <1>1, <1>3, <1>5, <1>6, <2>1 DEF TypeOK, memory, ghosts, Entity
<1>9. Books'
  <2>1. /\ UNCHANGED <<kind, dispatched, reconciled, disk, kept, gap, torn, poll, booked, faults,
                   overlapped>>
        /\ \A q \in Refs : told'[q] = told[q]
    BY DEF memory, ghosts
  <2>. QED  BY <1>3, <2>1, BooksStand
<1>10. CallsAreSound'
  <2>1. ASSUME NEW u \in Running' PROVE CallIsSound(u)'
    <3>1. CASE u = t
      <4>1. calls'[t].at = "record" =>
               /\ calls'[t].ext \in EntitiesOf(r)' /\ calls'[t].ref = r
        BY <1>0, <1>3, StepNames DEF Idle
      <4>2. calls'[t] # Idle
        BY <2>1, <3>1 DEF Running
      <4>. QED  BY <1>2, <1>3, <1>5, <1>6, <3>1, <4>1, <4>2, <1>0, StepNames DEF CallIsSound
    <3>2. CASE u # t
      <4>1. CallIsSound(u) /\ calls'[u] = calls[u] /\ calls[u] \in Calls /\ u \in Running
        BY <1>1, <1>7, <2>1, <3>2, RunningCall DEF IInv, CallsAreSound
      <4>2. /\ calls[u].ref \in Refs /\ EntitiesOf(calls[u].ref) \subseteq EntitiesOf(calls[u].ref)'
        BY <1>1, <1>3, <4>1, CallFields, GrownHolds
      <4>3. kind[calls[u].ref] # "order" =>
               messages'[calls[u].ref] = messages[calls[u].ref] \/ messages'[calls[u].ref] <= 1
        BY <1>5, <4>2
      <4>4. calls[u].fresh /\ kind[calls[u].ref] # "order" =>
               messages'[calls[u].ref] <= 1 + mishaps'
        BY <1>1, <1>5, <1>6, <4>1, <4>2, <4>3 DEF CallIsSound
      <4>5. calls[u].at \in Linked => calls[u].ext \in EntitiesOf(calls[u].ref)'
        BY <4>1, <4>2 DEF CallIsSound
      <4>. QED  BY <4>1, <4>4, <4>5 DEF CallIsSound
    <3>. QED  BY <3>1, <3>2
  <2>. QED  BY <2>1 DEF CallsAreSound
<1>11. ASSUME ~ overlapped
       PROVE  /\ \A u \in Running' : u = t
              /\ kind[r] = "order" => Cardinality(EntitiesOf(r)) <= mishaps
              /\ CallIsAlone(t)
  BY <1>0, <1>1, <1>7, <1>11 DEF IInv, CallsAreAlone, CallIsAlone
<1>12. CallsAreAlone'
  <2>. SUFFICES ASSUME ~ overlapped, t \in Running' PROVE CallIsAlone(t)'
    BY <1>11 DEF CallsAreAlone
  <2>1. calls'[t] # Idle
    BY DEF Running
  <2>2. calls'[t].ref = r /\ calls'[t].at \in {"record", "create"}
    BY <1>0, <2>1
  <2>3. calls'[t].at = "create" /\ kind[r] = "order" =>
           Cardinality(EntitiesOf(r)') <= mishaps'
    <3>1. Cardinality(EntitiesOf(r)) \in Nat
      BY <1>1, EntityFacts
    <3>. QED  BY <1>1, <1>3, <1>11, <3>1
  <2>4. /\ told' = told /\ notify' = notify /\ asked' = asked
    BY DEF ghosts
  <2>. QED  BY <1>0, <1>11, <2>2, <2>3, <2>4 DEF CallIsAlone
<1>4a. OneCreator'
  <2>1. \A q \in Refs : EntitiesOf(q)' = {} => messages'[q] = 0
    BY <1>3, <1>5 DEF IInv, OneCreator
  <2>2. ASSUME NEW u \in Running', NEW v \in Running', calls'[u].fresh, calls'[v].fresh,
               calls'[u].ref = calls'[v].ref, kind[calls'[u].ref] # "order"
        PROVE  u = v
    <3>1. ASSUME NEW x \in Running, x # t, calls[x].fresh, calls[x].ref = r,
                 kind[r] # "order"
          PROVE  FALSE
      BY <1>4, <3>1 DEF IInv, CallsAreSound, CallIsSound
    <3>2. \A x \in Running' : x \in Running /\ (x # t => calls'[x] = calls[x])
      BY <1>7
    <3>3. calls'[t] = Idle \/ calls'[t].ref = r
      BY <1>0
    <3>4. u = t \/ v = t => u = v
      BY <2>2, <3>1, <3>2, <3>3 DEF Running
    <3>5. u # t /\ v # t => u = v
      BY <2>2, <3>2 DEF IInv, OneCreator
    <3>. QED  BY <3>4, <3>5
  <2>. QED  BY <2>1, <2>2 DEF OneCreator
<1>14. PollIsAlone'
  BY <1>1, <1>7 DEF IInv, PollIsAlone, memory
<1>15. AReplayIsNotASecondContact'
  <2>1. \A q \in Refs : messages[q] <= 2 + mishaps
    BY DEF IInv, AReplayIsNotASecondContact
  <2>2. ASSUME NEW q \in Refs PROVE messages'[q] <= 2 + mishaps'
    <3>1. messages'[q] = messages[q] \/ messages'[q] <= 1
      BY <1>5
    <3>. QED  BY <1>1, <1>5, <1>6, <2>1, <3>1
  <2>. QED  BY <2>2 DEF AReplayIsNotASecondContact
<1>16. OrdersAreDoubledByLostAnswersOnly'
  <2>. SUFFICES ASSUME ~ overlapped, NEW q \in Refs
                PROVE  Cardinality(EntitiesOf(q)') <= 1 + mishaps'
    BY DEF OrdersAreDoubledByLostAnswersOnly
  <2>0. \A x : Cardinality(EntitiesOf(x)) \in Nat
    BY <1>1, EntityFacts
  <2>1. CASE q # r
    BY <1>1, <1>3, <1>6, <2>0, <2>1 DEF IInv, OrdersAreDoubledByLostAnswersOnly
  <2>2. CASE q = r /\ kind[r] = "order"
    BY <1>1, <1>3, <1>6, <1>11, <2>0, <2>2
  <2>3. CASE q = r /\ kind[r] # "order"
    <3>1. Cardinality(EntitiesOf(r)) = 0
      BY <1>4, <2>3, FS_EmptySet
    <3>. QED  BY <1>3, <1>6, <2>3, <3>1
  <2>. QED  BY <2>1, <2>2, <2>3
<1>. QED  BY <1>8, <1>9, <1>10, <1>12, <1>4a, <1>14, <1>15, <1>16 DEF IInv, Books

LEMMA StepCreate ==
    ASSUME IInv, NEW t \in Threads, create(t)
    PROVE  IInv'
<1>. DEFINE r == calls[t].ref
<1>1. /\ calls[t].at = "create" /\ "create" \in Steps
      /\ UNCHANGED <<kind, overlapped, notify, memory, disk, kept, gap, torn, poll, ghosts, mishaps>>
  BY StepNames DEF create, At, store
<1>2. /\ TypeOK /\ t \in Running /\ calls[t] \in Calls /\ r \in Refs
      /\ CallIsSound(t) /\ (~ overlapped => CallIsAlone(t))
      /\ mishaps' \in 0 .. MaxMishaps /\ mishaps' >= mishaps
  BY <1>1, CallKnows
<1>3. CASE /\ Created(r)
           /\ calls' = [calls EXCEPT ![t].at = "record", ![t].fresh = TRUE,
                                     ![t].ext = Len(entities')]
  <2>1. Len(entities') \in Ids
    BY <1>2, <1>3, CreatedGrows
  <2>2. /\ calls' \in [Threads -> Calls \cup {Idle}]
        /\ calls'[t].at = "record" /\ calls'[t].ref = r
        /\ calls'[t].ext = Len(entities') /\ calls'[t].fresh = TRUE
        /\ \A u \in Threads : u # t => calls'[u] = calls[u]
    <3>1. PICK k \in Ids : k = Len(entities')
      BY <2>1
    <3>2. calls' = [calls EXCEPT ![t].at = "record", ![t].fresh = TRUE, ![t].ext = k]
      BY <1>3, <3>1
    <3>3. /\ calls' \in [Threads -> Calls \cup {Idle}]
          /\ calls'[t].at = "record" /\ calls'[t].ref = r
          /\ calls'[t].ext = k /\ calls'[t].fresh = TRUE
          /\ \A u \in Threads : u # t => calls'[u] = calls[u]
      BY <1>2, <3>2, CreatedFields
    <3>. QED  BY <3>1, <3>3
  <2>. QED  BY <1>1, <1>3, <2>2, CallCreates
<1>4. CASE Refused(r) /\ Goto(t, "find") /\ UNCHANGED outside
  <2>1. /\ calls' \in [Threads -> Calls \cup {Idle}]
        /\ calls'[t].at = "find" /\ calls'[t].ref = r /\ calls'[t].fresh = calls[t].fresh
        /\ \A u \in Threads : u # t => calls'[u] = calls[u]
    BY <1>2, <1>4, GotoFields, StepNames
  <2>2. calls[t].fresh = FALSE
    BY <1>1, <1>2, StepNames, CallFields DEF CallIsSound
  <2>3. CallIsSound(t)'
    BY <2>1, <2>2, StepNames DEF CallIsSound
  <2>4. ASSUME ~ overlapped PROVE CallIsAlone(t)'
    BY <1>1, <1>2, <2>1, <2>4 DEF CallIsAlone, ghosts, memory
  <2>. HIDE DEF r
  <2>. QED  BY <1>1, <1>2, <1>4, <2>1, <2>3, <2>4, CallMoves DEF r
<1>. QED  BY <1>3, <1>4 DEF create

LEMMA StepCreateLost ==
    ASSUME IInv, NEW t \in Threads, create_lost(t)
    PROVE  IInv'
<1>1. /\ calls[t].at = "create" /\ "create" \in Steps
      /\ mishaps < MaxMishaps /\ mishaps' = mishaps + 1 /\ Resend(t)
      /\ UNCHANGED <<kind, overlapped, notify, memory, disk, kept, gap, torn, poll, ghosts>>
  BY StepNames DEF create_lost, At, store
<1>2. /\ TypeOK /\ t \in Running /\ calls[t] \in Calls
      /\ CallIsSound(t) /\ (~ overlapped => CallIsAlone(t))
      /\ mishaps' \in 0 .. MaxMishaps /\ mishaps' >= mishaps /\ mishaps \in Nat
  BY <1>1, CallKnows
<1>3. /\ calls' \in [Threads -> Calls \cup {Idle}]
      /\ \/ calls'[t] = Idle
         \/ /\ calls'[t].at = "create" /\ calls'[t].ref = calls[t].ref
            /\ calls'[t].fresh = calls[t].fresh
      /\ \A u \in Threads : u # t => calls'[u] = calls[u]
  BY <1>1, <1>2, ResendFields
<1>4. CASE Created(calls[t].ref)
  BY <1>1, <1>3, <1>4, CallCreates
<1>5. CASE UNCHANGED outside
  <2>1. ASSUME calls'[t] # Idle PROVE CallIsSound(t)' /\ (~ overlapped => CallIsAlone(t)')
    <3>1. /\ calls'[t].at = "create" /\ calls'[t].ref = calls[t].ref
          /\ calls'[t].fresh = calls[t].fresh
      BY <1>3, <2>1
    <3>2. calls[t].fresh = FALSE
      BY <1>1, <1>2, StepNames, CallFields DEF CallIsSound
    <3>3. CallIsSound(t)'
      BY <3>1, <3>2, StepNames DEF CallIsSound
    <3>4. ASSUME ~ overlapped PROVE CallIsAlone(t)'
      <4>1. CallIsAlone(t) /\ entities' = entities
        BY <1>2, <1>5, <3>4 DEF outside
      <4>2. \A q : Cardinality(EntitiesOf(q)) \in Nat
        BY <1>2, EntityFacts
      <4>3. \A q : EntitiesOf(q)' = EntitiesOf(q)
        BY <4>1 DEF EntitiesOf
      <4>4. told' = told /\ asked' = asked /\ notify' = notify /\ kind' = kind /\ torn' = torn
        BY <1>1 DEF ghosts
      <4>5. PICK r \in Refs : r = calls[t].ref
        BY <1>2, CallFields
      <4>6. kind[r] = "order" => Cardinality(EntitiesOf(r)') <= mishaps'
        BY <1>1, <1>2, <4>1, <4>2, <4>3, <4>5 DEF CallIsAlone
      <4>. QED  BY <3>1, <4>1, <4>4, <4>5, <4>6 DEF CallIsAlone
    <3>. QED  BY <3>3, <3>4
  <2>. QED  BY <1>1, <1>2, <1>3, <1>5, <2>1, CallMoves
<1>. QED  BY <1>4, <1>5 DEF create_lost
-------------------------------------------------------------------------------
(* The end of a call *)

\* A call that goes on, or ends, without a word to the provider.
LEMMA CreationsStand ==
    ASSUME IInv, NEW t \in Running,
           calls' \in [Threads -> Calls \cup {Idle}],
           \A u \in Threads : u # t => calls'[u] = calls[u],
           UNCHANGED <<kind, overlapped, entities, messages, mishaps>>,
           calls'[t] # Idle => /\ calls'[t].ref = calls[t].ref
                               /\ calls'[t].fresh = calls[t].fresh
                               /\ CallIsSound(t)'
    PROVE  /\ CallsAreSound' /\ OneCreator' /\ AReplayIsNotASecondContact'
           /\ OrdersAreDoubledByLostAnswersOnly' /\ Running' \subseteq Running
           /\ ~ overlapped => \A u \in Running' : u = t
<1>1. Running \subseteq Threads /\ Running' \subseteq Running
  BY DEF Running
<1>2. \A r : EntitiesOf(r)' = EntitiesOf(r)
  BY DEF EntitiesOf
<1>3. ASSUME NEW u \in Running' PROVE CallIsSound(u)'
  <2>1. CASE u = t
    BY <1>3, <2>1 DEF Running
  <2>2. CASE u # t
    <3>1. CallIsSound(u) /\ calls'[u] = calls[u]
      BY <1>1, <1>3, <2>2 DEF IInv, CallsAreSound
    <3>. QED  BY <1>2, <3>1 DEF CallIsSound
  <2>. QED  BY <2>1, <2>2
<1>4. \A u \in Running' :
         calls'[u].ref = calls[u].ref /\ calls'[u].fresh = calls[u].fresh /\ u \in Running
  BY <1>1 DEF Running
<1>5. OneCreator'
  BY <1>2, <1>4 DEF IInv, OneCreator
<1>6. AReplayIsNotASecondContact' /\ OrdersAreDoubledByLostAnswersOnly'
  BY <1>2 DEF IInv, AReplayIsNotASecondContact, OrdersAreDoubledByLostAnswersOnly
<1>7. ~ overlapped => \A u \in Running' : u = t
  BY <1>1 DEF IInv, CallsAreAlone
<1>. QED  BY <1>1, <1>3, <1>5, <1>6, <1>7 DEF CallsAreSound

LEMMA StepRecord ==
    ASSUME IInv, NEW t \in Threads, record(t)
    PROVE  IInv'
<1>0. /\ calls[t].at = "record" /\ "record" \in Steps
      /\ UNCHANGED <<kind, overlapped, notify, reconciled, seen, disk, kept, gap, torn, poll, outside,
                     ghosts, mishaps>>
  BY StepNames DEF record, At, store
<1>1. /\ TypeOK /\ t \in Running /\ calls[t] \in Calls /\ calls[t].ref \in Refs
      /\ CallIsSound(t) /\ (~ overlapped => CallIsAlone(t))
  BY <1>0, CallKnows
<1>2. PICK r \in Refs, k \in Ids : r = calls[t].ref /\ k = calls[t].ext /\ k \in EntitiesOf(r)
  <2>1. calls[t].ext \in EntitiesOf(calls[t].ref)
    BY <1>0, <1>1, StepNames DEF CallIsSound
  <2>. QED  BY <1>1, <2>1, EntityFacts
<1>3. /\ dispatched' = [dispatched EXCEPT ![r] = k]
      /\ calls' = [calls EXCEPT ![t].at = "write", ![t].flag = r \in reconciled]
  BY <1>2 DEF record
<1>4. /\ calls' \in [Threads -> Calls \cup {Idle}] /\ calls'[t] \in Calls
      /\ calls'[t].at = "write" /\ calls'[t].ref = r /\ calls'[t].ext = k
      /\ calls'[t].fresh = calls[t].fresh /\ calls'[t].flag = (r \in reconciled)
      /\ \A u \in Threads : u # t => calls'[u] = calls[u]
  <2>1. (r \in reconciled) \in BOOLEAN
    OBVIOUS
  <2>. QED  BY <1>1, <1>2, <1>3, <2>1, RecordedFields
<1>5. /\ entities' = entities /\ messages' = messages /\ answered' = answered
      /\ told' = told /\ asked' = asked /\ booked' = booked /\ faults' = faults
      /\ \A q : EntitiesOf(q)' = EntitiesOf(q)
  BY <1>0 DEF outside, ghosts, EntitiesOf
<1>6. CallIsSound(t)'
  BY <1>0, <1>1, <1>2, <1>4, <1>5, StepNames DEF CallIsSound
<1>7. /\ CallsAreSound' /\ OneCreator' /\ AReplayIsNotASecondContact'
      /\ OrdersAreDoubledByLostAnswersOnly' /\ Running' \subseteq Running
      /\ ~ overlapped => \A u \in Running' : u = t
  BY <1>0, <1>1, <1>2, <1>4, <1>5, <1>6, CreationsStand
<1>8. /\ dispatched \in [Refs -> Ids \cup {NoId}]
      /\ dispatched' \in [Refs -> Ids \cup {NoId}] /\ dispatched'[r] = k
      /\ \A q \in Refs : q # r => dispatched'[q] = dispatched[q]
  BY <1>1, <1>2, <1>3 DEF TypeOK
<1>9. TypeOK'
  BY <1>0, <1>1, <1>4, <1>5, <1>8 DEF TypeOK
<1>10. ASSUME ~ overlapped PROVE CallIsAlone(t)'
  BY <1>0, <1>1, <1>2, <1>4, <1>5, <1>8, <1>10 DEF CallIsAlone
<1>11. CallsAreAlone'
  BY <1>0, <1>7, <1>10 DEF CallsAreAlone
<1>12. Provenance'
  BY <1>0, <1>2, <1>5, <1>8 DEF IInv, Provenance
<1>4a. PollIsAlone' /\ poll' = poll
  BY <1>0, <1>1, <1>7 DEF IInv, PollIsAlone
<1>14. ToldIsKept'
  <2>. SUFFICES ASSUME ~ overlapped, torn = 0, NEW q \in Refs, told[q] # NoId
                PROVE  dispatched'[q] = told[q] /\ disk[q].id = told[q]
    BY <1>0, <1>5 DEF ToldIsKept
  <2>1. told[r] = NoId
    BY <1>1, <1>2 DEF CallIsAlone
  <2>. QED  BY <1>8, <2>1 DEF IInv, ToldIsKept
<1>15. JournalIsSound' /\ CreditsAreCovered'
  BY <1>0, <1>5 DEF IInv, JournalIsSound, CreditsAreCovered, Covered, Credits, Polled, Used
<1>16. Payments' /\ BookedWasPaid'
  BY <1>0, <1>5 DEF IInv, Payments, WasPaid, BookedWasPaid
<1>. QED  BY <1>7, <1>9, <1>11, <1>12, <1>4a, <1>14, <1>15, <1>16 DEF IInv

\* What the record of a call holds.
LEMMA RecordKnows ==
    ASSUME IInv, NEW t \in Threads, calls[t].at = "write"
    PROVE  \E r \in Refs : \E k \in Ids : \E d \in Records :
              /\ r = calls[t].ref /\ k = calls[t].ext /\ k \in EntitiesOf(r)
              /\ d = to_record(calls[t]) /\ d.id = k
              /\ ~ overlapped => /\ dispatched[r] = k
                                 /\ torn = 0 => told[r] = NoId
                                 /\ d.reconciled => r \in reconciled
                                 /\ kept[r].reconciled => d.reconciled
<1>1. /\ TypeOK /\ t \in Running /\ calls[t] \in Calls
      /\ CallIsSound(t) /\ (~ overlapped => CallIsAlone(t))
  BY CallKnows, StepNames
<1>2. PICK r \in Refs : r = calls[t].ref
  BY <1>1, CallFields
<1>3. PICK k \in Ids : k = calls[t].ext /\ k \in EntitiesOf(r)
  <2>1. calls[t].ext \in EntitiesOf(r)
    BY <1>1, <1>2, StepNames DEF CallIsSound
  <2>. QED  BY <1>1, <2>1, EntityFacts
<1>4. PICK b \in BOOLEAN : b = calls[t].flag
  BY <1>1, CallFields
<1>5. PICK d \in Records : d = to_record(calls[t]) /\ d.id = k /\ d.reconciled = b
  <2>. DEFINE e == [id |-> k, reconciled |-> b]
  <2>1. e \in Records /\ e.id = k /\ e.reconciled = b
    BY DEF Records
  <2>2. e = to_record(calls[t])
    BY <1>3, <1>4 DEF to_record
  <2>. HIDE DEF e
  <2>. QED  BY <2>1, <2>2
<1>6. ASSUME ~ overlapped
      PROVE  /\ dispatched[r] = k
             /\ torn = 0 => told[r] = NoId
             /\ b => r \in reconciled
             /\ kept[r].reconciled => b
  <2>1. kept[r].reconciled => r \in reconciled
    BY <1>6 DEF IInv, CreditsAreCovered, Covered
  <2>. QED  BY <1>1, <1>2, <1>3, <1>4, <1>6, <2>1 DEF CallIsAlone
<1>7. /\ d.reconciled => b
      /\ b => d.reconciled
  BY <1>5, Zenon
<1>8. ~ overlapped => /\ dispatched[r] = k
                      /\ torn = 0 => told[r] = NoId
                      /\ d.reconciled => r \in reconciled
                      /\ kept[r].reconciled => d.reconciled
  BY <1>6, <1>7, Zenon
<1>. QED  BY <1>2, <1>3, <1>5, <1>8, Zenon

\* What the journal keeps of a dispatch, and what its caller is told.
LEMMA WriteKnows ==
    ASSUME IInv, NEW t \in Threads, calls[t].at = "write", NEW r \in Refs,
           r = calls[t].ref, AppendFails(r, to_record(calls[t])),
           UNCHANGED <<kind, entities, dispatched, reconciled, poll, booked, overlapped>>,
           faults' \in 0 .. MaxFaults, torn' = torn \/ faults' = faults + 1,
           faults' = faults \/ faults' = faults + 1,
           \/ told' = told
           \/ /\ Appended(r, to_record(calls[t]))
              /\ told' = [told EXCEPT ![r] = calls[t].ext]
    PROVE  /\ Books'
           /\ disk' \in [Refs -> Records] /\ kept' \in [Refs -> Records]
           /\ gap' \in BOOLEAN /\ torn' \in 0 .. MaxFaults
           /\ told' \in [Refs -> Ids \cup {NoId}]
<1>1. PICK k \in Ids, d \in Records :
         /\ k = calls[t].ext /\ k \in EntitiesOf(r)
         /\ d = to_record(calls[t]) /\ d.id = k
         /\ ~ overlapped => /\ dispatched[r] = k
                            /\ torn = 0 => told[r] = NoId
                            /\ d.reconciled => r \in reconciled
                            /\ kept[r].reconciled => d.reconciled
  BY RecordKnows
<1>2. StoreMoves(r, d) /\ Used <= Used' /\ Used' \in Nat
  BY <1>1, StoreStep
<1>3. JournalIsSound' /\ torn' \in 0 .. MaxFaults
  BY <1>2, JournalStays
<1>4. \A q : EntitiesOf(q)' = EntitiesOf(q)
  BY DEF EntitiesOf
<1>5. /\ told' \in [Refs -> Ids \cup {NoId}]
      /\ \A q \in Refs : q # r => told'[q] = told[q]
      /\ told'[r] = told[r] \/ (told'[r] = k /\ Appended(r, d))
  <2>1. told \in [Refs -> Ids \cup {NoId}]
    BY DEF IInv, TypeOK
  <2>2. told' = told \/ (told' = [told EXCEPT ![r] = k] /\ Appended(r, d))
    BY <1>1
  <2>. QED  BY <2>1, <2>2
<1>6. Provenance'
  <2>1. \A q \in Refs : {disk'[q].id, kept'[q].id} \subseteq EntitiesOf(q) \cup {NoId}
    BY <1>1, <1>2, SourceStays
  <2>. QED  BY <1>4, <2>1 DEF IInv, Provenance
<1>7. Payments' /\ BookedWasPaid'
  BY <1>4 DEF IInv, Payments, WasPaid, BookedWasPaid
<1>8. ToldIsKept'
  <2>. SUFFICES ASSUME ~ overlapped, torn' = 0, NEW q \in Refs, told'[q] # NoId
                PROVE  dispatched[q] = told'[q] /\ disk'[q].id = told'[q]
    BY DEF ToldIsKept
  <2>1. torn = 0 /\ \A p \in Refs : p # r => disk'[p] = disk[p]
    BY <1>1, <1>2, Untorn
  <2>2. CASE q # r
    BY <1>5, <2>1, <2>2 DEF IInv, ToldIsKept
  <2>3. CASE q = r
    <3>1. told[r] = NoId /\ dispatched[r] = k
      BY <1>1, <2>1
    <3>2. told'[r] = k /\ Appended(r, d)
      BY <1>5, <2>3, <3>1
    <3>3. disk'[r] = d
      <4>1. ~ gap /\ kept \in [Refs -> Records]
        BY <2>1 DEF IInv, JournalIsSound, TypeOK
      <4>. QED  BY <3>2, <4>1 DEF Appended
    <3>. QED  BY <1>1, <2>3, <3>1, <3>2, <3>3
  <2>. QED  BY <2>2, <2>3
<1>9. CreditsAreCovered'
  <2>. SUFFICES ASSUME ~ overlapped, NEW q \in Refs PROVE Covered(q)'
    BY DEF CreditsAreCovered
  <2>1. disk'[q].reconciled => q \in reconciled'
    BY <1>1, <1>2, DiskIsRemembered
  <2>2. Credits(q)' = Credits(q)
    BY DEF Credits, Polled
  <2>. QED  BY <1>1, <1>2, <2>1, <2>2, CoveredStays
<1>. QED  BY <1>2, <1>3, <1>5, <1>6, <1>7, <1>8, <1>9 DEF Books, StoreMoves

LEMMA StepWrite ==
    ASSUME IInv, NEW t \in Threads, write(t)
    PROVE  IInv'
<1>0. /\ calls[t].at = "write" /\ "write" \in Steps
      /\ UNCHANGED <<kind, overlapped, notify, memory, poll, outside, asked, booked,
                     faults, mishaps>>
  BY StepNames DEF write, At
<1>1. /\ TypeOK /\ t \in Running /\ calls[t] \in Calls /\ calls[t].ref \in Refs
      /\ CallIsSound(t) /\ (~ overlapped => CallIsAlone(t))
  BY <1>0, CallKnows
<1>2. PICK r \in Refs : r = calls[t].ref
  BY <1>1
<1>3. /\ Appended(r, to_record(calls[t])) /\ torn' = torn
      /\ \/ Notifies(t) /\ Goto(t, "notify") /\ told' = told
         \/ Returns(t)
  BY <1>2 DEF write, Appended
<1>4. /\ entities' = entities /\ messages' = messages /\ answered' = answered
      /\ dispatched' = dispatched /\ reconciled' = reconciled /\ seen' = seen
      /\ \A q : EntitiesOf(q)' = EntitiesOf(q)
  BY <1>0 DEF outside, memory, EntitiesOf
<1>5. told' = told \/ told' = [told EXCEPT ![r] = calls[t].ext]
  BY <1>2, <1>3 DEF Returns
<1>6. /\ Books'
      /\ disk' \in [Refs -> Records] /\ kept' \in [Refs -> Records]
      /\ gap' \in BOOLEAN /\ torn' \in 0 .. MaxFaults
      /\ told' \in [Refs -> Ids \cup {NoId}]
  <2>1. AppendFails(r, to_record(calls[t])) /\ faults' \in 0 .. MaxFaults
    BY <1>0, <1>1, <1>3 DEF AppendFails, TypeOK
  <2>. QED  BY <1>0, <1>2, <1>3, <1>4, <1>5, <2>1, WriteKnows
<1>7. CASE Notifies(t) /\ Goto(t, "notify") /\ told' = told
  <2>1. /\ calls' \in [Threads -> Calls \cup {Idle}] /\ calls'[t] \in Calls
        /\ calls'[t].at = "notify" /\ calls'[t].ref = r /\ calls'[t].ext = calls[t].ext
        /\ calls'[t].fresh = calls[t].fresh
        /\ \A u \in Threads : u # t => calls'[u] = calls[u]
    BY <1>1, <1>2, <1>7, GotoFields, StepNames
  <2>2. calls[t].fresh /\ notify /\ kind[r] = "payment_link"
    BY <1>2, <1>7 DEF Notifies
  <2>3. CallIsSound(t)'
    BY <1>0, <1>1, <1>2, <1>4, <2>1, <2>2, StepNames DEF CallIsSound
  <2>4. ASSUME ~ overlapped PROVE CallIsAlone(t)'
    <3>1. torn = 0 => disk'[r].id = calls[t].ext
      <4>1. torn = 0 => ~ gap
        BY DEF IInv, JournalIsSound
      <4>2. ~ gap => disk'[r] = to_record(calls[t])
        BY <1>1, <1>3 DEF Appended, TypeOK
      <4>. QED  BY <4>1, <4>2 DEF to_record
    <3>2. /\ torn = 0 => told[r] = NoId
          /\ r \in asked /\ dispatched[r] = calls[t].ext
      BY <1>0, <1>1, <1>2, <2>2, <2>4 DEF CallIsAlone
    <3>. QED  BY <1>0, <1>3, <1>4, <1>7, <2>1, <3>1, <3>2 DEF CallIsAlone
  <2>5. /\ CallsAreSound' /\ OneCreator' /\ AReplayIsNotASecondContact'
        /\ OrdersAreDoubledByLostAnswersOnly' /\ Running' \subseteq Running
        /\ ~ overlapped => \A u \in Running' : u = t
    BY <1>0, <1>1, <1>2, <1>4, <2>1, <2>3, CreationsStand
  <2>6. CallsAreAlone'
    BY <1>0, <2>4, <2>5 DEF CallsAreAlone
  <2>7. PollIsAlone'
    BY <1>0, <1>1, <1>4, <2>5 DEF IInv, PollIsAlone
  <2>8. TypeOK'
    BY <1>0, <1>1, <1>4, <1>6, <2>1 DEF TypeOK
  <2>. QED  BY <1>6, <2>5, <2>6, <2>7, <2>8 DEF IInv, Books
<1>8. CASE Returns(t)
  <2>1. /\ calls' \in [Threads -> Calls \cup {Idle}] /\ calls'[t] = Idle
        /\ \A u \in Threads : u # t => calls'[u] = calls[u]
    BY <1>1, <1>8, EndsFields DEF Returns
  <2>2. /\ CallsAreSound' /\ OneCreator' /\ AReplayIsNotASecondContact'
        /\ OrdersAreDoubledByLostAnswersOnly' /\ Running' \subseteq Running
        /\ ~ overlapped => \A u \in Running' : u = t
    BY <1>0, <1>1, <1>4, <2>1, CreationsStand
  <2>3. t \notin Running'
    BY <2>1 DEF Running
  <2>4. CallsAreAlone'
    BY <1>0, <2>2, <2>3 DEF CallsAreAlone
  <2>5. PollIsAlone'
    BY <1>0, <1>1, <1>4, <2>2 DEF IInv, PollIsAlone
  <2>6. TypeOK'
    BY <1>0, <1>1, <1>4, <1>6, <2>1 DEF TypeOK
  <2>. QED  BY <1>6, <2>2, <2>4, <2>5, <2>6 DEF IInv, Books
<1>. QED  BY <1>3, <1>7, <1>8

LEMMA StepWriteRaises ==
    ASSUME IInv, NEW t \in Threads, write_raises(t)
    PROVE  IInv'
<1>0. /\ calls[t].at = "write" /\ "write" \in Steps /\ Ends(t)
      /\ faults < MaxFaults /\ faults' = faults + 1
      /\ UNCHANGED <<kind, overlapped, notify, memory, poll, outside, told, asked, booked,
                     mishaps>>
  BY StepNames DEF write_raises, At
<1>1. /\ TypeOK /\ t \in Running /\ calls[t] \in Calls /\ calls[t].ref \in Refs
  BY <1>0, CallKnows
<1>2. PICK r \in Refs : r = calls[t].ref
  BY <1>1
<1>3. AppendFails(r, to_record(calls[t])) /\ faults' \in 0 .. MaxFaults
  BY <1>0, <1>1, <1>2, LivePathAssumption DEF write_raises, TypeOK
<1>4. /\ entities' = entities /\ messages' = messages /\ answered' = answered
      /\ dispatched' = dispatched /\ reconciled' = reconciled /\ seen' = seen
  BY <1>0 DEF outside, memory
<1>5. /\ Books'
      /\ disk' \in [Refs -> Records] /\ kept' \in [Refs -> Records]
      /\ gap' \in BOOLEAN /\ torn' \in 0 .. MaxFaults
  BY <1>0, <1>2, <1>3, <1>4, WriteKnows
<1>6. /\ calls' \in [Threads -> Calls \cup {Idle}] /\ calls'[t] = Idle
      /\ \A u \in Threads : u # t => calls'[u] = calls[u]
  BY <1>0, <1>1, EndsFields
<1>7. /\ CallsAreSound' /\ OneCreator' /\ AReplayIsNotASecondContact'
      /\ OrdersAreDoubledByLostAnswersOnly' /\ Running' \subseteq Running
      /\ ~ overlapped => \A u \in Running' : u = t
  BY <1>0, <1>1, <1>4, <1>6, CreationsStand
<1>8. t \notin Running'
  BY <1>6 DEF Running
<1>9. CallsAreAlone'
  BY <1>0, <1>7, <1>8 DEF CallsAreAlone
<1>10. PollIsAlone'
  BY <1>0, <1>1, <1>4, <1>7 DEF IInv, PollIsAlone
<1>11. TypeOK'
  BY <1>0, <1>1, <1>3, <1>4, <1>5, <1>6 DEF TypeOK
<1>. QED  BY <1>5, <1>7, <1>9, <1>10, <1>11 DEF IInv, Books

\* One more message: the only creator of the reference sends it.
LEMMA NotifyKnows ==
    ASSUME IInv, NEW t \in Threads, calls[t].at = "notify"
    PROVE  \E r \in Refs : \E k \in Ids :
              /\ r = calls[t].ref /\ k = calls[t].ext /\ k \in EntitiesOf(r)
              /\ calls[t].fresh /\ kind[r] = "payment_link"
              /\ messages[r] \in Nat /\ messages[r] <= 1 + mishaps
              /\ \A u \in Running : calls[u].fresh /\ calls[u].ref = r => u = t
              /\ ~ overlapped => /\ (torn = 0 => told[r] = NoId) /\ r \in asked
                                 /\ dispatched[r] = k /\ (torn = 0 => disk[r].id = k)
<1>1. /\ TypeOK /\ t \in Running /\ calls[t] \in Calls
      /\ CallIsSound(t) /\ (~ overlapped => CallIsAlone(t))
  BY CallKnows, StepNames
<1>2. PICK r \in Refs : r = calls[t].ref
  BY <1>1, CallFields
<1>3. /\ calls[t].fresh /\ kind[r] = "payment_link" /\ messages[r] <= 1 + mishaps
      /\ calls[t].ext \in EntitiesOf(r)
  BY <1>1, <1>2, StepNames DEF CallIsSound
<1>4. PICK k \in Ids : k = calls[t].ext /\ k \in EntitiesOf(r)
  BY <1>1, <1>3, EntityFacts
<1>5. messages[r] \in Nat
  BY <1>1 DEF TypeOK
<1>6. \A u \in Running : calls[u].fresh /\ calls[u].ref = r => u = t
  BY <1>1, <1>2, <1>3 DEF IInv, OneCreator
<1>7. ~ overlapped => /\ (torn = 0 => told[r] = NoId) /\ r \in asked
                      /\ dispatched[r] = k /\ (torn = 0 => disk[r].id = k)
  BY <1>1, <1>2, <1>4 DEF CallIsAlone
<1>. QED  BY <1>2, <1>3, <1>4, <1>5, <1>6, <1>7

LEMMA CallNotifies ==
    ASSUME IInv, NEW t \in Threads, calls[t].at = "notify", Delivered(calls[t].ref),
           calls' \in [Threads -> Calls \cup {Idle}],
           \A u \in Threads : u # t => calls'[u] = calls[u],
           UNCHANGED <<kind, overlapped, notify, memory, disk, kept, gap, torn, poll, asked, booked, faults>>,
           told' \in [Refs -> Ids \cup {NoId}],
           \A q \in Refs : told'[q] # told[q] =>
              (~ overlapped /\ torn = 0 => dispatched[q] = told'[q] /\ disk[q].id = told'[q]),
           \/ /\ mishaps' = mishaps /\ calls'[t] = Idle
           \/ /\ mishaps < MaxMishaps /\ mishaps' = mishaps + 1 /\ told' = told
              /\ \/ calls'[t] = Idle
                 \/ /\ calls'[t].at = "notify" /\ calls'[t].ref = calls[t].ref
                    /\ calls'[t].ext = calls[t].ext /\ calls'[t].fresh = calls[t].fresh
    PROVE  IInv'
<1>1. /\ TypeOK /\ t \in Running /\ calls[t] \in Calls
      /\ CallIsSound(t) /\ (~ overlapped => CallIsAlone(t)) /\ mishaps \in Nat
      /\ mishaps \in 0 .. MaxMishaps /\ (mishaps < MaxMishaps => mishaps + 1 \in 0 .. MaxMishaps)
  BY CallKnows, StepNames
<1>2. PICK r \in Refs, k \in Ids :
         /\ r = calls[t].ref /\ k = calls[t].ext /\ k \in EntitiesOf(r)
         /\ calls[t].fresh /\ kind[r] = "payment_link"
         /\ messages[r] \in Nat /\ messages[r] <= 1 + mishaps
         /\ \A u \in Running : calls[u].fresh /\ calls[u].ref = r => u = t
         /\ ~ overlapped => /\ (torn = 0 => told[r] = NoId) /\ r \in asked
                            /\ dispatched[r] = k /\ (torn = 0 => disk[r].id = k)
  BY NotifyKnows
<1>3. /\ messages \in [Refs -> Nat] /\ messages' \in [Refs -> Nat]
      /\ messages'[r] = messages[r] + 1
      /\ \A q \in Refs : q # r => messages'[q] = messages[q]
  <2>1. messages' = [messages EXCEPT ![r] = @ + 1] /\ messages \in [Refs -> Nat]
    BY <1>1, <1>2 DEF Delivered, TypeOK
  <2>. QED  BY <1>2, <2>1
<1>4. mishaps' \in 0 .. MaxMishaps /\ mishaps' \in Nat /\ mishaps' >= mishaps
  BY <1>1, LivePathAssumption
<1>5. /\ entities' = entities /\ answered' = answered /\ \A q : EntitiesOf(q)' = EntitiesOf(q)
  BY DEF Delivered, EntitiesOf
<1>6. /\ Running \subseteq Threads /\ Running' \subseteq Running
  BY <1>1 DEF Running
<1>7. TypeOK'
  BY <1>1, <1>3, <1>4, <1>5 DEF TypeOK, memory
<1>8. Books'
  <2>1. /\ EntitiesGrow /\ (overlapped => overlapped')
        /\ UNCHANGED <<kind, dispatched, reconciled, disk, kept, gap, torn, poll, booked, faults>>
    BY <1>1, <1>5, SameEntitiesGrow DEF memory
  <2>. QED  BY <2>1, BooksStand
<1>9. ASSUME NEW u \in Running', u # t
      PROVE  /\ u \in Running /\ calls'[u] = calls[u] /\ CallIsSound(u)
             /\ calls[u].ref \in Refs
             /\ calls[u].fresh => messages'[calls[u].ref] = messages[calls[u].ref]
  <2>1. u \in Running /\ calls'[u] = calls[u] /\ CallIsSound(u)
    BY <1>6, <1>9 DEF IInv, CallsAreSound
  <2>2. calls[u].ref \in Refs
    BY <1>1, <2>1, RunningCall, CallFields
  <2>3. calls[u].fresh => calls[u].ref # r
    BY <1>2, <1>9, <2>1
  <2>. QED  BY <1>3, <2>1, <2>2, <2>3
<1>10. ASSUME t \in Running'
       PROVE  /\ mishaps' = mishaps + 1 /\ told' = told /\ calls'[t].at = "notify"
              /\ calls'[t].ref = r /\ calls'[t].ext = k /\ calls'[t].fresh
  BY <1>2, <1>10 DEF Running
<1>11. CallsAreSound'
  <2>1. ASSUME NEW u \in Running', u # t PROVE CallIsSound(u)'
    BY <1>1, <1>4, <1>5, <1>9, <2>1, <1>3 DEF CallIsSound
  <2>2. ASSUME t \in Running' PROVE CallIsSound(t)'
    <3>1. messages'[r] <= 1 + mishaps'
      BY <1>1, <1>2, <1>3, <1>10, <2>2
    <3>. QED  BY <1>2, <1>5, <1>10, <2>2, <3>1, StepNames DEF CallIsSound
  <2>. QED  BY <2>1, <2>2 DEF CallsAreSound
<1>12. CallsAreAlone'
  <2>1. ~ overlapped => \A u \in Running' : u = t
    BY <1>1, <1>6 DEF IInv, CallsAreAlone
  <2>2. ASSUME ~ overlapped, t \in Running' PROVE CallIsAlone(t)'
    <3>1. /\ told' = told /\ dispatched' = dispatched /\ disk' = disk /\ torn' = torn /\ asked' = asked
          /\ notify' = notify
      BY <1>10, <2>2 DEF memory
    <3>. QED  BY <1>2, <1>10, <2>2, <3>1 DEF CallIsAlone
  <2>. QED  BY <2>1, <2>2 DEF CallsAreAlone
<1>4a. OneCreator'
  <2>1. \A q \in Refs : EntitiesOf(q)' = {} => messages'[q] = 0
    BY <1>2, <1>3, <1>5 DEF IInv, OneCreator
  <2>2. \A u \in Running' :
           calls'[u].ref = calls[u].ref /\ (calls'[u].fresh => calls[u].fresh) /\ u \in Running
    BY <1>2, <1>6, <1>9, <1>10
  <2>. QED  BY <2>1, <2>2 DEF IInv, OneCreator
<1>14. PollIsAlone'
  BY <1>1, <1>6 DEF IInv, PollIsAlone, memory
<1>15. AReplayIsNotASecondContact'
  <2>1. ASSUME NEW q \in Refs PROVE messages'[q] <= 2 + mishaps'
    <3>1. CASE q = r
      BY <1>1, <1>2, <1>3, <1>4, <3>1
    <3>2. CASE q # r
      <4>1. messages[q] <= 2 + mishaps /\ messages'[q] = messages[q] /\ messages[q] \in Nat
        BY <1>3, <3>2 DEF IInv, AReplayIsNotASecondContact
      <4>. QED  BY <1>1, <1>4, <4>1
    <3>. QED  BY <3>1, <3>2
  <2>. QED  BY <2>1 DEF AReplayIsNotASecondContact
<1>16. OrdersAreDoubledByLostAnswersOnly'
  <2>1. \A q : Cardinality(EntitiesOf(q)) \in Nat
    BY <1>1, EntityFacts
  <2>. QED  BY <1>1, <1>4, <1>5, <2>1 DEF IInv, OrdersAreDoubledByLostAnswersOnly
<1>. QED  BY <1>7, <1>8, <1>11, <1>12, <1>4a, <1>14, <1>15, <1>16 DEF IInv, Books

LEMMA StepNotify ==
    ASSUME IInv, NEW t \in Threads, _notify(t)
    PROVE  IInv'
<1>0. /\ calls[t].at = "notify" /\ Delivered(calls[t].ref) /\ Returns(t)
      /\ UNCHANGED <<kind, overlapped, notify, memory, disk, kept, gap, torn, poll, asked, booked, faults,
                     mishaps>>
  BY DEF _notify, At, store
<1>1. TypeOK
  BY DEF IInv
<1>2. /\ calls' \in [Threads -> Calls \cup {Idle}] /\ calls'[t] = Idle
      /\ \A u \in Threads : u # t => calls'[u] = calls[u]
  BY <1>0, <1>1, EndsFields DEF Returns
<1>3. PICK r \in Refs, k \in Ids :
         /\ r = calls[t].ref /\ k = calls[t].ext /\ calls[t].fresh
         /\ ~ overlapped => dispatched[r] = k /\ (torn = 0 => disk[r].id = k)
  BY <1>0, NotifyKnows
<1>4. told' = [told EXCEPT ![r] = k] /\ told \in [Refs -> Ids \cup {NoId}]
  BY <1>0, <1>1, <1>3 DEF Returns, TypeOK
<1>5. /\ told' \in [Refs -> Ids \cup {NoId}] /\ told'[r] = k
      /\ \A q \in Refs : q # r => told'[q] = told[q]
  BY <1>4
<1>6. \A q \in Refs : told'[q] # told[q] =>
         (~ overlapped /\ torn = 0 => dispatched[q] = told'[q] /\ disk[q].id = told'[q])
  BY <1>3, <1>5
<1>. QED  BY <1>0, <1>2, <1>5, <1>6, CallNotifies

LEMMA StepNotifyLost ==
    ASSUME IInv, NEW t \in Threads, _notify_lost(t)
    PROVE  IInv'
<1>0. /\ calls[t].at = "notify" /\ mishaps < MaxMishaps /\ mishaps' = mishaps + 1
      /\ Resend(t)
      /\ UNCHANGED <<kind, overlapped, notify, memory, disk, kept, gap, torn, poll, ghosts>>
  BY DEF _notify_lost, At, store
<1>1. /\ TypeOK /\ t \in Running /\ calls[t] \in Calls
      /\ CallIsSound(t) /\ (~ overlapped => CallIsAlone(t)) /\ mishaps \in Nat
      /\ mishaps' \in 0 .. MaxMishaps /\ mishaps' >= mishaps
  BY <1>0, CallKnows, StepNames
<1>2. /\ calls' \in [Threads -> Calls \cup {Idle}]
      /\ \/ calls'[t] = Idle
         \/ /\ calls'[t].at = "notify" /\ calls'[t].ref = calls[t].ref
            /\ calls'[t].ext = calls[t].ext /\ calls'[t].fresh = calls[t].fresh
      /\ \A u \in Threads : u # t => calls'[u] = calls[u]
  BY <1>0, <1>1, ResendFields
<1>3. /\ told' = told /\ asked' = asked /\ booked' = booked /\ faults' = faults
      /\ told' \in [Refs -> Ids \cup {NoId}]
  BY <1>0, <1>1 DEF ghosts, TypeOK
<1>4. CASE Delivered(calls[t].ref)
  BY <1>0, <1>2, <1>3, <1>4, CallNotifies
<1>5. CASE UNCHANGED outside
  <2>1. PICK r \in Refs, k \in Ids :
           /\ r = calls[t].ref /\ k = calls[t].ext /\ k \in EntitiesOf(r)
           /\ calls[t].fresh /\ kind[r] = "payment_link"
           /\ messages[r] \in Nat /\ messages[r] <= 1 + mishaps
           /\ ~ overlapped => /\ (torn = 0 => told[r] = NoId) /\ r \in asked
                              /\ dispatched[r] = k /\ (torn = 0 => disk[r].id = k)
    BY <1>0, NotifyKnows
  <2>2. /\ messages' = messages /\ dispatched' = dispatched
        /\ \A q : EntitiesOf(q)' = EntitiesOf(q)
    BY <1>0, <1>5 DEF outside, memory, EntitiesOf
  <2>3. messages'[r] <= 1 + mishaps'
    BY <1>0, <1>1, <2>1, <2>2
  <2>4. ASSUME calls'[t] # Idle PROVE CallIsSound(t)' /\ (~ overlapped => CallIsAlone(t)')
    <3>1. /\ calls'[t].at = "notify" /\ calls'[t].ref = r
          /\ calls'[t].ext = k /\ calls'[t].fresh
      BY <1>2, <2>1, <2>4
    <3>2. CallIsSound(t)'
      BY <1>0, <2>1, <2>2, <2>3, <3>1, StepNames DEF CallIsSound
    <3>3. ~ overlapped => CallIsAlone(t)'
      BY <1>0, <1>3, <2>1, <2>2, <3>1 DEF CallIsAlone
    <3>. QED  BY <3>2, <3>3
  <2>. QED  BY <1>0, <1>1, <1>2, <1>5, <2>4, CallMoves
<1>. QED  BY <1>4, <1>5 DEF _notify_lost
-------------------------------------------------------------------------------
(* What happens beside the calls *)

LEMMA CallsStand ==
    ASSUME IInv, UNCHANGED <<calls, kind, messages, mishaps>>,
           \A q : EntitiesOf(q)' = EntitiesOf(q), overlapped => overlapped'
    PROVE  /\ CallsAreSound' /\ OneCreator' /\ AReplayIsNotASecondContact'
           /\ OrdersAreDoubledByLostAnswersOnly' /\ Running' = Running
<1>1. Running' = Running
  BY DEF Running
<1>2. CallsAreSound'
  BY <1>1 DEF IInv, CallsAreSound, CallIsSound
<1>3. OneCreator'
  BY <1>1 DEF IInv, OneCreator
<1>4. AReplayIsNotASecondContact' /\ OrdersAreDoubledByLostAnswersOnly'
  BY DEF IInv, AReplayIsNotASecondContact, OrdersAreDoubledByLostAnswersOnly
<1>. QED  BY <1>1, <1>2, <1>3, <1>4

LEMMA StepPay ==
    ASSUME IInv, NEW k \in DOMAIN entities, pay(k)
    PROVE  IInv'
<1>0. UNCHANGED <<kind, calls, notify, memory, disk, kept, gap, torn, poll, answered, messages, ghosts,
                  mishaps, overlapped>>
  BY DEF pay, store
<1>1. TypeOK
  BY DEF IInv
<1>2. /\ entities' \in Seq(Entity) /\ Len(entities') <= MaxEntities
      /\ \A q : EntitiesOf(q)' = EntitiesOf(q)
      /\ EntitiesGrow
  BY <1>1, PayGrows
<1>3. /\ UNCHANGED <<kind, dispatched, reconciled, seen, disk, kept, gap, torn, poll, booked, told, asked,
                     faults>>
      /\ overlapped => overlapped'
  BY <1>0 DEF memory, ghosts
<1>4. TypeOK'
  BY <1>0, <1>1, <1>2, <1>3 DEF TypeOK, Entity
<1>5. Books'
  <2>1. \A q \in Refs : told'[q] = told[q]
    BY <1>3
  <2>. QED  BY <1>2, <1>3, <2>1, BooksStand
<1>6. /\ CallsAreSound' /\ OneCreator' /\ AReplayIsNotASecondContact'
      /\ OrdersAreDoubledByLostAnswersOnly' /\ Running' = Running
  BY <1>0, <1>2, <1>3, CallsStand
<1>7. CallsAreAlone'
  BY <1>0, <1>2, <1>3, <1>6 DEF IInv, CallsAreAlone, CallIsAlone
<1>8. PollIsAlone'
  BY <1>3, <1>6 DEF IInv, PollIsAlone
<1>. QED  BY <1>4, <1>5, <1>6, <1>7, <1>8 DEF IInv, Books

LEMMA StepExecute ==
    ASSUME IInv, NEW t \in Threads, NEW r \in Refs, NEW send \in BOOLEAN, execute(t, r, send)
    PROVE  IInv'
<1>. DEFINE c == [at |-> IF kind[r] = "order" THEN "look" ELSE "create",
                  ref |-> r, ext |-> NoId, fresh |-> FALSE, flag |-> FALSE, tries |-> 1]
<1>0. /\ calls[t] = Idle /\ ~ poll.on
      /\ notify' = send /\ overlapped' = (overlapped \/ Running # {})
      /\ asked' = IF send THEN asked \cup {r} ELSE asked \ {r}
      /\ calls' = IF dispatched[r] # NoId THEN calls ELSE [calls EXCEPT ![t] = c]
      /\ UNCHANGED <<kind, memory, disk, kept, gap, torn, poll, outside, told, booked, faults, mishaps>>
  BY DEF execute, Begin, store
<1>1. /\ c \in Calls /\ c.at \in {"look", "create"} /\ c.ref = r /\ c.fresh = FALSE
      /\ c.at = "create" => kind[r] # "order"
  <2>1. 1 \in 1 .. Tries
    BY LivePathAssumption
  <2>. QED  BY <2>1 DEF Calls, Steps
<1>. HIDE DEF c
<1>2. /\ TypeOK
      /\ UNCHANGED <<dispatched, reconciled, seen, entities, messages, answered>>
      /\ \A q : EntitiesOf(q)' = EntitiesOf(q)
  BY <1>0 DEF IInv, memory, outside, EntitiesOf
<1>3. /\ calls' \in [Threads -> Calls \cup {Idle}]
      /\ \A u \in Threads : u # t => calls'[u] = calls[u]
      /\ calls'[t] = Idle \/ (calls'[t] = c /\ dispatched[r] = NoId)
  BY <1>0, <1>1, <1>2 DEF TypeOK
<1>4. /\ Running \subseteq Threads /\ Running' \subseteq Running \cup {t} /\ t \notin Running
      /\ t \in Running' => calls'[t] = c /\ dispatched[r] = NoId
  BY <1>0, <1>3 DEF Running
<1>5. ASSUME ~ overlapped' PROVE ~ overlapped /\ Running = {}
  BY <1>0, <1>5
<1>6. TypeOK'
  <2>1. asked' \in SUBSET Refs /\ overlapped' \in BOOLEAN
    BY <1>0, <1>2 DEF TypeOK
  <2>. QED  BY <1>0, <1>2, <1>3, <2>1 DEF TypeOK
<1>7. Books'
  <2>1. /\ EntitiesGrow /\ (overlapped => overlapped')
        /\ \A q \in Refs : told'[q] = told[q]
    BY <1>0, <1>2, SameEntitiesGrow
  <2>. QED  BY <1>0, <1>2, <2>1, BooksStand
<1>8. CallsAreSound'
  <2>1. ASSUME NEW u \in Running', u # t PROVE CallIsSound(u)'
    <3>1. CallIsSound(u) /\ calls'[u] = calls[u]
      BY <1>3, <1>4, <2>1 DEF IInv, CallsAreSound
    <3>. QED  BY <1>0, <1>2, <3>1 DEF CallIsSound
  <2>2. ASSUME t \in Running' PROVE CallIsSound(t)'
    <3>1. calls'[t] = c
      BY <1>4, <2>2
    <3>2. calls'[t].at \notin Linked /\ calls'[t].at # "notify" /\ calls'[t].fresh = FALSE
      BY <1>1, <3>1, StepNames
    <3>. QED  BY <3>2 DEF CallIsSound
  <2>. QED  BY <2>1, <2>2 DEF CallsAreSound
<1>9. CallsAreAlone'
  <2>. SUFFICES ASSUME ~ overlapped'
                PROVE  /\ \A u \in Running' : u = t
                       /\ t \in Running' => CallIsAlone(t)'
    BY DEF CallsAreAlone
  <2>1. \A u \in Running' : u = t
    BY <1>4, <1>5
  <2>2. ASSUME t \in Running' PROVE CallIsAlone(t)'
    <3>1. calls'[t] = c /\ dispatched[r] = NoId
      BY <1>4, <2>2
    <3>2. torn = 0 => told[r] = NoId
      BY <1>5, <3>1 DEF IInv, ToldIsKept
    <3>3. send => r \in asked'
      BY <1>0
    <3>4. calls'[t].ref = r /\ calls'[t].at \in {"look", "create"}
          /\ (calls'[t].at = "create" => kind[r] # "order")
      BY <1>1, <3>1
    <3>. QED  BY <1>0, <3>2, <3>3, <3>4 DEF CallIsAlone
  <2>. QED  BY <2>1, <2>2
<1>10. OneCreator'
  <2>1. ASSUME NEW u \in Running', calls'[u].fresh
        PROVE  u \in Running /\ calls'[u] = calls[u] /\ u # t
    <3>1. u # t
      BY <1>1, <1>4, <2>1
    <3>. QED  BY <1>3, <1>4, <3>1
  <2>. QED  BY <1>0, <1>2, <2>1 DEF IInv, OneCreator
<1>11. PollIsAlone'
  BY <1>0, <1>2 DEF IInv, PollIsAlone
<1>12. AReplayIsNotASecondContact' /\ OrdersAreDoubledByLostAnswersOnly'
  BY <1>0, <1>2, <1>5
     DEF IInv, AReplayIsNotASecondContact, OrdersAreDoubledByLostAnswersOnly
<1>. QED  BY <1>6, <1>7, <1>8, <1>9, <1>10, <1>11, <1>12 DEF IInv, Books

\* What a death in the middle of an append leaves is enough to restart from.
LEMMA DiesSafely ==
    ASSUME IInv, Dies, faults < MaxFaults, faults' = faults + 1, poll' = NoPoll,
           dispatched' = [q \in Refs |-> disk'[q].id],
           reconciled' = {q \in Refs : disk'[q].reconciled},
           UNCHANGED <<kind, entities, told, booked>>
    PROVE  /\ Provenance' /\ JournalIsSound' /\ ToldIsKept' /\ CreditsAreCovered'
           /\ disk' \in [Refs -> Records] /\ kept' \in [Refs -> Records]
           /\ gap' \in BOOLEAN /\ torn' \in 0 .. MaxFaults
           /\ overlapped' \in BOOLEAN /\ (overlapped => overlapped')
<1>. DEFINE Goal == /\ Provenance' /\ JournalIsSound' /\ ToldIsKept' /\ CreditsAreCovered'
                    /\ disk' \in [Refs -> Records] /\ kept' \in [Refs -> Records]
                    /\ gap' \in BOOLEAN /\ torn' \in 0 .. MaxFaults
                    /\ overlapped' \in BOOLEAN /\ (overlapped => overlapped')
<1>1. /\ TypeOK /\ torn \in 0 .. MaxFaults /\ faults' \in 0 .. MaxFaults
      /\ overlapped \in BOOLEAN /\ \A q : EntitiesOf(q)' = EntitiesOf(q)
  BY LivePathAssumption DEF IInv, TypeOK, EntitiesOf
<1>2. \A q \in Refs : Credits(q)' = Len(booked[q])
  BY DEF Credits, Polled, NoPoll
<1>3. \A q \in Refs : disk'[q].reconciled => q \in reconciled'
  OBVIOUS
<1>4. ASSUME NEW r \in Refs, NEW d \in Records, AppendFails(r, d),
             d.id \in EntitiesOf(r) \cup {NoId},
             overlapped' \in BOOLEAN, overlapped => overlapped',
             ~ overlapped' => (kept[r].reconciled => d.reconciled),
             ~ overlapped' /\ torn = 0 => (told[r] # NoId => d.id = told[r])
      PROVE  Goal
  <2>1. StoreMoves(r, d) /\ Used <= Used' /\ Used' \in Nat
    BY <1>4, StoreStep
  <2>2. JournalIsSound' /\ torn' \in 0 .. MaxFaults
    BY <1>1, <2>1, JournalStays
  <2>3. Provenance'
    <3>1. \A q \in Refs : {disk'[q].id, kept'[q].id} \subseteq EntitiesOf(q) \cup {NoId}
      BY <1>4, <2>1, SourceStays
    <3>. QED  BY <1>1, <3>1 DEF Provenance
  <2>4. ToldIsKept'
    <3>. SUFFICES ASSUME ~ overlapped', torn' = 0, NEW q \in Refs, told[q] # NoId
                  PROVE  disk'[q].id = told[q]
      BY DEF ToldIsKept
    <3>1. torn = 0 /\ disk'[r] \in {disk[r], d} /\ (q # r => disk'[q] = disk[q])
      BY <2>1, Untorn
    <3>2. disk[q].id = told[q]
      BY <1>4, <3>1 DEF IInv, ToldIsKept
    <3>. QED  BY <1>4, <3>1, <3>2
  <2>5. CreditsAreCovered'
    <3>. SUFFICES ASSUME ~ overlapped', NEW q \in Refs PROVE Covered(q)'
      BY DEF CreditsAreCovered
    <3>1. ~ overlapped /\ (kept[r].reconciled => d.reconciled)
      BY <1>4
    <3>2. Credits(q)' \in {Credits(q), Len(booked[q])}
      BY <1>2
    <3>. QED  BY <1>3, <2>1, <3>1, <3>2, CoveredStays
  <2>. QED  BY <1>4, <2>1, <2>2, <2>3, <2>4, <2>5 DEF StoreMoves
<1>5. ASSUME UNCHANGED <<store, overlapped>> PROVE Goal
  <2>1. disk' = disk /\ kept' = kept /\ gap' = gap /\ torn' = torn /\ overlapped' = overlapped
    BY <1>5 DEF store
  <2>2. Provenance'
    BY <1>1, <2>1 DEF IInv, Provenance
  <2>3. JournalIsSound'
    BY <2>1, CountFacts DEF IInv, JournalIsSound
  <2>4. ToldIsKept'
    BY <2>1 DEF IInv, ToldIsKept
  <2>5. CreditsAreCovered'
    <3>. SUFFICES ASSUME ~ overlapped, NEW q \in Refs PROVE Covered(q)'
      BY <2>1 DEF CreditsAreCovered
    <3>1. /\ kept[q].reconciled => disk[q].reconciled
          /\ kept[q].reconciled => Credits(q) <= Used + 1
          /\ ~ kept[q].reconciled => Credits(q) <= Used
      BY DEF IInv, CreditsAreCovered, Covered
    <3>2. Used' = Used /\ Used \in Nat
      BY <2>1, CountFacts DEF Used
    <3>3. /\ kept[q].reconciled => Credits(q)' <= Used' + 1
          /\ ~ kept[q].reconciled => Credits(q)' <= Used'
      BY <1>2, <3>1, <3>2, CountFacts
    <3>. QED  BY <1>3, <2>1, <3>1, <3>3 DEF Covered
  <2>. QED  BY <1>1, <2>1, <2>2, <2>3, <2>4, <2>5 DEF TypeOK
<1>6. ASSUME NEW t \in Threads, calls[t].at = "write", overlapped' = overlapped,
             AppendFails(calls[t].ref, to_record(calls[t]))
      PROVE  Goal
  <2>1. PICK r \in Refs, k \in Ids, d \in Records :
           /\ r = calls[t].ref /\ k \in EntitiesOf(r)
           /\ d = to_record(calls[t]) /\ d.id = k
           /\ ~ overlapped => /\ torn = 0 => told[r] = NoId
                              /\ kept[r].reconciled => d.reconciled
    BY <1>6, RecordKnows
  <2>2. AppendFails(r, d) /\ overlapped' \in BOOLEAN /\ (overlapped => overlapped')
    BY <1>1, <1>6, <2>1
  <2>. HIDE DEF Goal
  <2>. QED  BY <1>4, <1>6, <2>1, <2>2
<1>7. ASSUME NEW r \in Refs, CreditDue(r), AppendFails(r, credit_record(r)),
             overlapped' = (overlapped \/ Running # {})
      PROVE  Goal
  <2>1. dispatched[r] \in EntitiesOf(r) /\ dispatched[r] \in Ids \cup {NoId}
    BY <1>1, <1>7 DEF CreditDue, IInv, Provenance, TypeOK
  <2>2. PICK d \in Records : d = credit_record(r) /\ d.id = dispatched[r] /\ d.reconciled
    <3>. DEFINE e == [id |-> dispatched[r], reconciled |-> TRUE]
    <3>1. e \in Records /\ e.id = dispatched[r] /\ e.reconciled
      BY <2>1 DEF Records
    <3>2. e = credit_record(r)
      BY DEF credit_record
    <3>. HIDE DEF e
    <3>. QED  BY <3>1, <3>2
  <2>3. overlapped' \in BOOLEAN /\ (overlapped => overlapped')
    BY <1>1, <1>7
  <2>4. ~ overlapped' /\ torn = 0 => (told[r] # NoId => d.id = told[r])
    BY <2>2, <2>3 DEF IInv, ToldIsKept
  <2>5. AppendFails(r, d) /\ d.id \in EntitiesOf(r) \cup {NoId}
    BY <1>7, <2>1, <2>2
  <2>. HIDE DEF Goal
  <2>. QED  BY <1>4, <2>2, <2>3, <2>4, <2>5
<1>. HIDE DEF Goal
<1>8. Goal
  <2>1. \/ UNCHANGED <<store, overlapped>>
        \/ \E t \in Threads : /\ calls[t].at = "write" /\ overlapped' = overlapped
                              /\ AppendFails(calls[t].ref, to_record(calls[t]))
        \/ \E r \in Refs : /\ CreditDue(r) /\ AppendFails(r, credit_record(r))
                           /\ overlapped' = (overlapped \/ Running # {})
    BY DEF Dies
  <2>2. CASE UNCHANGED <<store, overlapped>>
    BY <1>5, <2>2
  <2>3. CASE \E t \in Threads : /\ calls[t].at = "write" /\ overlapped' = overlapped
                                /\ AppendFails(calls[t].ref, to_record(calls[t]))
    BY <1>6, <2>3, Zenon
  <2>4. CASE \E r \in Refs : /\ CreditDue(r) /\ AppendFails(r, credit_record(r))
                             /\ overlapped' = (overlapped \/ Running # {})
    BY <1>7, <2>4, Zenon
  <2>. QED  BY <2>1, <2>2, <2>3, <2>4, Zenon
<1>. QED  BY <1>8 DEF Goal

LEMMA StepCrash ==
    ASSUME IInv, CrashAndRestore
    PROVE  IInv'
<1>0. /\ faults < MaxFaults /\ faults' = faults + 1 /\ Dies
      /\ seen' = {} /\ notify' = FALSE /\ calls' = [t \in Threads |-> Idle]
      /\ poll' = NoPoll
      /\ dispatched' = [r \in Refs |-> disk'[r].id]
      /\ reconciled' = {r \in Refs : disk'[r].reconciled}
      /\ UNCHANGED <<kind, outside, told, asked, booked, mishaps>>
  BY DEF CrashAndRestore, Restarts
<1>1. /\ TypeOK /\ UNCHANGED <<entities, answered, messages>>
      /\ \A q : EntitiesOf(q)' = EntitiesOf(q)
  BY <1>0 DEF IInv, outside, EntitiesOf
<1>2. Running' = {} /\ poll'.on = FALSE /\ poll'.todo = {} /\ poll'.out = {}
  BY <1>0 DEF Running, NoPoll
<1>3. /\ Provenance' /\ JournalIsSound' /\ ToldIsKept' /\ CreditsAreCovered'
      /\ disk' \in [Refs -> Records] /\ kept' \in [Refs -> Records]
      /\ gap' \in BOOLEAN /\ torn' \in 0 .. MaxFaults
      /\ overlapped' \in BOOLEAN /\ (overlapped => overlapped')
  BY <1>0, <1>1, DiesSafely
<1>4. TypeOK'
  <2>1. faults' \in 0 .. MaxFaults
    BY <1>0, <1>1, LivePathAssumption DEF TypeOK
  <2>2. dispatched' \in [Refs -> Ids \cup {NoId}] /\ reconciled' \in SUBSET Refs
    <3>1. \A r \in Refs : disk'[r].id \in Ids \cup {NoId}
      BY <1>3 DEF Records
    <3>. QED  BY <1>0, <3>1
  <2>3. calls' \in [Threads -> Calls \cup {Idle}] /\ notify' \in BOOLEAN
        /\ seen' \in SUBSET (Ids \X (1 .. Due))
    BY <1>0
  <2>4. poll' \in [on : BOOLEAN, todo : SUBSET Refs, out : SUBSET (Refs \X Amounts)]
    BY <1>0 DEF NoPoll
  <2>. QED  BY <1>0, <1>1, <1>3, <2>1, <2>2, <2>3, <2>4 DEF TypeOK
<1>5. CallsAreSound' /\ CallsAreAlone' /\ PollIsAlone'
  BY <1>2 DEF CallsAreSound, CallsAreAlone, PollIsAlone
<1>6. OneCreator'
  BY <1>0, <1>1, <1>2 DEF IInv, OneCreator
<1>7. AReplayIsNotASecondContact' /\ OrdersAreDoubledByLostAnswersOnly'
  BY <1>0, <1>1, <1>3 DEF IInv, AReplayIsNotASecondContact, OrdersAreDoubledByLostAnswersOnly
<1>8. Payments' /\ BookedWasPaid'
  BY <1>0, <1>1, <1>2 DEF IInv, Payments, WasPaid, BookedWasPaid
<1>. QED  BY <1>3, <1>4, <1>5, <1>6, <1>7, <1>8 DEF IInv

\* Other kinds append beside the calls, and touch only what is no longer kept.
LEMMA StepOthersAppend ==
    ASSUME IInv, OthersAppend
    PROVE  IInv'
<1>0. /\ UNCHANGED <<kind, calls, notify, memory, poll, outside, told, asked, booked, mishaps,
                     overlapped>>
      /\ disk' = kept /\ kept' = kept
      /\ \/ gap /\ gap' = FALSE /\ torn' = torn /\ faults' = faults
         \/ gap' = TRUE /\ torn' = torn + 1 /\ faults' = faults + 1 /\ faults < MaxFaults
  BY DEF OthersAppend, OtherAppended, OtherTorn
<1>1. /\ TypeOK /\ UNCHANGED <<dispatched, reconciled, seen, entities, answered, messages>>
      /\ \A q : EntitiesOf(q)' = EntitiesOf(q)
  BY <1>0 DEF IInv, memory, outside, EntitiesOf
<1>2. /\ gap' \in BOOLEAN /\ torn' \in 0 .. MaxFaults /\ faults' \in 0 .. MaxFaults
      /\ torn' <= faults' /\ torn' >= 1
      /\ Used' >= Used /\ Used' \in Nat /\ Used \in Nat
  <2>1. torn \in Nat /\ faults \in Nat /\ torn <= faults /\ Used \in Nat
    BY CountFacts DEF IInv, JournalIsSound
  <2>2. (gap => torn >= 1) /\ gap \in BOOLEAN
    BY DEF IInv, JournalIsSound, TypeOK
  <2>3. CASE gap /\ gap' = FALSE /\ torn' = torn /\ faults' = faults
    <3>1. Used = torn - 1 /\ Used' = torn
      BY <2>3 DEF Used
    <3>2. faults' \in 0 .. MaxFaults /\ torn >= 1 /\ torn' = torn /\ faults' = faults
      BY <1>1, <2>2, <2>3 DEF TypeOK
    <3>3. gap' \in BOOLEAN
      BY <2>3
    <3>. QED  BY <2>1, <3>1, <3>2, <3>3, LivePathAssumption
  <2>4. CASE gap' = TRUE /\ torn' = torn + 1 /\ faults' = faults + 1 /\ faults < MaxFaults
    <3>1. Used' = torn /\ Used <= torn
      BY <2>1, <2>4, CountFacts DEF Used
    <3>2. torn' = torn + 1 /\ faults' = faults + 1 /\ faults < MaxFaults
      BY <2>4
    <3>3. gap' \in BOOLEAN
      BY <2>4
    <3>. QED  BY <2>1, <3>1, <3>2, <3>3, LivePathAssumption
  <2>. QED  BY <1>0, <2>3, <2>4
<1>3. TypeOK'
  BY <1>0, <1>1, <1>2 DEF TypeOK
<1>4. JournalIsSound' /\ ToldIsKept'
  BY <1>0, <1>2 DEF JournalIsSound, ToldIsKept
<1>5. Provenance' /\ Payments' /\ BookedWasPaid'
  BY <1>0, <1>1 DEF IInv, Provenance, Payments, WasPaid, BookedWasPaid
<1>6. CreditsAreCovered'
  <2>. SUFFICES ASSUME ~ overlapped, NEW q \in Refs PROVE Covered(q)'
    BY <1>0 DEF CreditsAreCovered
  <2>1. /\ kept[q].reconciled => q \in reconciled
        /\ kept[q].reconciled => Credits(q) <= Used + 1
        /\ ~ kept[q].reconciled => Credits(q) <= Used
    BY DEF IInv, CreditsAreCovered, Covered
  <2>2. Credits(q)' = Credits(q) /\ Credits(q) \in Nat
    BY <1>0, CountFacts DEF Credits, Polled
  <2>3. /\ kept[q].reconciled => Credits(q)' <= Used' + 1
        /\ ~ kept[q].reconciled => Credits(q)' <= Used'
    BY <1>2, <2>1, <2>2
  <2>. QED  BY <1>0, <1>1, <2>1, <2>3 DEF Covered
<1>7. /\ CallsAreSound' /\ OneCreator' /\ AReplayIsNotASecondContact'
      /\ OrdersAreDoubledByLostAnswersOnly' /\ Running' = Running
  BY <1>0, <1>1, CallsStand
<1>8. CallsAreAlone'
  <2>1. ASSUME NEW t \in Running, ~ overlapped PROVE CallIsAlone(t)'
    BY <1>0, <1>1, <1>2, <2>1 DEF IInv, CallsAreAlone, CallIsAlone
  <2>. QED  BY <1>0, <1>7, <2>1 DEF IInv, CallsAreAlone
<1>9. PollIsAlone'
  BY <1>0, <1>1, <1>7 DEF IInv, PollIsAlone
<1>. QED  BY <1>3, <1>4, <1>5, <1>6, <1>7, <1>8, <1>9 DEF IInv
-------------------------------------------------------------------------------
(* What comes back *)

LEMMA WorthWasPaid ==
    ASSUME IInv, NEW r \in Refs, NEW k \in EntitiesOf(r), NEW p \in 1 .. entities[k].paid
    PROVE  _settlement(r, p) \in Amounts /\ WasPaid(r, _settlement(r, p))
<1>1. /\ k \in DOMAIN entities /\ entities[k].ref = r /\ entities[k].paid \in 0 .. Due
      /\ Due \in Nat \ {0} /\ p \in Nat /\ p >= 1 /\ p <= entities[k].paid
  <2>1. TypeOK /\ k \in DOMAIN entities /\ entities[k].ref = r
    BY DEF IInv, EntitiesOf
  <2>. QED  BY <2>1, EntityFacts, LivePathAssumption
<1>2. _settlement(r, p) \in Amounts
  BY <1>1 DEF _settlement, Amounts, Annual
<1>3. kind[r] = "invoice" => entities[k].paid = Due
  BY <1>1 DEF IInv, Payments
<1>. QED  BY <1>1, <1>2, <1>3 DEF WasPaid, _settlement

\* A dispatch that is credited is booked, or about to be reported, or the
\* journal raised before anybody heard of it.
LEMMA CreditKnows ==
    ASSUME IInv, NEW r \in Refs, r \notin reconciled, NEW w \in Amounts, WasPaid(r, w),
           dispatched[r] # NoId, Credited(r), AppendFails(r, credit_record(r)),
           UNCHANGED <<kind, entities, told>>, overlapped => overlapped',
           faults' \in 0 .. MaxFaults, torn' = torn \/ faults' = faults + 1,
           faults' = faults \/ faults' = faults + 1,
           \/ booked' = booked /\ poll'.out \in {poll.out, {}}
           \/ /\ Appended(r, credit_record(r))
              /\ booked' = [booked EXCEPT ![r] = Append(@, w)] /\ poll' = poll
           \/ /\ Appended(r, credit_record(r))
              /\ booked' = booked /\ poll'.out = poll.out \cup {<<r, w>>}
    PROVE  /\ Books'
           /\ disk' \in [Refs -> Records] /\ kept' \in [Refs -> Records]
           /\ gap' \in BOOLEAN /\ torn' \in 0 .. MaxFaults
           /\ booked' \in [Refs -> Seq(Amounts)]
           /\ reconciled' \in SUBSET Refs
           /\ \A q : EntitiesOf(q)' = EntitiesOf(q)
<1>1. /\ TypeOK /\ dispatched' = dispatched /\ reconciled' = reconciled \cup {r}
      /\ \A q : EntitiesOf(q)' = EntitiesOf(q)
  BY DEF IInv, Credited, EntitiesOf
<1>2. PICK k \in Ids : k = dispatched[r] /\ k \in EntitiesOf(r)
  <2>1. dispatched[r] \in EntitiesOf(r)
    BY DEF IInv, Provenance
  <2>. QED  BY <1>1, <2>1, EntityFacts
<1>3. PICK d \in Records : d = credit_record(r) /\ d.id = k /\ d.reconciled
  <2>. DEFINE e == [id |-> k, reconciled |-> TRUE]
  <2>1. e \in Records /\ e.id = k /\ e.reconciled
    BY DEF Records
  <2>2. e = credit_record(r)
    BY <1>2 DEF credit_record
  <2>. HIDE DEF e
  <2>. QED  BY <2>1, <2>2
<1>4. /\ \/ booked' = booked /\ poll'.out \in {poll.out, {}}
         \/ /\ Appended(r, d)
            /\ booked' = [booked EXCEPT ![r] = Append(@, w)] /\ poll' = poll
         \/ /\ Appended(r, d)
            /\ booked' = booked /\ poll'.out = poll.out \cup {<<r, w>>}
      /\ AppendFails(r, d)
  BY <1>3
<1>5. booked \in [Refs -> Seq(Amounts)] /\ reconciled \in SUBSET Refs
  BY <1>1 DEF TypeOK
<1>6. StoreMoves(r, d) /\ Used <= Used' /\ Used' \in Nat
  BY <1>4, StoreStep
<1>7. /\ booked' \in [Refs -> Seq(Amounts)]
      /\ \A q \in Refs : q # r => booked'[q] = booked[q]
      /\ booked'[r] \in {booked[r], Append(booked[r], w)}
  <2>1. Append(booked[r], w) \in Seq(Amounts)
    BY <1>5, AppendProperties
  <2>2. booked' = booked \/ booked' = [booked EXCEPT ![r] = Append(booked[r], w)]
    BY <1>4
  <2>. QED  BY <1>5, <2>1, <2>2
<1>8. Provenance'
  <2>1. \A q \in Refs : {disk'[q].id, kept'[q].id} \subseteq EntitiesOf(q) \cup {NoId}
    BY <1>2, <1>3, <1>6, SourceStays
  <2>. QED  BY <1>1, <2>1 DEF IInv, Provenance
<1>9. \A q, v : WasPaid(q, v) <=> WasPaid(q, v)'
  BY <1>1 DEF WasPaid
<1>10. Payments'
  <2>1. poll'.out \subseteq poll.out \cup {<<r, w>>}
    BY <1>4
  <2>2. ASSUME NEW x \in poll'.out PROVE WasPaid(x[1], x[2])
    <3>1. x \in poll.out \/ x = <<r, w>>
      BY <2>1
    <3>. QED  BY <3>1 DEF IInv, Payments
  <2>3. \A x \in poll'.out : WasPaid(x[1], x[2])'
    BY <1>9, <2>2
  <2>. QED  BY <2>3 DEF IInv, Payments
<1>11. BookedWasPaid'
  <2>. SUFFICES ASSUME NEW q \in Refs, NEW n \in DOMAIN booked'[q]
                PROVE  WasPaid(q, booked'[q][n])
    BY <1>1 DEF BookedWasPaid, WasPaid
  <2>1. \A m \in DOMAIN booked[q] : WasPaid(q, booked[q][m])
    BY DEF IInv, BookedWasPaid, WasPaid
  <2>2. CASE booked'[q] = booked[q]
    BY <2>1, <2>2
  <2>3. CASE q = r /\ booked'[r] = Append(booked[r], w)
    <3>1. /\ booked[r] \in Seq(Amounts) /\ DOMAIN booked[r] = 1 .. Len(booked[r])
          /\ DOMAIN booked'[r] = 1 .. Len(booked[r]) + 1 /\ Len(booked[r]) \in Nat
          /\ \A m \in 1 .. Len(booked[r]) : booked'[r][m] = booked[r][m]
          /\ booked'[r][Len(booked[r]) + 1] = w
      BY <1>5, <2>3
    <3>2. CASE n = Len(booked[r]) + 1
      BY <2>3, <3>1, <3>2
    <3>3. CASE n \in 1 .. Len(booked[r])
      <4>1. booked'[q][n] = booked[q][n] /\ n \in DOMAIN booked[q]
        BY <2>3, <3>1, <3>3
      <4>. QED  BY <2>1, <4>1
    <3>. QED  BY <2>3, <3>1, <3>2, <3>3
  <2>. QED  BY <1>7, <2>2, <2>3
<1>12. JournalIsSound' /\ torn' \in 0 .. MaxFaults
  BY <1>6, JournalStays
<1>4a. ToldIsKept'
  <2>. SUFFICES ASSUME ~ overlapped, torn' = 0, NEW q \in Refs, told[q] # NoId
                PROVE  dispatched[q] = told[q] /\ disk'[q].id = told[q]
    BY <1>1 DEF ToldIsKept
  <2>1. torn = 0 /\ disk'[r] \in {disk[r], d} /\ (q # r => disk'[q] = disk[q])
    BY <1>6, Untorn
  <2>2. dispatched[q] = told[q] /\ disk[q].id = told[q]
    BY <2>1 DEF IInv, ToldIsKept
  <2>3. CASE q # r
    BY <2>1, <2>2, <2>3
  <2>4. CASE q = r
    BY <1>2, <1>3, <2>1, <2>2, <2>4
  <2>. QED  BY <2>3, <2>4
<1>14. CreditsAreCovered'
  <2>. SUFFICES ASSUME ~ overlapped, NEW q \in Refs PROVE Covered(q)'
    BY DEF CreditsAreCovered
  <2>1. disk'[q].reconciled => q \in reconciled'
    BY <1>1, <1>3, <1>6, DiskIsRemembered
  <2>2. CASE q # r \/ (booked' = booked /\ poll'.out \in {poll.out, {}})
    <3>1. booked'[q] = booked[q]
      BY <1>7, <2>2
    <3>2. \/ \A v : <<q, v>> \in poll'.out <=> <<q, v>> \in poll.out
          \/ \A v : <<q, v>> \notin poll'.out
      BY <1>4, <2>2
    <3>3. Credits(q)' \in {Credits(q), Len(booked[q])}
      BY <3>1, <3>2 DEF Credits, Polled
    <3>. QED  BY <1>3, <1>6, <2>1, <3>3, CoveredStays
  <2>3. CASE /\ q = r /\ Appended(r, d)
             /\ booked' = [booked EXCEPT ![r] = Append(@, w)] /\ poll' = poll
    <3>1. booked[r] \in Seq(Amounts) /\ booked'[r] = Append(booked[r], w)
      BY <1>5, <2>3
    <3>2. Len(booked'[r]) = Len(booked[r]) + 1 /\ Len(booked[r]) \in Nat
      BY <3>1, AppendProperties, LenProperties
    <3>3. Polled(r)' <=> Polled(r)
      BY <2>3 DEF Polled
    <3>4. Credits(r)' = Credits(r) + 1
      <4>1. CASE Polled(r)
        BY <3>2, <3>3, <4>1 DEF Credits
      <4>2. CASE ~ Polled(r)
        BY <3>2, <3>3, <4>2 DEF Credits
      <4>. QED  BY <4>1, <4>2
    <3>. QED  BY <1>1, <1>3, <2>3, <3>4, CreditIsCovered
  <2>4. CASE /\ q = r /\ Appended(r, d)
             /\ booked' = booked /\ poll'.out = poll.out \cup {<<r, w>>}
    <3>1. Polled(r)'
      BY <2>4 DEF Polled
    <3>2. Credits(r)' = Len(booked[r]) + 1
      BY <2>4, <3>1 DEF Credits
    <3>3. Credits(r) \in {Len(booked[r]), Len(booked[r]) + 1} /\ Len(booked[r]) \in Nat
      BY CountFacts DEF Credits
    <3>4. Credits(r)' \in {Credits(r), Credits(r) + 1}
      BY <3>2, <3>3
    <3>. QED  BY <1>1, <1>3, <2>4, <3>4, CreditIsCovered
  <2>. QED  BY <1>4, <2>2, <2>3, <2>4
<1>. QED  BY <1>1, <1>5, <1>6, <1>7, <1>8, <1>10, <1>11, <1>12, <1>4a, <1>14
          DEF Books, StoreMoves

\* What comes back while no call runs, or overlaps one, leaves the calls alone.
LEMMA CallsUndisturbed ==
    ASSUME IInv, UNCHANGED <<calls, kind, entities, messages>>, overlapped => overlapped',
           ~ overlapped' => Running = {}, mishaps' \in 0 .. MaxMishaps, mishaps' >= mishaps
    PROVE  /\ CallsAreSound' /\ CallsAreAlone' /\ OneCreator' /\ AReplayIsNotASecondContact'
           /\ OrdersAreDoubledByLostAnswersOnly' /\ Running' = Running
<1>1. /\ TypeOK /\ mishaps \in Nat /\ mishaps' \in Nat /\ Running' = Running
      /\ \A q \in Refs : messages[q] \in Nat
      /\ \A q : EntitiesOf(q)' = EntitiesOf(q)
  BY LivePathAssumption DEF IInv, TypeOK, Running, EntitiesOf
<1>2. ASSUME NEW t \in Running PROVE CallIsSound(t)'
  <2>1. CallIsSound(t) /\ calls[t].ref \in Refs
    BY <1>1, RunningCall, CallFields DEF IInv, CallsAreSound
  <2>. QED  BY <1>1, <2>1 DEF CallIsSound
<1>3. CallsAreSound' /\ CallsAreAlone' /\ OneCreator'
  BY <1>1, <1>2 DEF IInv, CallsAreSound, CallsAreAlone, OneCreator
<1>4. AReplayIsNotASecondContact'
  BY <1>1 DEF IInv, AReplayIsNotASecondContact
<1>5. OrdersAreDoubledByLostAnswersOnly'
  <2>1. \A q : Cardinality(EntitiesOf(q)) \in Nat
    BY <1>1, EntityFacts
  <2>. QED  BY <1>1, <2>1 DEF IInv, OrdersAreDoubledByLostAnswersOnly
<1>. QED  BY <1>1, <1>3, <1>4, <1>5

LEMMA DeliveryKnows ==
    ASSUME IInv, NEW k \in Ids, NEW p \in 1 .. Due, Delivery(k, p)
    PROVE  /\ TypeOK /\ k \in DOMAIN entities /\ p \in 1 .. entities[k].paid
           /\ UNCHANGED <<kind, calls, notify, poll, entities, messages, told, asked, mishaps>>
           /\ overlapped' \in BOOLEAN /\ (overlapped => overlapped')
           /\ CallsAreSound' /\ CallsAreAlone' /\ OneCreator' /\ AReplayIsNotASecondContact'
           /\ OrdersAreDoubledByLostAnswersOnly' /\ Running' = Running
<1>1. /\ k \in DOMAIN entities /\ p \in 1 .. entities[k].paid
      /\ overlapped' = (overlapped \/ Running # {})
      /\ UNCHANGED <<kind, calls, notify, poll, entities, messages, told, asked, mishaps>>
  BY DEF Delivery
<1>2. TypeOK /\ mishaps' \in 0 .. MaxMishaps /\ mishaps' >= mishaps
  <2>1. TypeOK /\ mishaps \in 0 .. MaxMishaps /\ mishaps' = mishaps
    BY <1>1 DEF IInv, TypeOK
  <2>. QED  BY <2>1, LivePathAssumption
<1>3. overlapped' \in BOOLEAN /\ (overlapped => overlapped') /\ (~ overlapped' => Running = {})
  BY <1>1
<1>. QED  BY <1>1, <1>2, <1>3, CallsUndisturbed

\* A settlement that is credited, and reported at once or not at all.
LEMMA DeliveryCredits ==
    ASSUME IInv, NEW k \in Ids, NEW p \in 1 .. Due, Delivery(k, p), NEW r \in Creditable(k),
           Credited(r), AppendFails(r, credit_record(r)), seen' = seen \cup {<<k, p>>},
           answered' \in {answered, answered \cup {<<k, p>>}}, faults' \in 0 .. MaxFaults,
           torn' = torn \/ faults' = faults + 1, faults' = faults \/ faults' = faults + 1,
           \/ Appended(r, credit_record(r)) /\ Booked(r, _settlement(r, p))
           \/ booked' = booked
    PROVE  IInv'
<1>1. /\ TypeOK /\ k \in DOMAIN entities /\ p \in 1 .. entities[k].paid
      /\ UNCHANGED <<kind, calls, notify, poll, entities, messages, told, asked, mishaps>>
      /\ overlapped' \in BOOLEAN /\ (overlapped => overlapped')
      /\ CallsAreSound' /\ CallsAreAlone' /\ OneCreator' /\ AReplayIsNotASecondContact'
      /\ OrdersAreDoubledByLostAnswersOnly' /\ Running' = Running
  BY DeliveryKnows
<1>2. r \in Refs /\ dispatched[r] = k /\ r \notin reconciled /\ k # NoId
  BY <1>1, EntityFacts DEF Creditable
<1>3. k \in EntitiesOf(r)
  BY <1>2 DEF IInv, Provenance
<1>. DEFINE w == _settlement(r, p)
<1>4. w \in Amounts /\ WasPaid(r, w)
  BY <1>1, <1>2, <1>3, WorthWasPaid
<1>5. \/ booked' = booked /\ poll'.out \in {poll.out, {}}
      \/ /\ Appended(r, credit_record(r))
         /\ booked' = [booked EXCEPT ![r] = Append(@, w)] /\ poll' = poll
  BY <1>1 DEF Booked
<1>. HIDE DEF w
<1>6. /\ Books'
      /\ disk' \in [Refs -> Records] /\ kept' \in [Refs -> Records]
      /\ gap' \in BOOLEAN /\ torn' \in 0 .. MaxFaults
      /\ booked' \in [Refs -> Seq(Amounts)]
      /\ reconciled' \in SUBSET Refs
  BY <1>1, <1>2, <1>4, <1>5, CreditKnows
<1>7. TypeOK'
  <2>1. /\ seen' \in SUBSET (Ids \X (1 .. Due)) /\ answered' \in SUBSET (Ids \X (1 .. Due))
    <3>1. answered \in SUBSET (Ids \X (1 .. Due)) /\ seen \in SUBSET (Ids \X (1 .. Due))
      BY <1>1 DEF TypeOK
    <3>. QED  BY <3>1
  <2>2. dispatched' = dispatched
    BY DEF Credited
  <2>. QED  BY <1>1, <1>6, <2>1, <2>2 DEF TypeOK
<1>8. PollIsAlone'
  BY <1>1 DEF IInv, PollIsAlone, Credited
<1>. QED  BY <1>1, <1>6, <1>7, <1>8 DEF IInv, Books

LEMMA StepReceive ==
    ASSUME IInv, NEW k \in Ids, NEW p \in 1 .. Due, receive(k, p)
    PROVE  IInv'
<1>1. PICK r \in Creditable(k) :
         /\ Credited(r) /\ Appended(r, credit_record(r)) /\ torn' = torn
         /\ Booked(r, _settlement(r, p))
  BY DEF receive, Appended
<1>2. /\ Delivery(k, p) /\ seen' = seen \cup {<<k, p>>}
      /\ answered' = answered \cup {<<k, p>>} /\ faults' = faults
      /\ faults' \in 0 .. MaxFaults
  BY DEF receive, IInv, TypeOK
<1>3. AppendFails(r, credit_record(r))
  BY <1>1 DEF AppendFails
<1>. QED  BY <1>1, <1>2, <1>3, DeliveryCredits

LEMMA StepReceiveRaises ==
    ASSUME IInv, NEW k \in Ids, NEW p \in 1 .. Due, receive_raises(k, p)
    PROVE  IInv'
<1>1. PICK r \in Creditable(k) : Credited(r) /\ AppendFails(r, credit_record(r))
  BY DEF receive_raises
<1>2. /\ Delivery(k, p) /\ seen' = seen \cup {<<k, p>>} /\ answered' = answered
      /\ booked' = booked /\ faults < MaxFaults /\ faults' = faults + 1
  BY DEF receive_raises
<1>3. faults' \in 0 .. MaxFaults
  BY <1>2, LivePathAssumption DEF IInv, TypeOK
<1>. QED  BY <1>1, <1>2, <1>3, DeliveryCredits

LEMMA StepReceiveNothing ==
    ASSUME IInv, NEW k \in Ids, NEW p \in 1 .. Due, receive_nothing(k, p)
    PROVE  IInv'
<1>0. /\ Delivery(k, p) /\ seen' = seen \cup {<<k, p>>} /\ answered' = answered \cup {<<k, p>>}
      /\ UNCHANGED <<dispatched, reconciled, disk, kept, gap, torn, booked, faults>>
  BY DEF receive_nothing, store
<1>1. /\ TypeOK
      /\ UNCHANGED <<kind, calls, notify, poll, entities, messages, told, asked, mishaps>>
      /\ overlapped' \in BOOLEAN /\ (overlapped => overlapped')
      /\ CallsAreSound' /\ CallsAreAlone' /\ OneCreator' /\ AReplayIsNotASecondContact'
      /\ OrdersAreDoubledByLostAnswersOnly' /\ Running' = Running
  BY <1>0, DeliveryKnows
<1>2. seen' \in SUBSET (Ids \X (1 .. Due)) /\ answered' \in SUBSET (Ids \X (1 .. Due))
  BY <1>0, <1>1 DEF TypeOK
<1>3. TypeOK'
  BY <1>0, <1>1, <1>2 DEF TypeOK
<1>4. Books'
  <2>1. EntitiesGrow /\ \A q \in Refs : told'[q] = told[q]
    BY <1>1, SameEntitiesGrow
  <2>. QED  BY <1>0, <1>1, <2>1, BooksStand
<1>5. PollIsAlone'
  BY <1>0, <1>1 DEF IInv, PollIsAlone
<1>. QED  BY <1>1, <1>3, <1>4, <1>5 DEF IInv, Books
-------------------------------------------------------------------------------
(* A poll *)

Polls == [on : BOOLEAN, todo : SUBSET Refs, out : SUBSET (Refs \X Amounts)]

LEMMA WithTodo ==
    ASSUME NEW c \in Polls, NEW S \in SUBSET Refs
    PROVE  LET d == [c EXCEPT !.todo = S]
           IN  d \in Polls /\ d.on = c.on /\ d.todo = S /\ d.out = c.out
BY DEF Polls

LEMMA WithOut ==
    ASSUME NEW c \in Polls, NEW S \in SUBSET (Refs \X Amounts)
    PROVE  LET d == [c EXCEPT !.out = S]
           IN  d \in Polls /\ d.on = c.on /\ d.todo = c.todo /\ d.out = S
BY DEF Polls

\* A step of a poll finds no call, and leaves none behind.
LEMMA PollKnows ==
    ASSUME IInv, poll.on \/ Running = {},
           UNCHANGED <<calls, kind, entities, messages, overlapped>>,
           mishaps' \in 0 .. MaxMishaps, mishaps' >= mishaps
    PROVE  /\ TypeOK /\ poll \in Polls
           /\ CallsAreSound' /\ CallsAreAlone' /\ OneCreator' /\ AReplayIsNotASecondContact'
           /\ OrdersAreDoubledByLostAnswersOnly' /\ Running = {} /\ Running' = {}
<1>1. TypeOK /\ poll \in Polls /\ Running = {}
  BY DEF IInv, TypeOK, Polls, PollIsAlone
<1>. QED  BY <1>1, CallsUndisturbed

\* A poll that ends without a report only forgets credits.
LEMMA ForgottenStays ==
    ASSUME IInv, poll'.out \in {poll.out, {}},
           UNCHANGED <<reconciled, disk, kept, gap, torn, booked, overlapped>>
    PROVE  CreditsAreCovered'
<1>. SUFFICES ASSUME ~ overlapped, NEW q \in Refs PROVE Covered(q)'
  BY DEF CreditsAreCovered
<1>1. /\ kept[q].reconciled => disk[q].reconciled
      /\ disk[q].reconciled => q \in reconciled
      /\ kept[q].reconciled => Credits(q) <= Used + 1
      /\ ~ kept[q].reconciled => Credits(q) <= Used
  BY DEF IInv, CreditsAreCovered, Covered
<1>2. Used' = Used
  BY DEF Used
<1>3. Credits(q)' \in {Credits(q), Len(booked[q])}
  BY DEF Credits, Polled
<1>4. Used \in Nat /\ Credits(q) \in Nat /\ Credits(q)' \in Nat /\ Credits(q)' <= Credits(q)
  BY <1>3, CountFacts
<1>5. /\ kept[q].reconciled => Credits(q)' <= Used' + 1
      /\ ~ kept[q].reconciled => Credits(q)' <= Used'
  BY <1>1, <1>2, <1>4
<1>. QED  BY <1>1, <1>5 DEF Covered

LEMMA StepReconcile ==
    ASSUME IInv, reconcile
    PROVE  IInv'
<1>. DEFINE S == {r \in Refs : dispatched[r] # NoId /\ r \notin reconciled}
<1>0. /\ ~ poll.on /\ Running = {}
      /\ poll' = [on |-> TRUE, out |-> {}, todo |-> S]
      /\ UNCHANGED <<kind, calls, notify, memory, disk, kept, gap, torn, outside, ghosts, mishaps, overlapped>>
  BY DEF reconcile, store
<1>1. S \in SUBSET Refs /\ \A r \in S : dispatched[r] # NoId
  OBVIOUS
<1>. HIDE DEF S
<1>2. /\ UNCHANGED <<dispatched, reconciled, seen, entities, messages, answered, told, asked,
                     booked, faults>>
      /\ mishaps' \in 0 .. MaxMishaps /\ mishaps' >= mishaps
      /\ \A q : EntitiesOf(q)' = EntitiesOf(q)
  <2>1. mishaps \in 0 .. MaxMishaps
    BY DEF IInv, TypeOK
  <2>. QED  BY <1>0, <2>1, LivePathAssumption DEF memory, outside, ghosts, EntitiesOf
<1>3. /\ TypeOK /\ poll \in Polls
      /\ CallsAreSound' /\ CallsAreAlone' /\ OneCreator' /\ AReplayIsNotASecondContact'
      /\ OrdersAreDoubledByLostAnswersOnly' /\ Running = {} /\ Running' = {}
  BY <1>0, <1>2, PollKnows
<1>4. poll' \in Polls /\ poll'.on = TRUE /\ poll'.todo = S /\ poll'.out = {} /\ poll.out = {}
  BY <1>0, <1>1 DEF Polls, IInv, PollIsAlone
<1>5. TypeOK'
  BY <1>0, <1>2, <1>3, <1>4 DEF TypeOK, Polls
<1>6. PollIsAlone'
  BY <1>1, <1>2, <1>3, <1>4 DEF PollIsAlone
<1>7. Provenance' /\ BookedWasPaid' /\ JournalIsSound' /\ ToldIsKept'
  BY <1>0, <1>2 DEF IInv, Provenance, BookedWasPaid, JournalIsSound, ToldIsKept
<1>8. Payments'
  BY <1>0, <1>2, <1>4 DEF IInv, Payments
<1>9. CreditsAreCovered'
  BY <1>0, <1>2, <1>4, ForgottenStays
<1>. QED  BY <1>3, <1>5, <1>6, <1>7, <1>8, <1>9 DEF IInv

LEMMA StepReconcileLost ==
    ASSUME IInv, NEW r \in Refs, reconcile_lost(r)
    PROVE  IInv'
<1>0. /\ r \in poll.todo /\ mishaps < MaxMishaps /\ mishaps' = mishaps + 1
      /\ poll' = NoPoll
      /\ UNCHANGED <<kind, calls, notify, dispatched, seen, outside, ghosts, overlapped,
                     reconciled, disk, kept, gap, torn>>
  BY DEF reconcile_lost, Polling, store, ghosts
<1>1. /\ UNCHANGED <<entities, messages, answered, told, asked, booked, faults>>
      /\ mishaps' \in 0 .. MaxMishaps /\ mishaps' >= mishaps /\ poll.on
      /\ \A q : EntitiesOf(q)' = EntitiesOf(q)
  <2>1. mishaps \in 0 .. MaxMishaps /\ poll.on
    BY <1>0 DEF IInv, TypeOK, PollIsAlone
  <2>2. mishaps' \in 0 .. MaxMishaps /\ mishaps' >= mishaps
    BY <1>0, <2>1, LivePathAssumption
  <2>. QED  BY <1>0, <2>1, <2>2 DEF outside, ghosts, EntitiesOf
<1>2. /\ TypeOK /\ poll \in Polls
      /\ CallsAreSound' /\ CallsAreAlone' /\ OneCreator' /\ AReplayIsNotASecondContact'
      /\ OrdersAreDoubledByLostAnswersOnly' /\ Running = {} /\ Running' = {}
  BY <1>0, <1>1, PollKnows
<1>3. poll' \in Polls /\ poll'.on = FALSE /\ poll'.todo = {} /\ poll'.out = {}
  BY <1>0 DEF Polls, NoPoll
<1>4. TypeOK'
  BY <1>0, <1>1, <1>2, <1>3 DEF TypeOK, Polls
<1>5. PollIsAlone'
  BY <1>3 DEF PollIsAlone
<1>6. Provenance' /\ BookedWasPaid' /\ JournalIsSound' /\ ToldIsKept'
  BY <1>0, <1>1 DEF IInv, Provenance, BookedWasPaid, JournalIsSound, ToldIsKept
<1>7. Payments'
  BY <1>0, <1>1, <1>3 DEF IInv, Payments
<1>8. CreditsAreCovered'
  BY <1>0, <1>1, <1>3, ForgottenStays
<1>. QED  BY <1>2, <1>4, <1>5, <1>6, <1>7, <1>8 DEF IInv

LEMMA StepReconcileOne ==
    ASSUME IInv, NEW r \in Refs, reconcile_one(r)
    PROVE  IInv'
<1>. DEFINE p == entities[dispatched[r]].paid
            w == _settlement(r, p)
            S == poll.todo \ {r}
            O == poll.out \cup {<<r, w>>}
<1>0. /\ r \in poll.todo
      /\ \/ /\ p > 0 /\ r \notin reconciled /\ Credited(r)
            /\ Appended(r, credit_record(r))
            /\ poll' = [poll EXCEPT !.todo = S, !.out = O]
         \/ poll' = [poll EXCEPT !.todo = S] /\ UNCHANGED <<reconciled, disk, kept, gap, torn>>
      /\ UNCHANGED <<kind, calls, notify, dispatched, seen, outside, ghosts, overlapped,
                     mishaps>>
  BY DEF reconcile_one, Polling, store, ghosts
<1>1. /\ UNCHANGED <<entities, messages, answered, told, asked, booked, faults>>
      /\ mishaps' \in 0 .. MaxMishaps /\ mishaps' >= mishaps /\ poll.on
      /\ \A q : EntitiesOf(q)' = EntitiesOf(q)
  <2>1. mishaps \in 0 .. MaxMishaps /\ poll.on
    BY <1>0 DEF IInv, TypeOK, PollIsAlone
  <2>. QED  BY <1>0, <2>1, LivePathAssumption DEF outside, ghosts, EntitiesOf
<1>2. /\ TypeOK /\ poll \in Polls
      /\ CallsAreSound' /\ CallsAreAlone' /\ OneCreator' /\ AReplayIsNotASecondContact'
      /\ OrdersAreDoubledByLostAnswersOnly' /\ Running = {} /\ Running' = {}
  BY <1>0, <1>1, PollKnows
<1>3. PICK k \in EntitiesOf(r) : k = dispatched[r] /\ k # NoId
  <2>1. dispatched[r] # NoId
    BY <1>0 DEF IInv, PollIsAlone
  <2>. QED  BY <2>1 DEF IInv, Provenance
<1>4. S \in SUBSET Refs /\ S \subseteq poll.todo
  BY <1>2 DEF Polls
<1>5. ASSUME poll' \in Polls, poll'.on = poll.on, poll'.todo = S
      PROVE  PollIsAlone'
  BY <1>0, <1>1, <1>2, <1>4, <1>5 DEF IInv, PollIsAlone
<1>6. CASE poll' = [poll EXCEPT !.todo = S] /\ UNCHANGED <<reconciled, disk, kept, gap, torn>>
  <2>. HIDE DEF S
  <2>1. poll' \in Polls /\ poll'.on = poll.on /\ poll'.todo = S /\ poll'.out = poll.out
    BY <1>2, <1>4, <1>6, WithTodo
  <2>2. TypeOK'
    BY <1>0, <1>1, <1>2, <1>6, <2>1 DEF TypeOK, Polls
  <2>3. Provenance' /\ BookedWasPaid' /\ JournalIsSound' /\ ToldIsKept'
    BY <1>0, <1>1, <1>6 DEF IInv, Provenance, BookedWasPaid, JournalIsSound, ToldIsKept
  <2>4. Payments'
    BY <1>0, <1>1, <2>1 DEF IInv, Payments, WasPaid
  <2>5. CreditsAreCovered'
    BY <1>0, <1>1, <1>6, <2>1, ForgottenStays
  <2>. QED  BY <1>2, <1>5, <2>1, <2>2, <2>3, <2>4, <2>5 DEF IInv
<1>7. CASE /\ p > 0 /\ r \notin reconciled /\ Credited(r)
           /\ Appended(r, credit_record(r))
           /\ poll' = [poll EXCEPT !.todo = S, !.out = O]
  <2>1. p \in 1 .. entities[k].paid
    <3>1. entities[k].paid \in 0 .. Due /\ p = entities[k].paid
      BY <1>2, <1>3, EntityFacts
    <3>. QED  BY <1>7, <3>1, LivePathAssumption
  <2>. HIDE DEF p
  <2>2. w \in Amounts /\ WasPaid(r, w)
    BY <2>1, WorthWasPaid
  <2>. HIDE DEF w
  <2>3. O \in SUBSET (Refs \X Amounts)
    BY <1>2, <2>2 DEF Polls
  <2>. HIDE DEF S
  <2>4. poll' \in Polls /\ poll'.on = poll.on /\ poll'.todo = S /\ poll'.out = O
    <3>. DEFINE c == [poll EXCEPT !.todo = S]
    <3>1. poll' = [c EXCEPT !.out = O]
      <4>. HIDE DEF O
      <4>1. [poll EXCEPT !.todo = S, !.out = O] = [[poll EXCEPT !.todo = S] EXCEPT !.out = O]
        OBVIOUS
      <4>. QED  BY <1>7, <4>1
    <3>. HIDE DEF O
    <3>2. c \in Polls /\ c.on = poll.on /\ c.todo = S
      BY <1>2, <1>4, WithTodo
    <3>. HIDE DEF c
    <3>. QED  BY <2>3, <3>1, <3>2, WithOut
  <2>5. /\ Appended(r, credit_record(r))
        /\ booked' = booked /\ poll'.out = poll.out \cup {<<r, w>>}
    BY <1>1, <1>7, <2>4
  <2>. HIDE DEF O
  <2>6. /\ r \notin reconciled /\ dispatched[r] # NoId /\ Credited(r)
        /\ UNCHANGED <<kind, entities, told>> /\ (overlapped => overlapped')
    BY <1>0, <1>1, <1>3, <1>7
  <2>7. AppendFails(r, credit_record(r)) /\ torn' = torn
    BY <1>7 DEF AppendFails, Appended
  <2>8. faults' = faults /\ faults' \in 0 .. MaxFaults
    BY <1>1, <1>2 DEF TypeOK
  <2>9. /\ Books'
        /\ disk' \in [Refs -> Records] /\ kept' \in [Refs -> Records]
        /\ gap' \in BOOLEAN /\ torn' \in 0 .. MaxFaults
        /\ booked' \in [Refs -> Seq(Amounts)]
        /\ reconciled' \in SUBSET Refs
    BY <2>2, <2>5, <2>6, <2>7, <2>8, CreditKnows
  <2>10. TypeOK'
    BY <1>0, <1>1, <1>2, <2>4, <2>9, <2>8 DEF TypeOK, Polls
  <2>. QED  BY <1>2, <1>5, <2>4, <2>9, <2>10 DEF IInv, Books
<1>. QED  BY <1>0, <1>6, <1>7

LEMMA StepReconcileRaises ==
    ASSUME IInv, NEW r \in Refs, reconcile_raises(r)
    PROVE  IInv'
<1>. DEFINE p == entities[dispatched[r]].paid
            w == _settlement(r, p)
<1>0. /\ r \in poll.todo /\ faults < MaxFaults /\ faults' = faults + 1
      /\ p > 0 /\ r \notin reconciled /\ Credited(r)
      /\ AppendFails(r, credit_record(r))
      /\ poll' = NoPoll
      /\ UNCHANGED <<kind, calls, notify, dispatched, seen, outside, told, asked, booked,
                     overlapped, mishaps>>
  BY DEF reconcile_raises, Polling
<1>1. /\ UNCHANGED <<entities, messages, answered>> /\ poll.on
      /\ mishaps' \in 0 .. MaxMishaps /\ mishaps' >= mishaps
      /\ faults' \in 0 .. MaxFaults
  <2>1. mishaps \in 0 .. MaxMishaps /\ faults \in 0 .. MaxFaults /\ poll.on
    BY <1>0 DEF IInv, TypeOK, PollIsAlone
  <2>2. mishaps' \in 0 .. MaxMishaps /\ mishaps' >= mishaps /\ faults' \in 0 .. MaxFaults
    BY <1>0, <2>1, LivePathAssumption
  <2>. QED  BY <1>0, <2>1, <2>2 DEF outside
<1>2. /\ TypeOK /\ poll \in Polls
      /\ CallsAreSound' /\ CallsAreAlone' /\ OneCreator' /\ AReplayIsNotASecondContact'
      /\ OrdersAreDoubledByLostAnswersOnly' /\ Running = {} /\ Running' = {}
  BY <1>0, <1>1, PollKnows
<1>3. PICK k \in EntitiesOf(r) : k = dispatched[r] /\ k # NoId
  <2>1. dispatched[r] # NoId
    BY <1>0 DEF IInv, PollIsAlone
  <2>. QED  BY <2>1 DEF IInv, Provenance
<1>4. w \in Amounts /\ WasPaid(r, w)
  <2>1. p \in 1 .. entities[k].paid
    <3>1. entities[k].paid \in 0 .. Due /\ p = entities[k].paid
      BY <1>2, <1>3, EntityFacts
    <3>. QED  BY <1>0, <3>1, LivePathAssumption
  <2>. HIDE DEF p
  <2>. QED  BY <2>1, WorthWasPaid
<1>5. poll' \in Polls /\ poll'.on = FALSE /\ poll'.todo = {} /\ poll'.out = {}
  BY <1>0 DEF Polls, NoPoll
<1>6. dispatched[r] # NoId /\ (overlapped => overlapped') /\ poll'.out \in {poll.out, {}}
  BY <1>0, <1>3, <1>5
<1>. HIDE DEF w
<1>7. /\ Books'
      /\ disk' \in [Refs -> Records] /\ kept' \in [Refs -> Records]
      /\ gap' \in BOOLEAN /\ torn' \in 0 .. MaxFaults
      /\ booked' \in [Refs -> Seq(Amounts)]
      /\ reconciled' \in SUBSET Refs
  BY <1>0, <1>1, <1>4, <1>6, CreditKnows
<1>8. TypeOK'
  BY <1>0, <1>1, <1>2, <1>5, <1>7 DEF TypeOK, Polls
<1>9. PollIsAlone'
  BY <1>5 DEF PollIsAlone
<1>. QED  BY <1>2, <1>7, <1>8, <1>9 DEF IInv, Books

LEMMA StepReconcileReturns ==
    ASSUME IInv, reconcile_returns
    PROVE  IInv'
<1>0. /\ poll.on /\ poll' = NoPoll
      /\ booked' = [r \in Refs |->
             IF \E w \in Amounts : <<r, w>> \in poll.out
             THEN Append(booked[r], CHOOSE w \in Amounts : <<r, w>> \in poll.out)
             ELSE booked[r]]
      /\ UNCHANGED <<kind, calls, notify, memory, disk, kept, gap, torn, outside, told, asked, faults, mishaps,
                     overlapped>>
  BY DEF reconcile_returns, store
<1>1. /\ UNCHANGED <<dispatched, reconciled, seen, entities, messages, answered>>
      /\ mishaps' \in 0 .. MaxMishaps /\ mishaps' >= mishaps
      /\ \A q : EntitiesOf(q)' = EntitiesOf(q)
  <2>1. mishaps \in 0 .. MaxMishaps /\ mishaps' = mishaps
    BY <1>0 DEF IInv, TypeOK
  <2>2. mishaps' \in 0 .. MaxMishaps /\ mishaps' >= mishaps
    BY <2>1, LivePathAssumption
  <2>. QED  BY <1>0, <2>2 DEF memory, outside, EntitiesOf
<1>2. /\ TypeOK /\ poll \in Polls
      /\ CallsAreSound' /\ CallsAreAlone' /\ OneCreator' /\ AReplayIsNotASecondContact'
      /\ OrdersAreDoubledByLostAnswersOnly' /\ Running = {} /\ Running' = {}
  BY <1>0, <1>1, PollKnows
<1>3. poll' \in Polls /\ poll'.on = FALSE /\ poll'.todo = {} /\ poll'.out = {}
  BY <1>0 DEF Polls, NoPoll
<1>4. ASSUME NEW r \in Refs
      PROVE  \/ booked'[r] = booked[r]
             \/ \E w \in Amounts : <<r, w>> \in poll.out /\ booked'[r] = Append(booked[r], w)
  BY <1>0
<1>5. \A r \in Refs : booked[r] \in Seq(Amounts)
  BY <1>2 DEF TypeOK
<1>6. booked' \in [Refs -> Seq(Amounts)]
  <2>1. ASSUME NEW r \in Refs PROVE booked'[r] \in Seq(Amounts)
    <3>1. \A w \in Amounts : Append(booked[r], w) \in Seq(Amounts)
      BY <1>5, AppendProperties
    <3>. QED  BY <1>4, <1>5, <3>1
  <2>2. booked' = [r \in Refs |-> booked'[r]]
    BY <1>0
  <2>. QED  BY <2>1, <2>2
<1>7. TypeOK'
  BY <1>0, <1>1, <1>2, <1>3, <1>6 DEF TypeOK, Polls
<1>8. PollIsAlone'
  BY <1>3 DEF PollIsAlone
<1>9. Provenance' /\ Payments' /\ JournalIsSound' /\ ToldIsKept'
  BY <1>0, <1>1, <1>3 DEF IInv, Provenance, Payments, JournalIsSound, ToldIsKept
<1>10. BookedWasPaid'
  <2>. SUFFICES ASSUME NEW r \in Refs, NEW n \in DOMAIN booked'[r]
                PROVE  WasPaid(r, booked'[r][n])
    BY <1>0, <1>1 DEF BookedWasPaid, WasPaid
  <2>1. \A m \in DOMAIN booked[r] : WasPaid(r, booked[r][m])
    BY DEF IInv, BookedWasPaid, WasPaid
  <2>2. CASE booked'[r] = booked[r]
    BY <2>1, <2>2
  <2>3. ASSUME NEW w \in Amounts, <<r, w>> \in poll.out, booked'[r] = Append(booked[r], w)
        PROVE  WasPaid(r, booked'[r][n])
    <3>1. /\ DOMAIN booked[r] = 1 .. Len(booked[r])
          /\ DOMAIN booked'[r] = 1 .. Len(booked[r]) + 1 /\ Len(booked[r]) \in Nat
          /\ \A m \in 1 .. Len(booked[r]) : booked'[r][m] = booked[r][m]
          /\ booked'[r][Len(booked[r]) + 1] = w
      BY <1>5, <2>3
    <3>2. WasPaid(r, w)
      <4>1. \A x \in poll.out : WasPaid(x[1], x[2])
        BY DEF IInv, Payments
      <4>2. <<r, w>>[1] = r /\ <<r, w>>[2] = w
        OBVIOUS
      <4>3. WasPaid(<<r, w>>[1], <<r, w>>[2])
        BY <2>3, <4>1
      <4>. QED  BY <4>2, <4>3
    <3>3. CASE n = Len(booked[r]) + 1
      BY <3>1, <3>2, <3>3
    <3>4. CASE n \in 1 .. Len(booked[r])
      <4>1. booked'[r][n] = booked[r][n] /\ n \in DOMAIN booked[r]
        BY <3>1, <3>4
      <4>. QED  BY <2>1, <4>1
    <3>. QED  BY <3>1, <3>3, <3>4
  <2>. QED  BY <1>4, <2>2, <2>3
<1>11. CreditsAreCovered'
  <2>. SUFFICES ASSUME ~ overlapped, NEW r \in Refs PROVE Covered(r)'
    BY <1>0 DEF CreditsAreCovered
  <2>1. ~ Polled(r)' /\ Credits(r)' = Len(booked'[r])
    BY <1>3 DEF Credits, Polled
  <2>2. Credits(r)' = Credits(r)
    <3>1. CASE Polled(r)
      <4>1. PICK w \in Amounts : booked'[r] = Append(booked[r], w)
        BY <1>0, <3>1 DEF Polled
      <4>2. Len(Append(booked[r], w)) = Len(booked[r]) + 1
        BY <1>5, AppendProperties
      <4>. QED  BY <2>1, <3>1, <4>1, <4>2 DEF Credits
    <3>2. CASE ~ Polled(r)
      <4>1. booked'[r] = booked[r]
        BY <1>0, <3>2 DEF Polled
      <4>. QED  BY <2>1, <3>2, <4>1 DEF Credits
    <3>. QED  BY <3>1, <3>2
  <2>3. Used' = Used
    BY <1>0 DEF Used
  <2>. QED  BY <1>0, <1>1, <2>2, <2>3 DEF IInv, CreditsAreCovered, Covered
<1>. QED  BY <1>2, <1>7, <1>8, <1>9, <1>10, <1>11 DEF IInv
-------------------------------------------------------------------------------
(* The invariant *)

LEMMA InitIInv ==
    ASSUME Init
    PROVE  IInv
<1>. USE DEF Init
<1>1. 0 \in 0 .. MaxMishaps /\ 0 \in 0 .. MaxFaults /\ MaxEntities \in Nat
  BY LivePathAssumption
<1>2. <<>> \in Seq([ref : Refs, paid : 0 .. Due]) /\ <<>> \in Seq(Amounts) /\ Len(<<>>) = 0
  BY EmptySeq
<1>3. poll \in [on : BOOLEAN, todo : SUBSET Refs, out : SUBSET (Refs \X Amounts)]
  BY DEF NoPoll
<1>4. /\ dispatched \in [Refs -> Ids \cup {NoId}] /\ told \in [Refs -> Ids \cup {NoId}]
      /\ messages \in [Refs -> Nat] /\ booked \in [Refs -> Seq(Amounts)]
      /\ calls \in [Threads -> Calls \cup {Idle}]
  BY <1>2
<1>4a. /\ disk \in [Refs -> Records] /\ kept \in [Refs -> Records]
       /\ gap \in BOOLEAN /\ torn = 0
       /\ \A r \in Refs : disk[r].id = NoId /\ kept[r].id = NoId
  <2>1. NoRecord \in Records /\ NoRecord.id = NoId
    BY DEF NoRecord, Records
  <2>2. disk = [r \in Refs |-> NoRecord] /\ kept = [r \in Refs |-> NoRecord]
        /\ gap = FALSE /\ torn = 0
    BY DEF Empty
  <2>. QED  BY <2>1, <2>2
<1>5. TypeOK
  <2>1. entities \in Seq([ref : Refs, paid : 0 .. Due]) /\ Len(entities) <= MaxEntities
    BY <1>1, <1>2
  <2>. QED  BY <1>1, <1>3, <1>4, <1>4a, <2>1 DEF TypeOK
<1>6. Running = {} /\ DOMAIN entities = {} /\ \A r : EntitiesOf(r) = {}
  BY DEF Running, EntitiesOf
<1>7. CallsAreSound /\ CallsAreAlone /\ OneCreator
  BY <1>6 DEF CallsAreSound, CallsAreAlone, OneCreator
<1>8. Provenance /\ PollIsAlone
  BY <1>6, <1>4a DEF Provenance, PollIsAlone, NoPoll
<1>9. Payments
  BY <1>6 DEF Payments, NoPoll
<1>10. JournalIsSound /\ ToldIsKept /\ CreditsAreCovered /\ BookedWasPaid
  <2>1. \A r \in Refs : booked[r] = <<>> /\ Len(booked[r]) = 0 /\ DOMAIN booked[r] = {}
                        /\ told[r] = NoId
    OBVIOUS
  <2>2. poll.out = {}
    BY DEF NoPoll
  <2>3. gap = FALSE /\ torn = 0 /\ faults = 0 /\ kept = disk
    BY DEF Empty
  <2>4. \A r \in Refs : disk[r].reconciled = FALSE
    BY DEF Empty, NoRecord
  <2>5. Used = 0 /\ \A r \in Refs : Credits(r) = 0
    BY <2>1, <2>2, <2>3 DEF Used, Credits, Polled
  <2>6. JournalIsSound /\ ToldIsKept /\ BookedWasPaid
    BY <2>1, <2>3 DEF JournalIsSound, ToldIsKept, BookedWasPaid
  <2>7. \A r \in Refs : Covered(r)
    BY <2>3, <2>4, <2>5 DEF Covered
  <2>. QED  BY <2>6, <2>7 DEF CreditsAreCovered
<1>11. AReplayIsNotASecondContact
  BY DEF AReplayIsNotASecondContact
<1>12. OrdersAreDoubledByLostAnswersOnly
  <2>1. \A r \in Refs : Cardinality(EntitiesOf(r)) = 0
    BY <1>6, FS_EmptySet
  <2>. QED  BY <2>1 DEF OrdersAreDoubledByLostAnswersOnly
<1>. QED  BY <1>5, <1>7, <1>8, <1>9, <1>10, <1>11, <1>12 DEF IInv

LEMMA StandStill ==
    ASSUME IInv, UNCHANGED vars
    PROVE  IInv'
<1>1. /\ UNCHANGED <<kind, calls, notify, dispatched, reconciled, seen, disk, kept, gap, torn, poll, entities,
                     answered, messages, told, asked, booked, faults, mishaps, overlapped>>
      /\ TypeOK
  BY DEF vars, memory, store, outside, ghosts, IInv
<1>2. TypeOK'
  BY <1>1 DEF TypeOK
<1>3. EntitiesGrow /\ \A q \in Refs : told'[q] = told[q]
  BY <1>1, SameEntitiesGrow
<1>4. Books'
  BY <1>1, <1>3, BooksStand
<1>5. /\ CallsAreSound' /\ OneCreator' /\ AReplayIsNotASecondContact'
      /\ OrdersAreDoubledByLostAnswersOnly' /\ Running' = Running
      /\ \A q : EntitiesOf(q)' = EntitiesOf(q)
  BY <1>1, CallsStand DEF EntitiesOf
<1>6. CallsAreAlone' /\ PollIsAlone'
  BY <1>1, <1>5 DEF IInv, CallsAreAlone, CallIsAlone, PollIsAlone
<1>. QED  BY <1>2, <1>4, <1>5, <1>6 DEF IInv, Books

LEMMA StepIInv ==
    ASSUME IInv, [Next]_vars
    PROVE  IInv'
<1>1. ASSUME NEW t \in Threads, NEW r \in Refs, NEW send \in BOOLEAN, execute(t, r, send)
      PROVE  IInv'
  BY <1>1, StepExecute
<1>2. ASSUME NEW t \in Threads, ThreadStep(t) PROVE IInv'
  BY <1>2, StepLook, StepCreate, StepCreateRefused, StepCreateLost, StepFind,
     StepLookupLost, StepRecord, StepWrite, StepWriteRaises, StepNotify, StepNotifyLost
     DEF ThreadStep
<1>3. ASSUME NEW k \in DOMAIN entities, pay(k) PROVE IInv'
  BY <1>3, StepPay
<1>4. ASSUME NEW k \in Ids, NEW p \in 1 .. Due, Hears(k, p) PROVE IInv'
  BY <1>4, StepReceive, StepReceiveNothing, StepReceiveRaises DEF Hears
<1>5. ASSUME NEW r \in Refs, reconcile_one(r) \/ reconcile_lost(r) \/ reconcile_raises(r)
      PROVE  IInv'
  BY <1>5, StepReconcileOne, StepReconcileLost, StepReconcileRaises
<1>6. CASE reconcile \/ reconcile_returns
  BY <1>6, StepReconcile, StepReconcileReturns
<1>7. CASE CrashAndRestore \/ OthersAppend
  BY <1>7, StepCrash, StepOthersAppend
<1>8. CASE UNCHANGED vars
  BY <1>8, StandStill
<1>. QED  BY <1>1, <1>2, <1>3, <1>4, <1>5, <1>6, <1>7, <1>8 DEF Next

LEMMA AlwaysIInv == Spec => []IInv
BY InitIInv, StepIInv, PTL DEF Spec
-------------------------------------------------------------------------------
(* The theorems *)

\* The adapter's state keeps its shape, and no bound of the model is passed,
\* over dispatches, deliveries, polls, faults and restarts.
THEOREM TypeCorrect == Spec => []TypeOK
BY AlwaysIInv, PTL DEF IInv

\* create_order's lookup by receipt: a reference that several calls raise, also after
\* restarts, becomes a second order only where an answer was lost.
THEOREM OrdersAreDoubledOnlyByLostAnswers == Spec => []OrdersAreDoubledByLostAnswersOnly
BY AlwaysIInv, PTL DEF IInv

\* execute's replay and Razorpay's refusal of a second link under one
\* reference: however many calls raise it, on however many threads, the
\* customer is written to on its creation and on one notify_by.
THEOREM AReplayContactsNobody == Spec => []AReplayIsNotASecondContact
BY AlwaysIInv, PTL DEF IInv

\* _remember and the rebuilt adapter: the id that DISPATCHED was returned with
\* is the one the adapter knows, through every restart, until an append is torn.
THEOREM DispatchesAreKept == Spec => []ADispatchIsKept
<1>1. IInv => ADispatchIsKept
  BY DEF IInv, ToldIsKept, ADispatchIsKept
<1>. QED  BY <1>1, AlwaysIInv, PTL

\* credit's reconciled flag and its record: one settlement is reported once,
\* whoever brings it, however often and after how many restarts, and once more
\* for each append that was torn, by this component or by another.
THEOREM SettlementsAreCreditedOnce == Spec => []CreditedOncePerTear
<1>1. ASSUME IInv PROVE CreditedOncePerTear
  <2>. SUFFICES ASSUME ~ overlapped, NEW r \in Refs
                PROVE  Len(booked[r]) <= torn + (IF disk[r].reconciled THEN 1 ELSE 0)
    BY DEF CreditedOncePerTear
  <2>1. /\ Len(booked[r]) \in Nat /\ Credits(r) \in Nat /\ Len(booked[r]) <= Credits(r)
        /\ torn \in Nat /\ Used \in Nat /\ Used <= torn
    BY <1>1, CountFacts
  <2>2. CASE kept[r].reconciled
    <3>1. disk[r].reconciled /\ Credits(r) <= Used + 1
      BY <1>1, <2>2 DEF IInv, CreditsAreCovered, Covered
    <3>2. Len(booked[r]) <= torn + 1
      BY <2>1, <3>1
    <3>. QED  BY <3>1, <3>2
  <2>3. CASE ~ kept[r].reconciled
    <3>1. Credits(r) <= Used
      BY <1>1, <2>3 DEF IInv, CreditsAreCovered, Covered
    <3>2. Len(booked[r]) <= torn + 0 /\ Len(booked[r]) <= torn + 1
      BY <2>1, <3>1
    <3>. QED  BY <3>2
  <2>. QED  BY <2>2, <2>3
<1>. QED  BY <1>1, AlwaysIInv, PTL

\* _settlement: what receive and reconcile report was paid on the link or the
\* order by then; the year of an auth link, only once it was paid.
THEOREM BooksAreBacked == Spec => []BookedWasPaid
BY AlwaysIInv, PTL DEF IInv

\* The notify argument of /api/dispatch: a message leaves only for a
\* reference whose last caller asked for one.
THEOREM MessagesWereAskedFor == Spec => NobodyIsMessagedUnasked
<1>. DEFINE Asked == \A r \in Refs : messages'[r] > messages[r] => overlapped \/ r \in asked
<1>1. ASSUME IInv, NEW t \in Threads, Created(calls[t].ref), calls[t].at = "create"
      PROVE  Asked
  <2>1. PICK r \in Refs : r = calls[t].ref /\ (~ overlapped => (notify => r \in asked))
    <3>1. calls[t].ref \in Refs /\ (~ overlapped => CallIsAlone(t))
      BY <1>1, CallKnows, StepNames
    <3>. QED  BY <3>1 DEF CallIsAlone
  <2>2. messages \in [Refs -> Nat] /\ notify \in BOOLEAN
    BY <1>1 DEF IInv, TypeOK
  <2>3. CASE notify
    <3>1. messages' = [messages EXCEPT ![r] = @ + 1] \/ messages' = messages
      BY <1>1, <2>1 DEF Created
    <3>2. \A q \in Refs : messages'[q] > messages[q] => q = r
      BY <2>2, <3>1
    <3>. QED  BY <2>1, <2>3, <3>2
  <2>4. CASE ~ notify
    <3>1. messages' = messages
      BY <1>1, <2>4 DEF Created
    <3>. QED  BY <2>2, <3>1
  <2>. QED  BY <2>3, <2>4
<1>2. ASSUME IInv, NEW t \in Threads, Delivered(calls[t].ref), calls[t].at = "notify"
      PROVE  Asked
  <2>1. PICK r \in Refs : r = calls[t].ref /\ (~ overlapped => r \in asked)
    <3>1. calls[t].ref \in Refs /\ (~ overlapped => CallIsAlone(t))
      BY <1>2, CallKnows, StepNames
    <3>. QED  BY <1>2, <3>1 DEF CallIsAlone
  <2>2. messages \in [Refs -> Nat] /\ messages' = [messages EXCEPT ![r] = @ + 1]
    BY <1>2, <2>1 DEF IInv, TypeOK, Delivered
  <2>3. \A q \in Refs : messages'[q] > messages[q] => q = r
    BY <2>2
  <2>. QED  BY <2>1, <2>3
<1>3. ASSUME IInv, messages' = messages PROVE Asked
  BY <1>3 DEF IInv, TypeOK
<1>. HIDE DEF Asked
<1>4. ASSUME IInv, NEW t \in Threads, create(t) \/ create_lost(t) PROVE Asked
  BY <1>1, <1>3, <1>4 DEF create, create_lost, At, outside
<1>5. ASSUME IInv, NEW t \in Threads, _notify(t) \/ _notify_lost(t) PROVE Asked
  BY <1>2, <1>3, <1>5 DEF _notify, _notify_lost, At, outside
<1>6. ASSUME IInv, NEW t \in Threads, ThreadStep(t) PROVE Asked
  <2>1. CASE \/ create(t) \/ create_lost(t) \/ _notify(t) \/ _notify_lost(t)
    BY <1>4, <1>5, <1>6, <2>1
  <2>2. CASE look(t) \/ create_refused(t) \/ _find_dispatched(t) \/ lookup_lost(t)
    BY <1>3, <1>6, <2>2 DEF look, create_refused, _find_dispatched, lookup_lost, outside
  <2>3. CASE record(t) \/ write(t) \/ write_raises(t)
    BY <1>3, <1>6, <2>3 DEF record, write, write_raises, outside
  <2>. QED  BY <1>6, <2>1, <2>2, <2>3 DEF ThreadStep
<1>7. ASSUME IInv, [Next]_vars, ~ \E t \in Threads : ThreadStep(t) PROVE messages' = messages
  <2>1. CASE \E t \in Threads, r \in Refs, send \in BOOLEAN : execute(t, r, send)
    BY <2>1 DEF execute, outside
  <2>2. CASE \E k \in DOMAIN entities : pay(k)
    BY <2>2 DEF pay
  <2>3. CASE \E k \in Ids, p \in 1 .. Due : Hears(k, p)
    BY <2>3 DEF Hears, receive, receive_nothing, receive_raises, Delivery
  <2>4. CASE reconcile \/ reconcile_returns
    BY <2>4 DEF reconcile, reconcile_returns, outside
  <2>5. CASE \E r \in Refs : reconcile_one(r) \/ reconcile_lost(r) \/ reconcile_raises(r)
    BY <2>5 DEF reconcile_one, reconcile_lost, reconcile_raises, Polling, outside
  <2>6. CASE CrashAndRestore \/ OthersAppend
    BY <2>6 DEF CrashAndRestore, Restarts, OthersAppend, outside
  <2>7. CASE UNCHANGED vars
    BY <2>7 DEF vars, outside
  <2>. QED  BY <1>7, <2>1, <2>2, <2>3, <2>4, <2>5, <2>6, <2>7 DEF Next
<1>8. IInv /\ [Next]_vars => [Asked]_vars
  BY <1>3, <1>6, <1>7
<1>9. [][Asked]_vars => NobodyIsMessagedUnasked
  BY PTL DEF Asked, NobodyIsMessagedUnasked
<1>. QED  BY <1>8, <1>9, AlwaysIInv, PTL DEF Spec
===============================================================================
