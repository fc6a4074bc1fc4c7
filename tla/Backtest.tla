-------------------------------- MODULE Backtest --------------------------------
(***************************************************************************)
(* evaluation/backtest.py: one batch, worked by four arms in turn.  The    *)
(* first does nothing and the second everything; then the pipeline runs,   *)
(* from detection (Detection) through diagnosis and strategy to proposals  *)
(* (Planner), and the last two arms execute those proposals, the last one  *)
(* obeying the engine (PolicyRules).  All execute against one truth        *)
(* (SimulatedExecutor).                                                    *)
(*                                                                         *)
(* A world is a batch with what was drawn for it.  Its traffic is counted  *)
(* by the grid; of the orders in it those that matter to the question are  *)
(* named.  A model's answer is any of Causes or Strategies, or none.       *)
(***************************************************************************)
EXTENDS Detection, SimulatedExecutor

CONSTANTS
    Worlds,      \* the batches the backtest is run on, and their grids
    Causes,      \* the root causes a diagnosis may name
    Strategies   \* the strategies a model may propose

Drawn(w, id) ==
    LET s == w.subjects[id]
    IN  CASE surface(s) = "recurring" -> build_mandates(s.subscription, w.ends_at)
          [] surface(s) = "receivable" -> build_invoices(s.invoice, w.ends_at)
          [] surface(s) = "payment" /\ is_captured(s.order) -> {NotDrawn}
          [] OTHER -> UNION {build(s.order, end, routing) :
                                end \in {None} \cup w.incident_ends, routing \in BOOLEAN}

\* A subject is one of the three, and nothing else.
IsSubject(s) ==
    CASE surface(s) = "payment" ->
             /\ s.invoice = None /\ s.subscription = None
             /\ s.order.amount \in Nat /\ s.order.last_attempt.at \in Int
             /\ s.order.last_attempt.code \in Code \cup {None}
      [] surface(s) = "receivable" ->
             /\ s.subscription = None
             /\ s.invoice.outstanding \in Nat /\ s.invoice.due_at \in Int
             /\ s.invoice.promise # None => s.invoice.promise.promised_for \in Int
      [] surface(s) = "recurring" ->
             /\ s.subscription.annual_value \in Nat
             /\ s.subscription.mandate_status
                    \in DOMAIN MANDATE_RECOVERY_PLAYBOOK \cup {"active"}

\* A batch comes with the grid of its attempts, what would recover each of its
\* subjects is what the simulator can draw for it, and a strategy is of the shape
\* that is asked for.
ASSUME BacktestAssumption ==
    /\ \A w \in Worlds : IsGrid(w.grid)
    /\ \A w \in {each.batch : each \in Worlds} :
           /\ w.ids \in Seq(DOMAIN w.subjects) /\ ToSet(w.ids) = DOMAIN w.subjects
           /\ w.ends_at \in Int /\ w.incident_ends \subseteq Int
           /\ \A id \in DOMAIN w.subjects :
                  /\ IsSubject(w.subjects[id])
                  /\ w.subjects[id].customer \in DOMAIN w.people
                  /\ w.latent[id] \in Drawn(w, id)
    /\ Strategies \subseteq
           Seq([retry_class : DOMAIN TAIL_PLAYBOOK,
                play : [type : CHARGING_ACTIONS \cup CONTACT_ACTIONS \cup INERT_ACTIONS,
                        delay : Nat, channel : Channel \cup {None}, attempts : Nat]])

VARIABLES
    world,
    looked,    \* the clusters the model was asked about
    proposal,  \* what the pipeline proposes, and why
    arm,       \* the arm that runs, or "planning" between the second and third
    pending,   \* the arm's actions that have not been looked at
    settled,   \* SimulatedExecutor.settled
    book,      \* ContactBook: what the arm sent
    ledger     \* what each arm did

pipeline == <<looked, proposal>>
running == <<pending, settled, book, ledger>>
vars == <<detection, world, pipeline, arm, running>>

PlannedArms == {"planner-unpoliced", "backstop"}
Arms == {"do-nothing", "naive-retry"} \cup PlannedArms

Subject(id) == world.subjects[id]

IsFailed(id) == surface(Subject(id)) = "payment" /\ ~ is_captured(Subject(id).order)
IsSubscription(id) == surface(Subject(id)) = "recurring"
IsInvoice(id) == surface(Subject(id)) = "receivable"
IsLapsed(id) == /\ IsSubscription(id)
                /\ ~ Subject(id).subscription.cancelled
                /\ ~ is_chargeable(Subject(id).subscription)
IsOverdue(id) == IsInvoice(id) /\ is_overdue(Subject(id).invoice, world.ends_at)

\* The subjects of a kind, and something about each, in the order of the batch.
Of(Chosen(_)) == {id \in DOMAIN world.subjects : Chosen(id)}
All(Chosen(_), About(_)) ==
    FlattenSeq([n \in DOMAIN world.ids |->
                   IF Chosen(world.ids[n]) THEN About(world.ids[n]) ELSE <<>>])
-------------------------------------------------------------------------------
(* build_backstop_actions: the clusters, in the order they started *)

Left == DOMAIN Clusters \ looked

Current ==
    Foremost(Left, LAMBDA m, n : Clusters[m].starts_at < Clusters[n].starts_at)

orders_in_cluster(cluster) ==
    Of(LAMBDA id : IsFailed(id) /\ InCluster(cluster, Subject(id).order))

Override(f, g) ==
    [id \in DOMAIN f \cup DOMAIN g |-> IF id \in DOMAIN g THEN g[id] ELSE f[id]]

Answers(values) ==
    {structured(first, second) : first \in Reply(values), second \in Reply(values)}

\* A diagnosis is entered for every member, over an earlier cluster's.
Diagnosed(cluster, cause) ==
    LET members == orders_in_cluster(cluster)
    IN  [proposal EXCEPT
            !.diagnosis = Override(@, [id \in members |-> cause]),
            !.outage = IF cause \notin SELF_HEALING THEN @
                       ELSE Override(@, [id \in members |-> cluster.ends_at])]

\* Mutant: the members count as planned for before there is a strategy.
WithStrategy_Early(p, cluster, cause, strategy) ==
    LET members == orders_in_cluster(cluster)
        hold == IF cause \in SELF_HEALING THEN cluster.ends_at ELSE None
    IN  IF strategy = None THEN [p EXCEPT !.planned = @ \cup members]
        ELSE [p EXCEPT
                !.actions = @ \o All(LAMBDA id : id \in members, LAMBDA id :
                                expand(strategy, id, Subject(id).order, hold)),
                !.planned = @ \cup members,
                !.strategies = Append(@, [members |-> members,
                                          strategy |-> strategy])]

\* Without a strategy, the members are left to the playbooks.
WithStrategy(p, cluster, cause, strategy) ==
    LET members == orders_in_cluster(cluster)
        hold == IF cause \in SELF_HEALING THEN cluster.ends_at ELSE None
    IN  IF strategy = None THEN p
        ELSE [p EXCEPT
                !.actions = @ \o All(LAMBDA id : id \in members, LAMBDA id :
                                expand(strategy, id, Subject(id).order, hold)),
                !.planned = @ \cup members,
                !.strategies = Append(@, [members |-> members,
                                          strategy |-> strategy])]

Planning == arm = "planning" /\ stage = "detected"

plan_cluster ==
    LET cluster == Clusters[Current]
    IN  /\ Planning /\ world.use_model /\ Left # {}
        /\ looked' = looked \cup {Current}
        /\ \/ /\ orders_in_cluster(cluster) = {}
              /\ UNCHANGED proposal
           \/ /\ orders_in_cluster(cluster) # {}
              /\ \E cause \in Answers(Causes), strategy \in Answers(Strategies) :
                     proposal' =
                         IF cause = None THEN proposal
                         ELSE WithStrategy(Diagnosed(cluster, cause), cluster,
                                           cause, strategy)
        /\ UNCHANGED <<detection, world, arm, running>>

\* The tail, the book of mandates and the ledger of invoices.
Playbooks ==
    All(LAMBDA id : IsFailed(id) /\ id \notin proposal.planned,
        LAMBDA id : tail_actions(id, Subject(id).order))
    \o All(IsLapsed, LAMBDA id :
               mandate_actions(id, Subject(id).subscription, world.ends_at))
    \o All(IsOverdue, LAMBDA id :
               receivable_actions(id, Subject(id).invoice, world.ends_at))

plan_the_rest ==
    /\ Planning /\ (world.use_model => Left = {})
    /\ proposal' = [proposal EXCEPT !.actions = @ \o Playbooks]
    /\ arm' = "planner-unpoliced"
    /\ pending' = DOMAIN proposal'.actions
    /\ UNCHANGED <<detection, world, looked, settled, book, ledger>>

detect == arm = "planning" /\ Detect /\ UNCHANGED <<world, pipeline, arm, running>>
-------------------------------------------------------------------------------
(* run_arm: the arm's actions, in the order of the moments they ask for *)

naive_actions ==
    All(IsFailed, LAMBDA id : naive_retry(id, Subject(id).order))
    \o All(IsSubscription, LAMBDA id :
               naive_mandate_chase(id, Subject(id).subscription, world.ends_at))
    \o All(IsInvoice, LAMBDA id :
               naive_invoice_chase(id, Subject(id).invoice, world.ends_at))

Actions == CASE arm = "naive-retry" -> naive_actions
             [] arm \in PlannedArms -> proposal.actions
             [] OTHER -> <<>>

\* The arms before the pipeline find nothing known.
Known(f, id) == IF id \in DOMAIN f THEN f[id] ELSE None

\* SubjectIndex.context, with these contacts on record.
context(a, contacts) ==
    LET s == Subject(a.subject)
    IN  [now |-> a.at, customer |-> world.people[s.customer],
         order |-> s.order, invoice |-> s.invoice, subscription |-> s.subscription,
         contacts |->
             [n \in {m \in DOMAIN contacts : contacts[m].subject = a.subject} |->
                 contacts[n].at],
         customer_contacts |->
             [n \in {m \in DOMAIN contacts : contacts[m].customer = s.customer} |->
                 contacts[n].at],
         diagnosis |-> Known(proposal.diagnosis, a.subject),
         outage_until |-> Known(proposal.outage, a.subject)]

\* ContactBook.record: what is recorded, and as what.
Recorded(a) == is_contact(a) /\ a.channel # None
Contact(a, at) ==
    [subject |-> a.subject, customer |-> Subject(a.subject).customer, at |-> at]

LedgerEntry(a, ruling, execution) ==
    [action |-> a, surface |-> surface(Subject(a.subject)), ruling |-> ruling,
     execution |-> execution]

Enforce == arm = "backstop"

Next_n == Foremost(pending, LAMBDA m, n : Actions[m].at < Actions[n].at)

Ruled == evaluate(DEFAULT_RULES, Actions[Next_n], context(Actions[Next_n], book))

\* What needs an approval is executed: the queue is taken to be staffed.
allowed(ruling) == ruling.disposition # "deny"

Withhold ==
    /\ pending # {} /\ Enforce
    /\ LET ruling == Ruled
       IN  /\ ~ allowed(ruling)
           /\ ledger' = [ledger EXCEPT ![arm] =
                            Append(@, LedgerEntry(Actions[Next_n], ruling, None))]
    /\ pending' = pending \ {Next_n}
    /\ UNCHANGED <<detection, world, pipeline, arm, settled, book>>

\* Mutant: the contact is entered at the moment that was asked for.
Execute_BookedEarly ==
    /\ pending # {}
    /\ LET ruling == Ruled
           final == IF Enforce THEN ruling.final ELSE Actions[Next_n]
           result == execute(final, final.at, Subject(final.subject),
                             world.latent[final.subject], settled)
       IN  /\ Enforce => allowed(ruling)
           /\ ledger' = [ledger EXCEPT ![arm] =
                            Append(@, LedgerEntry(final, ruling, result))]
           /\ settled' = IF result.outcome = "recovered"
                         THEN settled \cup {final.subject} ELSE settled
           /\ book' = IF Recorded(final)
                      THEN Append(book, Contact(final, Actions[Next_n].at)) ELSE book
    /\ pending' = pending \ {Next_n}
    /\ UNCHANGED <<detection, world, pipeline, arm>>

\* An enforced arm executes what was permitted, where the ruling put it.
Execute ==
    /\ pending # {}
    /\ LET ruling == Ruled
           final == IF Enforce THEN ruling.final ELSE Actions[Next_n]
           result == execute(final, final.at, Subject(final.subject),
                             world.latent[final.subject], settled)
       IN  /\ Enforce => allowed(ruling)
           /\ ledger' = [ledger EXCEPT ![arm] =
                            Append(@, LedgerEntry(final, ruling, result))]
           /\ settled' = IF result.outcome = "recovered"
                         THEN settled \cup {final.subject} ELSE settled
           /\ book' = IF Recorded(final)
                      THEN Append(book, Contact(final, final.at)) ELSE book
    /\ pending' = pending \ {Next_n}
    /\ UNCHANGED <<detection, world, pipeline, arm>>

After_arm == [a \in Arms |->
    CASE a = "do-nothing" -> "naive-retry" [] a = "naive-retry" -> "planning"
      [] a = "planner-unpoliced" -> "backstop" [] OTHER -> "reported"]

\* Mutant: the next arm finds what the last one recovered.
NextArm_Settled ==
    /\ arm \in Arms /\ pending = {}
    /\ UNCHANGED <<detection, world, pipeline, settled, ledger>>
    /\ arm' = After_arm[arm]
    /\ pending' = DOMAIN Actions'
    /\ book' = <<>>

\* Every arm starts with its own executor and its own book.
NextArm ==
    /\ arm \in Arms /\ pending = {}
    /\ UNCHANGED <<detection, world, pipeline, ledger>>
    /\ arm' = After_arm[arm]
    /\ pending' = DOMAIN Actions'
    /\ settled' = {} /\ book' = <<>>
-------------------------------------------------------------------------------
Init ==
    /\ \E w \in Worlds : world = w.batch /\ InitDetection(w.grid)
    /\ looked = {}
    /\ proposal = [actions |-> <<>>, diagnosis |-> << >>, outage |-> << >>,
                   planned |-> {}, strategies |-> <<>>]
    /\ arm = "do-nothing" /\ pending = {}
    /\ settled = {} /\ book = <<>>
    /\ ledger = [a \in Arms |-> <<>>]

Next == \/ detect \/ plan_cluster \/ plan_the_rest
        \/ Withhold \/ Execute \/ NextArm

Spec == Init /\ [][Next]_vars
-------------------------------------------------------------------------------
(* What the backtest claims of itself *)

ProposedAction ==
    [subject : DOMAIN world.subjects,
     type : CHARGING_ACTIONS \cup CONTACT_ACTIONS \cup INERT_ACTIONS,
     channel : Channel \cup {None}, at : Int, offered : 0 .. 100 \cup {None}]

TypeOK ==
    /\ arm \in Arms \cup {"planning", "reported"}
    /\ looked \subseteq DOMAIN Clusters
    /\ \A n \in DOMAIN proposal.actions : proposal.actions[n] \in ProposedAction
    /\ pending \subseteq DOMAIN Actions
    /\ settled \subseteq DOMAIN world.subjects
    /\ \A a \in Arms : \A n \in DOMAIN ledger[a] :
           LET e == ledger[a][n]
           IN  /\ e.action \in ProposedAction
               /\ e.execution # None =>
                      e.execution.recovered \in 0 .. worth(Subject(e.action.subject))

\* No failed order is forgotten: somebody proposes something about it, unless a
\* strategy for an incident it was in has nothing for its class.  A cluster the
\* model failed on falls back to the playbook (build_backstop_actions).
EveryFailureIsPlannedFor ==
    arm \in PlannedArms =>
        \A id \in Of(IsFailed) :
            \/ \E n \in DOMAIN proposal.actions : proposal.actions[n].subject = id
            \/ \E n \in DOMAIN proposal.strategies :
                   LET plays == by_class(proposal.strategies[n].strategy)
                       class == retry_class(Subject(id).order)
                   IN  /\ id \in proposal.strategies[n].members
                       /\ class \notin DOMAIN plays \/ plays[class].attempts = 0

Executed(a) == {n \in DOMAIN ledger[a] : ledger[a][n].execution # None}

\* RecoveryLedger.audit: what an arm did is ruled on again, each action at the
\* moment it ran, with what else the arm had sent by then.
audit(a) ==
    LET ran == ledger[a]
        Before(n) == {m \in Executed(a) \ {n} :
                         /\ Recorded(ran[m].action)
                         /\ ran[m].execution.at <= ran[n].execution.at}
        Sent(n) == [m \in Before(n) |-> Contact(ran[m].action, ran[m].execution.at)]
    IN  {n \in Executed(a) :
            evaluate(DEFAULT_RULES, ran[n].action,
                     context(ran[n].action, Sent(n))).final # ran[n].action}

\* Actions are ruled on in the order they asked for and executed at the moments
\* they were moved to, which is another order.  Even so, whoever audits the
\* enforced arm with what had really happened by each of those moments finds
\* nothing to refuse and nothing to move.
AuditFindsNothing == arm = "reported" => audit("backstop") = {}

\* The two planned arms differ by what the rulings say and by nothing else: up
\* to the first ruling that refuses or moves something they do and bring in the same
\* (run: "The only difference is whether the policy engine's rulings are
\* obeyed").
ArmsDifferByRulings ==
    arm = "reported" =>
        LET policed == ledger["backstop"]
            unpoliced == ledger["planner-unpoliced"]
            Agreed(n) ==
                \A m \in 1 .. n : /\ allowed(policed[m].ruling)
                                  /\ policed[m].ruling.final = unpoliced[m].action
        IN  /\ Len(policed) = Len(unpoliced)
            /\ \A n \in DOMAIN policed :
                   /\ Agreed(n) => policed[n] = unpoliced[n]
                   /\ Agreed(n - 1) => policed[n].ruling = unpoliced[n].ruling

\* declines.py calls max_retries a "hard ceiling on automated attempts".
RetryBudgetHolds ==
    arm = "reported" =>
        \A id \in Of(IsFailed) :
            Cardinality({n \in Executed("backstop") :
                            LET a == ledger["backstop"][n].action
                            IN  a.subject = id /\ is_charging(a)})
                <= DECLINE_SPECS[Subject(id).order.last_attempt.code].max_retries
===============================================================================
