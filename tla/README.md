# Backstop, specified

Backstop watches payments that failed, invoices that were not paid and mandates
that broke, plans what to do about each, has a policy engine rule on every
planned action, holds what is permitted until its moment, asks a person about
large sums, and executes what is left, in a simulation or against a payment
provider. This directory holds TLA+ modules of the parts that decide *whether
and when* something is done to a customer, configurations that check them with
TLC, and proofs checked by TLAPS. `src/` below is the repository; package paths
are relative to `src/src/backstop/`.

## The system

| Part | State it keeps | Operations | Talks to |
| --- | --- | --- | --- |
| policy engine (`policy/engine.py`, with `domain/`) | none: the rules are a list | `evaluate(action, context)`: ALLOW, DENY, RESCHEDULE or REQUIRE_APPROVAL, a final action, the rule that moved it | asked by scheduler, queue, console, backtest |
| subject index, contact book (`policy/subjects.py`) | who was contacted about what, when | `resolve`, `context`, `record` | gives the engine its context |
| scheduler (`schedule/scheduler.py`) | held actions, their moments and history | `submit`, `run_due`, restore | engine, an executor, the journal |
| approval queue (`approve/queue.py`) | requests, which of them are spent | `submit`, `approve`, `reject`, `staff`, `expire_due`, `release`, restore | engine, the journal; callers hand releases to the scheduler |
| journal (`store/journal.py`, `codec.py`) | one append-only file of snapshots | `append`, `replay`, `compact` | written by scheduler, queue and adapter |
| console session and app (`console/`) | a batch, its plan, queue, scheduler, ledger, live adapter | `reset_operations`, `decide`, `release`, `advance`, `go_live`, `dispatch`, `webhook`, `measure` | everything; one lock for most mutating calls, jobs in threads |
| provider adapter (`execute/razorpay.py`) | dispatches by reference, mandates created | `execute`, `reconcile`, `credit`, restore; an HTTP transport that retries | the provider, the journal |
| webhook receiver (`execute/webhook.py`) | event ids seen | `receive`: verify, de-duplicate, credit | the adapter |
| detectors (`detect/`) | a baseline and an open run per segment | `run` at each resolution, `_dedupe`, `correlate` | hand clusters to diagnosis and planner |
| diagnosis (`diagnose/`), LLM client (`llm/`) | call counts | `diagnose`, `structured` with one repair | a model that may not answer |
| planner (`decide/planner.py`) | none | `plan` and `expand` for an incident; `tail_actions`, `mandate_actions`, `receivable_actions` for the rest; the naive baseline | gives proposals to console and backtest |
| simulated executor (`execute/executor.py`, `simulate/recoverability.py`) | which subjects are settled | `execute` | what was drawn for each subject |
| backtest (`evaluation/backtest.py`), ledger (`ledger/ledger.py`) | per arm: executor, contact book, ledger | `run`, `build_backstop_actions`, `run_arm`, `record`, `audit` | everything from detection to execution |
| scores, scenario generator, demo | results, random data | arithmetic and printing | |

What is hard here, and what makes each part correct:

- **Time.** An action is ruled on when it is planned and again when it comes
  due, by rules that move it. It must land at a moment every rule accepts, be
  moved no further than needed, and not be moved for ever. It must not fire
  early, nor long after its moment, whatever was deferred and restarted
  in between.
- **A world that moves.** Between the plan and the execution, invoices are
  disputed, people opt out, others are contacted. The second ruling reads the
  world of its own moment.
- **Crashes.** Each component writes a snapshot before it returns; a process can
  die between any two steps, the last line of the file can be torn and swallow
  the line after it, a compaction can be cut short.
- **Partial failure.** An executor or a journal write that raises in the middle
  of `run_due`, `staff`, `expire_due` or `release` leaves some entries changed,
  some not, some written, some not.
- **One yes, one dispatch.** An approval is spent when it is released, also if the process dies
  while it releases.
- **Money that leaks quietly.** An outage has to be seen however long it lasts and
  whatever traffic surrounds it, by several views of it that must end up as one
  incident; a failed order must be planned for whatever the model did or did not
  answer; and a measurement of the rules must differ from the unruled one by the
  rules alone.
- **Delivery.** The provider's answers get lost, requests are repeated, webhooks come
  twice or before the thing they are about is on record.
- **Liveness.** A held action fires or its miss is recorded; a request nobody
  answers expires.

`PROJECT.json` lists the hazards line by line, with the property that watches each.

## The modules

**`Journal`** is the file: a sequence of lines, whether the last of them still
lacks its newline, and the temporary file of a compaction. `append` writes a
line, or continues an unterminated one, in which case the two glued snapshots do
not parse and `replay` skips them. `AppendInterrupted` and `AppendTorn` are
appends that did not return. `StartCompaction`, `FinishCompaction` and
`CompactionInterrupted` are `compact` with the process dying before
the rename. There is one writer, as the class requires. Snapshots are numbered
per entity; the JSON codec is left out.

**`SharedJournal`** is that file as one of the components that write to it sees
it: `disk`, the snapshot of each of its entities that a restart restores, and
`kept`, the one that is still there after the next append. They differ while the last
line of the file is open (`gap`). `Appended` is an append that returned: into a gap
it is lost, and the open line with it. `AppendFails` is one that did not return, because
it raised (`open`, `write`, `flush`, `fsync`, each after more or less of the line
reached the file) or because the process died in it: nothing of the line is there, all
of it, or a line without its newline (`AppendTorn`, which the ghost `torn` counts), of
which a restart can read the snapshot or cannot. All kinds share one file, so
`OtherAppended` and `OtherTorn` are the appends of other components: they use up a
gap, or leave one.

**`DurableMap`** is `SharedJournal` over all entities at once, with the versions that
were attempted and acknowledged: what the file promises as a whole. `Journal` is
checked and proved to implement it (`restored` is `disk`, `open` the gap, what is left of the file without
its open line is `kept`); a compaction is a `Repair`. `Scheduler`,
`ApprovalQueue` and `LivePath` extend `SharedJournal`, so what is claimed of them is
claimed on that disk and not on a better one.

**`Scheduler`** has `entries` in memory, the snapshots in the journal, what a caller was
last `told`, and the `run` in progress. `run_due` is taken apart: the snapshot of
waiting entries (`_waiting_by_due`), then per entry one of `DropStale`,
`NotYetDue`, `Refuse`, `Defer`, `Abandon`, `Dispatch`, `ExecutorRaises`, then
`_remember`, then `ReturnFirings`. `JournalRaises`, `CrashAndRestore` (in an append or
not) and `OthersAppend` may come between any two of these. The engine is any engine that refuses a due action or
permits it for some moment not before its own.

**`ApprovalQueue`** likewise: `requests` and `released` in memory, their snapshots, what a
caller was `told`, and the `call` in progress, which visits one request per step.
`handed` counts the dispatchable releases a caller really received.

**`PolicyRules`** holds the sixteen rules, their order-free composition, and
`evaluate` as operators over the domain's records. Time is half hours of UTC:
every boundary the rules use (hours in India, which is eleven half hours ahead;
delays in hours or days) is a whole number of them, and the only finer delay,
thirty minutes or less, is rounded up. Money is in paise. Of the decline codes, one
for each combination of class, budget, delay and dunning flag is kept.

**`PolicyEngine`** is the engine as a machine: `evaluate_proposed` rules on any
action in any context with any set of rules, `evaluate_again` rules on what was
permitted, as the scheduler and the queue do.

**`Session`** composes `PolicyRules` with the queue and the scheduler the way the
console does: `Init` is `reset_operations` (rule on the plan, route each action
to the desk or the scheduler), then `decide`, `release`, `advance_hours` and
`advance_to_next`, each one action because the session holds its lock for the
call, and from outside `Dispute`, `OptOut` and `AttemptFails`. Contexts are built
as `SubjectIndex.context` does, from the ledger's contacts. The console keeps no
journal. It passes no diagnosis and no outage to the engine, so neither does
the model.

**`LivePath`** is the provider adapter and the webhook receiver behind the
console's `dispatch`, with the provider outside: `entities` is what it has created and what
was paid on each. `execute` is taken apart at every request: `look` (the order's
lookup), `create` with its lost answers and refusals, `_find_dispatched`, then
`record` (memory), `write` (journal), `_notify`. The route of `dispatch` is a plain
function, so the server runs it on worker threads, and the session takes no lock
there: each thread is one call in `calls`, and the `notify` flag is shared, as it is in the
code. The webhook route is a coroutine that never awaits while it credits, so `receive`
is one step. Only the demo polls (`demo.py:667`), between its own dispatches. The append
of a dispatch (`write`), of a delivery (`receive`) and of a poll (`reconcile_one`) may each
fail (`write_raises`, `receive_raises`, `reconcile_raises`) or be cut short by the death of
the process (`Dies`). `pay` is the customer, who pays a link in parts and anything else at
once; a delivery may come as often as it likes, in any order. `overlapped` remembers whether anything ran during a dispatch, so that each property says what
holds without the overlap.

**`Detection`** is one scan: `grid` says how many attempts each segment saw in each
slot, and the scan reads it bucket by bucket, segment by segment and resolution by
resolution: `SkipThin`, `LearnBaseline`, `Breach`, `Recover`, `FinishSegment` are the
branches of `_scan_segment`, with `_emit` where a run ends. Then `_dedupe` and
`correlate` take one signal per step, in the order the code sorts them, and
`Clusters` elects each group's scope. `IsGrid` says what a grid is: segments that are
each met once and, in each slot, counts; a batch without an attempt has none, and
`run` returns at once. Rates are whole per mille and the z-test is
squared, so that there is no square root; z as a number is nowhere used but
against its threshold.

**`Planner`** holds the playbooks, the expansion of a strategy, the naive baseline
and what an answer of a model is worth (`structured`) as operators. An instalment
is a percentage of the balance. `is_captured` reads the last attempt where the code asks
for any: an order of a batch has one (`simulate/generator.py:305`, `:414`), and nothing adds
another. **`SimulatedExecutor`** holds `execute` on the
three surfaces, and for each builder of `recoverability.py` the set of what it can
draw: probabilities are left out, outcomes of probability zero are excluded.

**`Backtest`** composes these three with `PolicyRules`: `run` with its four arms.
`NextArm` starts an arm, `Withhold` and `Execute` are one action of it;
between the second and the third arm `detect` runs `Detection`, `plan_cluster` asks
the model about one cluster (any cause, any strategy, or none after any failure)
and `plan_the_rest` adds the playbooks. `ledger` keeps every arm's entries. In
an enforced arm what needs an approval is executed, as in the code, which takes
the queue to be staffed (`README.md:374-377`).

`MCScheduler`, `MCPolicyEngine`, `MCSession` and `MCBacktest` give the instances
their values.

## The runs

| Run | Question | Instance, and why it is enough |
| --- | --- | --- |
| `journal` | Does a restart restore what was written, whatever was torn or compacted? `StaleNeverInvented`, `LossIsBoundedByTears`, `OnlyAppendsChangeState`, and `ImplementsDurableMap`: the file implements the map. | Two entities, three writes each, unlimited tears and compactions: a glued line, a line glued to that one, a fall-back to an older snapshot and a compaction over all of it all happen. |
| `journal_acknowledged` | Is an acknowledged snapshot durable? Violated: see the findings. | Two writes suffice. |
| `scheduler` | Nothing early, nothing late, nothing lost, nothing twice but for faults, nothing for ever: `FiresInsideItsWindow`, `AuditTrail`, `ReturnedSurvives`, `OneFiringPerFault`, `EverythingSettles`. | Two entries due at 0 and 2, moves up to 2, one deferral, lateness 1, clock to 4, two faults. The clock runs past the last moment at which anything can be due plus the lateness, so that every entry can be fired and missed, and the first be moved. Two faults are one more than a second execution needs, and enough for a torn append and a restart after the one it swallowed. |
| `approval_queue` | A yes is spent once per torn append, is a real yes, a decision is final, every ask is answered: `AYesIsOneDispatchPerTear`, `HandedWasApproved`, `DecisionIsMadeOnce`, `EveryAskIsAnswered`. | Two requests asked for at 0, a shelf life of 2, a desk that answers after 1, a clock that reaches the expiry, two faults: a torn append, and a restart after the one it swallowed. |
| `policy_engine` | Is the permitted moment right, least, attributed and stable, and are rules only restrictive? `FinalPassesEveryRule`, `DelayIsLeast`, `MoverChoseTheMoment`, `RulesOnlyRestrict`, `ReRulingIsStable`. | The deployed thresholds; actions at 10:30, 22:30 and 02:30 in India; contexts that vary payments (amount, code, age, outage, diagnosis), invoices, mandates and people one group at a time; all rules, and the timing rules alone. |
| `session` | From plan to execution with the real rules: `LargeSumsWereApproved`, `WorldIsReadAtFireTime`, `CapsHoldBetweenAdvances`. | Two people, three subjects, five planned actions, caps of 1 and 2 within a day, one deferral, jumps of three and eight hours. The caps and limits are smaller than the deployed ones (3 and 6 a fortnight, 3 deferrals, 2 days) so that they bind within a day and a half. |
| `session_quiet`, `session_cap` | Are the quiet hours quiet, and does the cap on a person hold? Both violated. | The same plan with smaller and larger jumps. |
| `live_path` | Is one reference sent once, only when asked, what was dispatched kept, and what is paid booked, once? `OrdersAreDoubledByLostAnswersOnly`, `AReplayIsNotASecondContact`, `NobodyIsMessagedUnasked`, `ADispatchIsKept`, `CreditedOncePerTear`, `BookedWasPaid`, `PaidIsBooked`. | One reference, of each of the three kinds; two threads, two entities, links paid in two parts, two tries, one lost answer and two faults, so that an append can be torn and the process die after the next one. References share nothing but the `notify` flag and the file, where `OthersAppend` stands for the others. Two entities are one more than a reference should have, and one lost answer is what creates the second. |
| `live_path_race` | Does one reference stay one order with nothing lost? Violated. | Two threads, no faults. |
| `backtest` | Is every outage signalled, exactly and once, every failure planned for, and is the enforced arm what an auditor would have it be? `EveryIncidentIsSignalled`, `OneProblemOneCluster`, `EveryFailureIsPlannedFor`, `AuditFindsNothing`, `ArmsDifferByRulings`. | Three kinds of batch. One segment with every sequence of good, bad and thin slots over eight slots, after a warm-up of two, at two resolutions: outages of every length at every place, interrupted or not, up to the last bucket. Three segments, nested ones among them, with an outage at four times, or none, of the same decline or another. Eight batches of orders, a mandate and an invoice in which two clusters share an order: every playbook, three strategies (one asks for four attempts, one takes a class back, one texts before the quiet hours end), both kinds of cause, a model that fails anywhere, caps of 1 and 2 in a day so that they bind. The deployed detector has a warm-up of 8, three resolutions and the same thresholds; what the scan does depends on the position of a bucket relative to the warm-up and to its neighbours, which eight slots exhaust. |
| `backtest_budget` | Is the retry ceiling of a decline kept? Violated. | The same. |

Deadlock is not checked where the system may stop: the journal's writes and the
session's clock are bounded, and a ruling that was refused is final. Elsewhere it
is.

`TypeOK` of each module is the one shape invariant; in `Scheduler` it carries the
deferral bound.

### Fairness

Only the three liveness properties assume any. `Scheduler`: the clock a caller passes moves
between the calls, somebody keeps calling `run_due`, and a call that started proceeds. The
clock needs strong fairness, as each call interrupts it; `run_schedule` of the demo
(`demo.py:693-772`) is such a driver, going from `next_due` to `next_due` until
nothing waits. Nothing is assumed about the rules or the executor: it may raise
every time, and the entry then goes stale. `ApprovalQueue`: between
other calls the clock moves and `expire_due` is called, again and again (`demo.py:652`, `console/session.py:447` call it on every advance),
which both need strong fairness, since other calls disable them for a moment each; and a
call that began proceeds.
Nobody has to answer or release anything. `LivePath`: the provider delivers an
event until it is answered with a 2xx (`console/app.py:580-583` relies on it),
and a poll that began goes on; nobody has to dispatch, pay or poll.

### Findings

- `journal_acknowledged`: `append` promises "Write one snapshot, durably, before
  returning", but the append that follows a torn one continues the torn line, and
  `replay` drops both. When the second is the record of a release, which `release` writes
  before it hands anything out, a restart reads the request as approved and unspent and
  hands it out again: "a second contact for one person's single yes".
  `AYesIsOneDispatchPerTear` is what does hold, and is proved.
- `session_quiet`: the scheduler's docstring says an action that comes due at an
  awkward hour is pushed again. `quiet_hours` reads the hour the action was
  scheduled for, so a text message scheduled for 20:30 and run at 21:30 leaves at 21:30.
- `session_cap`: "Nobody hears from Backstop more than six times a fortnight".
  Everything that comes due in one `advance` is judged with the contacts of
  before it, and together can exceed the cap. `CapsHoldBetweenAdvances` is what
  does hold.
- `live_path_race`: "the lock is held for the whole of a mutating call", and a
  duplicated charging action is "the single worst thing this adapter could do".
  `dispatch` takes no lock, so two dispatches of one entry both find no order
  and both create one.
- `backtest_budget`: `max_retries` is a "hard ceiling on automated attempts". The
  rule compares it with the attempts of the order marked as recovery attempts,
  and nothing that executes a retry adds one. A strategy may ask for four, and
  the enforced arm charges an order with a ceiling of three four times.

Seen in the model and in the code, and without a run of their own:

- `dispatch` leaves the decision to send in a flag of the adapter that all threads share
  (`console/session.py:750`), so a dispatch that was not to be sent is sent when another,
  that was, comes before its POST.
- The `reconciled` flag a dispatch writes is read before its append
  (`execute/razorpay.py:501`); a delivery credited in between is overwritten, and credited
  again after a restart.
- A payment that arrives before its dispatch is entered is unmatched, though it is ours; it
  is answered with a 200 (`console/app.py:581`), not delivered again, and booked by nobody.
- `credit` marks a dispatch before it writes (`execute/razorpay.py:633-635`); when the write
  raises, the delivery is answered with a 500, the redelivery is a duplicate, and the
  recovery is reported to nobody.
- `dunning_allowed` is documented as whether the customer may be contacted about a failure
  at all (`domain/declines.py:67`), and no rule reads it; and `LedgerEntry.action` is
  documented as the action as proposed (`ledger/ledger.py:43`), where `run_arm` records the
  one the ruling ended with.

The properties of `live_path` hold while nothing overlaps a dispatch, and `PaidIsBooked`
while no fault strikes either; they do not reach the first four, and the hazards say so.
`AReplayIsNotASecondContact` and `BookedWasPaid` need no such reserve. Lost answers double an order even without overlap,
which is why that property counts them.

## The proofs

Every theorem holds for all values of the constants that satisfy the named
assumptions, which say little: the constants are numbers of the right sort, the sentinels
are not data, the quiet hours run over midnight.

**`PolicyProofs`** (6 theorems, from `PolicyAssumption`, `EngineAssumption`). The
argument is about one look of the engine at an action. `QuietHoursEnd` shows by
arithmetic that the end of the quiet hours is the first moment outside them.
`ChargingLands` and `ContactLands` show that one look lands at the first moment
that no rule moves away from: charges are moved by spacing and outage only,
contacts by quiet hours only, and each of these rules objects to every moment
up to the one it asks for. Then `OneLookSettles`: the code's bounded second to
fourth looks never find anything. With `DenialsIgnoreTheMoment` (no denial
reads the moment) this gives what `evaluate` returns, and the invariant is
just that the current ruling is `evaluate` of the current proposal. `RulesRestrict`
follows from leastness: if a smaller rule set landed later, it would object to
the moment that the larger one accepts.

**`SchedulerProofs`** (5 theorems, from `SchedulerAssumption`). `ReturnedSurvives`
is not inductive alone. What carries it is `Copies`: until a write has raised or was
torn, memory and disk differ for the one unwritten entry at most. `AuditTrail` and
`OneFiringPerFault` hold through every failure of the file, for which `JournalIsSound`
says that what survives the next append is what can be read now unless a line is open. `Control` says that a
run holds waiting entries only, and `Firings` counts: what still waits was executed at most once per
fault. `Continues` (a later snapshot of the same entry) is reflexive and
transitive and every step moves an entry along it. `FiresInsideItsWindow` then
follows from the trail: what a caller was told is a prefix of the history, whose
last and greatest moment is the due one.

**`ApprovalQueueProofs`** (4 theorems, from `ApprovalAssumption`). `AYesIsOneDispatch`
holds through every failure of the file: an append that raised with nothing, a part or all
of its line written, a line of another kind that was torn, and restarts after any of them.
It rests on the released flag being in the snapshot, written before the caller has the
release. `CopiesAreFair` says that what is spent on disk is spent in memory, so that
`release` does not choose it again. `ReleasesAreCovered` is the account: every dispatch of
a request is in a snapshot that the next append cannot take away (`kept`), or was
swallowed by a torn append, of which each can swallow one; a line that is still open has
not swallowed anything yet, which is why `Used` does not count it. `Control` says that what a
release is about to hand out is not yet spent in that snapshot until its own append
returns. `HandedWasApproved` needs that every copy of an approved request carries a
decision made within its shelf life. `DecisionIsMadeOnce` needs `AnswersStand`:
until a write raises or is torn, an answer told is in memory and on disk.

**`JournalProofs`** (5 theorems, from `JournalAssumption`). The argument is about what
each change of the file does to the last snapshot of every entity: a whole line sets
one, a glued line makes one fall back at most, a compaction changes none.
`LossIsBoundedByTears` needs a budget that counts ahead, `LossesArePaidFor`: an
unterminated line at the end of the file is a loss still to come, so it is paid for
when it is torn and not when the next append glues itself on. `Refinement` maps every
step of the file to a step of `DurableMap` or to none: `WrittenLands` and `TornLands` show
that a written and a torn line do to the restored snapshots, and to those of the file
without its open line, what `Appended` and `AppendTorn` say.

**`LivePathProofs`** (7 theorems, from `LivePathAssumption`). Three arguments run side
by side. `Provenance`: what memory, the journal or a call holds for a reference exists
at Razorpay under it, and what exists only grows. `OneCreator`: a link or an auth link
is created once in all, so one call at most may announce it. `CallIsAlone`: as long as
nothing overlaps a dispatch, the only call there is knows that its reference was told to
nobody, and an order beyond the first was paid for by an answer that was lost. The journal
needs two more. `ToldIsKept`: until an append is torn, what callers were told is in memory
and on disk. `CreditsAreCovered` is the account of the approval queue over again: a
recovery that was reported, or is about to be by a poll, is in a snapshot that stays, or
was swallowed by a tear that swallows nothing else; and what a restart would restore as
reconciled is reconciled in memory. `StoreStep` is what every append, failed or not, does
to that account.

**`SessionProofs`** (4 theorems, from `PolicyAssumption`, `SessionAssumption`). What
the engine makes of an action is that action at another moment (`MovedIsSame`,
`ScheduledIsSame`: one rule at most moves it, because no outage is known to the
console and no action is both a charge and a contact). So its subject and type,
and with them the need for approval, follow it from the plan through the desk and the
scheduler to the ledger: `EntriesAreSigned` and `LedgerIsSigned`. They are
inductive with `AmountsStand` (nothing that happens to the batch changes what is
at stake) and `ReleasedWereApproved`. `Permitted` says what a ruling that is no
denial means, and `AdvanceFacts` that only what was so permitted is executed. The
caps need that the engine, which counts a sequence of moments, counts the contacts on
the ledger: `MomentsCount`, by a bijection.

**`DetectionProofs`** (from `DetectionAssumption`), two theorems. `OneCluster`: signals
are looked at in the order they start (`ForemostKept`), so whatever a new one meets
was there at the moment it starts; two groups it meets would have met each other at
that moment. That is why a signal may join the first group that fits, and it needs
`InOrder`: nothing grouped starts after what is still to be grouped.

`EveryIncident`, for any grid: the property compares the signals with the outages of
the whole list of thick buckets, while the scan knows only the ones it has read. The
invariant `SInv` says, for the segment that is scanned, that the buckets read are the
first of that list (`ThickBegins`), that the baseline is a healthy rate, that the open
run is the outage that is going on, from its first bucket (`IsOpenRun`), and that up
to that bucket what has been said is right (`RightlySaid`); of every segment passed
that all that has been said is right, and of every other that nothing has been said. A
baseline stays healthy because only buckets that are no outage move it and a step of
the average stays between its ends (`Between`, `LearnedIsHealthy`); any two healthy
baselines agree on every bucket (`BadBreaches`); and the price of a run against the
learned baseline lies between its prices against the lowest and the highest healthy rate
(`WhatItCosts`), which is why the property has a lower and an upper bound. The
sums are those of `SumFunction`: `SumOfOneMore` adds one value to one, whichever order
it adds in, by the smallest set for which that would fail.

**`BacktestProofs`** (6 theorems, from `DetectionAssumption`, `BacktestAssumption`
and `PolicyAssumption`; the second says that a batch is one the scenario can hold and
that its truths were drawn for it). Three invariants stand side by side.

`TInv` is about the planning. What a playbook or a strategy makes of a subject is a
list of actions about it (`ExpandProposes`, `TailProposes`, `MandateProposes`,
`ReceivableProposes`), gathered over the batch (`Gather`, from what flattening gives:
`FlattenList`). Whoever counts as planned for is spoken about or excused, and
`plan_the_rest` speaks about everybody else; that is `EveryFailureIsPlannedFor`.

`BInv` is about the order. What an arm did is a walk: where it stands, with what
pending, settled and sent, determines its next entry and where it stands then
(`StepExecute`, `StepWithhold`), and the ledger of each planned arm is such a walk from
the start. Two walks over the same proposals work the same actions in one order
whatever becomes of each (`SameOrder`), so one cannot be done before the other, and up
to the first ruling that refuses or moves something they stand at the same place
(`SameStanding`). `EInv` is about the entries: they are about the batch and bring in no
more than was owed (`BroughtIsOwed`), which gives `TypeOK`.

`AuditFindsNothing` follows from `BInv`. The audit rules again on each action, at the
moment it was moved to and with what had landed by then; the arm looked at the
actions in another order, in which some of those contacts were not sent yet and some
were sent for a later moment. No rule but the caps reads contacts, so what has to be
shown is that the caps do not speak. Of the contacts in a window that ends where one
of them landed, take the last that was looked at (`LastOfThem`): all the others were on
record by then (`OnRecord`), and in its own window (`LastLook`), so as it was permitted
there are fewer of them than the cap (`SubjectCap`, `CustomerCap`). Promises
can only have expired in the meantime (`NobodyNewObjects`), and one look lands
where no rule moves anything (`Landing`).

`OneProblemOneCluster` and `EveryIncidentIsSignalled` are lifted from
`DetectionProofs`; the second is about grids, and that every batch comes with one is
part of `BacktestAssumption`.

Each inductive invariant was checked with TLC on the run's instance before it
was proved.

Only model-checked: the liveness properties (`EverythingSettles`, `EveryAskIsAnswered`,
`PaidIsBooked`), as TLAPS has neither fairness nor `ENABLED`. Every other property of
a passing run is stated by a theorem.

## Not modelled, and what comes next

In order:

1. An abstract *payment booked once* for `LivePath` to implement, and its
   composition with `Session`: `dispatch` and `advance` act on the same entries,
   and a re-ruling that moves an action changes its reference.
2. The console's jobs. `diagnose` and `measure` run in threads without the lock, so
   what they leave behind may be of the batch before the one the page shows, and
   `build` resets the diagnoses but not the measurement.

Left out for good: prompts and evidence formatting (a model's answer is any
answer), the provider's own request, the odds of the simulator and the data of the
generator (every outcome with odds is possible; a batch is an input), the scans of
mandates and receivables (they price a report that nothing reads), the scores, the
ledger's sums, the list of violations an arm prints (it is read off the ledger's
rulings), routes and printing. The codec is left out as well: snapshots are
opaque. Of `StandingApproval` the pseudo-random share of refusals is left out.
