# Vibe Writer in TLA+

This directory holds the verification project of Vibe Writer: TLA+ modules translated from the
TypeScript source, TLC configurations that check them on small instances, and TLAPS proofs that
every safety property of the runs holds for every value of the constants. `PROJECT.json` lists the
runs, the mutants, the theorems, the hazards of the code and, for every definition that stands for
code, the lines it stands for.

    tlc -workers 2 -config JobStore.cfg MCJobStore      # one run: <cfg> and its MC module
    tlapm JobStore_proofs.tla                           # the proofs of one module

Contents: 1. the system; 2. the modules; 3. the runs; 4. the proofs; 5. what the checks found;
6. what is left out; 7. the plan.

## 1. The system

A user submits a topic; a worker plans an outline, lets the user confirm it if asked to, writes the
chapters with a model and a search service, reviews them, and stores an article. Work takes minutes
and costs money, so it has to survive crashes, deployments and lost connections without being
done twice.

    browser -> Next.js API -> PostgreSQL: jobs, runs, events, effects, outbox
                                 |  outbox rows polled by dispatchers
                                 v
                              BullMQ / Redis -> worker slot: claim, heartbeat, execute, settle
                                                   |  LangGraph graph: checkpoints, journalled calls
                                                   v
                              providers, and PostgreSQL again: article, final event, outcome
                                 |  events polled by sequence number
    browser <- SSE --------------+

Two more pipelines hang on the same tables and the same kind of queue. A completed run (or a signal
the user records) may be handed to a memory extractor, whose proposals an editor reviews into memories
of the workspace (no job reads them yet). Completed runs are also sampled for evaluation: reviewers turn articles into cases, and
a worker has the cases judged, or the memory extractor calibrated, under a paid budget.

### Inventory

| Component | State it keeps | Operations | What makes it correct | Here |
|---|---|---|---|---|
| Job store (`db/repositories/jobs.ts`) | tables jobs, runs, job_events, run_effects, trace_spans | create, claim, heartbeat, cancel, append event, reserve and finish effect | one owner at a time; a late owner changes nothing; the event log has no gap; cancellation wins | `JobStore` |
| Terminal transactions (`terminals.ts`) | the same, and articles, job_interrupts | complete, terminate, pause, with replay | job, run, event, article and effects change together and agree | `JobStore` |
| User commands (`commands.ts`) | job_commands, job_interrupts | reply to the outline question | one open question, one answer to each, one resume request per answer | `JobStore` |
| Outbox, dispatcher (`outbox.ts`, `outbox-dispatcher.ts`, `process-runtime.ts`) | outbox_events | claim batch, enqueue, mark published, release | at least once; one owner per row; late calls harmless | `Outbox` |
| Queue (`bullmq-adapter.ts`; BullMQ is external) | messages in Redis | take, acknowledge, retry, stall, retain | a job with work left has a delivery on its way | `WriteSystem` |
| Runner (`runner.ts`) | per slot: claim, abort signal, monitor | claim, look, execute, heartbeat, settle | no double execution; each race of claim, cancel and loss ends in the right settlement | `WriteSystem` |
| Checkpoint attempts (`checkpoints.ts`, `checkpoint-runtime`) | checkpoint_attempts, saver tables | prepare, fork, activate, put, putWrites, advance | one recovery point, which resolves, never goes back and keeps confirmed work | `Checkpoints` |
| Effect journal (`effect-journal.ts`) | run_effects through the store | reserve, call, finish | a paid request is sent once; the journal does not lie; nobody builds on an unrecorded answer | `EffectJournal` |
| Writing graph, policy (`workflow-runtime`) | WorkflowState | ten nodes, their edges, retries | every path ends; what is exported was judged; refusals are declared; the outline is the confirmed one | `WorkflowGraph` |
| Executor (`workflow-executor.ts`) | none of its own | invoke, replay, resume | replays from the recovery point; emits progress under stable keys | parts of `WorkflowGraph`, `Checkpoints` |
| Tool loop, writer, research (`agent-core`) | the conversation and the tool budget of one chapter | model rounds, search, distillation, page extraction, diagrams | the budget is the chapter's, across retries, rewrites and takeovers; only recorded evidence is cited; a writer is not refused by its own keys | `ToolLoop` |
| Memory extraction (`memory-extractions.ts`, `memory-reconciliations.ts`, `worker/memory-extraction.ts`, `memory-bullmq-adapter.ts`) | tasks, attempts, effects with their cost, outbox rows | request, claim, heartbeat, reserve, ask, finish, store, complete, resolve, requeue | a source is charged once unless the owner says the first call failed; budgets hold; what is stored has an answer behind it | `MemoryExtraction` |
| Memories, signals, retention (`memories.ts`, `memory-source-signals.ts`, `memory-core`, `memory-retention.ts`) | candidates, memories, revisions, tombstones, signals | submit, review, delete, erase, expire in batches | a slot has one memory; what is erased stays erased everywhere; retention ends | `MemoryStore` (consent labels: section 6) |
| Evaluation curation (`eval-sampling.ts`, `eval-candidates.ts`, `eval-materialization.ts`) | policies, cursors, candidates, suites, cases | configure, scan, review, materialize, activate, expire | a case is the text a reviewer approved, and ends with its retention | `EvalCuration` |
| Evaluation queue, runs, calibrations (`evals.ts`, `memory-calibrations.ts`, `apps/eval`, `eval-core`) | eval_runs, trials, authorizations | enqueue, claim, heartbeat, execute trials, commit report, fail, inline runs | a report is whole or absent; paid work is what was approved as far as its executor compares the two, and within its budget | `EvalRuns` |
| Articles (`articles.ts`) | articles, versions | edit, restore | optimistic concurrency | edits, as far as `EvalCuration` needs them |
| Event stream (`durableSse.ts`, `useJobStream.ts`) | the client's last `_seq` | poll, replay, reconnect | every event once, in order, up to the terminal one | not yet |
| Workspaces, traces, configuration, providers, UI | - | reads, wiring, HTTP, rendering | - | no (section 6) |

How they interact. Every change of a job is a PostgreSQL transaction that locks the job row first.
The API and the worker never call each other: the API writes a job (or a reply) *and* an outbox
row in one transaction; a dispatcher in some worker process turns the row into a BullMQ message under
an id that is fixed per row; a slot that takes the message claims the job and receives a lease and a
random token, with which it signs every later transaction. The graph's checkpoints live in a third
place, a saver that knows nothing of leases, and a pointer in PostgreSQL says which of them count.
Providers are outside every transaction.

What is hard. Every arrow of the picture may be lost, late or doubled; a worker may lose its lease
between any two awaits and go on, unaware; the user cancels at any time; a process may die
anywhere; settings relate clocks in four places (lease 60 s, heartbeat 15 s, queue lock 120 s,
eight attempts with exponential backoff: `apps/worker/src/config.ts`, `bullmq-adapter.ts`). The
hazards in `PROJECT.json` list each of these at the line where it bites, with the property that would
notice.

## 2. The modules

    JobLifecycle            what the API promises about a job (abstract)
       ^ implemented by
    JobStore            P   the tables and every transaction on them
       ^ extended by, and implemented by
       +-- WriteSystem  P   + Outbox (INSTANCE) + queue + runner slots
       +-- Checkpoints  P   + saver storage + fenced checkpointer
       +-- EffectJournal P  + provider calls
    Outbox              P   rows, dispatchers, the queue's memory of ids
    WorkflowGraph       P   the graph, with the journal's and the saver's rules as it meets them
    ToolLoop            P   the write node's inside: model, tools, budget, journalled requests
    MemoryExtraction    P   from a source to stored proposals: outbox, queue, workers, owner
    MemoryStore         P   from a proposal to a memory and its end: reviewers, erasure, retention
    EvalCuration        P   from an article to a case: sampler, reviewers, owner, retention
       ^ extended by
       EvalRuns         P   + requests, workers, trials, reports, calibrations

Modules marked P have theorems, in modules that extend them (section 4): `JobStore_proofs`, `Outbox_proofs`, `WriteSystem_proofs`,
`MemoryStore_proofs` and `MemoryExtraction_proofs` each for the module of that name, `Recovery_proofs` for `Checkpoints` and
`EffectJournal`, `Writing_proofs` for `WorkflowGraph` and `ToolLoop`, `EvalRuns_proofs` for `EvalCuration` and `EvalRuns`.
`MC*` modules give TLC its definitions (symmetry sets, kinds of jobs, constraints).

**JobStore.** Each variable is a table, each action a repository method; the guard is what the method's
`WHERE` and early returns demand. A transaction that rolls back is no step. `claimJob` creates the run
and the token together, so the token is represented by the attempt number: `jobs[j].leaseToken = r`.
The essential generality is in `RunStep`: any identity ever issued may call any fenced transaction at
any time, so no assumption about how workers behave is hidden in the model. `Tick` is the database clock;
`jobs[j].lease` counts down and 0 means expired. `ReserveResult`, `FinishResult`, `HeartbeatResult`,
`ReplyResult` and `Authorization` are the answers of the methods, which the modules above use.

**JobLifecycle** is the contract in the API's terms: a status, a number of starts and the wish to stop.
`JobStore!ImplementsLifecycle` maps status, number of runs and `cancelRequested` to it.

**Outbox.** `Dispatch(d)` is the loop of `process-runtime.ts`: claim a batch, run its `dispatch()` calls
concurrently, wait for all. `Misfortune(d)` is everything that may go wrong in it: the queue or
the database throws, before or after it did its work, a process dies, a lock times out under a slow
call. `queue` is what BullMQ remembers of ids, so that a second `add` of a known id does nothing until
retention forgets it.

**WriteSystem** composes all processes. A slot's `pc` names the await it is at; between two awaits
anybody may act. `claim -> look -> ack/retry` is the refused claim, `claim -> execute -> complete |
pause | fail | cancel -> ack/retry` the other; `monitor` is what the heartbeat has seen. The queue is
external and modelled from its options; three facts about time that the configuration fixes are
guards, each with its reason beside it: a live owner's lease does not run out except by a fault
(`LeaseClock`), the last of eight attempts starts after an orphaned lease has run out (`BackoffEnds`), and a
dead process's message is found stalled after its lease has run out (`StalledCheck`).

**Checkpoints.** Per run a storage thread (`checkpoints`, `writes`), a row of `checkpoint_attempts` and a
checkpointer whose `put` and `putWrites` are four and three awaits long. `confirmed` and
`confirmedWrites` remember what a call that returned has promised. Checkpoint ids are numbers in the
order of their timestamps, picked freely among the unused ones: workers' clocks differ, and a successor
may well make an id older than the latest.

**EffectJournal.** A call is reserve, send, finish, with a crash, an abort, a throwing database or a lost lease
anywhere; the three adapters of `effect-journal.ts` share this shape. `sent` and `answer` are the
provider's side of the story.

**WorkflowGraph.** One step is one node execution ending in its update; the text of a chapter is the write
attempt that made it. The model keeps what the nodes count and reset, because the graph's termination and
its effect keys depend on exactly that. `Ask` is the journal's rule as nodes meet it: under a key that
has a row nothing is sent, and the node takes the thrown error for a failure of its service.
`PutCheckpoint` and `CutShort` are checkpoints put behind the running graph and an execution that ends and is
replayed from the newest one; `CrashChapters` bounds the size of the articles in which that is explored.

**ToolLoop.** `loop` is the `ToolLoopRunner.run` in progress. A response brings a list of calls (`todo`); they are answered
one after the other: `Decline` (unknown tool, empty or repeated id, budget spent), `RefuseInput` (arguments the tool
refuses), or the tool itself. A search asks twice, for results and for their distillation, each under a key of attempt,
round and position (`Scope`); `Journalled` is the journal's rule for those keys. Around the loop, `StartAttempt` and `SendBack` are the
write node and the reviews; `Persist`, `LoseLease` and `TakeOver` put the chapter behind and bring an older one back, which is
where budgets and keys could go wrong. `Abort` is the lost lease or the cancellation, seen at a request or at
a progress event. `spent`, `executed`, `cut` and `refused` are history for the properties only.

**MemoryExtraction.** A source has one task, the task has attempts, an attempt has at most one effect. A delivery's `stage` names
the await of `MemoryExtractionService.run` it is at. `QueueStep` is outbox and BullMQ (with stalls, exhausted
attempts and the delivery that is acknowledged because another worker is busy), `SourceStep` is everything done to the
source from outside: erasure, expiry, the owner's resolution of an uncertain call, the requeue. `bill` is the provider's side.

**MemoryStore.** Every action is one repository call. A reviewer decides from a page (`pages`) that is read in one step and used in
a later one; what the page showed is recorded in the revision, so that properties can compare. `ExpireSignals` and
`ExpireMemories` alternate as `maintenanceLoop` does, in batches of the oldest rows.

**EvalCuration** and **EvalRuns.** The first is the sampler's scan with its cursor, the review, and the owner's suite; articles
go on being edited, time passes, candidates expire. The second adds requests, one delivery per worker with each await
a step, a lease that lapses, releases that are deployed between an approval and its execution, and the provider's
budget inside an execution. A release stands for code revision, tracked calibration plan (`Plan`) and configured model (`Model`):
graders and component suites compare all of it (`SameExecution`), the calibration executor compares the plan (`SamePlan`) and
sees the model in the first answer (`Calibrated`). `Cases` and `Valid` tie them: what is judged is what the suite still holds.

Mutated definitions ("Mutant: ...") stand before the definition they would replace. No behaviour of a
specification uses them; they are the plausible bugs that each property is shown to notice.

## 3. The runs

| Run | Checks | Instance, and why it is enough |
|---|---|---|
| `JobStore` | `TypeOK`, `OneOwner`, `CancellationWins`, `NoOrphanEffect`; `EventLogIsSound` (no gap, attempts in order, nothing after the terminal event); `RecordsAgree` (article and outcome, one open question, open spans are explained); `HistoryIsFinal` (events, settled effects and concluded jobs do not change; nothing is started after a cancellation); refinement of `JobLifecycle` | One job, 3 claims, 2 progress keys, 2 effects, 2 questions, 2 payloads, lease of 2 ticks. No transaction reads another job's rows, so one job is the general case. Three claims give a stale, a lost and a present owner; two keys and payloads give replay and collision; two questions give a second interrupt after the first was answered. |
| `Outbox` | `RowsAreSound` (exclusive locks, no false `published`), `LateCallsAreHarmless`, `EventuallyPublished` | 2 rows, 2 dispatchers, batch 2, 2 attempts, 3 faults: one more fault than a row has attempts, so that giving up and surviving both happen, in one batch. |
| `WriteSystem` | `SystemIsConsistent` (types, exclusive runs), `UnfinishedJobHasDelivery`, `DeliveredJobConcludes` | 1 job with a question, 2 slots, 1 dispatcher, 2 faults, 3 queue attempts, 4 claims. Two slots are what a race between a redelivery and a living owner takes; two faults cover each pair (crash then throw, stall then crash, ...). |
| `Checkpoints` | `CheckpointsAreConsistent` (types, one recovery point, pointers resolve), `ConfirmedWorkSurvives`, `RecoveryPointIsFenced` | 3 runs, 2 ids, 1 task, 2 graph versions, 1 question: a chain of two forks, a stale run beside it, an id on either side of another. |
| `EffectJournal` | `JournalIsConsistent` (the journal is truthful, answers used are recorded, uncertainty has a cause), `ProviderAskedOnce` | 3 runs, 1 key with 2 requests, 1 question, 2 faults: a retry in one run, a takeover and a resume, each with a crash. Keys do not interact. |
| `WorkflowGraph` | `GraphIsConsistent` (types, declared failures, approved outline, bounded effort), `ExportedIsJudged`, `AcceptedTextIsKept`, `GraphConcludes` | Up to 2 chapters, jobs with and without the user, 1 revision, 2 calls in trouble: one chapter passes while the other is refused, in both rounds. One crash at any node with any checkpoint behind it, in articles of one chapter: with two it would be the same node twice. |
| `ToolLoop` | `ConversationIsSound`, `ChapterBudgetHolds`, `RefusalsAreExplained`, `EvidenceIsRecorded` | 3 tools (limits 1, 1 and none), 2 rounds, 2 calls a response and 2 in all, 2 attempts, 1 request in trouble, 1 takeover: the second attempt meets a spent budget, and a takeover meets used keys. Names of calls are interchangeable. |
| `MemoryExtraction` | `ExtractionIsConsistent` (types; what the queue takes for done is settled), `BilledOnce`, `BudgetHolds`, `ErasedLeavesNothing`, `StoredIsAccountedFor` | A run and a signal, 2 workers, 2 attempts, lease of 2 ticks, 2 faults. Two reservations of 2 exceed the day's limit of 3, so a second call waits for what the first one cost. Faults are explored while one source is extracted (`FaultsOfOne`), since two sources share nothing but the day's budget. |
| `MemoryStore` | `StoreIsConsistent` (types, a memory is readable with its approval, a replacement names what it replaces), `NothingOutlivesItsSource`, `DeletionTakesTheSlot`, `DueIsErased` | Two runs and a signal that propose three contents, of two kinds, for one slot, two reviewers of which one is an owner, 2 memories, batches of 1, instants 0 to 2: two rows fall due at once and one has to wait. |
| `EvalRuns` | `EvalIsConsistent` (types, whole reports, what is acknowledged is over), `CasesAreReviewed`, `PaidWorkIsAuthorized`, `ExpiredContentIsRefused` | One article that two policy versions select (a suite of two cases with their own deadlines), three requests (article, calibration, command line) of which one is made (`OneRequest`: they share no row), 2 workers, 3 deliveries, 2 faults; 3 releases, the second with another model to calibrate, the third with another plan (the third only under a calibration). |
| `QualityFails` | *violated*: `QualityDoesNotFail` | 1 chapter, nothing goes wrong: section 5. |
| `ExpiryBlocked` | *violated*: `ExpiryErases` | 1 worker, nothing goes wrong, expiry is called for ever: section 5. |

Each conjunction is of named parts, which the modules state and comment one by one. `PROJECT.json` gives one mutant for each property; the
modules hold further ones that break the other parts of a conjunction: `ClaimableWhileWaiting`, `KeepSpans`, `DoubtAllEffects`, `FailedRuns`
(`JobStore`), `UnlockedAsIs`, `AfterErrorMark` (`Outbox`), `AnyActiveAttempt`, `MayActivateLate`, `PrepareAnyGraph` (`Checkpoints`),
`TakeOldAnswer`, `SendUnfenced` (`EffectJournal`), `FailedSilently`, `ReviseOnce`, `RetryTwice` (`WorkflowGraph`), `DispatchableInAttempt`
(`ToolLoop`), `ClaimUnlimited`, `WithinSource`, `AcceptProposal`, `RequeueErased` (`MemoryExtraction`), `StoresAccepted`, `TransitionOverOccupied`
(`MemoryStore`), `ConfigureAlongside`, `AcknowledgeBusy`, `MayReserveWhenUncertain`, `CalibratedOnwards` (`EvalCuration`, `EvalRuns`).

Bounds are named: `MaxRuns`, `MaxFaults`, `MaxCheckpoint`, `MaxCrashes`, `MaxMishaps`, `MaxRevisions`, `MaxAttempts` (`ToolLoop`),
`MaxTakeovers`, `MaxMemories`, `Horizon`, `MaxRelease` and the sizes of the sets. Names that only label data are interchangeable
and identified by symmetry in the safety runs, never where a liveness property is checked; constraints (`FaultsOfOne`, `OneRequest`, `OneDraft`)
stand in the MC modules with their reasons. `CHECK_DEADLOCK FALSE` everywhere: all work may be finished, and users need not act.

Fairness. `Outbox!Fairness`: the loop of every dispatcher polls for ever (`process-runtime.ts`, `dispatchLoop`), a call in
flight returns (the clients have timeouts), retry times and lock timeouts come. `WriteSystem!SystemFairness` adds:
a slot goes on to its next await, an execution ends (provider calls have timeouts, the graph is shown to end by
`GraphConcludes`), a free slot takes a waiting message (BullMQ serves them in order and slots free up), backoffs and stall checks
come, and the lease of a dead owner runs out. All of it is weak fairness. Nothing is assumed of users, and no
fault is assumed to happen. Heartbeats need no fairness: a missed one is a fault.

`FairGraphSpec`: a node that may run does (the executor invokes the graph and waits). `MemoryStore!Spec`: the two kinds of
maintenance batch run again and again (`maintenanceLoop`); reviewers, owners and erasures are not obliged to anything. `EvalRuns!ExpirySpec`
is the exception: nothing in the repository calls `expireDue` in a loop, and the fairness is assumed for the sake of the
argument, as even such a caller would not get through.

What the liveness runs say precisely: `EventuallyPublished`, a row is published, or was given up after at
least as many faults as it has attempts. `DeliveredJobConcludes`, a queued job ends, asks the user or is told
to stop, unless the outbox or the queue gave up one of its deliveries after more faults than the stalls the
queue forgives; the stronger `AcceptedJobConcludes` of the design document does not hold (section 5). `GraphConcludes`, the graph
ends or waits for the user. `DueIsErased`, what is past its retention leaves no candidate and no memory.

## 4. The proofs

The runs check a formula on an instance first; a theorem removes the bounds: any sets of jobs, keys, payloads, slots,
sources, tools, chapters or requests, any number of claims, retries and faults. Of the 40 properties of the runs that pass, 36 are
theorems: all but the four liveness properties.

### Assumptions

All of them are named, stand in the module that declares the constants, and are evaluated by TLC in its runs.

| Module | Assumptions | Justified by |
|---|---|---|
| `JobStore` | `MaxRunsAssumption`, `LeaseDurationAssumption`: positive numbers | a lease has a length; `MaxRuns` is a bound of the model and may be any |
| `WriteSystem` | `SystemAssumption`: batch sizes and attempts are positive, other bounds natural, `None` is no slot | options of the dispatcher and of BullMQ |
| `Outbox` | `OutboxAssumption`: the same for the outbox alone | `outbox.ts` options |
| `Checkpoints` | `MaxCheckpointAssumption`: there is a checkpoint id | - |
| `EffectJournal` | `MaxFaultsAssumption`, `NoneIsNoOutcome` | SQL `null` is neither of the two outcomes |
| `ToolLoop` | `LoopAssumption`: limits belong to the three tools, bounds are natural; `NoneIsNoLoop` | `tool-loop.ts` options |
| `MemoryStore` | `StoreAssumption`: runs and signals are different, owners review, retention and batch are positive, a content has one kind; `NoneIsNoRow` | `memories.ts`, `memory-retention.ts` |
| `MemoryExtraction` | `BudgetAssumption`: a cost is a natural number, the source's limit is at most the day's; `ExtractionAssumption`: options are positive, **the sources are finitely many**; `NoneIsNoResolution` | `memory-extraction.ts` options, `cost-budget.ts`; the day's total is a sum over the sources |
| `WorkflowGraph` | `GraphAssumption`: an outline may have a chapter, the other bounds are natural | bounds of the model |
| `EvalCuration` | `CurationAssumption`: runs and policy versions are finitely many, batch and horizon are positive, `None` is no reviewer, retention fits the horizon (a bound of the model); `NoneIsNoRow` | **tables are finite** (a stamp is counted from the runs before it, a cursor is a maximum); `sourceBatchSize` of a policy is positive; SQL `null` is neither a row nor a user |
| `EvalRuns` | `RunsAssumption`: limits, costs and sizes are natural, the first release is 1 and every release has its plan and its model, **prices are finitely many** | budget options of `apps/eval`; one call may exceed the budget by the dearest price |

### JobStore

| Theorem | Says | Argument |
|---|---|---|
| `TypeCorrect` | `Spec => []TypeOK` | `TypeOK` is inductive. One step per action; lemmas for each kind of table update (row with one column replaced, bulk update to `uncertain`, appended claim, released job, ...). |
| `OneOwnerHolds` | `Spec => []OneOwner` | `TypeOK /\ OneOwner` is inductive. The last two conjuncts of `OneOwner` are the strengthening: "the owner is the newest run" is needed because a claim closes only runs it finds running and appends one, and "time left on a lease implies running" because the token and the lease are cleared together when the job is released. `JobRowAfter`, `ClaimAfter`, `RunAfter` say what an action leaves in one job's rows, `OtherJobsUntouched` that it leaves the others alone. |
| `CancellationWinsHolds` | `Spec => []CancellationWins` | Inductive together with `TypeOK`: each transaction that would conclude otherwise is authorized, and authorization looks at the request under the same row lock. |
| `NoOrphanEffectHolds` | `Spec => []NoOrphanEffect` | Inductive with `TypeOK` and `OneOwner`: when a run stops being the owner, the same transaction settles its reserved effects (`DoubtedEffects`); `OneOwner` says no other run could own one. |
| `RunsAreBoundedHolds` | `Spec => []RunsAreBounded` | The guard of a claim; `Checkpoints` and `EffectJournal` index their rows by it. |
| `EventLogIsSoundHolds` | `Spec => []EventLogIsSound` | Job by job (`LogOfJob`). The log is exactly the numbers below `nextEventSeq`, so a new event is the last one. Strengthening (`EventsAreExplained`): no event is of a later run than the newest, an announced question is on record, a job that does not exist has no log. With `OneOwner` an authorized writer is the newest run, which gives the order of attempts. |
| `RecordsAgreeHolds` | `Spec => []RecordsAgree` | Job by job (`RecordsOfJob`), on top of the log. Questions: `awaiting_input` exactly when one is open, and it is the newest run's. Articles: never without the `done` event and the completed run. Spans: a running one belongs to the newest run, with a reserved effect or a completed run. |
| `HistoryIsFinalHolds` | `Spec => HistoryIsFinal` | Action property: under the invariants above each transaction only adds to the log, writes an effect only while it is reserved, and adds nothing but the end once cancellation is requested. |
| `LifecycleImplemented` | `Spec => ImplementsLifecycle` | Initial states map to the initial state; under `TypeOK` and `CancellationWins` every action is a step of `JobLifecycle` or leaves its variables as they are (`ShownByLifecycle`). `CancellationWins` serves creation, whose row must not already carry a request; that nothing concludes against a request comes from the guards of the transactions themselves. |

### The modules above the store

Three theorems carry everything above over: `SystemImplementsStore`, `CheckpointsImplementStore` and `JournalImplementsStore` say
that the composed specification implies `JobStore!Spec`, with the store's variables as they are. Each step of a composed module is
a transaction of the store or leaves its tables alone; the work is in showing that a slot, a saver or a call only uses an
identity that was issued, which is what `RunStep` quantifies over. The proof modules below use the store's invariants through them.

| Theorem | Says | Argument |
|---|---|---|
| `ProviderAskedOnceHolds`, `JournalIsConsistentHolds` (`JournalTypeCorrect`, `KeysAreExplainedHolds`) | a request is sent once per key; the journal is truthful | Neither is inductive. `KeyIsExplained` is, key by key: a call that is about to send holds the row of its own run, and nothing was sent; one that is about to record has what the provider answered; one that returned has what its row says. Since a row never changes its run, no other call can be at the same place under the key. |
| `OutboxInvariant`, `RowsAreSoundHolds`, `LateCallsAreHarmlessHolds` | one owner per row, and late calls change nothing | A lock token is the number of claims of its row, so it grows; calls in flight hold tokens of claims that were made, and no two hold the same (`TokensAreUnique`). What the queue remembers, and what a call is about to mark, was delivered. |
| `SystemInvariant`, `SystemIsConsistentHolds`, `UnfinishedJobHasDeliveryHolds` | slots, queue and store agree; an open job has a delivery | `UnfinishedJobHasDelivery` says *some* delivery, which is not inductive: an acknowledged one may have been the last. `RequestIsServed` names it: the newest row that asked for work, the creation or the latest reply, is not handed over yet, in the queue, or given up by it; a slot acknowledges it only after it saw the job stopped, and only a newer row reopens a job. `Outbox`'s invariant is used through INSTANCE. |
| `CheckpointInvariant`, `CheckpointsAreConsistentHolds`, `ConfirmedWorkSurvivesHolds`, `RecoveryPointIsFencedHolds` | one recovery point, that resolves, moves forward under the lease, and keeps what was confirmed | The heart is `ForkIsCurrent`: while a run is the newest, what it prepared to fork from is what the active attempt points to, since no other run passes a fence. `SaverIsInStep` and `ForkIsInStep` tie the awaits of a saver to its thread, `WritesAreCopied` follows pending writes while they are copied one by one. |

### WorkflowGraph, ToolLoop, MemoryStore, MemoryExtraction, EvalCuration, EvalRuns

| Theorem | Says | Argument |
|---|---|---|
| `GraphInvariant`, `GraphIsConsistentHolds`, `ExportedIsJudgedHolds`, `AcceptedTextIsKeptHolds` | refusals are declared, efforts bounded, what is exported was judged as it stands, accepted text stays | `GraphInv` says the same (`StateIsSound`) of the state held and of the checkpoint stored, so that `CutShort` needs no argument of its own. Its heart is `ChapterIsInStep`: the place of a chapter before, at or after the current one says which reviews its text has had, which no node records. `EffortIsCounted` ties the attempts ever made to those of the passes so far: `EffortIsBounded` is not inductive, as it does not say what is left to spend while a text is awaited. `NodeIsInStep` ties phase and node. `AcceptedTextIsKept` follows, as a chapter that passed is `Behind` the pass and no node writes there. |
| `LoopInvariant`, `ConversationIsSoundHolds`, `ChapterBudgetAlwaysHolds`, `RefusalsAreExplainedHolds`, `EvidenceIsRecordedHolds` | the conversation follows the protocol; the chapter's budget holds; refusals and evidence are accounted for | The usage that the chapter, its newest checkpoint and the running loop carry bounds what was really run (`UsageIsWithin`, `LoopIsWithin`): that is why it is counted before the handler and put back with a takeover. `KeysAreExplained`: a used key belongs to a finished attempt, to one that was cut short, or to a request the loop has already made, so a fresh one is free. |
| `StoreInvariant`, `StoreIsConsistentHolds`, `NothingOutlivesItsSourceHolds`, `DeletionTakesTheSlotHolds` | one memory a slot, shown with its approval; erasure and deletion are complete | The invariant is about the four tables alone (`TablesInv`), so a transaction is taken statement by statement. Strengthening: revisions hang on a memory of their slot and on a candidate (what the foreign keys cascade along), memory ids are given in order, a candidate has a source. |
| `ExtractionInvariant`, `ExtractionIsConsistentHolds`, `BilledOnceHolds`, `BudgetAlwaysHolds`, `ErasedLeavesNothingHolds`, `StoredIsAccountedForHolds` | a source is charged once, within its budget, and what is stored has an answer | `ExtractionInv` has a part per table or actor: `StoreInv` (only the last attempt runs, only the last can be charged unless the owner settled it), `WorkerInv` (the await a worker is at says what its attempt's row shows and whether the provider charged, *also after the lease is lost*, as others only let that row drift to uncertain or resolve it), `OwnersInv` (no two workers at one attempt), `JobsInv`, `LimitsInv`. The owner's evidence may exceed a reservation, so `LimitsInv` has the same hypothesis as `BudgetHolds`. |
| `EvalInvariant`, `EvalIsConsistentHolds`, `CasesAreReviewedHolds`, `PaidWorkIsAuthorizedHolds`, `ExpiredContentIsRefusedHolds` | a case is what was reviewed; a report is whole or absent; paid work was asked for or approved, as far as executors compare it; expired content is refused | `CurationInv` is inductive by itself; of it the runs use `SuiteStays`, that a suite's dataset is fixed once. `RunsInv` speaks of one request (`RequestFits`: row, trials, event, message and authorization agree) and of one worker (`WorkerFits`: what it holds at its await, *also after its lease lapsed*) at a time; `Kept` is what a step must leave alone for all others. `ReportOnce` (what is reported has left what is left to do, each case once) makes the trials of a report as many as its cases; `BudgetFits` knows that only a call that was let through can exceed the limit, and that then no further one is. `OneForeignCall`: a calibration whose release has another model than the approved one has made no call yet, or one that halted it; the bound of one paid call in `PaidIsWhatWasApproved` is not inductive without the halt. |

Sums over finite sets (the budget's `SourceTotal` and `DayTotal`) need care: the library's induction theorems take an operator as
a parameter and cannot be instantiated here, so a claim about a sum is proved by a smallest counterexample, from the
well-foundedness of strict inclusion on finite sets (`MinimalSet`); that a finite set of numbers has a maximum (`MaxOf`) likewise. The row-wise style (`TaskFits`, `LogOfJob`, `JobIsSound`, ...)
keeps function updates out of the arguments: lemmas say what an action leaves in one row, and that the others are unchanged.

### What is only model-checked

- The liveness properties `EventuallyPublished`, `DeliveredJobConcludes`, `GraphConcludes` and `DueIsErased`. The prover
  has no rules for ENABLED and fairness that would carry these arguments.
- The counterexamples of section 5: a theorem can only say what holds.

## 5. What the checks found

The first two are runs expected to be violated, with the quotation in `PROJECT.json`; TLC's trace is the
shortest scenario.

1. **A refused chapter may fail the job** (`QualityFails`). `light_review` builds its effect key from a counter that a rewrite
   resets; the second review of a chapter collides with the first one's key in the journal, is taken for a failure of
   the service, and the review after a full review's refusal fails the job, where the policy promises a warning.
2. **Evaluated content does not expire** (`ExpiryBlocked`). Expiry deletes the cases of a materialized candidate, and the
   trials of a report refer to their cases with `ON DELETE restrict`: the whole batch rolls back, again and again.
   ADR 0034 says that the transaction deletes the case.

The others have a configuration of their own here, to be run by hand; each ends in a counterexample.

3. **A span outlives its run** (`tlc -config JobStoreSpans.cfg MCJobStore`). `completeClaim` and `pauseClaim` settle reserved
   effects as uncertain but leave their spans `running`; ADR 0022 says a span must end with its run. Takeover and
   failure do close them, which `OpenSpansAreExplained` checks.
4. **A cancellation may never arrive** (`tlc -config CancelStuck.cfg MCWriteSystem`). The owner dies after the request was
   recorded. Claims refuse a job that is being cancelled, and only an owner settles a cancellation: the job stays `running`.
5. **A job may be left behind** (`tlc -config DeliveryExhausted.cfg MCWriteSystem`). Once BullMQ has used up the attempts or
   stalls of its message, nothing looks at the job again; the design document relies on a reconciler that the source does
   not contain.
6. **The third revision fails the job** (`tlc -config RevisionFails.cfg MCWorkflowGraph`), for the same reason as the
   first, in `revise_outline`.
7. **An uncertain extraction may have no way out** (`tlc -config UncertainExit.cfg MCMemoryExtraction`). A call succeeded, and the lease ran
   out before its proposals were stored: the task is uncertain, and `memory-reconciliations.ts:343` resolves uncertain
   calls only. Decision 0048 (line 23) promises an explicit way out, 0042 (line 21) a reconciliation.
8. **A review may overwrite a revision its reviewer never saw** (`tlc -config BlindOverwrite.cfg MCMemoryStore`). A resolution compares
   the memory the page named (`memories.ts:647-662`) and not its revision; ADR 0038, decision 3, asks for a compare-and-swap.
9. **A memory may go without a tombstone** (`tlc -config TombstoneMissing.cfg MCMemoryStore`). A review that meets a candidate past its
   retention deletes it, already materialized or not, and the memory goes with it by cascade, before the sweep could leave a
   tombstone; ADR 0038, decision 5, promises one for every materialized memory.
10. **A release nobody approved may calibrate** (`tlc -config UnapprovedRelease.cfg MCEvalRuns`). A release is deployed between approval and
   execution. The calibration executor rebuilds the expected execution from the approval itself
   (`memory-calibration-queue-executor.ts:49-76`) and is given no code revision of its own (`queue-runtime.ts:76-79`), so that any worker
   with the approved plan executes the run, and its report bears the approved revision. ADR-0051, decisions 1 and 3, binds the
   approval to code revision and model; ADR-0052, decision 6, asks that the worker's model match, which is seen only in
   the first paid answer (`memory-calibration-execution.ts:555`). `PaidWorkIsAuthorized` says what remains true.

## 6. What is left out, and why

- *Reads that change nothing* (`getRun`, lists, traces) and repository methods only tests call (`settleClaim`, `transitionJob`).
- *Authorization by workspace* (`scoped.ts`, `workspaces.ts`): one more conjunct in each `WHERE`, the same for all.
- *Text*: prompts, parsing of model answers, word counts, payload sizes, safe fetching of pages. Their
  outcomes are nondeterministic results.
- *Idempotent creation across jobs*: `CreateJob` takes PostgreSQL's unique index as given; runs use one job.
- *Malformed outbox payloads*: no transaction of the repository writes one.
- *Start-up and shut-down order* of the worker, health server, configuration, migrations, roles, UI: wiring and I/O.
- *The progress events of the graph* are `AppendRunEvent` with any key at any time in `JobStore`; their order within a graph
  execution is not tied to `WorkflowGraph`.
- *recursionLimit*: the graph is invoked with LangGraph's limit at 100 node executions; the attempts per chapter are
  bounded by `EffortIsBounded`, the steps of one invocation are not counted yet.
- *A thrown write attempt*: a service that throws after some tool calls returns no usage (`graph.ts:428`), so the retry starts
  with the budget from before; `ChapterBudgetHolds` counts the attempts that returned and the one in progress.
- *Replies across questions*: a reply names its job and not its question, so one delayed past the next question answers that one
  (`commands.ts`, line 81); the two questions would have to be told apart by the user's intent, which `JobStore` does not record.
- *Consent*: a signal, a candidate and a proposal carry the basis and the policy version under which they were made; they
  are labels that no transition compares. Scope checks of memories are one more conjunct in a query.
- *A delivery that meets a busy worker* is acknowledged, and *a requeue writes no outbox row*: `MemoryExtraction` models
  both, and leaves open, as the code does, whether anybody comes back; no liveness is claimed for extraction.
- *The quality gate, scores, baselines and statistics* of the evaluation: arithmetic on results. The gap between `finished_at`, taken
  inside the completing transaction, and that transaction's commit is in `EvalCuration`'s two steps, but one run is
  sampled in the run, so a cursor that passes over a later commit is not checked.
- *A fresh budget per execution*: an evaluation run that is claimed again starts with an unspent budget, and attempts are not
  limited; `PaidWorkIsAuthorized` bounds one execution.
- *Text that only the browser keeps*, restoring of article versions, trace reads: no other actor depends on them.

## 7. The plan

In this order; what exists is marked.

1. [done] `JobStore`, `JobLifecycle`, `Outbox`, `WriteSystem`, `Checkpoints`, `EffectJournal`, `WorkflowGraph`.
2. [done] The first theorems: types, ownership, cancellation, effects, refinement.
3. [done] `ToolLoop`: budgets of a chapter across attempts, with the journal's keys.
4. [done] `MemoryExtraction`, `MemoryStore`; `EvalCuration`, `EvalRuns`.
5. [done] The theorems about every safety property of every run, and that the three modules above `JobStore` implement it.
6. `EventStream`: `durableSse.ts` polling by `_seq`, reconnects, replay, and the client's reducer in `useJobStream.ts`, on `JobStore`'s log;
   abstract specification: a client sees a growing prefix of the log, up to the terminal event.
7. `OutlineReview`: the user's replies with the question they were meant for, delayed and repeated; the step count of one
   invocation against `recursionLimit`.
8. `Articles`: edits and restores with an expected revision. `ProcessRuntime`: start-up and shut-down.
