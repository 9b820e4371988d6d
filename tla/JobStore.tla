------------------------------ MODULE JobStore ------------------------------
(***************************************************************************)
(* The durable job store of packages/db: the PostgreSQL tables that hold a *)
(* writing job and the repository transactions of jobs.ts, terminals.ts    *)
(* and commands.ts that change them.                                       *)
(*                                                                         *)
(* Every transaction locks the job row (SELECT ... FOR UPDATE, or an       *)
(* UPDATE whose WHERE clause is the guard) before it reads anything else,  *)
(* so one transaction is one atomic action.  A transaction that throws     *)
(* rolls back and is therefore no step.                                    *)
(*                                                                         *)
(* claimJob creates a run row and a random lease token together and        *)
(* neither ever changes, so a LeaseIdentity (jobId, runId, leaseToken) is  *)
(* represented by the attempt number r of its run: jobs[j].leaseToken = r  *)
(* says that the job row carries the token of attempt r.  Actions on       *)
(* behalf of a run may be called with ANY identity ever issued: a worker   *)
(* that lost its lease and wakes up late is just another caller.           *)
(***************************************************************************)
EXTENDS Naturals, Sequences, FiniteSets

CONSTANTS
    Jobs,           \* identities of the rows of table jobs
    RequestKeys,    \* (workspace, idempotency key) pairs of create requests
    ProgressKeys,   \* idempotency keys of the graph's progress events
    EffectKeys,     \* keys of external calls (model, search, tool)
    Interrupts,     \* external ids of outline_review interrupts
    Payloads,       \* contents told apart by a fingerprint
    None,           \* SQL null, where a field is not a number
    MaxRuns,        \* bound: claims of one job
    LeaseDuration   \* leaseDurationMs, in clock ticks

ASSUME MaxRunsAssumption == MaxRuns \in Nat \ {0}

\* The attempt numbers of a job's runs.
Attempts == 1 .. MaxRuns
ASSUME LeaseDurationAssumption == LeaseDuration \in Nat \ {0}

VARIABLES
    jobs,           \* table jobs
    runs,           \* table runs: statuses in attempt order
    jobEvents,      \* table job_events
    runEffects,     \* table run_effects
    traceSpans,     \* table trace_spans (the span an effect opens)
    jobInterrupts,  \* table job_interrupts
    jobCommands,    \* table job_commands, in creation order
    articles,       \* table articles: the source run, NoRun when absent
    outboxEvents    \* table outbox_events: rows inserted with the business facts

vars == <<jobs, runs, jobEvents, runEffects, traceSpans, jobInterrupts,
          jobCommands, articles, outboxEvents>>

-----------------------------------------------------------------------------
(* Rows                                                                    *)

NoRun == 0      \* a null lease_token or run_id; attempts start at 1

TerminalStatus == {"completed", "failed", "cancelled"}
JobStatus == {"absent", "queued", "running", "awaiting_input"} \cup TerminalStatus
RunStatus == {"running"} \cup TerminalStatus
TerminalEvent == {"done", "cancelled", "error"}
EventType == {"progress", "outline_ready"} \cup TerminalEvent
EffectStatus == {"absent", "reserved", "succeeded", "failed", "uncertain"}
SpanStatus == {"absent", "running", "succeeded", "failed", "uncertain"}
InterruptStatus == {"absent", "pending", "replied", "cancelled"}

JobRow == [status : JobStatus, key : RequestKeys \cup {None},
           cancelRequested : BOOLEAN, leaseToken : Nat,
           lease : 0 .. LeaseDuration, nextEventSeq : Nat]

\* The idempotency key of an event is its type and `key': the graph's own key
\* for progress, the interrupt for outline_ready, None for a terminal event.
EventRow == [seq : Nat, type : EventType,
             key : ProgressKeys \cup Interrupts \cup {None},
             run : Nat, payload : Payloads \cup {None}]

EffectRow == [status : EffectStatus, run : Nat, request : Payloads \cup {None}]
SpanRow == [status : SpanStatus, run : Nat]
InterruptRow == [status : InterruptStatus, run : Nat]
CommandRow == [interrupt : Interrupts, payload : Payloads]

\* Idempotency keys of outbox rows: job:{id}:enqueue:v1,
\* job:{id}:resume:{interrupt}:v1 and run:{id}:memory-extraction:v2.
EnqueueKey(j) == [kind |-> "enqueue", job |-> j, interrupt |-> None, run |-> NoRun]
ResumeKey(j, i) == [kind |-> "resume", job |-> j, interrupt |-> i, run |-> NoRun]
MemoryKey(j, r) == [kind |-> "memory", job |-> j, interrupt |-> None, run |-> r]
OutboxKey == [kind : {"enqueue", "resume", "memory"}, job : Jobs,
              interrupt : Interrupts \cup {None}, run : Nat]

AbsentJob == [status |-> "absent", key |-> None, cancelRequested |-> FALSE,
              leaseToken |-> NoRun, lease |-> 0, nextEventSeq |-> 0]

Init ==
    /\ jobs = [j \in Jobs |-> AbsentJob]
    /\ runs = [j \in Jobs |-> <<>>]
    /\ jobEvents = [j \in Jobs |-> {}]
    /\ runEffects = [j \in Jobs |->
           [k \in EffectKeys |-> [status |-> "absent", run |-> NoRun, request |-> None]]]
    /\ traceSpans = [j \in Jobs |->
           [k \in EffectKeys |-> [status |-> "absent", run |-> NoRun]]]
    /\ jobInterrupts = [j \in Jobs |->
           [i \in Interrupts |-> [status |-> "absent", run |-> NoRun]]]
    /\ jobCommands = [j \in Jobs |-> <<>>]
    /\ articles = [j \in Jobs |-> NoRun]
    /\ outboxEvents = {}

-----------------------------------------------------------------------------
(* Authorization shared by the fenced transactions                         *)

\* WHERE status = 'running' AND lease_token = token
OwnsRow(j, r) == jobs[j].status = "running" /\ jobs[j].leaseToken = r

\* ... AND lease_expires_at > clock_timestamp()
HoldsLease(j, r) == OwnsRow(j, r) /\ jobs[j].lease > 0

\* The run row must still be running under the same token.
ActiveRun(j, r) == r \in DOMAIN runs[j] /\ runs[j][r] = "running"

\* Mutant: the identity only has to be one that was issued for the job.
AuthorizedByIdentity(j, r) == r \in DOMAIN runs[j] /\ ~jobs[j].cancelRequested

\* Mutant: the cancellation request is not looked at.
AuthorizedByLease(j, r) == HoldsLease(j, r) /\ ActiveRun(j, r)

\* The check every fenced write makes before it writes.
Authorized(j, r) ==
    HoldsLease(j, r) /\ ~jobs[j].cancelRequested /\ ActiveRun(j, r)

\* What appendRunEvent, reserveRunEffect and finishRunEffect answer to a
\* caller that is not authorized; "lease_lost" comes before "cancel_requested".
Authorization(j, r) ==
    IF ~HoldsLease(j, r) THEN "lease_lost"
    ELSE IF jobs[j].cancelRequested THEN "cancel_requested"
    ELSE "authorized"

-----------------------------------------------------------------------------
(* Row updates shared by several transactions                              *)

EventAt(j, type, key, r, p) ==
    [seq |-> jobs[j].nextEventSeq, type |-> type, key |-> key, run |-> r, payload |-> p]

InsertEvent(j, type, key, r, p) ==
    jobEvents' = [jobEvents EXCEPT ![j] = @ \cup {EventAt(j, type, key, r, p)}]

\* Mutant: duplicates are looked for within the current run only.
HasEventOfRun(j, type, key) ==
    \E e \in jobEvents[j] : e.type = type /\ e.key = key /\ e.run = jobs[j].leaseToken

HasEvent(j, type, key) == \E e \in jobEvents[j] : e.type = type /\ e.key = key

\* The job row leaves `running' and gives up its lease; an event took a seq.
ReleaseJob(j, status) ==
    jobs' = [jobs EXCEPT ![j].status = status, ![j].leaseToken = NoRun,
                         ![j].lease = 0, ![j].nextEventSeq = @ + 1]

SetRun(j, r, status) == runs' = [runs EXCEPT ![j][r] = status]

\* Mutants: effects of dead runs are left reserved; settled ones are doubted too.
KeepEffects(j, R) == UNCHANGED runEffects
DoubtAllEffects(j, R) ==
    runEffects' = [runEffects EXCEPT ![j] = [k \in EffectKeys |->
        IF @[k].status # "absent" /\ @[k].run \in R
        THEN [@[k] EXCEPT !.status = "uncertain"] ELSE @[k]]]

\* UPDATE run_effects SET uncertain WHERE job AND run AND status = 'reserved'
DoubtEffects(j, R) ==
    runEffects' = [runEffects EXCEPT ![j] = [k \in EffectKeys |->
        IF @[k].status = "reserved" /\ @[k].run \in R
        THEN [@[k] EXCEPT !.status = "uncertain"] ELSE @[k]]]

\* Mutant: spans of dead runs are left running.
KeepSpans(j, R) == UNCHANGED traceSpans

\* UPDATE trace_spans SET uncertain WHERE job AND run AND status = 'running'
DoubtSpans(j, R) ==
    traceSpans' = [traceSpans EXCEPT ![j] = [k \in EffectKeys |->
        IF @[k].status = "running" /\ @[k].run \in R
        THEN [@[k] EXCEPT !.status = "uncertain"] ELSE @[k]]]

-----------------------------------------------------------------------------
(* JobRepository                                                           *)

RequestIsNew(k) == \A other \in Jobs : jobs[other].key # k

\* createJob: one row per (workspace, idempotency key), with its outbox row.
\* A key that already has a job only returns that job.
CreateJob(j, k) ==
    /\ jobs[j].status = "absent"
    /\ RequestIsNew(k)
    /\ jobs' = [jobs EXCEPT ![j] = [AbsentJob EXCEPT !.status = "queued", !.key = k]]
    /\ outboxEvents' = outboxEvents \cup {EnqueueKey(j)}
    /\ UNCHANGED <<runs, jobEvents, runEffects, traceSpans, jobInterrupts,
                   jobCommands, articles>>

\* Mutants: claims do not see the cancellation request; a job that waits for an
\* answer can be claimed; an expired lease is not taken over.
ClaimableWhenCancelled(j) ==
    \/ jobs[j].status = "queued"
    \/ jobs[j].status = "running" /\ jobs[j].lease = 0
ClaimableWhileWaiting(j) ==
    ~jobs[j].cancelRequested /\ jobs[j].status \in {"queued", "awaiting_input"}
ClaimableWhenQueued(j) == ~jobs[j].cancelRequested /\ jobs[j].status = "queued"

Claimable(j) ==
    /\ ~jobs[j].cancelRequested
    /\ \/ jobs[j].status = "queued"
       \/ jobs[j].status = "running" /\ jobs[j].lease = 0

\* Mutants: the runs of earlier attempts are left as they are; all are failed.
KeptRuns(j) == runs[j]
FailedRuns(j) == [r \in DOMAIN runs[j] |-> "failed"]

\* UPDATE runs SET failed WHERE job AND status = 'running'
ClosedRuns(j) ==
    [r \in DOMAIN runs[j] |-> IF runs[j][r] = "running" THEN "failed" ELSE runs[j][r]]

\* claimJob: a first claim, a claim after a reply, or a takeover of an expired
\* lease.  Whatever an earlier attempt left open is closed in the same step.
ClaimJob(j) ==
    /\ Len(runs[j]) < MaxRuns
    /\ Claimable(j)
    /\ jobs' = [jobs EXCEPT ![j].status = "running",
                            ![j].leaseToken = Len(runs[j]) + 1,
                            ![j].lease = LeaseDuration]
    /\ DoubtEffects(j, Nat)
    /\ DoubtSpans(j, Nat)
    /\ runs' = [runs EXCEPT ![j] = Append(ClosedRuns(j), "running")]
    /\ UNCHANGED <<jobEvents, jobInterrupts, jobCommands, articles, outboxEvents>>

\* The database clock runs down a lease that nobody renews.
Tick(j) ==
    /\ jobs[j].lease > 0
    /\ jobs' = [jobs EXCEPT ![j].lease = @ - 1]
    /\ UNCHANGED <<runs, jobEvents, runEffects, traceSpans, jobInterrupts,
                   jobCommands, articles, outboxEvents>>

\* heartbeatClaim: renewal never revives an expired lease and never extends
\* the lease of a job whose cancellation was requested.
HeartbeatClaim(j, r) ==
    /\ Authorized(j, r)
    /\ jobs' = [jobs EXCEPT ![j].lease = LeaseDuration]
    /\ UNCHANGED <<runs, jobEvents, runEffects, traceSpans, jobInterrupts,
                   jobCommands, articles, outboxEvents>>

\* What heartbeatClaim answers: unlike Authorization, a cancelled claim whose
\* lease has expired still hears "cancel_requested".
HeartbeatResult(j, r) ==
    IF HoldsLease(j, r) /\ ~jobs[j].cancelRequested THEN "renewed"
    ELSE IF OwnsRow(j, r) /\ jobs[j].cancelRequested THEN "cancel_requested"
    ELSE "lease_lost"

\* requestCancellation of a job that no worker runs: terminal at once.
CancelParkedJob(j) ==
    /\ jobs[j].status \in {"queued", "awaiting_input"}
    /\ InsertEvent(j, "cancelled", None, NoRun, None)
    /\ jobInterrupts' = [jobInterrupts EXCEPT ![j] = [i \in Interrupts |->
           IF @[i].status = "pending" THEN [@[i] EXCEPT !.status = "cancelled"] ELSE @[i]]]
    /\ jobs' = [jobs EXCEPT ![j].status = "cancelled", ![j].cancelRequested = TRUE,
                            ![j].leaseToken = NoRun, ![j].lease = 0,
                            ![j].nextEventSeq = @ + 1]
    /\ UNCHANGED <<runs, runEffects, traceSpans, jobCommands, articles, outboxEvents>>

\* requestCancellation of a running job: only recorded, the worker settles it.
CancelRunningJob(j) ==
    /\ jobs[j].status = "running"
    /\ ~jobs[j].cancelRequested
    /\ jobs' = [jobs EXCEPT ![j].cancelRequested = TRUE]
    /\ UNCHANGED <<runs, jobEvents, runEffects, traceSpans, jobInterrupts,
                   jobCommands, articles, outboxEvents>>

\* appendRunEvent: a known key is replayed (same payload) or refused (another).
AppendRunEvent(j, r, k, p) ==
    /\ Authorized(j, r)
    /\ ~HasEvent(j, "progress", k)
    /\ InsertEvent(j, "progress", k, r, p)
    /\ jobs' = [jobs EXCEPT ![j].nextEventSeq = @ + 1]
    /\ UNCHANGED <<runs, runEffects, traceSpans, jobInterrupts, jobCommands,
                   articles, outboxEvents>>

AppendResult(j, r, k, p) ==
    IF Authorization(j, r) # "authorized" THEN Authorization(j, r)
    ELSE IF ~HasEvent(j, "progress", k) THEN "appended"
    ELSE IF \E e \in jobEvents[j] : e.type = "progress" /\ e.key = k /\ e.payload = p
         THEN "replayed" ELSE "collision"

\* reserveRunEffect: the effect key is taken before the provider is called.
ReserveRunEffect(j, r, k, p) ==
    /\ Authorized(j, r)
    /\ runEffects[j][k].status = "absent"
    /\ runEffects' = [runEffects EXCEPT ![j][k] =
           [status |-> "reserved", run |-> r, request |-> p]]
    /\ traceSpans' = [traceSpans EXCEPT ![j][k] = [status |-> "running", run |-> r]]
    /\ UNCHANGED <<jobs, runs, jobEvents, jobInterrupts, jobCommands, articles,
                   outboxEvents>>

ReserveResult(j, r, k, p) ==
    LET effect == runEffects[j][k] IN
    CASE Authorization(j, r) # "authorized" -> Authorization(j, r)
      [] OTHER ->
           IF effect.status = "absent" THEN "reserved"
           ELSE IF effect.request # p THEN "collision"
           ELSE IF effect.status = "succeeded" THEN "previously_succeeded"
           ELSE IF effect.status = "failed" THEN "previous_failed"
           ELSE IF effect.status = "uncertain" \/ effect.run # r THEN "uncertain"
           ELSE "already_reserved"

\* finishRunEffect: the outcome of the call, written by the run that reserved it.
FinishRunEffect(j, r, k, outcome) ==
    /\ Authorized(j, r)
    /\ runEffects[j][k].status = "reserved" /\ runEffects[j][k].run = r
    /\ traceSpans[j][k].status = "running" /\ traceSpans[j][k].run = r
    /\ runEffects' = [runEffects EXCEPT ![j][k].status = outcome]
    /\ traceSpans' = [traceSpans EXCEPT ![j][k].status = outcome]
    /\ UNCHANGED <<jobs, runs, jobEvents, jobInterrupts, jobCommands, articles,
                   outboxEvents>>

FinishResult(j, r, k, outcome) ==
    LET effect == runEffects[j][k] IN
    CASE Authorization(j, r) # "authorized" -> Authorization(j, r)
      [] OTHER ->
           IF effect.status = "absent" THEN "not_found"
           ELSE IF effect.run # r THEN "not_owner"
           ELSE IF effect.status = outcome THEN "replayed"
           ELSE IF effect.status = "reserved" THEN "finished"
           ELSE "not_owner"

-----------------------------------------------------------------------------
(* TerminalRepository                                                      *)

\* completeClaim: article, done event, job and run in one transaction, with
\* the memory extraction request when the worker asks for it.  The effects the
\* run left reserved become uncertain; its running spans are not touched.
CompleteClaim(j, r, memory) ==
    /\ Authorized(j, r)
    /\ articles' = [articles EXCEPT ![j] = r]
    /\ InsertEvent(j, "done", None, r, None)
    /\ ReleaseJob(j, "completed")
    /\ DoubtEffects(j, {r})
    /\ SetRun(j, r, "completed")
    /\ outboxEvents' = IF memory THEN outboxEvents \cup {MemoryKey(j, r)} ELSE outboxEvents
    /\ UNCHANGED <<traceSpans, jobInterrupts, jobCommands>>

\* completeClaim called again by the run that wrote the article: the same
\* answer, and a memory extraction request that was not there yet.
ReplayCompletion(j, r) ==
    /\ jobs[j].status = "completed"
    /\ r \in DOMAIN runs[j] /\ runs[j][r] = "completed"
    /\ articles[j] = r
    /\ outboxEvents' = outboxEvents \cup {MemoryKey(j, r)}
    /\ UNCHANGED <<jobs, runs, jobEvents, runEffects, traceSpans, jobInterrupts,
                   jobCommands, articles>>

\* Mutant: the outcome is taken for the event type.
TerminalEventNamed(outcome) == outcome
TerminalEventOf(outcome) == IF outcome = "failed" THEN "error" ELSE "cancelled"

\* terminateClaim: after a cancellation request only `cancelled' is accepted.
TerminateClaim(j, r, outcome) ==
    /\ HoldsLease(j, r) /\ ActiveRun(j, r)
    /\ jobs[j].cancelRequested => outcome = "cancelled"
    /\ InsertEvent(j, TerminalEventOf(outcome), None, r, None)
    /\ ReleaseJob(j, outcome)
    /\ DoubtEffects(j, {r})
    /\ DoubtSpans(j, {r})
    /\ SetRun(j, r, outcome)
    /\ UNCHANGED <<jobInterrupts, jobCommands, articles, outboxEvents>>

PendingInterrupts(j) == {i \in Interrupts : jobInterrupts[j][i].status = "pending"}

\* pauseClaim: the interrupt the graph stopped at becomes the job's pending
\* question.  Unique indexes refuse a known interrupt and a second pending one.
\* As in completeClaim the run's running spans are not touched.
PauseClaim(j, r, i) ==
    /\ Authorized(j, r)
    /\ jobInterrupts[j][i].status = "absent" /\ PendingInterrupts(j) = {}
    /\ jobInterrupts' = [jobInterrupts EXCEPT ![j][i] = [status |-> "pending", run |-> r]]
    /\ InsertEvent(j, "outline_ready", i, r, None)
    /\ ReleaseJob(j, "awaiting_input")
    /\ DoubtEffects(j, {r})
    /\ SetRun(j, r, "completed")
    /\ UNCHANGED <<traceSpans, jobCommands, articles, outboxEvents>>

-----------------------------------------------------------------------------
(* CommandRepository                                                       *)

\* submitOutlineReply: the reply names the job, not the interrupt; it answers
\* whichever interrupt is pending.  Command, interrupt, job and the resume
\* request commit together.
SubmitOutlineReply(j, p) ==
    /\ jobs[j].status = "awaiting_input"
    /\ \E i \in PendingInterrupts(j) :
          /\ jobCommands' = [jobCommands EXCEPT ![j] =
                 Append(@, [interrupt |-> i, payload |-> p])]
          /\ jobInterrupts' = [jobInterrupts EXCEPT ![j][i].status = "replied"]
          /\ outboxEvents' = outboxEvents \cup {ResumeKey(j, i)}
    /\ jobs' = [jobs EXCEPT ![j].status = "queued"]
    /\ UNCHANGED <<runs, jobEvents, runEffects, traceSpans, articles>>

\* What submitOutlineReply answers, from the latest command when none is pending.
ReplyResult(j, p) ==
    IF jobs[j].status = "absent" THEN "not_found"
    ELSE IF jobs[j].status = "awaiting_input" /\ PendingInterrupts(j) # {} THEN "queued"
    ELSE IF jobCommands[j] # <<>>
         THEN IF jobCommands[j][Len(jobCommands[j])].payload = p
              THEN "replayed" ELSE "collision"
    ELSE IF jobs[j].status \in TerminalStatus THEN "already_terminal"
    ELSE "not_awaiting_input"

\* getOutlineReply: the payloads committed for one interrupt.
OutlineReply(j, i) ==
    {p \in Payloads : /\ jobInterrupts[j][i].status = "replied"
                      /\ \E n \in DOMAIN jobCommands[j] :
                            jobCommands[j][n] = [interrupt |-> i, payload |-> p]}

-----------------------------------------------------------------------------

\* Every transaction a run may call with its identity.
RunStep(j, r) ==
    \/ HeartbeatClaim(j, r)
    \/ \E k \in ProgressKeys, p \in Payloads : AppendRunEvent(j, r, k, p)
    \/ \E k \in EffectKeys, p \in Payloads : ReserveRunEffect(j, r, k, p)
    \/ \E k \in EffectKeys, outcome \in {"succeeded", "failed"} :
          FinishRunEffect(j, r, k, outcome)
    \/ \E memory \in BOOLEAN : CompleteClaim(j, r, memory)
    \/ ReplayCompletion(j, r)
    \/ \E outcome \in {"cancelled", "failed"} : TerminateClaim(j, r, outcome)
    \/ \E i \in Interrupts : PauseClaim(j, r, i)

\* What the API, the queue consumer and the clock do to a job.
JobStep(j) ==
    \/ \E k \in RequestKeys : CreateJob(j, k)
    \/ ClaimJob(j)
    \/ Tick(j)
    \/ CancelParkedJob(j)
    \/ CancelRunningJob(j)
    \/ \E p \in Payloads : SubmitOutlineReply(j, p)

Next ==
    \E j \in Jobs : JobStep(j) \/ \E r \in DOMAIN runs[j] : RunStep(j, r)

Spec == Init /\ [][Next]_vars

-----------------------------------------------------------------------------
(* Properties                                                              *)

TypeOK ==
    /\ jobs \in [Jobs -> JobRow]
    /\ runs \in [Jobs -> Seq(RunStatus)]
    /\ jobEvents \in [Jobs -> SUBSET EventRow]
    /\ runEffects \in [Jobs -> [EffectKeys -> EffectRow]]
    /\ traceSpans \in [Jobs -> [EffectKeys -> SpanRow]]
    /\ jobInterrupts \in [Jobs -> [Interrupts -> InterruptRow]]
    /\ jobCommands \in [Jobs -> Seq(CommandRow)]
    /\ articles \in [Jobs -> Nat]
    /\ outboxEvents \in SUBSET OutboxKey

\* A job is executed by at most one run: the run rows in status `running' are
\* exactly the one whose token the running job row carries, and that run is
\* the latest attempt (claimJob closes the earlier ones, every release of the
\* job closes this one; jobs_running_lease_check).
OneOwner ==
    \A j \in Jobs :
        /\ \A r \in DOMAIN runs[j] :
              runs[j][r] = "running" <=> OwnsRow(j, r)
        /\ jobs[j].status = "running" <=> jobs[j].leaseToken # NoRun
        /\ jobs[j].status = "running" => jobs[j].leaseToken = Len(runs[j])
        /\ jobs[j].lease > 0 => jobs[j].status = "running"

\* The event log a client replays has no gap and no duplicate: the rows are
\* numbered 0 .. next_event_seq - 1, once each, and no idempotency key occurs
\* twice, however many attempts re-executed the same graph node.
LogHasNoGaps ==
    \A j \in Jobs :
        /\ {e.seq : e \in jobEvents[j]} = 0 .. jobs[j].nextEventSeq - 1
        /\ \A e, f \in jobEvents[j] :
              e.seq = f.seq \/ (e.type = f.type /\ e.key = f.key) => e = f

\* The log is in attempt order: a row written by one attempt is never followed
\* by a row of an earlier attempt, so a worker that lost its lease adds nothing
\* once its successor has written.
LogInAttemptOrder ==
    \A j \in Jobs : \A e, f \in jobEvents[j] :
        e.seq < f.seq /\ f.run # NoRun => e.run <= f.run

EventOfStatus(status) ==
    CASE status = "completed" -> "done"
      [] status = "failed"    -> "error"
      [] status = "cancelled" -> "cancelled"

\* The business status and the stream agree: a terminal job has exactly one
\* terminal event, of its own kind, and it is the last event; a job that is not
\* terminal has none (the client stops reading at the first one).
TerminalEventIsLast ==
    \A j \in Jobs :
        LET ends == {e \in jobEvents[j] : e.type \in TerminalEvent} IN
        IF jobs[j].status \in TerminalStatus
        THEN \E e \in ends :
                /\ ends = {e}
                /\ e.type = EventOfStatus(jobs[j].status)
                /\ e.seq = jobs[j].nextEventSeq - 1
        ELSE ends = {}

\* Once cancellation has been requested the job can only end cancelled: no
\* later completion, failure, pause or claim gets past the request.
CancellationWins ==
    \A j \in Jobs :
        jobs[j].cancelRequested => jobs[j].status \in {"running", "cancelled"}

\* An article exists exactly for a completed job, and it, the completed run and
\* the done event name the same attempt, the last one.
ArticleMatchesOutcome ==
    \A j \in Jobs :
        /\ articles[j] # NoRun <=> jobs[j].status = "completed"
        /\ articles[j] # NoRun =>
              /\ articles[j] = Len(runs[j])
              /\ runs[j][articles[j]] = "completed"
              /\ \E e \in jobEvents[j] : e.type = "done" /\ e.run = articles[j]

\* A job waits for input exactly while one interrupt is pending: raised by its
\* latest run, announced by an outline_ready event, and never two at a time.
OneOpenQuestion ==
    \A j \in Jobs :
        /\ jobs[j].status = "awaiting_input" <=> PendingInterrupts(j) # {}
        /\ \A i, k \in PendingInterrupts(j) : i = k
        /\ \A i \in PendingInterrupts(j) :
              /\ jobInterrupts[j][i].run = Len(runs[j])
              /\ \E e \in jobEvents[j] :
                    e.type = "outline_ready" /\ e.key = i /\ e.run = Len(runs[j])

\* No call stays open under a run that is over: a reserved effect belongs to
\* the run that now executes the job, so every effect of a dead, paused or
\* finished run is settled or uncertain.
NoOrphanEffect ==
    \A j \in Jobs : \A k \in EffectKeys :
        runEffects[j][k].status = "reserved" => ActiveRun(j, runEffects[j][k].run)

\* The open spans are those of open effects, and those left by the latest run
\* when it completed or paused: a takeover or a failure never leaves one.
OpenSpansAreExplained ==
    \A j \in Jobs : \A k \in EffectKeys :
        LET span == traceSpans[j][k] IN
        span.status = "running" =>
            /\ span.run = runEffects[j][k].run
            /\ span.run = Len(runs[j])
            /\ \/ runEffects[j][k].status = "reserved"
               \/ runEffects[j][k].status = "uncertain" /\ runs[j][span.run] = "completed"

\* What a client replays tells the story of the job: complete and without duplicates,
\* in the order of the attempts, and ending with the job's own end, if it has ended.
EventLogIsSound == LogHasNoGaps /\ LogInAttemptOrder /\ TerminalEventIsLast

\* The records that the terminal transactions, the pauses and the takeovers write in
\* several tables agree: article with outcome, question with status, span with effect.
RecordsAgree == ArticleMatchesOutcome /\ OneOpenQuestion /\ OpenSpansAreExplained

\* ADR 0022 and ADR 0028 say that no span stays running under a run that is
\* terminal.
NoRunningSpanUnderTerminalRun ==
    \A j \in Jobs : \A k \in EffectKeys :
        traceSpans[j][k].status = "running" => ActiveRun(j, traceSpans[j][k].run)

\* An external call is never retried under its key: an effect row, once there,
\* keeps its run and request, and a settled or uncertain one never changes.
EffectsStay(j) ==
    \A k \in EffectKeys :
        LET old == runEffects[j][k]
            new == runEffects'[j][k] IN
        /\ old.status # "absent" =>
              new.run = old.run /\ new.request = old.request /\ new.status # "absent"
        /\ old.status \in {"succeeded", "failed", "uncertain"} => new = old

EffectIsFinal == [][\A j \in Jobs : EffectsStay(j)]_vars

\* After a cancellation request the run gets nothing done but its own end: no
\* new progress, question, article or external call, and no more lease time.
NothingButTheEnd(j) ==
    jobs[j].cancelRequested =>
        /\ \A e \in jobEvents'[j] \ jobEvents[j] : e.type = "cancelled"
        /\ \A k \in EffectKeys :
              /\ runEffects[j][k].status = "absent" => runEffects'[j][k].status = "absent"
              /\ runEffects'[j][k].status \in {"succeeded", "failed"} =>
                    runEffects'[j][k] = runEffects[j][k]
        /\ PendingInterrupts(j)' \subseteq PendingInterrupts(j)
        /\ articles'[j] = articles[j]
        /\ jobs'[j].lease <= jobs[j].lease

QuietAfterCancel == [][\A j \in Jobs : NothingButTheEnd(j)]_vars

\* The past is not rewritten: events and commands are only added, and once a
\* job is terminal nothing about it changes but a memory extraction request.
OnlyAddsToHistory(j) ==
    /\ jobEvents[j] \subseteq jobEvents'[j]
    /\ \A n \in DOMAIN jobCommands[j] : jobCommands'[j][n] = jobCommands[j][n]
    /\ \A r \in DOMAIN runs[j] :
          runs[j][r] \in TerminalStatus => runs'[j][r] = runs[j][r]
    /\ jobs[j].status \in TerminalStatus =>
          /\ jobs'[j] = jobs[j] /\ runs'[j] = runs[j]
          /\ jobEvents'[j] = jobEvents[j] /\ articles'[j] = articles[j]
          /\ jobInterrupts'[j] = jobInterrupts[j]
          /\ runEffects'[j] = runEffects[j] /\ traceSpans'[j] = traceSpans[j]

HistoryIsKept == [][\A j \in Jobs : OnlyAddsToHistory(j)]_vars

\* No late call undoes what is settled: effects, events, commands, the end of a run
\* and of a job stand, and a cancellation request leaves nothing to add but its end.
HistoryIsFinal == EffectIsFinal /\ QuietAfterCancel /\ HistoryIsKept

\* The store implements the lifecycle the API shows.
Lifecycle == INSTANCE JobLifecycle WITH
    phase    <- [j \in Jobs |-> jobs[j].status],
    attempt  <- [j \in Jobs |-> Len(runs[j])],
    stopping <- [j \in Jobs |-> jobs[j].cancelRequested]

ImplementsLifecycle == Lifecycle!Spec
=============================================================================
