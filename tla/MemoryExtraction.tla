-------------------------- MODULE MemoryExtraction --------------------------
(***************************************************************************)
(* Memory extraction: a completed run or a signal the user recorded is     *)
(* handed to a model that proposes memories (packages/db,                  *)
(* memory-extractions.ts and memory-reconciliations.ts; apps/worker,       *)
(* memory-extraction.ts, memory-bullmq-adapter.ts and                      *)
(* memory-reconciliation.ts).  A worker claims the source under a lease,   *)
(* reserves the cost of one provider call, asks, records the outcome,      *)
(* stores the proposals and completes, each in an await of its own.  What  *)
(* became of a call may stay unknown; the workspace owner resolves it from *)
(* evidence.  A user may erase a signal at any moment.                     *)
(***************************************************************************)
EXTENDS Integers, Sequences, FiniteSets, Functions

CONSTANTS
    Runs, Signals,     \* completed runs and recorded signals, of one workspace
    Workers, Slots,    \* slots: the (kind, key) a proposal would fill
    None,
    MaxAttempts,       \* the workers' maxAttempts option
    OwnerAttempts,     \* values of maxAttempts in an owner's requeue
    MaxDeliveries,     \* attempts of a BullMQ job
    LeaseDuration,
    Reservation,       \* the estimated maximum cost of a call
    Costs,             \* costs a call may turn out to have
    SourceLimit, DayLimit,
    MaxFaults          \* bound: crashes, stalls, lost or throwing calls

ASSUME BudgetAssumption ==
    /\ Reservation \in Nat /\ Costs \subseteq Nat /\ None \notin Costs
    /\ SourceLimit \in Nat /\ DayLimit \in Nat /\ SourceLimit <= DayLimit

\* The options are positive; a workspace holds finitely many sources.
ASSUME ExtractionAssumption ==
    /\ MaxAttempts \in Nat \ {0} /\ LeaseDuration \in Nat \ {0}
    /\ MaxDeliveries \in Nat /\ MaxFaults \in Nat
    /\ None \notin Workers
    /\ IsFiniteSet(Runs \cup Signals)

Sources == Runs \cup Signals

VARIABLES
    source,      \* a signal is live, past its retention, or erased
    task,        \* memory_extraction_tasks, one row per source
    attempts,    \* memory_extraction_attempts, each with its only effect row
    candidates,  \* what submitProposal stored of a source: slot and attempt
    outbox,      \* the outbox event that requests the extraction
    job,         \* the BullMQ job the event was published as
    worker,      \* MemoryExtractionService.run, one delivery per worker
    bill,        \* history: what the provider charged for each attempt
    faults

vars == <<source, task, attempts, candidates, outbox, job, worker, bill, faults>>

Final == {"completed", "failed", "uncertain", "cancelled"}
TaskStatus == {"absent", "queued", "running"} \cup Final
TaskRow ==
    [status : TaskStatus, attempt : Nat, lease : 0 .. LeaseDuration, erased : BOOLEAN]
\* What an owner's resolution of a call keeps for audit.
ReconciliationRow ==
    [decision : {"failed", "succeeded"}, limit : OwnerAttempts \cup {None}]
ASSUME NoneIsNoResolution == None \notin ReconciliationRow
\* An attempt and its provider call, whose cost is known or counts as reserved.
AttemptRow ==
    [status : {"running"} \cup Final,
     effect : {"absent", "reserved", "succeeded", "failed", "uncertain"},
     cost : Costs \cup {None}, request : BOOLEAN, resolved : ReconciliationRow \cup {None}]
JobState == {"none", "waiting", "active", "done", "busy", "failed"}
JobRow == [state : JobState, tries : Nat, stalls : {0, 1}, holder : Workers \cup {None}]
Stages == {"idle", "load", "reserve", "ask", "finish", "fail", "submit", "complete", "catch"}
Outcome == {"succeeded", "failed", "uncertain", "unusable"}

NewTask == [status |-> "absent", attempt |-> 0, lease |-> 0, erased |-> FALSE]
NewAttempt ==
    [status |-> "running", effect |-> "absent", cost |-> None, request |-> FALSE,
     resolved |-> None]
Idle ==
    [stage |-> "idle", source |-> None, attempt |-> 0, effect |-> "none",
     outcome |-> None, cost |-> None, request |-> FALSE, retryable |-> FALSE,
     left |-> {}, error |-> "retry"]
NewJob == [state |-> "none", tries |-> 0, stalls |-> 0, holder |-> None]

Init ==
    /\ source = [s \in Sources |-> "live"]
    /\ task = [s \in Sources |-> NewTask]
    /\ attempts = [s \in Sources |-> <<>>]
    /\ candidates = [s \in Sources |-> {}]
    /\ outbox = [s \in Sources |-> "pending"]
    /\ job = [s \in Sources |-> NewJob]
    /\ worker = [w \in Workers |-> Idle]
    /\ bill = [s \in Sources |-> [n \in 1 .. MaxAttempts |-> None]]
    /\ faults = 0

Fault == faults < MaxFaults /\ faults' = faults + 1

-----------------------------------------------------------------------------
(* Delivery: the outbox event becomes one queue job, named after the source. *)

\* MemoryOutboxDispatcher.dispatchBatch: adding a job whose id exists does
\* nothing; the event may stay pending although the job was added.
Publish(s) ==
    /\ outbox[s] = "pending"
    /\ job' = [job EXCEPT ![s].state =
                 IF job[s].state = "none" THEN "waiting" ELSE job[s].state]
    /\ \/ outbox' = [outbox EXCEPT ![s] = "published"] /\ UNCHANGED faults
       \/ Fault /\ UNCHANGED outbox
    /\ UNCHANGED <<source, task, attempts, candidates, worker, bill>>

\* The queue refuses the event for the last time the dispatcher tries.
PublishFails(s) ==
    /\ outbox[s] = "pending"
    /\ Fault
    /\ outbox' = [outbox EXCEPT ![s] = "failed"]
    /\ UNCHANGED <<source, task, attempts, candidates, job, worker, bill>>

\* What the end of a delivery does to its job (processBullMqMemoryExtractionJob):
\* a thrown error is retried unless it is terminal.
Ended(row, end) ==
    [row EXCEPT !.state = IF end = "retry" /\ row.tries + 1 < MaxDeliveries THEN "waiting"
                          ELSE IF end \in {"retry", "terminal"} THEN "failed" ELSE end,
                !.tries = row.tries + 1, !.holder = None]

\* The delivery of worker w is over.  A worker that no longer holds the lock of
\* the job does nothing to it.
Return(w, end) ==
    LET s == worker[w].source IN
    /\ worker' = [worker EXCEPT ![w] = Idle]
    /\ job' = IF job[s].holder = w THEN [job EXCEPT ![s] = Ended(job[s], end)] ELSE job

\* BullMQ finds the lock of an active job expired: it delivers the job again, once.
Stalled(row) ==
    [row EXCEPT !.state = IF row.stalls = 0 THEN "waiting" ELSE "failed",
                !.stalls = 1, !.holder = None]

\* The lock expires under a worker that is alive and goes on.
Stall(s) ==
    /\ job[s].state = "active"
    /\ Fault
    /\ job' = [job EXCEPT ![s] = Stalled(job[s])]
    /\ UNCHANGED <<source, task, attempts, candidates, outbox, worker, bill>>

\* The worker process dies between two awaits.
Crash(w) ==
    LET s == worker[w].source IN
    /\ worker[w].stage # "idle"
    /\ Fault
    /\ worker' = [worker EXCEPT ![w] = Idle]
    /\ job' = IF job[s].holder = w THEN [job EXCEPT ![s] = Stalled(job[s])] ELSE job
    /\ UNCHANGED <<source, task, attempts, candidates, outbox, bill>>

\* An operator retries a job that is over in the queue.
Redeliver(s) ==
    /\ job[s].state \in {"done", "busy", "failed"}
    /\ Fault
    /\ job' = [job EXCEPT ![s] = [NewJob EXCEPT !.state = "waiting"]]
    /\ UNCHANGED <<source, task, attempts, candidates, outbox, worker, bill>>

-----------------------------------------------------------------------------
(* The task, its lease and its attempts.                                   *)

\* A provider effect in one of these states may have been charged.
MayBeCharged(attempt) == attempt.effect \in {"reserved", "succeeded", "uncertain"}

\* An attempt ends; a call it reserved and did not settle becomes uncertain.
EndAttempt(attempt, status) ==
    [attempt EXCEPT !.status = status,
        !.effect = IF status = "uncertain" /\ attempt.effect = "reserved"
                   THEN "uncertain" ELSE attempt.effect]

Present(s) == source[s] = "live"

Expired(s) == task[s].status = "running" /\ task[s].lease = 0

Last(s) == attempts[s][task[s].attempt]
EndLast(s, status) ==
    [attempts[s] EXCEPT ![task[s].attempt] = EndAttempt(Last(s), status)]

\* Mutants: an expired lease is taken over whatever its call may have cost; the
\* worker's limit is not applied to a requeued task.
TakenOver(s) ==
    /\ task[s].status \in {"absent", "queued"} \/ Expired(s)
    /\ task[s].attempt < MaxAttempts
ClaimUnlimited(s) ==
    \/ task[s].status \in {"absent", "queued"}
    \/ Expired(s) /\ ~MayBeCharged(Last(s))

\* claimExtraction: a new attempt can be opened.
Claimable(s) ==
    /\ \/ task[s].status \in {"absent", "queued"}
       \/ Expired(s) /\ ~MayBeCharged(Last(s))
    /\ task[s].attempt < MaxAttempts

\* The attempts a claim leaves behind: one whose lease expired has ended.
Abandoned(s, status) ==
    IF Expired(s) THEN EndLast(s, status) ELSE attempts[s]

\* MemoryExtractionService.run up to the claim it obtains.
Claim(w, s) ==
    /\ worker[w].stage = "idle" /\ job[s].state = "waiting"
    /\ Present(s) /\ Claimable(s)
    /\ LET n == task[s].attempt + 1 IN
       /\ task' = [task EXCEPT ![s].status = "running", ![s].attempt = n,
                               ![s].lease = LeaseDuration]
       /\ attempts' = [attempts EXCEPT ![s] = Append(Abandoned(s, "failed"), NewAttempt)]
       /\ worker' = [worker EXCEPT ![w] =
                       [Idle EXCEPT !.stage = "load", !.source = s, !.attempt = n]]
    /\ job' = [job EXCEPT ![s].state = "active", ![s].holder = w]
    /\ UNCHANGED <<source, candidates, outbox, bill, faults>>

\* Mutant: a claim that finds the task busy is not told from one that finds it over.
AlwaysDone(s) == "done"

\* `busy' is a normal return too: the queue retries neither.
Acknowledged(s) ==
    IF Present(s) /\ task[s].status = "running" /\ ~Expired(s) THEN "busy" ELSE "done"

\* The claim finds nothing to do and the delivery ends normally: the source is
\* gone, another worker is at it, the task is over, its lease expired with a call
\* that may have been charged, or its attempts are used up.
ClaimNothing(s) ==
    /\ job[s].state = "waiting"
    /\ \/ ~Present(s) /\ UNCHANGED <<task, attempts>>
       \/ /\ Present(s)
          /\ task[s].status \in Final \/ (task[s].status = "running" /\ ~Expired(s))
          /\ UNCHANGED <<task, attempts>>
       \/ /\ Present(s) /\ ~Claimable(s)
          /\ task[s].status \in {"absent", "queued"} \/ Expired(s)
          /\ LET end == IF Expired(s) /\ MayBeCharged(Last(s)) THEN "uncertain" ELSE "failed" IN
             /\ task' = [task EXCEPT ![s].status = end, ![s].lease = 0]
             /\ attempts' = [attempts EXCEPT ![s] = Abandoned(s, end)]
    /\ job' = [job EXCEPT ![s] = Ended(job[s], Acknowledged(s))]
    /\ UNCHANGED <<source, candidates, outbox, worker, bill, faults>>

\* The claim throws before it is committed.
ClaimThrows(s) ==
    /\ job[s].state = "waiting"
    /\ Fault
    /\ job' = [job EXCEPT ![s] = Ended(job[s], "retry")]
    /\ UNCHANGED <<source, task, attempts, candidates, outbox, worker, bill>>

\* Database time: a lease nobody renews runs out.
Tick(s) ==
    /\ task[s].status = "running" /\ task[s].lease > 0
    /\ task' = [task EXCEPT ![s].lease = task[s].lease - 1]
    /\ UNCHANGED <<source, attempts, candidates, outbox, job, worker, bill, faults>>

\* Mutant: the lease token is not compared.
ActiveByAnyone(w) == task[worker[w].source].status = "running"

\* activeTask: the fence of every write of a worker.
Active(w) ==
    LET s == worker[w].source IN
    /\ task[s].status = "running" /\ task[s].attempt = worker[w].attempt
    /\ task[s].lease > 0

RenewLease(w) ==
    /\ Active(w)
    /\ task' = [task EXCEPT ![worker[w].source].lease = LeaseDuration]

\* The timer of startMemoryHeartbeat.  When the lease is lost it aborts the call,
\* which Ask allows at any time.
HeartbeatExtraction(w) ==
    /\ worker[w].stage # "idle" /\ RenewLease(w)
    /\ UNCHANGED <<source, attempts, candidates, outbox, job, worker, bill, faults>>

-----------------------------------------------------------------------------
(* The budget: every call is reserved at its estimated maximum.            *)

\* Mutant: a call whose outcome is unknown counts for nothing.
CountedWhenKnown(attempt) ==
    IF attempt.effect = "reserved" THEN Reservation
    ELSE IF attempt.cost = None THEN 0 ELSE attempt.cost

Counted(attempt) ==
    IF attempt.effect \in {"reserved", "uncertain"} THEN Reservation
    ELSE IF attempt.cost = None THEN 0 ELSE attempt.cost

SourceTotal(s) == SumFunction([n \in DOMAIN attempts[s] |-> Counted(attempts[s][n])])
DayTotal == SumFunction([s \in Sources |-> SourceTotal(s)])

\* Mutant: only the source's own limit is looked at.
WithinSource(s) == SourceTotal(s) + Reservation <= SourceLimit

WithinBudget(s) ==
    /\ SourceTotal(s) + Reservation <= SourceLimit
    /\ DayTotal + Reservation <= DayLimit

-----------------------------------------------------------------------------
(* MemoryExtractionService.run after the claim, one await per action.      *)

\* The row of the attempt a worker is at.
Own(w) == attempts[worker[w].source][worker[w].attempt]
WriteOwn(w, row) ==
    attempts' = [attempts EXCEPT ![worker[w].source][worker[w].attempt] = row]

Go(w, stage) == worker' = [worker EXCEPT ![w].stage = stage]
Throw(w, error) == worker' = [worker EXCEPT ![w].stage = "catch", ![w].error = error]
FailWith(w, outcome, retryable) ==
    worker' = [worker EXCEPT ![w].stage = "fail", ![w].outcome = outcome,
                             ![w].retryable = retryable]

\* The source is read again: it may have expired or been erased since.
LoadExtractionSource(w) ==
    /\ worker[w].stage = "load"
    /\ IF Present(worker[w].source) THEN Go(w, "reserve") ELSE FailWith(w, "failed", FALSE)
    /\ UNCHANGED <<source, task, attempts, candidates, outbox, job, bill, faults>>

\* The repository's answer to reserveEffect, with what it wrote.
ReserveResult(w, result) ==
    LET s == worker[w].source IN
    \/ result = "lease_lost" /\ ~Active(w) /\ UNCHANGED attempts
    \/ result = "budget_rejected" /\ Active(w) /\ ~WithinBudget(s) /\ UNCHANGED attempts
    \/ /\ result = "reserved" /\ Active(w) /\ WithinBudget(s)
       /\ WriteOwn(w, [Own(w) EXCEPT !.effect = "reserved"])

ReserveEffect(w) ==
    /\ worker[w].stage = "reserve"
    /\ \/ /\ ReserveResult(w, "reserved")
          /\ worker' = [worker EXCEPT ![w].stage = "ask", ![w].effect = "reserved"]
          /\ UNCHANGED faults
       \/ ReserveResult(w, "budget_rejected") /\ FailWith(w, "failed", FALSE) /\ UNCHANGED faults
       \/ ReserveResult(w, "lease_lost") /\ Throw(w, "retry") /\ UNCHANGED faults
       \/ Fault /\ Throw(w, "retry") /\ (ReserveResult(w, "reserved") \/ UNCHANGED attempts)
    /\ UNCHANGED <<source, task, candidates, outbox, job, bill>>

\* What a worker knows once it has asked.
NoAnswer ==
    [outcome |-> None, cost |-> None, request |-> FALSE, retryable |-> FALSE, left |-> {}]
LostAnswer == [NoAnswer EXCEPT !.outcome = "uncertain"]

\* providerFailure: a call the adapter declares failed, or whose outcome is unknown.
ProviderFailures ==
    {[NoAnswer EXCEPT !.outcome = "failed", !.retryable = r] : r \in BOOLEAN} \cup {LostAnswer}

\* An answer of another model, without usage or above the reservation is not used;
\* the cost and the request id are kept as far as they are known.
UnusableAnswers(c) ==
    {[NoAnswer EXCEPT !.outcome = "unusable", !.request = known] : known \in BOOLEAN}
    \cup {[NoAnswer EXCEPT !.outcome = "unusable", !.request = TRUE, !.cost = x] :
              x \in {c} \ 0 .. Reservation}

Got(w, answer) ==
    worker' = [worker EXCEPT ![w].stage = "finish", ![w].outcome = answer.outcome,
        ![w].cost = answer.cost, ![w].request = answer.request,
        ![w].retryable = answer.retryable, ![w].left = answer.left]
Charge(w, c) == bill' = [bill EXCEPT ![worker[w].source][worker[w].attempt] = c]

\* extractor.extract: the provider charges for an answer and may charge for a
\* call whose answer is lost; it charges nothing for one it reports as failed,
\* nor for one an abort stopped before it was sent.
Ask(w) ==
    /\ worker[w].stage = "ask"
    /\ \/ \E c \in Costs, left \in SUBSET Slots :
             /\ c <= Reservation
             /\ Charge(w, c)
             /\ Got(w, [NoAnswer EXCEPT !.outcome = "succeeded", !.cost = c, !.left = left])
       \/ \E c \in Costs : \E answer \in {LostAnswer} \cup UnusableAnswers(c) :
             Charge(w, c) /\ Got(w, answer)
       \/ \E answer \in ProviderFailures : Got(w, answer) /\ UNCHANGED bill
    /\ UNCHANGED <<source, task, attempts, candidates, outbox, job, faults>>

\* The effect an outcome is recorded as.
EffectOf(outcome) == IF outcome = "unusable" THEN "uncertain" ELSE outcome

\* The repository's answer to finishEffect.
FinishResult(w, result) ==
    \/ result = "lease_lost" /\ ~Active(w) /\ UNCHANGED attempts
    \/ /\ result = "finished" /\ Active(w)
       /\ WriteOwn(w, [Own(w) EXCEPT !.effect = EffectOf(worker[w].outcome),
                           !.cost = worker[w].cost, !.request = worker[w].request])

Known(w, stage) ==
    LET effect == EffectOf(worker[w].outcome) IN
    worker' = [worker EXCEPT ![w].effect = effect, ![w].stage = stage, ![w].outcome = effect]

\* The run records what became of its call.  An answer that cannot be used goes on
\* to fail the run whether or not it could be recorded; after any other a lost
\* lease ends the run.
FinishEffect(w) ==
    LET unusable == worker[w].outcome = "unusable"
        effect == EffectOf(worker[w].outcome) IN
    /\ worker[w].stage = "finish"
    /\ \/ /\ FinishResult(w, "finished")
          /\ Known(w, IF effect = "succeeded" THEN "submit" ELSE "fail") /\ UNCHANGED faults
       \/ /\ FinishResult(w, "lease_lost")
          /\ IF unusable THEN Known(w, "fail") ELSE Throw(w, "retry")
          /\ UNCHANGED faults
       \/ Fault /\ Throw(w, "retry") /\ (FinishResult(w, "finished") \/ UNCHANGED attempts)
    /\ UNCHANGED <<source, task, candidates, outbox, job, bill>>

\* Mutant: a proposal is stored for a source that is no longer there.
AcceptProposal(s) == TRUE
\* submitProposal looks at the source, not at the lease.
SourceAccepts(s) == Present(s)

\* submitProposal for the next slot: a slot that is filled is left as it is.
SubmitProposal(w) ==
    LET s == worker[w].source IN
    /\ worker[w].stage = "submit" /\ worker[w].left # {}
    /\ \/ \E p \in worker[w].left :
             /\ SourceAccepts(s)
             /\ candidates' = [candidates EXCEPT ![s] =
                    IF \E c \in candidates[s] : c.slot = p THEN candidates[s]
                    ELSE candidates[s] \cup {[slot |-> p, attempt |-> worker[w].attempt]}]
             /\ \/ worker' = [worker EXCEPT ![w].left = worker[w].left \ {p}] /\ UNCHANGED faults
                \/ Fault /\ Throw(w, "retry")
       \/ ~SourceAccepts(s) /\ Throw(w, "retry") /\ UNCHANGED <<candidates, faults>>
       \/ Fault /\ Throw(w, "retry") /\ UNCHANGED candidates
    /\ UNCHANGED <<source, task, attempts, outbox, job, bill>>

\* completeExtraction, under the fence and after exactly one successful call.
CompleteResult(w, result) ==
    LET s == worker[w].source IN
    \/ result = "lease_lost" /\ ~Active(w) /\ UNCHANGED <<task, attempts>>
    \/ /\ result = "completed" /\ Active(w) /\ Own(w).effect = "succeeded"
       /\ task' = [task EXCEPT ![s].status = "completed", ![s].lease = 0]
       /\ WriteOwn(w, [Own(w) EXCEPT !.status = "completed"])

CompleteExtraction(w) ==
    /\ worker[w].stage = "submit" /\ worker[w].left = {}
    /\ \/ CompleteResult(w, "completed") /\ Return(w, "done") /\ UNCHANGED faults
       \/ CompleteResult(w, "lease_lost") /\ Throw(w, "retry") /\ UNCHANGED <<job, faults>>
       \/ /\ Fault /\ Throw(w, "retry") /\ UNCHANGED job
          /\ CompleteResult(w, "completed") \/ UNCHANGED <<task, attempts>>
    /\ UNCHANGED <<source, candidates, outbox, bill>>

\* failExtraction under the fence: the outcome is uncertain if the call may have
\* been charged; a failure that may be retried queues the task again.  `end' is
\* how the run ends the delivery when it learns what was settled.
Settle(w, outcome, retryable, end) ==
    LET s == worker[w].source
        unsure == outcome = "uncertain" \/ MayBeCharged(Own(w))
        status == IF unsure THEN "uncertain" ELSE "failed"
        again == ~unsure /\ retryable /\ worker[w].attempt < MaxAttempts IN
    /\ end = IF again THEN "retry" ELSE "terminal"
    /\ WriteOwn(w, EndAttempt(Own(w), status))
    /\ task' = [task EXCEPT ![s].status = IF again THEN "queued" ELSE status, ![s].lease = 0]

\* The run fails with an outcome it knows.
FailExtraction(w) ==
    /\ worker[w].stage = "fail"
    /\ \/ /\ Active(w)
          /\ \E end \in {"retry", "terminal"} :
                /\ Settle(w, worker[w].outcome, worker[w].retryable, end)
                /\ \/ Return(w, end) /\ UNCHANGED faults
                   \/ Fault /\ Throw(w, "retry") /\ UNCHANGED job
       \/ /\ ~Active(w) /\ Throw(w, "terminal")
          /\ UNCHANGED <<task, attempts, job, faults>>
       \/ Fault /\ Throw(w, "retry") /\ UNCHANGED <<task, attempts, job>>
    /\ UNCHANGED <<source, candidates, outbox, bill>>

\* The catch of run: whatever was thrown, the claim is settled by what the run
\* knows of its call, or given up if the fence refuses.
FailInCatch(w) ==
    LET none == worker[w].effect = "none" IN
    /\ worker[w].stage = "catch"
    /\ \/ /\ Active(w)
          /\ \E end \in {"retry", "terminal"} :
                /\ Settle(w, IF none THEN "failed" ELSE "uncertain", none, end)
                /\ \/ Return(w, end) /\ UNCHANGED faults
                   \/ Fault /\ Return(w, "retry")
       \/ /\ ~Active(w) /\ Return(w, worker[w].error)
          /\ UNCHANGED <<task, attempts, faults>>
       \/ Fault /\ Return(w, "retry") /\ UNCHANGED <<task, attempts>>
    /\ UNCHANGED <<source, candidates, outbox, bill>>

-----------------------------------------------------------------------------
(* Erasure of a signal, and the owner's resolution of an unknown outcome.  *)

\* The retention of a signal passes.
FallDue(s) ==
    /\ s \in Signals /\ source[s] = "live"
    /\ source' = [source EXCEPT ![s] = "due"]
    /\ UNCHANGED <<task, attempts, candidates, outbox, job, worker, bill, faults>>

\* Mutant: erasure settles only a task that is running.
SettleRunningOnly(s) ==
    IF task[s].status = "running" THEN [task[s] EXCEPT !.status = "cancelled", !.lease = 0,
                                                       !.erased = TRUE]
    ELSE task[s]

\* settleSignalExtractionErasure, the task.
SettledTask(s) ==
    IF task[s].status = "absent" THEN task[s]
    ELSE [task[s] EXCEPT !.erased = TRUE, !.lease = 0,
             !.status = IF \/ task[s].status = "queued"
                           \/ task[s].status = "running" /\ ~MayBeCharged(Last(s))
                        THEN "cancelled"
                        ELSE IF task[s].status = "running" THEN "uncertain"
                        ELSE task[s].status]

\* The user deletes the signal, or retention does: the task is settled, a request
\* not yet published is dropped, and everything derived goes with the row.
EraseSignal(s) ==
    /\ s \in Signals /\ source[s] # "gone"
    /\ source' = [source EXCEPT ![s] = "gone"]
    /\ task' = [task EXCEPT ![s] = SettledTask(s)]
    /\ attempts' = [attempts EXCEPT ![s] =
           IF task[s].status = "running"
           THEN EndLast(s, IF MayBeCharged(Last(s)) THEN "uncertain" ELSE "cancelled")
           ELSE attempts[s]]
    /\ outbox' = [outbox EXCEPT ![s] = IF outbox[s] = "pending" THEN "failed" ELSE outbox[s]]
    /\ candidates' = [candidates EXCEPT ![s] = {}]
    /\ UNCHANGED <<job, worker, bill, faults>>

\* An unknown outcome can be resolved: reconcile, getLookupTarget.
Resolvable(s) ==
    /\ task[s].status = "uncertain"
    /\ Last(s).status = "uncertain" /\ Last(s).effect = "uncertain"

\* Mutant: a task is requeued although its source was erased.
RequeueErased(s, limit) == task[s].attempt < limit
MayRequeue(s, limit) == ~task[s].erased /\ task[s].attempt < limit

\* reconcile: the owner confirms from evidence that the call failed or succeeded
\* and what it cost.  A failed one may be requeued; nothing is published for it.
Reconcile(s, decision, cost, limit) ==
    /\ Resolvable(s)
    /\ limit # None => decision = "failed" /\ MayRequeue(s, limit)
    /\ attempts' = [attempts EXCEPT ![s][task[s].attempt] =
           [Last(s) EXCEPT !.status = "failed", !.effect = decision, !.cost = cost,
                           !.resolved = [decision |-> decision, limit |-> limit]]]
    /\ task' = [task EXCEPT ![s].status = IF limit # None THEN "queued" ELSE "failed"]
    /\ UNCHANGED <<source, candidates, outbox, job, worker, bill, faults>>

\* lookupAndReconcile: the provider itself says what became of the call, if the
\* run recorded a request id.
LookupAndReconcile(s) ==
    LET charged == bill[s][task[s].attempt] IN
    /\ Resolvable(s) /\ Last(s).request
    /\ Reconcile(s, "succeeded", charged, None)

-----------------------------------------------------------------------------

WorkerStep(w) ==
    \/ LoadExtractionSource(w) \/ ReserveEffect(w) \/ Ask(w) \/ FinishEffect(w)
    \/ SubmitProposal(w) \/ CompleteExtraction(w) \/ FailExtraction(w) \/ FailInCatch(w)

QueueStep(s) ==
    Publish(s) \/ PublishFails(s) \/ Stall(s) \/ Redeliver(s)
    \/ ClaimNothing(s) \/ ClaimThrows(s)

SourceStep(s) ==
    \/ Tick(s) \/ FallDue(s) \/ EraseSignal(s) \/ LookupAndReconcile(s)
    \/ \E d \in {"failed", "succeeded"}, c \in Costs, l \in OwnerAttempts \cup {None} :
          Reconcile(s, d, c, l)

Next ==
    \/ \E s \in Sources : QueueStep(s) \/ SourceStep(s)
    \/ \E w \in Workers :
          \/ WorkerStep(w) \/ HeartbeatExtraction(w) \/ Crash(w)
          \/ \E s \in Sources : Claim(w, s)

Spec == Init /\ [][Next]_vars

-----------------------------------------------------------------------------
(* Properties                                                              *)

ExtractionTypeOK ==
    /\ source \in [Sources -> {"live", "due", "gone"}]
    /\ \A s \in Sources :
          /\ task[s] \in TaskRow /\ task[s].attempt = Len(attempts[s])
          /\ attempts[s] \in Seq(AttemptRow) /\ Len(attempts[s]) <= MaxAttempts
          /\ candidates[s] \subseteq [slot : Slots, attempt : 1 .. MaxAttempts]
          /\ outbox[s] \in {"pending", "published", "failed"}
          /\ job[s] \in JobRow /\ (job[s].state = "active") = (job[s].holder # None)
          /\ task[s].status = "running" => Last(s).status = "running"
          /\ task[s].status # "running" =>
                \A n \in 1 .. Len(attempts[s]) : attempts[s][n].status # "running"
    /\ \A w \in Workers : worker[w].stage \in Stages /\ worker[w].left \subseteq Slots
    /\ faults \in 0 .. MaxFaults

Billed(s) == {n \in 1 .. Len(attempts[s]) : bill[s][n] # None}

\* The owner confirmed that this call failed.
WrittenOff(attempt) == attempt.resolved # None /\ attempt.resolved.decision = "failed"

\* ADR 0042: what happened to a call being unknown never leads to another one.  No
\* source is charged for two calls, across retries, redeliveries, crashes, expired
\* leases and requeues, unless the owner confirmed that the first one failed.
BilledOnce ==
    \A s \in Sources :
        Cardinality({n \in Billed(s) : ~WrittenOff(attempts[s][n])}) <= 1

EvidenceWithinReservation ==
    \A s \in Sources : \A n \in 1 .. Len(attempts[s]) :
        attempts[s][n].resolved # None => attempts[s][n].cost <= Reservation

\* ADR 0047: the budget is a hard one.  What the reservations count never exceeds
\* the limits of the source and of the day, and covers every charge of at most the
\* reserved cost, whatever was lost on the way.  The owner's evidence alone may
\* record more than was reserved.
BudgetHolds ==
    /\ EvidenceWithinReservation =>
          DayTotal <= DayLimit /\ \A s \in Sources : SourceTotal(s) <= SourceLimit
    /\ \A s \in Sources : \A n \in Billed(s) :
          attempts[s][n].resolved = None /\ bill[s][n] <= Reservation =>
             bill[s][n] <= Counted(attempts[s][n])

\* A signal that was erased leaves nothing to extract and nothing extracted, however
\* far a worker was with it.
ErasedLeavesNothing ==
    \A s \in Signals : source[s] = "gone" =>
        /\ candidates[s] = {}
        /\ task[s].status \in Final \cup {"absent"}

\* Every stored proposal comes from the one answer the journal says succeeded: a
\* worker that lost its claim stores nothing another attempt would contradict, and
\* what a completed task shows is the answer of its last attempt.
StoredIsAccountedFor ==
    \A s \in Sources :
        /\ \A c \in candidates[s] :
              c.attempt = task[s].attempt /\ Last(s).effect = "succeeded"
        /\ task[s].status = "completed" =>
              Last(s).status = "completed" /\ Last(s).effect = "succeeded"

\* A delivery that ends as done leaves nothing to do: only one acknowledged as busy
\* and one that failed in the queue can leave a task behind that nobody works on.
DoneIsSettled ==
    \A s \in Sources :
        job[s].state = "done" /\ source[s] = "live" =>
            task[s].status \in Final \/ (task[s].status = "queued" /\ Last(s).resolved # None)

\* Tasks, attempts, queue and workers fit together, and a delivery that says it is done
\* has left no task behind.
ExtractionIsConsistent == ExtractionTypeOK /\ DoneIsSettled

\* ADR 0048: an uncertain task has an explicit way out; ADR 0042: a candidate
\* submission left unfinished after a successful call goes to reconciliation.
UncertainHasExit ==
    \A s \in Sources : task[s].status = "uncertain" => Resolvable(s)
=============================================================================
