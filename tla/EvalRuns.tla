------------------------------ MODULE EvalRuns ------------------------------
(***************************************************************************)
(* Evaluation runs (packages/db, evals.ts and memory-calibrations.ts;      *)
(* apps/eval, queue-runner.ts, queue-protocol.ts, bullmq.ts and the        *)
(* executors; packages/eval-core, runner.ts; packages/eval-graders).  A    *)
(* request becomes a run and an outbox event; a worker claims the run      *)
(* under a lease, reads the cases, has every case judged, trial after      *)
(* trial, and commits the whole report in one transaction.  Judging an     *)
(* article, or calibrating the memory extractor, costs provider calls that *)
(* a budget bounds; a calibration needs an owner's approval of what will   *)
(* run.  A worker runs the release it was started with: it refuses what    *)
(* was asked of another one, but of a calibration it only compares the     *)
(* tracked plan.  The command line records a run trial by trial without a  *)
(* lease.                                                                  *)
(***************************************************************************)
EXTENDS EvalCuration

CONSTANTS
    Requests,       \* requests for a run, each with its idempotency key
    Target,         \* "article", "calibration", "component" or "inline"
    Workers,
    CaseCount,      \* cases of the synthetic suites
    MaxCalls, MaxCost, Reservation, Costs, \* the budget of an execution, the price of a call
    MaxDeliveries,  \* attempts of a BullMQ job
    MaxRelease,     \* bound: releases of the code deployed, with their configuration
    Plan,           \* of a release: the tracked calibration plan (prompt, extractor, dataset)
    Model,          \* of a release: the model it is configured to calibrate
    MaxFaults       \* bound: crashes, stalls, lapsed leases, failing calls

ASSUME RunsAssumption ==
    /\ Target \in [Requests -> {"article", "calibration", "component", "inline"}]
    /\ {MaxCalls, MaxCost, Reservation, CaseCount, MaxDeliveries, MaxRelease} \subseteq Nat
    /\ MaxRelease >= 1 /\ DOMAIN Plan = 1 .. MaxRelease /\ DOMAIN Model = 1 .. MaxRelease
    /\ Costs \subseteq Nat /\ IsFiniteSet(Costs)

VARIABLES
    release,        \* the release that is deployed
    evalRuns,       \* eval_runs
    trials,         \* eval_trials with their scores
    authorization,  \* memory_calibration_authorizations: the only one
    outbox, job,    \* the request's outbox event and its BullMQ job
    worker,         \* DurableEvalQueueRunner.run, one delivery per worker
    faults

runVars == <<release, evalRuns, trials, authorization, outbox, job, worker, faults>>
vars == <<curationVars, runVars>>

Statuses == {"absent", "queued", "running", "completed", "failed"}
EvalRunRow ==
    [status : Statuses, attempt : Nat, lease : BOOLEAN, release : 0 .. MaxRelease,
     error : {"none", "report", "executor"}]
AuthorizationRow ==
    [status : {"absent", "draft", "approved", "enqueued"}, release : 0 .. MaxRelease]
Results == {"ok", "error"}
Idle ==
    [stage |-> "idle", request |-> None, token |-> 0, release |-> 0, left |-> {},
     report |-> {}, calls |-> 0, cost |-> 0, bill |-> 0, uncertain |-> FALSE,
     halted |-> FALSE, aborted |-> FALSE]

Synthetic == {[candidate |-> None, content |-> n] : n \in 1 .. CaseCount}
Cases(q) == IF Target[q] = "article" THEN suite.cases ELSE Synthetic
\* loadValidatedCases, and the same checks again before a report is committed.
Valid(q) == Target[q] = "article" => Governed
TrialsOf(q) == {t \in trials : t.request = q}
Fault == faults < MaxFaults /\ faults' = faults + 1

Init ==
    /\ CurationInit
    /\ release = 1
    /\ evalRuns = [q \in Requests |-> [status |-> "absent", attempt |-> 0, lease |-> FALSE,
                                       release |-> 0, error |-> "none"]]
    /\ trials = {}
    /\ authorization = [status |-> "absent", release |-> 0]
    /\ outbox = [q \in Requests |-> "none"]
    /\ job = [q \in Requests |-> [state |-> "none", tries |-> 0, stalls |-> 0, holder |-> None]]
    /\ worker = [w \in Workers |-> Idle]
    /\ faults = 0

\* A new release is deployed: the workers started from now on run it.
Deploy ==
    /\ release < MaxRelease
    /\ release' = release + 1
    /\ UNCHANGED <<curationVars, evalRuns, trials, authorization, outbox, job, worker, faults>>

-----------------------------------------------------------------------------
(* Requests.                                                               *)

\* The row of a request snapshots the execution it asks for.
Queued(q) ==
    /\ evalRuns[q].status = "absent"
    /\ evalRuns' = [evalRuns EXCEPT ![q].status = "queued", ![q].release = release]
    /\ outbox' = [outbox EXCEPT ![q] = "pending"]

\* A request repeated finds its row, or collides with it: nothing changes.
EnqueueRun(q) ==
    /\ Target[q] \in {"article", "component"}
    /\ Target[q] = "article" => suite.status = "active"
    /\ Valid(q)
    /\ Queued(q)
    /\ UNCHANGED <<curationVars, release, trials, authorization, job, worker, faults>>

\* register: the binding fixes dataset, model, prompt, pricing and budget.
RegisterCalibration ==
    /\ authorization.status = "absent"
    /\ authorization' = [status |-> "draft", release |-> release]
    /\ UNCHANGED <<curationVars, release, evalRuns, trials, outbox, job, worker, faults>>

ApproveCalibration ==
    /\ authorization.status = "draft"
    /\ authorization' = [authorization EXCEPT !.status = "approved"]
    /\ UNCHANGED <<curationVars, release, evalRuns, trials, outbox, job, worker, faults>>

\* enqueue: the run's execution is the one of the binding, with the approval.
EnqueueCalibration(q) ==
    /\ Target[q] = "calibration"
    /\ authorization.status = "approved"
    /\ authorization' = [authorization EXCEPT !.status = "enqueued"]
    /\ evalRuns[q].status = "absent"
    /\ evalRuns' = [evalRuns EXCEPT ![q].status = "queued", ![q].release = authorization.release]
    /\ outbox' = [outbox EXCEPT ![q] = "pending"]
    /\ UNCHANGED <<curationVars, release, trials, job, worker, faults>>

\* persistOfflineReport: the command line has its report and writes it row by row.
StartRun(q) ==
    /\ Target[q] = "inline"
    /\ evalRuns[q].status = "absent"
    /\ evalRuns' = [evalRuns EXCEPT ![q].status = "running", ![q].release = release]
    /\ UNCHANGED <<curationVars, release, trials, authorization, outbox, job, worker, faults>>

RecordTrial(q, k, result) ==
    /\ Target[q] = "inline" /\ evalRuns[q].status = "running"
    /\ \A t \in TrialsOf(q) : t.case # k
    /\ trials' = trials \cup {[request |-> q, attempt |-> 0, case |-> k, result |-> result]}
    /\ UNCHANGED <<curationVars, release, evalRuns, authorization, outbox, job, worker, faults>>

Concluded(row, reported) ==
    LET failed == \E t \in reported : t.result = "error" IN
    [row EXCEPT !.status = IF failed THEN "failed" ELSE "completed",
                !.lease = FALSE, !.error = IF failed THEN "report" ELSE "none"]

FinishInlineRun(q) ==
    /\ Target[q] = "inline" /\ evalRuns[q].status = "running"
    /\ Cardinality(TrialsOf(q)) = CaseCount
    /\ evalRuns' = [evalRuns EXCEPT ![q] = Concluded(@, TrialsOf(q))]
    /\ UNCHANGED <<curationVars, release, trials, authorization, outbox, job, worker, faults>>

-----------------------------------------------------------------------------
(* Delivery.                                                               *)

\* EvalOutboxDispatcher: a job whose id exists is not added again; the event may
\* stay pending although the job was added.
Dispatch(q) ==
    /\ outbox[q] = "pending"
    /\ job' = [job EXCEPT ![q].state = IF @ = "none" THEN "waiting" ELSE @]
    /\ \/ outbox' = [outbox EXCEPT ![q] = "published"] /\ UNCHANGED faults
       \/ Fault /\ UNCHANGED outbox
    /\ UNCHANGED <<curationVars, release, evalRuns, trials, authorization, worker>>

\* processEvalQueueJob throws for a run that is busy or whose lease was lost.
Ended(row, end) ==
    [row EXCEPT !.state = IF end = "done" THEN "done"
                          ELSE IF row.tries + 1 < MaxDeliveries THEN "waiting" ELSE "failed",
                !.tries = @ + 1, !.holder = None]
Return(w, end) ==
    LET q == worker[w].request IN
    /\ worker' = [worker EXCEPT ![w] = Idle]
    /\ job' = IF job[q].holder = w THEN [job EXCEPT ![q] = Ended(@, end)] ELSE job

\* BullMQ finds the lock of an active job expired: it delivers the job again, once.
Stalled(row) ==
    [row EXCEPT !.state = IF row.stalls = 0 THEN "waiting" ELSE "failed",
                !.stalls = 1, !.holder = None]
Stall(q) ==
    /\ job[q].state = "active"
    /\ Fault
    /\ job' = [job EXCEPT ![q] = Stalled(@)]
    /\ UNCHANGED <<curationVars, release, evalRuns, trials, authorization, outbox, worker>>

Crash(w) ==
    /\ worker[w].stage # "idle"
    /\ Fault
    /\ worker' = [worker EXCEPT ![w] = Idle]
    /\ job' = [job EXCEPT ![worker[w].request] = IF @.holder = w THEN Stalled(@) ELSE @]
    /\ UNCHANGED <<curationVars, release, evalRuns, trials, authorization, outbox>>

-----------------------------------------------------------------------------
(* Claim, lease and context.                                               *)

Claimable(row) == row.status = "queued" \/ (row.status = "running" /\ ~row.lease)
Taken(row) == [row EXCEPT !.status = "running", !.attempt = @ + 1, !.lease = TRUE, !.error = "none"]

\* claimRun: there is no limit to a run's attempts.
Claim(w, q) ==
    /\ worker[w].stage = "idle" /\ job[q].state = "waiting"
    /\ Claimable(evalRuns[q])
    /\ job' = [job EXCEPT ![q].state = "active", ![q].holder = w]
    /\ evalRuns' = [evalRuns EXCEPT ![q] = Taken(@)]
    /\ worker' = [worker EXCEPT ![w] = [Idle EXCEPT !.stage = "context", !.request = q,
                    !.token = evalRuns[q].attempt + 1, !.release = release]]
    /\ UNCHANGED <<curationVars, release, trials, authorization, outbox, faults>>

\* Mutant: the delivery of a busy run is done, as another worker has it.
AcknowledgeBusy(w, q) ==
    /\ worker[w].stage = "idle" /\ job[q].state = "waiting"
    /\ ~Claimable(evalRuns[q])
    /\ job' = [job EXCEPT ![q] = Ended(@, "done")]
    /\ UNCHANGED <<curationVars, release, evalRuns, trials, authorization, outbox, worker, faults>>

\* The run is another worker's, or over.
ClaimNothing(w, q) ==
    /\ worker[w].stage = "idle" /\ job[q].state = "waiting"
    /\ ~Claimable(evalRuns[q])
    /\ job' = [job EXCEPT ![q] = Ended(@, IF evalRuns[q].status = "running" THEN "retry" ELSE "done")]
    /\ UNCHANGED <<curationVars, release, evalRuns, trials, authorization, outbox, worker, faults>>

\* Mutant: any lease of the run will do.
HoldsAnyLease(w) ==
    LET row == evalRuns[worker[w].request] IN row.status = "running" /\ row.lease

Holds(w) ==
    LET row == evalRuns[worker[w].request] IN
    row.status = "running" /\ row.lease /\ row.attempt = worker[w].token

\* Heartbeats that fail do not tell the worker; the lease then runs out.
LapseLease(q) ==
    /\ evalRuns[q].lease
    /\ evalRuns' = [evalRuns EXCEPT ![q].lease = FALSE]
    /\ \/ \E w \in Workers : worker[w].request = q /\ Holds(w) /\ Fault
       \/ ~(\E w \in Workers : worker[w].request = q /\ Holds(w)) /\ UNCHANGED faults
    /\ UNCHANGED <<curationVars, release, trials, authorization, outbox, job, worker>>

\* A heartbeat that finds the lease lost aborts the execution.
HeartbeatFindsLoss(w) ==
    /\ worker[w].stage \in {"context", "execute"}
    /\ ~Holds(w) /\ ~worker[w].aborted
    /\ worker' = [worker EXCEPT ![w].aborted = TRUE]
    /\ UNCHANGED <<curationVars, release, evalRuns, trials, authorization, outbox, job, faults>>

\* The article grader and the component executor compare the execution that was asked
\* for with the one of their own release.
SameExecution(w) == evalRuns[worker[w].request].release = worker[w].release

\* The calibration executor compares the run with its approval, and preflight what was
\* approved with the worker's tracked plan; the worker's own code revision and model
\* are compared with nothing here.
SamePlan(w) ==
    /\ authorization.status = "enqueued"
    /\ evalRuns[worker[w].request].release = authorization.release
    /\ Plan[worker[w].release] = Plan[authorization.release]

\* Mutant: the approval is looked at, not what it approved.
ExecutableWhenApproved(w) ==
    IF Target[worker[w].request] = "calibration"
    THEN authorization.status = "enqueued" ELSE SameExecution(w)

\* What an executor checks before the first trial.
Executable(w) ==
    IF Target[worker[w].request] = "calibration" THEN SamePlan(w) ELSE SameExecution(w)

\* getClaimContext, and the executor's checks of the request.
LoadContext(w) ==
    LET q == worker[w].request IN
    /\ worker[w].stage = "context"
    /\ IF ~Holds(w) THEN Return(w, "retry")
       ELSE /\ worker' = [worker EXCEPT ![w] =
                 IF Valid(q) /\ Executable(w)
                 THEN [@ EXCEPT !.stage = "execute", !.left = Cases(q)]
                 ELSE [@ EXCEPT !.stage = "fail"]]
            /\ UNCHANGED job
    /\ UNCHANGED <<curationVars, release, evalRuns, trials, authorization, outbox, faults>>

-----------------------------------------------------------------------------
(* One trial after the other, under the budget of this execution.          *)

\* Mutant: a call of unknown cost leaves the budget usable.
MayReserveWhenUncertain(me) ==
    /\ me.calls < MaxCalls
    /\ me.cost + Reservation <= MaxCost

\* EvalModelBudget.reserve.
MayReserve(me) ==
    /\ ~me.uncertain
    /\ me.calls < MaxCalls
    /\ me.cost + Reservation <= MaxCost

Recorded(me, k, result) ==
    [me EXCEPT !.left = @ \ {k}, !.report = @ \cup {[case |-> k, result |-> result]}]

\* markUnmetered: nobody knows what the call cost.
Unmetered(me, charge) ==
    [me EXCEPT !.calls = @ + 1, !.bill = @ + charge, !.uncertain = TRUE, !.halted = TRUE]
\* settle: a call dearer than its reservation, or a budget overdrawn, ends the calls.
Overdrawn(me, cost) == cost > Reservation \/ me.cost + cost > MaxCost
Settled(me, cost) ==
    LET over == Overdrawn(me, cost) IN
    [me EXCEPT !.calls = @ + 1, !.cost = @ + cost, !.bill = @ + cost,
               !.uncertain = @ \/ over, !.halted = @ \/ over]

\* One call of the model under the budget, and what its answer makes of the case: it
\* may be unusable, or come from another model than the one that was asked for.
Called(me, k) ==
    IF ~MayReserve(me) THEN {Recorded(me, k, "error")}
    ELSE {Recorded(Unmetered(me, charge), k, "error") : charge \in Costs}
         \cup {Recorded(Settled(me, cost), k, result) :
                 cost \in {c \in Costs : ~Overdrawn(me, c)}, result \in Results}
         \cup {Recorded([Settled(me, cost) EXCEPT !.halted = TRUE], k, "error") : cost \in Costs}

ApprovedModel(me) == Model[me.release] = Model[authorization.release]

\* Mutant: a calibration goes on whatever its calls came to.
CalibratedOnwards(me, k) == Called(me, k)

\* A calibration stops calling after the first call it cannot account for, and after
\* the first answer of a model that was not approved.
Calibrated(me, k) ==
    IF me.halted THEN {Recorded(me, k, "error")}
    ELSE {after \in Called(me, k) :
            ApprovedModel(me) \/ after.calls = me.calls \/ after.halted}

\* RoutedEvalQueueExecutor: each target has its executor; components ask nobody.
Judged(me, target, k) ==
    CASE target = "component"   -> {Recorded(me, k, result) : result \in Results}
      [] target = "calibration" -> Calibrated(me, k)
      [] target = "article"     -> Called(me, k)

Trial(w) ==
    /\ worker[w].stage = "execute" /\ ~worker[w].aborted
    /\ \E k \in worker[w].left :
       \E me \in Judged(worker[w], Target[worker[w].request], k) :
         worker' = [worker EXCEPT ![w] = me]
    /\ UNCHANGED <<curationVars, release, evalRuns, trials, authorization, outbox, job, faults>>

\* The execution ends: every case judged, or the lease found lost.
EndExecution(w) ==
    /\ worker[w].stage = "execute" /\ (worker[w].aborted \/ worker[w].left = {})
    /\ IF worker[w].aborted THEN Return(w, "retry")
       ELSE worker' = [worker EXCEPT ![w].stage = "commit"] /\ UNCHANGED job
    /\ UNCHANGED <<curationVars, release, evalRuns, trials, authorization, outbox, faults>>

-----------------------------------------------------------------------------
(* What is left of an execution.                                           *)

\* The report speaks of the cases that are there, each once.
Complete(q, report) == {r.case : r \in report} = Cases(q) /\ Valid(q)

\* commitClaimedReport: fenced, checked and whole; a report refused is thrown,
\* and the run waits for its lease to run out.
CommitReport(w) ==
    LET q == worker[w].request
        mine == {[request |-> q, attempt |-> worker[w].token, case |-> r.case,
                  result |-> r.result] : r \in worker[w].report} IN
    /\ worker[w].stage = "commit"
    /\ IF Holds(w) /\ Complete(q, worker[w].report)
       THEN /\ trials' = trials \cup mine
            /\ evalRuns' = [evalRuns EXCEPT ![q] = Concluded(@, mine)]
            /\ Return(w, "done")
       ELSE Return(w, "retry") /\ UNCHANGED <<trials, evalRuns>>
    /\ UNCHANGED <<curationVars, release, authorization, outbox, faults>>

FailClaim(w) ==
    LET q == worker[w].request IN
    /\ worker[w].stage = "fail"
    /\ IF Holds(w)
       THEN /\ evalRuns' = [evalRuns EXCEPT ![q].status = "failed", ![q].lease = FALSE,
                                            ![q].error = "executor"]
            /\ Return(w, "done")
       ELSE Return(w, "retry") /\ UNCHANGED evalRuns
    /\ UNCHANGED <<curationVars, release, trials, authorization, outbox, faults>>

\* The database refuses a call of the runner: the delivery ends with the error.
CallFails(w) ==
    /\ worker[w].stage \in {"fail", "commit"}
    /\ Fault
    /\ Return(w, "retry")
    /\ UNCHANGED <<curationVars, release, evalRuns, trials, authorization, outbox>>

-----------------------------------------------------------------------------
Referenced == {t.case : t \in trials}

Next ==
    \/ CurationNext(Referenced) /\ UNCHANGED runVars
    \/ Deploy \/ RegisterCalibration \/ ApproveCalibration
    \/ \E q \in Requests :
         \/ EnqueueRun(q) \/ EnqueueCalibration(q) \/ StartRun(q) \/ FinishInlineRun(q)
         \/ \E k \in Synthetic, result \in Results : RecordTrial(q, k, result)
         \/ Dispatch(q) \/ Stall(q) \/ LapseLease(q)
         \/ \E w \in Workers : Claim(w, q) \/ ClaimNothing(w, q)
    \/ \E w \in Workers :
         \/ HeartbeatFindsLoss(w) \/ LoadContext(w) \/ Trial(w) \/ EndExecution(w)
         \/ CommitReport(w) \/ FailClaim(w) \/ CallFails(w) \/ Crash(w)

Spec == Init /\ [][Next]_vars

\* Fairness nothing in the repository provides, for the sake of the argument: a
\* process that keeps calling expireDue on every candidate.
Expire(c) ==
    \E due \in SUBSET Expirable :
        c \in due /\ ExpireDue(due, Referenced) /\ UNCHANGED runVars
ExpirySpec == Spec /\ \A c \in CandidateIds : WF_vars(Expire(c))

-----------------------------------------------------------------------------
(* Properties.                                                             *)

\* The types, and at most one active version of the sampling policy.
EvalTypeOK ==
    /\ CurationTypeOK
    /\ evalRuns \in [Requests -> EvalRunRow]
    /\ authorization \in AuthorizationRow
    /\ \A w \in Workers : worker[w].left \subseteq Synthetic \cup suite.dataset

\* What is in the suite is what a reviewer approved: the article's text at the
\* revision that was sampled, of a candidate that still counts as materialized,
\* however author, sampler, reviewers and retention interleave.
CasesAreReviewed ==
    \A k \in suite.cases :
        /\ candidates[k.candidate].status = "materialized"
        /\ candidates[k.candidate].reviewer # None
        /\ candidates[k.candidate].revision = k.content

\* Content past its retention is neither handed to an execution nor kept in a
\* report, even when it expired after the run was enqueued, or while it ran.
ExpiredContentIsRefused ==
    [][/\ \A t \in trials' \ trials : t.case.candidate # None => ~Due(t.case.candidate)
       /\ \A w \in Workers : \A k \in worker'[w].left \ worker[w].left :
            k.candidate # None => ~Due(k.candidate)]_vars

\* A concluded run has one trial for every case of its suite, all of the attempt
\* that held the lease; a run that has not concluded has none (the command
\* line's own runs excepted), whoever crashed or was overtaken.
ReportIsWhole ==
    \A q \in Requests :
        LET row == evalRuns[q] IN
        IF row.status = "completed" \/ row.error = "report"
        THEN /\ {t.case : t \in TrialsOf(q)} = (IF Target[q] = "article" THEN suite.dataset
                                                ELSE Synthetic)
             /\ Cardinality(TrialsOf(q)) = Cardinality({t.case : t \in TrialsOf(q)})
             /\ \A t \in TrialsOf(q) : t.attempt = row.attempt
             /\ row.status = "completed" <=> \A t \in TrialsOf(q) : t.result = "ok"
        ELSE Target[q] # "inline" => TrialsOf(q) = {}

\* Calls about an article are paid for only by the release that was asked for; those of
\* a calibration only after an owner approved the run, with the plan that was approved,
\* and a model that was not approved is paid for one call of an execution at most,
\* whatever is deployed between registration, approval, claim and redelivery.
PaidIsWhatWasApproved ==
    \A w \in Workers : worker[w].calls > 0 =>
        LET q == worker[w].request IN
        IF Target[q] = "calibration"
        THEN /\ authorization.status = "enqueued"
             /\ evalRuns[q].release = authorization.release
             /\ Plan[worker[w].release] = Plan[authorization.release]
             /\ ApprovedModel(worker[w]) \/ worker[w].calls = 1
        ELSE evalRuns[q].release = worker[w].release

\* ADR-0051, decisions 1 and 3: what is approved fixes model and code revision, and
\* any change of it voids the approval.
CalibratedAsApproved ==
    \A w \in Workers :
        worker[w].calls > 0 /\ Target[worker[w].request] = "calibration" =>
            worker[w].release = authorization.release

\* What the provider charges one execution stays within its budget, but for the
\* excess of a single call over its reservation; after such a call, or one whose
\* cost is unknown, there is no other.
BillWithinBudget ==
    \A w \in Workers :
        LET me == worker[w]
            excess == Max(Costs \cup {Reservation}) - Reservation IN
        /\ me.calls <= MaxCalls
        /\ me.bill <= MaxCost + (IF me.uncertain THEN excess ELSE 0)

\* A delivery is acknowledged only when its run is over: a run that is busy, or
\* was lost to another worker, is delivered again.
AcknowledgedIsOver ==
    \A q \in Requests : job[q].state = "done" => evalRuns[q].status \in {"completed", "failed"}

\* Money is spent for what was asked or approved, as far as the executors compare it,
\* and never past the budget of an execution.
PaidWorkIsAuthorized == PaidIsWhatWasApproved /\ BillWithinBudget

\* Policies, runs, reports and deliveries fit together: a report is whole or absent,
\* and what the queue takes for done is over.
EvalIsConsistent == EvalTypeOK /\ ReportIsWhole /\ AcknowledgedIsOver

Overdue == {c \in Expirable : candidates[c].status = "materialized"}

\* ADR-0034, decision 7: when a materialized candidate's retention is over, one
\* transaction archives the suite, deletes the case that holds the article's
\* text and expires the candidate.
ExpiryErases == \A c \in CandidateIds : c \in Overdue ~> c \notin Overdue
=============================================================================
