---------------------------- MODULE Checkpoints ----------------------------
(***************************************************************************)
(* Checkpoint attempts: CheckpointRepository (packages/db) and the         *)
(* FencedCheckpointSaver with its initialization (packages/checkpoint-     *)
(* runtime), on top of JobStore.                                           *)
(*                                                                         *)
(* A run writes its graph's checkpoints into a storage thread of its own,  *)
(* through a saver (PostgresSaver, external) that knows nothing of leases. *)
(* The business table checkpoint_attempts holds, per run, the pointer to   *)
(* the last stable checkpoint; a new run copies that checkpoint into its   *)
(* own thread and only then becomes the active attempt.  A storage write   *)
(* is therefore several awaits long, with an authorization on either side, *)
(* and a worker may lose its lease at every one of them and go on.         *)
(*                                                                         *)
(* Checkpoint ids are time-ordered and never reused: a natural number.     *)
(***************************************************************************)
EXTENDS JobStore

CONSTANTS
    GraphVersions,  \* execution.graphVersion of the deployed workers
    MaxCheckpoint,  \* bound: checkpoint ids of one job
    Tasks           \* graph tasks with pending writes

ASSUME MaxCheckpointAssumption == MaxCheckpoint \in Nat \ {0}

VARIABLES
    graphOf,            \* runs.graph_version, in attempt order
    attempts,           \* table checkpoint_attempts, one row per run
    checkpoints,        \* saver storage: checkpoint ids in the thread of a run
    writes,             \* saver storage: pending writes, <<checkpoint, task>>
    saver,              \* the checkpointer of each run's executor
    confirmed,          \* history: the newest checkpoint whose put returned
    confirmedWrites     \* history: the pending writes whose putWrites returned

checkpointVars ==
    <<graphOf, attempts, checkpoints, writes, saver, confirmed, confirmedWrites>>
allVars == <<vars, checkpointVars>>

NoCheckpoint == 0
Ids == 1 .. MaxCheckpoint

AttemptStatus == {"absent", "preparing", "active", "superseded"}
AttemptRow == [status : AttemptStatus, forkRun : 0 .. MaxRuns,
               forkId : 0 .. MaxCheckpoint, latest : 0 .. MaxCheckpoint]
AbsentAttempt == [status |-> "absent", forkRun |-> NoRun, forkId |-> NoCheckpoint,
                  latest |-> NoCheckpoint]

\* init: the stage of initializeCheckpointAttempt; tasks: pending writes still to
\* copy; put, write: the put and putWrites call in flight, one of each at most.
SaverState ==
    [init : {"idle", "prepare", "read", "copy", "activate", "ready", "stopped"},
     tasks : SUBSET Tasks,
     put : [stage : {"none", "store", "confirm", "advance"}, id : 0 .. MaxCheckpoint],
     write : [stage : {"none", "store", "confirm"}, id : 0 .. MaxCheckpoint,
              task : Tasks \cup {None}]]
NoPut == [stage |-> "none", id |-> NoCheckpoint]
NoWrite == [stage |-> "none", id |-> NoCheckpoint, task |-> None]
IdleSaver == [init |-> "idle", tasks |-> {}, put |-> NoPut, write |-> NoWrite]

CheckpointInit ==
    /\ Init
    /\ graphOf = [j \in Jobs |-> <<>>]
    /\ attempts = [j \in Jobs |-> [r \in Attempts |-> AbsentAttempt]]
    /\ checkpoints = [j \in Jobs |-> [r \in Attempts |-> {}]]
    /\ writes = [j \in Jobs |-> [r \in Attempts |-> {}]]
    /\ saver = [j \in Jobs |-> [r \in Attempts |-> IdleSaver]]
    /\ confirmed = [j \in Jobs |-> NoCheckpoint]
    /\ confirmedWrites = [j \in Jobs |-> {}]

-----------------------------------------------------------------------------
(* CheckpointRepository                                                    *)

ActiveAttempts(j) == {r \in Attempts : attempts[j][r].status = "active"}

\* Mutants: an active attempt without a checkpoint counts; so does a superseded one.
AnyActiveAttempt(j) == ActiveAttempts(j)
AnyPointer(j) == {r \in Attempts : attempts[j][r].latest # NoCheckpoint}

\* The attempt a new run forks from: the active one, if it got anywhere.
ForkSources(j) == {r \in ActiveAttempts(j) : attempts[j][r].latest # NoCheckpoint}

\* Mutant: the graph version of the fork source is not compared.
PrepareAnyGraph(j, r) ==
    IF ~Authorized(j, r) THEN Authorization(j, r)
    ELSE IF attempts[j][r].status # "absent" THEN "existing" ELSE "prepared"

\* prepareCheckpointAttempt
PrepareResult(j, r) ==
    IF ~Authorized(j, r) THEN Authorization(j, r)
    ELSE IF attempts[j][r].status = "superseded" THEN "lease_lost"
    ELSE IF attempts[j][r].status # "absent" THEN "existing"
    ELSE IF \E s \in ForkSources(j) : graphOf[j][s] # graphOf[j][r] THEN "incompatible_graph"
    ELSE "prepared"

InsertAttempt(j, r) ==
    attempts' = [attempts EXCEPT ![j][r] =
        IF ForkSources(j) = {} THEN [AbsentAttempt EXCEPT !.status = "preparing"]
        ELSE LET s == CHOOSE s \in ForkSources(j) : TRUE IN
             [AbsentAttempt EXCEPT !.status = "preparing", !.forkRun = s,
                                   !.forkId = attempts[j][s].latest]]

\* Mutant: activation is not fenced.
MayActivateLate(j, r, copied) ==
    attempts[j][r].status = "preparing" /\ attempts[j][r].forkId = copied
MayActivate(j, r, copied) ==
    /\ Authorized(j, r)
    /\ attempts[j][r].status = "preparing" /\ attempts[j][r].forkId = copied

\* activateCheckpointAttempt: the pointer moves to the copy in one transaction.
ActivateAttempt(j, r, copied) ==
    /\ MayActivate(j, r, copied)
    /\ attempts' = [attempts EXCEPT ![j] = [s \in Attempts |->
           IF s = r THEN [@[s] EXCEPT !.status = "active", !.latest = copied]
           ELSE IF @[s].status = "active" THEN [@[s] EXCEPT !.status = "superseded"]
           ELSE @[s]]]

\* authorizeCheckpointWrite
MayWrite(j, r) == Authorized(j, r) /\ attempts[j][r].status = "active"

\* Mutant: an older checkpoint may become the latest.
AdvanceAnyway(j, r, c) ==
    IF ~Authorized(j, r) THEN Authorization(j, r)
    ELSE IF attempts[j][r].status # "active" THEN "not_active" ELSE "advanced"

\* advanceCheckpointPointer
AdvanceResult(j, r, c) ==
    IF ~Authorized(j, r) THEN Authorization(j, r)
    ELSE IF attempts[j][r].status # "active" THEN "not_active"
    ELSE IF attempts[j][r].latest = c THEN "replayed"
    ELSE IF c < attempts[j][r].latest THEN "stale_checkpoint"
    ELSE "advanced"

-----------------------------------------------------------------------------
(* The executor of run r                                                   *)

Move(j, r, stage) == saver' = [saver EXCEPT ![j][r].init = stage]

\* An exception reaches the graph and ends the execution; so does a crash.
Stop(j, r) == saver' = [saver EXCEPT ![j][r] = [IdleSaver EXCEPT !.init = "stopped"]]

\* initializeCheckpointAttempt, first await.
Prepare(j, r) ==
    /\ saver[j][r].init = "prepare"
    /\ IF PrepareResult(j, r) = "prepared"
       THEN /\ InsertAttempt(j, r)
            /\ Move(j, r, IF ForkSources(j) = {} THEN "activate" ELSE "read")
       ELSE Stop(j, r) /\ UNCHANGED attempts
    /\ UNCHANGED <<vars, graphOf, checkpoints, writes, confirmed, confirmedWrites>>

\* forkPreparedCheckpoint: the source is read once, with its pending writes ...
ReadSource(j, r) ==
    LET s == attempts[j][r].forkRun
        c == attempts[j][r].forkId IN
    /\ saver[j][r].init = "read"
    /\ IF c \in checkpoints[j][s]
       THEN /\ saver' = [saver EXCEPT ![j][r] = [@ EXCEPT
                  !.init = "copy", !.tasks = {t \in Tasks : <<c, t>> \in writes[j][s]}]]
            /\ checkpoints' = [checkpoints EXCEPT ![j][r] = @ \cup {c}]
       ELSE Stop(j, r) /\ UNCHANGED checkpoints
    /\ UNCHANGED <<vars, graphOf, attempts, writes, confirmed, confirmedWrites>>

\* ... and then written to the new thread, task by task, without a fence.
CopyWrites(j, r) ==
    /\ saver[j][r].init = "copy"
    /\ \/ \E t \in saver[j][r].tasks :
             /\ writes' = [writes EXCEPT ![j][r] = @ \cup {<<attempts[j][r].forkId, t>>}]
             /\ saver' = [saver EXCEPT ![j][r].tasks = @ \ {t}]
       \/ /\ saver[j][r].tasks = {}
          /\ Move(j, r, "activate")
          /\ UNCHANGED writes
    /\ UNCHANGED <<vars, graphOf, attempts, checkpoints, confirmed, confirmedWrites>>

Activate(j, r) ==
    /\ saver[j][r].init = "activate"
    /\ \/ ActivateAttempt(j, r, attempts[j][r].forkId) /\ Move(j, r, "ready")
       \/ ~Authorized(j, r) /\ Stop(j, r) /\ UNCHANGED attempts
    /\ UNCHANGED <<vars, graphOf, checkpoints, writes, confirmed, confirmedWrites>>

Used(j) ==
    UNION {checkpoints[j][r] : r \in Attempts} \cup {saver[j][r].put.id : r \in Attempts}

PutStage(j, r, stage) == saver' = [saver EXCEPT ![j][r].put.stage = stage]

\* Mutant: the pointer moves without the store.
PointerFirst(c) == [stage |-> "advance", id |-> c]
NewPut(c) == [stage |-> "store", id |-> c]

\* FencedCheckpointSaver.put: authorize, store, authorize again, move the pointer.
\* Ids follow the clock of the worker that makes them, and clocks differ: a new
\* id may lie before the latest one.
BeginPut(j, r, c) ==
    /\ saver[j][r].init = "ready" /\ saver[j][r].put = NoPut
    /\ c \notin Used(j)
    /\ IF MayWrite(j, r)
       THEN saver' = [saver EXCEPT ![j][r].put = NewPut(c)]
       ELSE Stop(j, r)
    /\ UNCHANGED <<vars, graphOf, attempts, checkpoints, writes, confirmed, confirmedWrites>>

StoreCheckpoint(j, r) ==
    /\ saver[j][r].put.stage = "store"
    /\ checkpoints' = [checkpoints EXCEPT ![j][r] = @ \cup {saver[j][r].put.id}]
    /\ PutStage(j, r, "confirm")
    /\ UNCHANGED <<vars, graphOf, attempts, writes, confirmed, confirmedWrites>>

ConfirmPut(j, r) ==
    /\ saver[j][r].put.stage = "confirm"
    /\ IF MayWrite(j, r) THEN PutStage(j, r, "advance") ELSE Stop(j, r)
    /\ UNCHANGED <<vars, graphOf, attempts, checkpoints, writes, confirmed, confirmedWrites>>

AdvancePointer(j, r) ==
    LET c == saver[j][r].put.id IN
    /\ saver[j][r].put.stage = "advance"
    /\ IF AdvanceResult(j, r, c) \in {"advanced", "replayed"}
       THEN /\ attempts' = [attempts EXCEPT ![j][r].latest = c]
            /\ saver' = [saver EXCEPT ![j][r].put = NoPut]
            /\ confirmed' = [confirmed EXCEPT ![j] = IF c > @ THEN c ELSE @]
       ELSE Stop(j, r) /\ UNCHANGED <<attempts, confirmed>>
    /\ UNCHANGED <<vars, graphOf, checkpoints, writes, confirmedWrites>>

WriteStage(j, r, stage) == saver' = [saver EXCEPT ![j][r].write.stage = stage]

\* FencedCheckpointSaver.putWrites: authorize, store, authorize again.
BeginWrites(j, r, c, t) ==
    /\ saver[j][r].init = "ready" /\ saver[j][r].write = NoWrite
    /\ c \in checkpoints[j][r] /\ <<c, t>> \notin writes[j][r]
    /\ IF MayWrite(j, r)
       THEN saver' = [saver EXCEPT ![j][r].write = [stage |-> "store", id |-> c, task |-> t]]
       ELSE Stop(j, r)
    /\ UNCHANGED <<vars, graphOf, attempts, checkpoints, writes, confirmed, confirmedWrites>>

StoreWrites(j, r) ==
    LET w == saver[j][r].write IN
    /\ w.stage = "store"
    /\ writes' = [writes EXCEPT ![j][r] = @ \cup {<<w.id, w.task>>}]
    /\ WriteStage(j, r, "confirm")
    /\ UNCHANGED <<vars, graphOf, attempts, checkpoints, confirmed, confirmedWrites>>

ConfirmWrites(j, r) ==
    LET w == saver[j][r].write IN
    /\ w.stage = "confirm"
    /\ IF MayWrite(j, r)
       THEN /\ saver' = [saver EXCEPT ![j][r].write = NoWrite]
            /\ confirmedWrites' = [confirmedWrites EXCEPT ![j] = @ \cup {<<w.id, w.task>>}]
       ELSE Stop(j, r) /\ UNCHANGED confirmedWrites
    /\ UNCHANGED <<vars, graphOf, attempts, checkpoints, writes, confirmed>>

\* The process dies, or the abort signal ends the execution.
Abort(j, r) ==
    /\ saver[j][r].init \notin {"idle", "stopped"}
    /\ Stop(j, r)
    /\ UNCHANGED <<vars, graphOf, attempts, checkpoints, writes, confirmed, confirmedWrites>>

-----------------------------------------------------------------------------
(* The job store underneath                                                *)

\* claimJob records the worker's graph version and its executor starts.
ClaimWithGraph(j, g) ==
    /\ ClaimJob(j)
    /\ graphOf' = [graphOf EXCEPT ![j] = Append(@, g)]
    /\ saver' = [saver EXCEPT ![j][Len(runs[j]) + 1].init = "prepare"]
    /\ UNCHANGED <<attempts, checkpoints, writes, confirmed, confirmedWrites>>

\* The graph has returned (its calls to the saver with it) or the execution was
\* stopped; the runner concludes the claim.
Conclude(j, r) ==
    /\ \/ /\ saver[j][r].init = "ready"
          /\ saver[j][r].put = NoPut /\ saver[j][r].write = NoWrite
          /\ CompleteClaim(j, r, FALSE) \/ \E i \in Interrupts : PauseClaim(j, r, i)
       \/ /\ saver[j][r].init = "stopped"
          /\ \E outcome \in {"cancelled", "failed"} : TerminateClaim(j, r, outcome)
    /\ Stop(j, r)
    /\ UNCHANGED <<graphOf, attempts, checkpoints, writes, confirmed, confirmedWrites>>

OtherStoreStep(j) ==
    /\ \/ \E k \in RequestKeys : CreateJob(j, k)
       \/ Tick(j) \/ CancelParkedJob(j) \/ CancelRunningJob(j)
       \/ \E p \in Payloads : SubmitOutlineReply(j, p)
       \/ \E r \in DOMAIN runs[j] : HeartbeatClaim(j, r)
    /\ UNCHANGED checkpointVars

SaverStep(j, r) ==
    \/ Prepare(j, r) \/ ReadSource(j, r) \/ CopyWrites(j, r) \/ Activate(j, r)
    \/ \E c \in Ids : BeginPut(j, r, c)
    \/ StoreCheckpoint(j, r) \/ ConfirmPut(j, r) \/ AdvancePointer(j, r)
    \/ \E c \in Ids, t \in Tasks : BeginWrites(j, r, c, t)
    \/ StoreWrites(j, r) \/ ConfirmWrites(j, r)
    \/ Abort(j, r)

CheckpointNext ==
    \E j \in Jobs :
        \/ OtherStoreStep(j)
        \/ \E g \in GraphVersions : ClaimWithGraph(j, g)
        \/ \E r \in Attempts : SaverStep(j, r) \/ Conclude(j, r)

CheckpointSpec == CheckpointInit /\ [][CheckpointNext]_allVars

-----------------------------------------------------------------------------
(* Properties                                                              *)

\* With checkpoint_attempts_fork_shape_check of the schema.
CheckpointTypeOK ==
    /\ graphOf \in [Jobs -> Seq(GraphVersions)]
    /\ attempts \in [Jobs -> [Attempts -> AttemptRow]]
    /\ checkpoints \in [Jobs -> [Attempts -> SUBSET Ids]]
    /\ writes \in [Jobs -> [Attempts -> SUBSET (Ids \X Tasks)]]
    /\ saver \in [Jobs -> [Attempts -> SaverState]]
    /\ confirmed \in [Jobs -> 0 .. MaxCheckpoint]
    /\ confirmedWrites \in [Jobs -> SUBSET (Ids \X Tasks)]
    /\ \A j \in Jobs : \A r \in Attempts :
          /\ attempts[j][r].status # "absent" => r \in DOMAIN runs[j]
          /\ attempts[j][r].forkRun # NoRun <=> attempts[j][r].forkId # NoCheckpoint

\* A job has one recovery point: at most one attempt is active, and it is newer
\* than every attempt it superseded, whatever order stale and new runs prepare
\* and activate in.
OneRecoveryPoint ==
    \A j \in Jobs : \A a \in ActiveAttempts(j) : \A r \in Attempts :
        attempts[j][r].status \in {"active", "superseded"} => r <= a

\* Every pointer can be followed: what an attempt points to, and what a fork was
\* told to copy, is in the storage thread it names, under the same graph version.
PointersResolve ==
    \A j \in Jobs : \A r \in Attempts :
        LET a == attempts[j][r] IN
        /\ a.latest # NoCheckpoint => a.latest \in checkpoints[j][r]
        /\ a.forkId # NoCheckpoint =>
              /\ a.forkId \in checkpoints[j][a.forkRun]
              /\ graphOf[j][a.forkRun] = graphOf[j][r]

\* The next run knows where to start and finds what it is pointed to: one recovery
\* point, newer than what it replaced, with every pointer followed to its end.
CheckpointsAreConsistent == CheckpointTypeOK /\ OneRecoveryPoint /\ PointersResolve

\* Nothing the graph was told is saved gets lost: the active attempt points no
\* further back than any checkpoint whose put returned, in this run or in an
\* earlier one, and has the confirmed pending writes of the one it points to.
ConfirmedWorkSurvives ==
    \A j \in Jobs : \A a \in ActiveAttempts(j) :
        /\ attempts[j][a].latest >= confirmed[j]
        /\ \A t \in Tasks :
              <<attempts[j][a].latest, t>> \in confirmedWrites[j] =>
                  <<attempts[j][a].latest, t>> \in writes[j][a]

RecoveryPoint(j) ==
    IF ActiveAttempts(j) = {} THEN NoCheckpoint
    ELSE attempts[j][CHOOSE a \in ActiveAttempts(j) : TRUE].latest

MovesUnderLease(j) ==
    /\ RecoveryPoint(j) <= RecoveryPoint(j)'
    /\ RecoveryPoint(j) # RecoveryPoint(j)' =>
          \E r \in Attempts : Authorized(j, r) /\ attempts'[j][r].status = "active"
    /\ \A r \in Attempts :
          attempts[j][r].status = "superseded" => attempts'[j][r] = attempts[j][r]

\* A late worker cannot move the recovery point: it never goes backwards, and it
\* changes only under the lease of the run that then owns it; superseded
\* attempts are frozen.
RecoveryPointIsFenced == [][\A j \in Jobs : MovesUnderLease(j)]_allVars
=============================================================================
