---------------------------- MODULE WriteSystem -----------------------------
(***************************************************************************)
(* The write path end to end: the job store (JobStore), the outbox and its *)
(* dispatchers (Outbox), the BullMQ queue between them and the workers,    *)
(* and WorkerJobRunner.run in every worker slot, with its heartbeat        *)
(* monitor running beside the executor.                                    *)
(*                                                                         *)
(* A slot is one concurrent execution of the BullMQ processor.  Each step  *)
(* of a slot is one await of runner.ts; between two of them every other    *)
(* process may act.  BullMQ itself is external: its messages are modelled  *)
(* from the options bullmq-adapter.ts gives it.                            *)
(***************************************************************************)
EXTENDS JobStore

CONSTANTS
    Dispatchers, BatchSize, MaxAttempts,   \* see Outbox
    MaxFaults,          \* bound: faults of the environment, all kinds together
    Slots,              \* concurrent executions of the queue processor
    QueueAttempts,      \* DEFAULT_WRITE_JOB_OPTIONS.attempts
    MaxStalledCount     \* maxStalledCount of the BullMQ worker

ASSUME SystemAssumption ==
    /\ BatchSize \in Nat \ {0} /\ MaxAttempts \in Nat \ {0} /\ MaxFaults \in Nat
    /\ QueueAttempts \in Nat \ {0} /\ MaxStalledCount \in Nat
    /\ None \notin Slots

VARIABLES
    outbox, held, busy, queue, deliveries, faults,   \* see Outbox
    message,    \* the BullMQ job under each queue job id; gaveUp remembers, for the
                \* properties only, that its attempts or stalls were spent once
    slot        \* the state of WorkerJobRunner.run in each slot

\* write-{jobId} and resume-{outboxEventId}: one queue id per outbox row.
Messages == {EnqueueKey(j) : j \in Jobs}
                \cup {ResumeKey(j, i) : j \in Jobs, i \in Interrupts}

Box == INSTANCE Outbox WITH Events <- Messages

boxVars == <<outbox, held, busy, queue, deliveries>>
systemVars == <<vars, boxVars, faults, message, slot>>

Fault == faults < MaxFaults /\ faults' = faults + 1

NoSlot == None
FreshMessage ==
    [state |-> "waiting", owner |-> NoSlot, attempts |-> 0, stalls |-> 0, gaveUp |-> FALSE]
AbsentMessage == [FreshMessage EXCEPT !.state = "absent"]
IdleSlot == [pc |-> "idle", message |-> None, job |-> None, run |-> NoRun,
             monitor |-> "none", interrupt |-> None]

SystemInit ==
    /\ Init
    /\ Box!Init
    /\ message = [m \in Messages |-> AbsentMessage]
    /\ slot = [w \in Slots |-> IdleSlot]

-----------------------------------------------------------------------------
(* The API, and the outbox with the queue                                  *)

\* The rows a business transaction inserted reach the dispatcher's table.
InsertRow(m) ==
    /\ Box!Insert(m)
    /\ UNCHANGED <<message, slot>>

Submit(j, k) == CreateJob(j, k) /\ InsertRow(EnqueueKey(j))

Reply(j, p) ==
    /\ SubmitOutlineReply(j, p)
    /\ \E i \in PendingInterrupts(j) : InsertRow(ResumeKey(j, i))

Cancel(j) ==
    /\ CancelParkedJob(j) \/ CancelRunningJob(j)
    /\ UNCHANGED <<boxVars, faults, message, slot>>

\* A message exists from the moment the queue accepts its id.
FollowQueue ==
    message' = [m \in Messages |->
        IF m \in queue' \ queue THEN [FreshMessage EXCEPT !.gaveUp = message[m].gaveUp]
        ELSE message[m]]

DispatcherStep(d) == Box!Dispatch(d) /\ FollowQueue /\ UNCHANGED <<vars, slot>>

DispatcherFault(d) == Box!Misfortune(d) /\ FollowQueue /\ UNCHANGED <<vars, slot>>

OutboxClock(m) ==
    /\ Box!BecomesDue(m) \/ Box!LockTimesOut(m)
    /\ UNCHANGED <<vars, message, slot>>

-----------------------------------------------------------------------------
(* BullMQ                                                                  *)

Goto(w, pc) == slot' = [slot EXCEPT ![w].pc = pc]

Working(w) == slot[w].pc # "idle"

\* The processor is called with the next waiting message.
Take(w, m) ==
    /\ ~Working(w)
    /\ message[m].state = "waiting"
    /\ message' = [message EXCEPT ![m].state = "active", ![m].owner = w]
    /\ slot' = [slot EXCEPT ![w] = [IdleSlot EXCEPT !.pc = "claim", !.message = m, !.job = m.job]]
    /\ UNCHANGED <<vars, boxVars, faults>>

\* A message whose BullMQ lock was taken over is no longer this slot's to settle.
Settle(w, settled) ==
    /\ message' = IF message[slot[w].message].owner = w
                  THEN [message EXCEPT ![slot[w].message] = settled] ELSE message
    /\ slot' = [slot EXCEPT ![w] = IdleSlot]

\* The processor returned: the delivery is complete.
Acknowledge(w) ==
    /\ slot[w].pc = "ack"
    /\ Settle(w, [message[slot[w].message] EXCEPT !.state = "done", !.owner = NoSlot])
    /\ UNCHANGED <<vars, boxVars, faults>>

\* The processor threw: backoff and another attempt, until attempts are spent.
Retry(w) ==
    /\ slot[w].pc = "retry"
    /\ LET m == message[slot[w].message] IN
       Settle(w, LET spent == m.attempts + 1 >= QueueAttempts IN
                 [m EXCEPT !.owner = NoSlot, !.attempts = @ + 1,
                           !.state = IF spent THEN "failed" ELSE "delayed",
                           !.gaveUp = @ \/ spent])
    /\ UNCHANGED <<vars, boxVars, faults>>

\* The owner of a lease heartbeats well within it: with its slot alive, a lease
\* runs out only when the process was held up for longer than the lease.
OwnerAlive(j) ==
    \E w \in Slots : /\ slot[w].job = j /\ slot[w].run = jobs[j].leaseToken
                     /\ slot[w].pc \in {"execute", "complete", "pause", "fail", "cancel"}

Orphaned(j) == jobs[j].lease > 0 /\ ~OwnerAlive(j)

\* The eight attempts are 1, 2, 4 ... 64 seconds apart, less a fifth of jitter,
\* so the last of them begins more than a lease (60 s) after the first: a lease
\* that was orphaned meanwhile has expired by then.
BackoffEnds(m) ==
    /\ message[m].state = "delayed"
    /\ message[m].attempts = QueueAttempts - 1 => ~Orphaned(m.job)
    /\ message' = [message EXCEPT ![m].state = "waiting"]
    /\ UNCHANGED <<vars, boxVars, faults, slot>>

Stalled(m) ==
    LET row == message[m]
        spent == row.stalls >= MaxStalledCount IN
    message' = [message EXCEPT ![m] =
        [row EXCEPT !.owner = NoSlot, !.stalls = row.stalls + 1,
                    !.state = IF spent THEN "failed" ELSE "waiting",
                    !.gaveUp = row.gaveUp \/ spent]]

Abandoned(m) ==
    /\ message[m].state = "active"
    /\ ~\E w \in Slots : Working(w) /\ slot[w].message = m /\ message[m].owner = w

\* The stalled check finds the message of a dead process.  The queue lock (120 s)
\* is twice the lease (60 s), so the dead run's lease has expired by then.
StalledCheck(m) ==
    /\ Abandoned(m)
    /\ jobs[m.job].lease = 0 \/ \E w \in Slots : slot[w].job = m.job /\ slot[w].run = jobs[m.job].leaseToken
    /\ Stalled(m)
    /\ UNCHANGED <<vars, boxVars, faults, slot>>

\* A live but blocked process loses its queue lock and does not know it.
FalseStall(m) ==
    /\ message[m].state = "active" /\ ~Abandoned(m)
    /\ Fault
    /\ Stalled(m)
    /\ UNCHANGED <<vars, boxVars, slot>>

\* Retention removes a finished message; its id may be used again.
Forget(m) ==
    /\ message[m].state \in {"done", "failed"}
    /\ Box!QueueForgets(m)
    /\ message' = [message EXCEPT ![m] = [AbsentMessage EXCEPT !.gaveUp = message[m].gaveUp]]
    /\ UNCHANGED <<vars, slot>>

-----------------------------------------------------------------------------
(* WorkerJobRunner.run                                                     *)

\* claimJob succeeds: executor and heartbeat monitor start with this identity.
Claim(w) ==
    /\ slot[w].pc = "claim"
    /\ ClaimJob(slot[w].job)
    /\ slot' = [slot EXCEPT ![w].pc = "execute", ![w].run = Len(runs[slot[w].job]) + 1]
    /\ UNCHANGED <<boxVars, faults, message>>

ClaimRefused(w) ==
    /\ slot[w].pc = "claim"
    /\ ~Claimable(slot[w].job)
    /\ Goto(w, "look")
    /\ UNCHANGED <<vars, boxVars, faults, message>>

\* Mutant: only a queued job is worth another delivery.
BusyWhenQueued(status) == status = "queued"
Busy(status) == status \in {"running", "queued"}

\* getJob, a second read: busy is retried, anything else is acknowledged.
Look(w) ==
    /\ slot[w].pc = "look"
    /\ Goto(w, IF Busy(jobs[slot[w].job].status) THEN "retry" ELSE "ack")
    /\ UNCHANGED <<vars, boxVars, faults, message>>

\* One turn of monitorHeartbeat while the executor runs.
Heartbeat(w) ==
    LET j == slot[w].job
        r == slot[w].run IN
    /\ slot[w].pc = "execute" /\ slot[w].monitor = "none"
    /\ \/ HeartbeatResult(j, r) = "renewed" /\ HeartbeatClaim(j, r) /\ UNCHANGED slot
       \/ /\ HeartbeatResult(j, r) # "renewed"
          /\ slot' = [slot EXCEPT ![w].monitor = HeartbeatResult(j, r)]
          /\ UNCHANGED vars
    /\ UNCHANGED <<boxVars, faults, message>>

\* A heartbeat that throws counts as a lost lease.
HeartbeatThrows(w) ==
    /\ slot[w].pc = "execute" /\ slot[w].monitor = "none"
    /\ Fault
    /\ slot' = [slot EXCEPT ![w].monitor = "lease_lost"]
    /\ UNCHANGED <<vars, boxVars, message>>

\* Mutant: what the monitor saw is taken for the next step.
RouteToMonitor(monitor, result) == IF monitor = "none" THEN result ELSE monitor

\* What the executor hands back decides the settling transaction, unless the
\* monitor has seen the lease lost or the job cancelled.
Route(monitor, result) ==
    CASE monitor = "lease_lost"       -> "retry"
      [] monitor = "cancel_requested" -> "cancel"
      [] OTHER                        -> result

\* The executor completes, fails (or throws), or stops at an interrupt.
ExecutionEnds(w) ==
    /\ slot[w].pc = "execute"
    /\ \/ \E result \in {"complete", "fail"} :
             Goto(w, Route(slot[w].monitor, result))
       \/ \E i \in Interrupts :
             /\ jobInterrupts[slot[w].job][i].status = "absent"
             /\ slot' = [slot EXCEPT ![w].pc = Route(slot[w].monitor, "pause"),
                                     ![w].interrupt = i]
    /\ UNCHANGED <<vars, boxVars, faults, message>>

\* completeClaim and pauseClaim, by their answers.
Conclude(w) ==
    LET j == slot[w].job
        r == slot[w].run IN
    /\ slot[w].pc \in {"complete", "pause"}
    /\ \/ /\ slot[w].pc = "complete" /\ CompleteClaim(j, r, FALSE)
          /\ Goto(w, "ack")
       \/ /\ slot[w].pc = "pause" /\ PauseClaim(j, r, slot[w].interrupt)
          /\ Goto(w, "ack")
       \/ /\ Authorization(j, r) = "cancel_requested" /\ Goto(w, "cancel")
          /\ UNCHANGED vars
       \/ /\ Authorization(j, r) = "lease_lost" /\ Goto(w, "retry")
          /\ UNCHANGED vars
    /\ UNCHANGED <<boxVars, faults, message>>

\* The connection fails at completeClaim or pauseClaim, before the transaction
\* or after its commit: the catch block settles the run as failed.
ConcludeThrows(w) ==
    LET j == slot[w].job
        r == slot[w].run IN
    /\ slot[w].pc \in {"complete", "pause"}
    /\ Fault
    /\ \/ slot[w].pc = "complete" /\ CompleteClaim(j, r, FALSE)
       \/ slot[w].pc = "pause" /\ PauseClaim(j, r, slot[w].interrupt)
       \/ UNCHANGED vars
    /\ Goto(w, "fail")
    /\ UNCHANGED <<boxVars, message>>

\* settleFailure and settleCancellation.
Terminate(w) ==
    LET j == slot[w].job
        r == slot[w].run
        outcome == IF slot[w].pc = "fail" THEN "failed" ELSE "cancelled" IN
    /\ slot[w].pc \in {"fail", "cancel"}
    /\ \/ TerminateClaim(j, r, outcome) /\ Goto(w, "ack")
       \/ /\ slot[w].pc = "fail" /\ Authorization(j, r) = "cancel_requested"
          /\ Goto(w, "cancel")
          /\ UNCHANGED vars
       \/ /\ ~HoldsLease(j, r) /\ Goto(w, "retry")
          /\ UNCHANGED vars
    /\ UNCHANGED <<boxVars, faults, message>>

\* terminateClaim, claimJob or getJob throws: the processor throws.
TerminateThrows(w) ==
    LET j == slot[w].job
        r == slot[w].run IN
    /\ slot[w].pc \in {"fail", "cancel"}
    /\ Fault
    /\ \/ TerminateClaim(j, r, IF slot[w].pc = "fail" THEN "failed" ELSE "cancelled")
       \/ UNCHANGED vars
    /\ Goto(w, "retry")
    /\ UNCHANGED <<boxVars, message>>

ClaimThrows(w) ==
    /\ slot[w].pc \in {"claim", "look"}
    /\ Fault
    /\ \/ slot[w].pc = "claim" /\ ClaimJob(slot[w].job)
       \/ UNCHANGED vars
    /\ Goto(w, "retry")
    /\ UNCHANGED <<boxVars, message>>

\* The process dies; its run, its lease and its message are left as they are.
SlotCrash(w) ==
    /\ Working(w)
    /\ Fault
    /\ slot' = [slot EXCEPT ![w] = IdleSlot]
    /\ UNCHANGED <<vars, boxVars, message>>

LeaseClock(j) ==
    /\ Tick(j)
    /\ IF jobs'[j].lease = 0 /\ OwnerAlive(j) THEN Fault ELSE UNCHANGED faults
    /\ UNCHANGED <<boxVars, message, slot>>

-----------------------------------------------------------------------------

SlotStep(w) ==
    \/ Claim(w) \/ ClaimRefused(w) \/ Look(w) \/ ExecutionEnds(w)
    \/ Conclude(w) \/ Terminate(w) \/ Acknowledge(w) \/ Retry(w)

SlotFault(w) ==
    \/ HeartbeatThrows(w) \/ ConcludeThrows(w) \/ TerminateThrows(w)
    \/ ClaimThrows(w) \/ SlotCrash(w)

User(j) ==
    \/ \E k \in RequestKeys : Submit(j, k)
    \/ \E p \in Payloads : Reply(j, p)
    \/ Cancel(j)

SystemNext ==
    \/ \E j \in Jobs : User(j) \/ LeaseClock(j)
    \/ \E d \in Dispatchers : DispatcherStep(d) \/ DispatcherFault(d)
    \/ \E m \in Messages :
          \/ OutboxClock(m) \/ BackoffEnds(m) \/ StalledCheck(m)
          \/ FalseStall(m) \/ Forget(m)
    \/ \E w \in Slots :
          \/ SlotStep(w) \/ Heartbeat(w) \/ SlotFault(w)
          \/ \E m \in Messages : Take(w, m)

SystemSpec == SystemInit /\ [][SystemNext]_systemVars

\* Live processes keep running: dispatch loops poll, slots go on to their next
\* await and take waiting messages, executions end (provider calls have
\* timeouts), and clocks reach every retry, stall check and orphaned lease.
\* Nothing is assumed of users, and no fault is ever assumed to happen.
SystemFairness ==
    /\ \A d \in Dispatchers : WF_systemVars(DispatcherStep(d))
    /\ \A m \in Messages :
          /\ WF_systemVars(OutboxClock(m) /\ UNCHANGED faults)
          /\ WF_systemVars(BackoffEnds(m))
          /\ WF_systemVars(StalledCheck(m))
          /\ WF_systemVars(\E w \in Slots : Take(w, m))
    /\ \A w \in Slots : WF_systemVars(SlotStep(w))
    /\ \A j \in Jobs : WF_systemVars(LeaseClock(j) /\ ~OwnerAlive(j))

SystemFairSpec == SystemSpec /\ SystemFairness

-----------------------------------------------------------------------------
(* Properties                                                              *)

SlotState ==
    [pc : {"idle", "claim", "look", "execute", "complete", "pause", "fail", "cancel",
           "ack", "retry"},
     message : Messages \cup {None}, job : Jobs \cup {None}, run : Nat,
     monitor : {"none", "lease_lost", "cancel_requested"},
     interrupt : Interrupts \cup {None}]

MessageState ==
    [state : {"absent", "waiting", "active", "delayed", "done", "failed"},
     owner : Slots \cup {NoSlot}, attempts : 0 .. QueueAttempts,
     stalls : 0 .. MaxStalledCount + 1, gaveUp : BOOLEAN]

SystemTypeOK ==
    /\ TypeOK
    /\ Box!TypeOK
    /\ message \in [Messages -> MessageState]
    /\ slot \in [Slots -> SlotState]

\* The database lease, not the queue, decides who executes: however often BullMQ
\* delivers a job, two slots never hold the same run, and a slot that acts
\* without the current token is one whose run row is already closed.
RunsAreExclusive ==
    /\ \A v, w \in Slots :
          slot[v].run # NoRun /\ slot[v].job = slot[w].job /\ slot[v].run = slot[w].run => v = w
    /\ \A w \in Slots :
          slot[w].pc \in {"execute", "complete", "pause", "fail", "cancel"} =>
              OwnsRow(slot[w].job, slot[w].run) \/ ~ActiveRun(slot[w].job, slot[w].run)

\* Store, outbox, queue and slots are well typed together, and fit each other: one
\* slot acts for a run, and only the one that holds its lease has any effect.
SystemIsConsistent == SystemTypeOK /\ RunsAreExclusive

\* No lost wakeup: a job that is queued, or running with nobody left to finish
\* it, has a delivery on its way (an outbox row to dispatch or a queue message to
\* process), unless the outbox or the queue gave one of its deliveries up or a
\* cancellation request closed it to claims.  Acknowledging one message too many
\* at any of the races between claimJob and getJob would leave such a job alone.
UnfinishedJobHasDelivery ==
    \A j \in Jobs :
        \/ jobs[j].status \notin {"queued", "running"}
        \/ jobs[j].status = "running" /\ (OwnerAlive(j) \/ jobs[j].cancelRequested)
        \/ \E m \in Messages :
              /\ m.job = j
              /\ \/ outbox[m].status \in {"pending", "publishing", "failed"}
                 \/ message[m].state \in {"waiting", "active", "delayed"}
                 \/ message[m].gaveUp

\* system-design.md: an accepted job comes to an end (here also: to a question, or
\* to a cancellation request), or is marked as failed by a reconciler.
AcceptedJobConcludes ==
    \A j \in Jobs : jobs[j].status = "queued" ~>
        \/ jobs[j].status \in TerminalStatus \cup {"awaiting_input"}
        \/ jobs[j].cancelRequested

\* What the code does guarantee: the same, unless the outbox or the queue gave up a
\* delivery of the job, which takes more faults than the stalls the queue forgives.
\* A race that loses a message, a claim refused for ever or a lease that nobody may
\* take over would leave the job waiting without that excuse.
DeliveredJobConcludes ==
    \A j \in Jobs : jobs[j].status = "queued" ~>
        \/ jobs[j].status \in TerminalStatus \cup {"awaiting_input"}
        \/ jobs[j].cancelRequested
        \/ /\ faults > MaxStalledCount
           /\ \E m \in Messages :
                 m.job = j /\ (outbox[m].status = "failed" \/ message[m].gaveUp)

\* system-design.md: a cancellation recorded on a running job converges to
\* cancelled by heartbeat polling even when every notification is lost.
CancellationConverges ==
    \A j \in Jobs : jobs[j].cancelRequested ~> jobs[j].status = "cancelled"
=============================================================================
