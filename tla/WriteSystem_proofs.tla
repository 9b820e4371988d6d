------------------------- MODULE WriteSystem_proofs -------------------------
(***************************************************************************)
(* Theorems about the write path end to end, for any number of jobs,       *)
(* slots, dispatchers, deliveries and faults: it drives the job store only *)
(* through its own transactions, one slot acts for a run, and no accepted  *)
(* job is left without a delivery.                                         *)
(*                                                                         *)
(* The heart of the invariant is RequestIsServed: as long as a job is not  *)
(* parked or over, the message of the newest outbox row that asked for it  *)
(* is still in the queue, whatever became of older ones.  An acknowledged  *)
(* message is one whose job had stopped when its slot looked, and only a   *)
(* new row can open the job again.                                         *)
(***************************************************************************)
EXTENDS WriteSystem, JobStore_proofs

BoxProofs == INSTANCE Outbox_proofs WITH Events <- Messages

\* The newest row that asks for work on a job: its creation, or the latest reply.
Request(j) ==
    IF jobCommands[j] = <<>> THEN EnqueueKey(j)
    ELSE ResumeKey(j, jobCommands[j][Len(jobCommands[j])].interrupt)

Open(j) == jobs[j].status \in {"queued", "running"}

InQueue(m) == message[m].state \in {"waiting", "active", "delayed"}

\* Not handed to the queue yet, in the queue, or given up by it.
OnItsWay(m) == deliveries[m] = 0 \/ InQueue(m) \/ message[m].gaveUp

\* A message is one of an inserted row, and is retried while its attempts last.
MessagesAreCounted ==
    /\ message \in [Messages -> MessageState]
    /\ \A m \in Messages :
          /\ message[m].state # "absent" \/ message[m].gaveUp => deliveries[m] > 0
          /\ deliveries[m] > 0 => outbox[m].status # "absent"
          /\ message[m].state = "failed" => message[m].gaveUp
          /\ InQueue(m) => message[m].attempts < QueueAttempts
                           /\ message[m].stalls <= MaxStalledCount
          /\ message[m].owner # NoSlot => message[m].state = "active"

\* A slot works on the job of its message, with a run that it claimed itself.
SlotIsKnown(w) ==
    /\ slot[w].pc # "idle" =>
          /\ slot[w].message \in Messages /\ slot[w].job = slot[w].message.job
          /\ deliveries[slot[w].message] > 0
    /\ slot[w].pc = "idle" => slot[w].run = NoRun
    /\ slot[w].pc = "pause" => slot[w].interrupt \in Interrupts
    /\ slot[w].run # NoRun => slot[w].run \in DOMAIN runs[slot[w].job]

SlotsAreKnown ==
    /\ slot \in [Slots -> SlotState]
    /\ \A w \in Slots : SlotIsKnown(w)
    /\ \A v, w \in Slots :
          slot[v].run # NoRun /\ slot[v].job = slot[w].job /\ slot[v].run = slot[w].run => v = w

RequestIsServed(j) ==
    /\ jobs[j].status = "absent" => jobCommands[j] = <<>>
    /\ jobs[j].status # "absent" => outbox[Request(j)].status # "absent"
    /\ Open(j) => OnItsWay(Request(j))
    /\ \A w \in Slots : slot[w].pc = "ack" /\ slot[w].message = Request(j) => ~Open(j)

\* Outbox, queue and slots agree about what was delivered.
DeliveryInv == BoxProofs!OutboxInv /\ MessagesAreCounted /\ SlotsAreKnown

SystemInv == DeliveryInv /\ \A j \in Jobs : RequestIsServed(j)

\* What the store guarantees in every state.
StoreInv == TypeOK /\ OneOwner /\ OneOpenQuestion

-----------------------------------------------------------------------------
(* The store underneath                                                    *)

\* The rows of the outbox are requests for work on some job.
LEMMA MessagesAskForJobs ==
  /\ \A m \in Messages : m.job \in Jobs
  /\ \A j \in Jobs : /\ EnqueueKey(j) \in Messages /\ EnqueueKey(j).job = j
                     /\ \A i \in Interrupts : /\ ResumeKey(j, i) \in Messages
                                              /\ ResumeKey(j, i).job = j
                                              /\ ResumeKey(j, i) # EnqueueKey(j)
  BY DEF Messages, EnqueueKey, ResumeKey

\* A slot that is not idle works on a job.
LEMMA WorkingSlot ==
  ASSUME SlotsAreKnown, NEW w \in Slots, slot[w].pc # "idle"
  PROVE  /\ slot[w].message \in Messages /\ slot[w].job = slot[w].message.job
         /\ slot[w].job \in Jobs /\ slot[w] \in SlotState
  BY MessagesAskForJobs DEF SlotsAreKnown, SlotIsKnown

\* The transactions a slot calls for its run.
SlotTransaction(w) ==
    \/ HeartbeatClaim(slot[w].job, slot[w].run)
    \/ CompleteClaim(slot[w].job, slot[w].run, FALSE)
    \/ \E outcome \in {"cancelled", "failed"} : TerminateClaim(slot[w].job, slot[w].run, outcome)
    \/ \E i \in Interrupts : PauseClaim(slot[w].job, slot[w].run, i)

\* What a slot does to the store is a step of the run it holds.
LEMMA TransactionIsRunStep ==
  ASSUME NEW w \in Slots, SlotTransaction(w)
  PROVE  /\ slot[w].run \in DOMAIN runs[slot[w].job]
         /\ RunStep(slot[w].job, slot[w].run)
<1>1. slot[w].run \in DOMAIN runs[slot[w].job]
  BY DEF SlotTransaction, HeartbeatClaim, CompleteClaim, TerminateClaim, PauseClaim,
         Authorized, ActiveRun
<1>2. FALSE \in BOOLEAN
  OBVIOUS
<1> QED
  BY <1>1, <1>2 DEF SlotTransaction, RunStep

\* What the store sees of a slot: a claim, a transaction of its run, or nothing.
LEMMA SlotAndStore ==
  ASSUME SlotsAreKnown, NEW w \in Slots, SlotStep(w) \/ Heartbeat(w) \/ SlotFault(w)
  PROVE  \/ slot[w].pc # "idle" /\ (ClaimJob(slot[w].job) \/ SlotTransaction(w))
         \/ UNCHANGED vars
<1>1. slot[w].pc = "pause" => slot[w].interrupt \in Interrupts
  BY DEF SlotsAreKnown, SlotIsKnown
<1>2. CASE Claim(w) \/ ClaimThrows(w)
  BY <1>2 DEF Claim, ClaimThrows
<1>3. CASE Heartbeat(w)
  BY <1>3 DEF Heartbeat, SlotTransaction
<1>4. CASE Conclude(w) \/ ConcludeThrows(w)
  BY <1>1, <1>4 DEF Conclude, ConcludeThrows, SlotTransaction
<1>5. CASE Terminate(w) \/ TerminateThrows(w)
  BY <1>5 DEF Terminate, TerminateThrows, SlotTransaction
<1>6. CASE \/ ClaimRefused(w) \/ Look(w) \/ ExecutionEnds(w) \/ Acknowledge(w) \/ Retry(w)
           \/ HeartbeatThrows(w) \/ SlotCrash(w)
  BY <1>6 DEF ClaimRefused, Look, ExecutionEnds, Acknowledge, Retry, HeartbeatThrows, SlotCrash
<1> QED
  BY <1>2, <1>3, <1>4, <1>5, <1>6 DEF SlotStep, SlotFault

\* Every step of the write path is a step of the job store, or leaves it alone.
LEMMA SystemStepsTheStore ==
  ASSUME SlotsAreKnown, [SystemNext]_systemVars
  PROVE  [Next]_vars
<1>1. CASE UNCHANGED systemVars
  BY <1>1 DEF systemVars
<1>2. ASSUME NEW j \in Jobs, User(j) \/ LeaseClock(j) PROVE Next
  <2>1. JobStep(j)
    BY <1>2 DEF User, Submit, Reply, Cancel, LeaseClock, JobStep
  <2> QED
    BY <2>1 DEF Next
<1>3. ASSUME NEW w \in Slots, SlotStep(w) \/ Heartbeat(w) \/ SlotFault(w) PROVE [Next]_vars
  <2>1. CASE slot[w].pc # "idle" /\ ClaimJob(slot[w].job)
    BY <2>1, WorkingSlot DEF Next, JobStep
  <2>2. CASE slot[w].pc # "idle" /\ SlotTransaction(w)
    BY <2>2, WorkingSlot, TransactionIsRunStep DEF Next
  <2> QED
    BY <1>3, <2>1, <2>2, SlotAndStore
<1>4. ASSUME NEW w \in Slots, NEW m \in Messages, Take(w, m) PROVE UNCHANGED vars
  BY <1>4 DEF Take
<1>5. ASSUME NEW d \in Dispatchers, DispatcherStep(d) \/ DispatcherFault(d)
      PROVE  UNCHANGED vars
  BY <1>5 DEF DispatcherStep, DispatcherFault
<1>6. ASSUME NEW m \in Messages,
             \/ OutboxClock(m) \/ BackoffEnds(m) \/ StalledCheck(m)
             \/ FalseStall(m) \/ Forget(m)
      PROVE  UNCHANGED vars
  BY <1>6 DEF OutboxClock, BackoffEnds, StalledCheck, FalseStall, Forget
<1> QED
  BY <1>1, <1>2, <1>3, <1>4, <1>5, <1>6 DEF SystemNext

-----------------------------------------------------------------------------
(* The outbox underneath                                                   *)

\* What the outbox does to the rows and to the queue, seen from the messages: rows
\* stay inserted, and only an inserted row gets a new message.
RowsStay ==
    \A m \in Messages :
        /\ outbox[m].status # "absent" => outbox'[m].status # "absent"
        /\ m \in queue' \ queue =>
              outbox[m].status # "absent" /\ deliveries'[m] = deliveries[m] + 1
        /\ m \notin queue' \ queue => deliveries'[m] = deliveries[m]

\* The types of the outbox part, from the outbox's own invariant.
LEMMA BoxInvTypes ==
  ASSUME BoxProofs!OutboxInv
  PROVE  /\ outbox \in [Messages -> Box!OutboxRow] /\ held \in [Dispatchers -> SUBSET Box!Call]
         /\ deliveries \in [Messages -> Nat] /\ queue \subseteq Messages
         /\ faults \in 0 .. MaxFaults
  BY DEF BoxProofs!OutboxInv, BoxProofs!TypeOK, BoxProofs!OutboxRow, BoxProofs!Call,
         BoxProofs!RowStatus, Box!OutboxRow, Box!RowStatus, Box!Call

\* A call in flight is one for a row that was inserted.
LEMMA CallsHaveRows ==
  ASSUME BoxProofs!OutboxInv, NEW d \in Dispatchers, NEW call \in held[d]
  PROVE  call.event \in Messages /\ outbox[call.event].status # "absent"
<1>1. call.event \in Messages
  BY BoxInvTypes DEF Box!Call
<1>2. call.lock \in 1 .. outbox[call.event].attempts
  BY DEF BoxProofs!OutboxInv, BoxProofs!CallsWereClaimed
<1>3. outbox[call.event].status = "absent" => outbox[call.event].attempts = 0
  BY <1>1 DEF BoxProofs!OutboxInv, BoxProofs!RowsCountClaims
<1> QED
  BY <1>1, <1>2, <1>3

\* A row is inserted for a message the outbox has not seen.
LEMMA InsertedRow ==
  ASSUME BoxProofs!OutboxInv, NEW m \in Messages, Box!Insert(m)
  PROVE  /\ outbox[m].status = "absent" /\ outbox'[m].status = "pending"
         /\ \A n \in Messages : n # m => outbox'[n] = outbox[n]
         /\ UNCHANGED <<queue, deliveries, faults>> /\ RowsStay
<1>1. outbox'[m] = [Box!AbsentRow EXCEPT !.status = "pending", !.due = TRUE]
  BY BoxInvTypes DEF Box!Insert
<1>2. outbox'[m].status = "pending" /\ outbox[m].status = "absent"
  BY <1>1 DEF Box!AbsentRow, Box!Insert
<1>3. \A n \in Messages : n # m => outbox'[n] = outbox[n]
  BY BoxInvTypes DEF Box!Insert
<1>4. UNCHANGED <<queue, deliveries, faults>>
  BY DEF Box!Insert
<1> QED
  BY <1>2, <1>3, <1>4 DEF RowsStay

\* A dispatcher leaves the rows it does not deliver alone.
LEMMA DispatchRows ==
  ASSUME BoxProofs!OutboxInv, NEW d \in Dispatchers, Box!Dispatch(d) \/ Box!Misfortune(d)
  PROVE  RowsStay
<1>1. /\ outbox \in [Messages -> Box!OutboxRow] /\ deliveries \in [Messages -> Nat]
  BY BoxInvTypes
<1>2. ASSUME NEW call \in held[d], Box!QueueAdd(call.event), UNCHANGED outbox PROVE RowsStay
  BY <1>1, <1>2, CallsHaveRows DEF Box!QueueAdd, RowsStay
<1>3. ASSUME UNCHANGED <<outbox, queue, deliveries>> PROVE RowsStay
  BY <1>3 DEF RowsStay
<1>4. ASSUME UNCHANGED <<queue, deliveries>>, NEW call \in held[d], NEW row,
             outbox' = [outbox EXCEPT ![call.event] = row], row.status # "absent"
      PROVE RowsStay
  BY <1>1, <1>4 DEF RowsStay
<1>5. ASSUME NEW call \in held[d], NEW status \in {"published", "failed", "pending"}
      PROVE  /\ Box!Unlocked(outbox[call.event], status).status = status
             /\ [Box!Unlocked(outbox[call.event], status) EXCEPT !.due = FALSE].status = status
  BY <1>1, CallsHaveRows DEF Box!Unlocked, Box!OutboxRow
<1>6. ASSUME Box!ClaimBatch(d) PROVE RowsStay
  <2>1. PICK batch \in SUBSET Box!Candidates :
          outbox' = [e \in Messages |->
              IF e \in batch
              THEN [outbox[e] EXCEPT !.status = "publishing", !.attempts = @ + 1,
                                     !.lock = Box!NewLock(e), !.stale = FALSE]
              ELSE outbox[e]]
    BY <1>6 DEF Box!ClaimBatch
  <2>2. ASSUME NEW m \in Messages, outbox[m].status # "absent"
        PROVE  outbox'[m].status # "absent"
    <3>1. outbox[m] \in Box!OutboxRow
      BY <1>1
    <3>2. \A a, b : [outbox[m] EXCEPT !.status = "publishing", !.attempts = a,
                                      !.lock = b, !.stale = FALSE].status = "publishing"
      BY <3>1 DEF Box!OutboxRow
    <3> QED
      BY <2>1, <2>2, <3>2
  <2>3. UNCHANGED <<queue, deliveries>>
    BY <1>6 DEF Box!ClaimBatch
  <2> QED
    BY <2>2, <2>3 DEF RowsStay
<1>7. ASSUME NEW call \in held[d], Box!Enqueue(d, call) \/ Box!EnqueueThrows(d, call)
      PROVE  RowsStay
  BY <1>2, <1>3, <1>7 DEF Box!Enqueue, Box!EnqueueThrows
<1>8. ASSUME NEW call \in held[d], Box!MarkPublished(d, call) PROVE RowsStay
  BY <1>1, <1>3, <1>4, <1>5, <1>8, CallsHaveRows DEF Box!MarkPublished
<1>9. ASSUME NEW call \in held[d], Box!ReleaseFailure(d, call) PROVE RowsStay
  BY <1>1, <1>3, <1>4, <1>5, <1>9, CallsHaveRows DEF Box!ReleaseFailure
<1>10. ASSUME NEW call \in held[d], Box!MarkThrows(d, call) \/ Box!ReleaseThrows(d, call)
       PROVE  RowsStay
  BY <1>3, <1>10 DEF Box!MarkThrows, Box!ReleaseThrows
<1>11. ASSUME Box!Crash(d) PROVE RowsStay
  BY <1>3, <1>11 DEF Box!Crash
<1> QED
  BY <1>6, <1>7, <1>8, <1>9, <1>10, <1>11 DEF Box!Dispatch, Box!Misfortune

\* Time and the forgetting of the queue add no message.
LEMMA ClockRows ==
  ASSUME BoxProofs!OutboxInv, NEW m \in Messages,
         Box!BecomesDue(m) \/ Box!LockTimesOut(m) \/ Box!QueueForgets(m)
  PROVE  RowsStay /\ queue' \subseteq queue
<1>1. outbox \in [Messages -> Box!OutboxRow] /\ outbox[m] \in Box!OutboxRow
  BY BoxInvTypes
<1>2. UNCHANGED deliveries /\ queue' \subseteq queue
  BY DEF Box!BecomesDue, Box!LockTimesOut, Box!QueueForgets
<1>3. \A n \in Messages : outbox[n].status # "absent" => outbox'[n].status # "absent"
  BY <1>1 DEF Box!BecomesDue, Box!LockTimesOut, Box!QueueForgets, Box!OutboxRow
<1> QED
  BY <1>2, <1>3 DEF RowsStay

\* The steps that use one fault more and leave the outbox alone.
LEMMA FaultKeepsBox ==
  ASSUME BoxProofs!OutboxInv, UNCHANGED boxVars, Fault \/ UNCHANGED faults
  PROVE  BoxProofs!OutboxInv' /\ RowsStay
<1>1. faults' \in 0 .. MaxFaults
  BY SystemAssumption, BoxInvTypes DEF Fault
<1>2. UNCHANGED <<outbox, held, busy, queue, deliveries>>
  BY DEF boxVars
<1> QED
  BY <1>1, <1>2
  DEF RowsStay, BoxProofs!OutboxInv, BoxProofs!TypeOK, BoxProofs!RowsCountClaims,
      BoxProofs!CallsWereClaimed, BoxProofs!TokensAreUnique, BoxProofs!DeliveriesAreReal,
      BoxProofs!PublishedWasDelivered

\* Every step of the write path keeps the invariant of the outbox.
LEMMA BoxStep ==
  ASSUME BoxProofs!OutboxInv, Box!Next
  PROVE  BoxProofs!OutboxInv'
<1>1. ASSUME NEW m \in Messages
      PROVE  /\ Box!Insert(m) => BoxProofs!Insert(m)
             /\ Box!BecomesDue(m) => BoxProofs!BecomesDue(m)
             /\ Box!QueueForgets(m) => BoxProofs!QueueForgets(m)
  BY DEF Box!Insert, Box!BecomesDue, Box!QueueForgets, Box!AbsentRow, Box!NoLock,
         BoxProofs!Insert, BoxProofs!BecomesDue, BoxProofs!QueueForgets, BoxProofs!AbsentRow,
         BoxProofs!NoLock
<1>2. ASSUME NEW m \in Messages, Box!LockTimesOut(m) PROVE BoxProofs!LockTimesOut(m)
  <2>1. Box!InFlight(m) <=> BoxProofs!InFlight(m)
    BY DEF Box!InFlight, Box!Owns, BoxProofs!InFlight, BoxProofs!Owns
  <2> QED
    BY <1>2, <2>1 DEF Box!LockTimesOut, Box!Fault, BoxProofs!LockTimesOut, BoxProofs!Fault
<1>3. ASSUME NEW d \in Dispatchers, Box!ClaimBatch(d) PROVE BoxProofs!ClaimBatch(d)
  BY <1>3, Zenon
  DEF Box!ClaimBatch, Box!Candidates, Box!NewLock, Box!Cardinality, BoxProofs!ClaimBatch,
      BoxProofs!Candidates, BoxProofs!NewLock, BoxProofs!Cardinality
<1>4. ASSUME NEW d \in Dispatchers, NEW call \in held[d]
      PROVE  /\ Box!Enqueue(d, call) => BoxProofs!Enqueue(d, call)
             /\ Box!EnqueueThrows(d, call) => BoxProofs!EnqueueThrows(d, call)
             /\ Box!MarkThrows(d, call) => BoxProofs!MarkThrows(d, call)
             /\ Box!ReleaseThrows(d, call) => BoxProofs!ReleaseThrows(d, call)
  BY DEF Box!Enqueue, Box!EnqueueThrows, Box!MarkThrows, Box!ReleaseThrows, Box!QueueAdd,
         Box!Advance, Box!Fault, Box!AfterError, BoxProofs!Enqueue, BoxProofs!EnqueueThrows,
         BoxProofs!MarkThrows, BoxProofs!ReleaseThrows, BoxProofs!QueueAdd,
         BoxProofs!Advance, BoxProofs!Fault, BoxProofs!AfterError
<1>5. ASSUME NEW d \in Dispatchers, NEW call \in held[d]
      PROVE  /\ Box!MarkPublished(d, call) => BoxProofs!MarkPublished(d, call)
             /\ Box!ReleaseFailure(d, call) => BoxProofs!ReleaseFailure(d, call)
  BY DEF Box!MarkPublished, Box!ReleaseFailure, Box!Return, Box!Owns, Box!Unlocked, Box!Spent,
         Box!NoLock, BoxProofs!MarkPublished, BoxProofs!ReleaseFailure, BoxProofs!Return,
         BoxProofs!Owns, BoxProofs!Unlocked, BoxProofs!Spent, BoxProofs!NoLock
<1>6. ASSUME NEW d \in Dispatchers, Box!Crash(d) PROVE BoxProofs!Crash(d)
  BY <1>6 DEF Box!Crash, Box!Fault, BoxProofs!Crash, BoxProofs!Fault
<1>7. BoxProofs!Next
  BY <1>1, <1>2, <1>3, <1>4, <1>5, <1>6
  DEF Box!Next, Box!Dispatch, Box!Misfortune, BoxProofs!Next, BoxProofs!Dispatch,
      BoxProofs!Misfortune
<1> QED
  BY <1>7, SystemAssumption, BoxProofs!OutboxStep

-----------------------------------------------------------------------------
(* What the store may do to a job                                          *)

\* A step that asks for no work on a job: it accepts no job and no reply, and does
\* not open a job that is parked or over.
Unasked(j) ==
    /\ jobCommands'[j] = jobCommands[j]
    /\ jobs'[j].status = "absent" <=> jobs[j].status = "absent"
    /\ jobs'[j].status \in {"queued", "running"} => Open(j)

\* No step forgets a run.
RunsGrow == \A j \in Jobs : DOMAIN runs[j] \subseteq DOMAIN runs'[j]

\* A step that leaves the store alone asks for nothing.
LEMMA NothingAsked ==
  ASSUME UNCHANGED vars
  PROVE  RunsGrow /\ \A j \in Jobs : Unasked(j)
<1>1. UNCHANGED <<jobs, runs, jobCommands>>
  BY DEF vars
<1> QED
  BY <1>1 DEF RunsGrow, Unasked, Open

\* Runs are added by claims and closed by their own transactions, never removed.
LEMMA RunsOnlyGrow ==
  ASSUME TypeOK, [Next]_vars
  PROVE  RunsGrow
<1>1. ASSUME NEW j \in Jobs, JobStep(j) \/ \E r \in DOMAIN runs[j] : RunStep(j, r)
      PROVE  RunsGrow
  <2>1. \A q \in Jobs : q # j => runs'[q] = runs[q]
    BY <1>1, OtherJobsUntouched
  <2>2. ClaimJob(j) => DOMAIN runs[j] \subseteq DOMAIN runs'[j]
    BY ClaimAfter
  <2>3. ASSUME NEW r \in DOMAIN runs[j], NEW status, SetRun(j, r, status)
        PROVE  DOMAIN runs[j] \subseteq DOMAIN runs'[j]
    BY <2>3, RunAfter
  <2> QED
    BY <1>1, <2>1, <2>2, <2>3, RunsOfStep DEF RunsGrow
<1> QED
  BY <1>1, NothingAsked DEF Next

\* Claims, clocks, cancellations and the transactions of a run do not open a job.
LEMMA StepsThatAskNothing ==
  ASSUME TypeOK, NEW j \in Jobs,
         \/ ClaimJob(j) \/ Tick(j) \/ CancelParkedJob(j) \/ CancelRunningJob(j)
         \/ \E r \in DOMAIN runs[j] : RunStep(j, r)
  PROVE  \A q \in Jobs : Unasked(q)
<1>1. jobs[j] \in JobRow /\ jobs[j].status \in JobStatus
  BY DEF TypeOK, JobRow
<1>2. ASSUME NEW q \in Jobs, q # j PROVE Unasked(q)
  BY <1>2, OtherJobsUntouched DEF Unasked, Open, JobStep
<1>3. jobCommands'[j] = jobCommands[j]
  BY DEF ClaimJob, Tick, CancelParkedJob, CancelRunningJob, RunStep, HeartbeatClaim,
         AppendRunEvent, ReserveRunEffect, FinishRunEffect, CompleteClaim,
         ReplayCompletion, TerminateClaim, PauseClaim
<1> DEFINE Kept == jobs[j].status = "absent" <=> jobs'[j].status = "absent"
           StaysShut == jobs'[j].status \in {"queued", "running"} => Open(j)
<1>4. ASSUME ClaimJob(j) PROVE Kept /\ StaysShut
  BY <1>4, ClaimAfter DEF ClaimJob, Claimable, Open
<1>5. ASSUME Tick(j) \/ CancelRunningJob(j) PROVE Kept /\ StaysShut
  <2>1. jobs'[j].status = jobs[j].status
    BY <1>1, <1>5 DEF Tick, CancelRunningJob, TypeOK, JobRow
  <2> QED
    BY <2>1 DEF Open
<1>6. ASSUME CancelParkedJob(j) PROVE Kept /\ StaysShut
  <2>1. jobs'[j].status = "cancelled" /\ jobs[j].status # "absent"
    BY <1>1, <1>6 DEF CancelParkedJob, TypeOK, JobRow
  <2> QED
    BY <2>1
<1>7. ASSUME NEW r \in DOMAIN runs[j], RunStep(j, r) PROVE Kept /\ StaysShut
  <2>1. ASSUME NEW status \in {"completed", "failed", "cancelled", "awaiting_input"},
               ReleaseJob(j, status), HoldsLease(j, r)
        PROVE  Kept /\ StaysShut
    <3>1. jobs'[j].status = status /\ jobs[j].status = "running"
      BY <2>1, JobRowAfter DEF JobStatus, TerminalStatus, HoldsLease, OwnsRow
    <3> QED
      BY <3>1
  <2>2. ASSUME jobs'[j].status = jobs[j].status PROVE Kept /\ StaysShut
    BY <2>2 DEF Open
  <2>3. ASSUME NEW k \in ProgressKeys, NEW p \in Payloads, AppendRunEvent(j, r, k, p)
        PROVE  jobs'[j].status = jobs[j].status
    BY <1>1, <2>3 DEF AppendRunEvent, TypeOK, JobRow
  <2>4. ASSUME HeartbeatClaim(j, r) PROVE jobs'[j].status = jobs[j].status
    BY <1>1, <2>4 DEF HeartbeatClaim, TypeOK, JobRow
  <2>5. ASSUME \/ ReplayCompletion(j, r)
               \/ \E k \in EffectKeys, p \in Payloads : ReserveRunEffect(j, r, k, p)
               \/ \E k \in EffectKeys, outcome \in {"succeeded", "failed"} :
                     FinishRunEffect(j, r, k, outcome)
        PROVE  jobs'[j].status = jobs[j].status
    BY <2>5 DEF ReplayCompletion, ReserveRunEffect, FinishRunEffect
  <2>6. ASSUME NEW memory \in BOOLEAN, CompleteClaim(j, r, memory) PROVE Kept /\ StaysShut
    BY <2>1, <2>6 DEF CompleteClaim, Authorized
  <2>7. ASSUME NEW outcome \in {"cancelled", "failed"}, TerminateClaim(j, r, outcome)
        PROVE  Kept /\ StaysShut
    BY <2>1, <2>7 DEF TerminateClaim
  <2>8. ASSUME NEW i \in Interrupts, PauseClaim(j, r, i) PROVE Kept /\ StaysShut
    BY <2>1, <2>8 DEF PauseClaim, Authorized
  <2> QED
    BY <1>7, <2>2, <2>3, <2>4, <2>5, <2>6, <2>7, <2>8 DEF RunStep
<1>8. Kept /\ StaysShut
  BY <1>4, <1>5, <1>6, <1>7
<1> QED
  BY <1>2, <1>3, <1>8 DEF Unasked

\* What asks for work: an accepted job, whose request is its creation row ...
LEMMA Accepted ==
  ASSUME TypeOK, NEW j \in Jobs, NEW k \in RequestKeys, CreateJob(j, k)
  PROVE  /\ jobs[j].status = "absent" /\ jobs'[j].status = "queued"
         /\ UNCHANGED jobCommands /\ \A q \in Jobs : q # j => Unasked(q)
<1>1. jobs'[j].status = "queued" /\ jobs[j].status = "absent" /\ UNCHANGED jobCommands
  BY DEF CreateJob, TypeOK, AbsentJob
<1>2. ASSUME NEW q \in Jobs, q # j PROVE Unasked(q)
  BY <1>2, OtherJobsUntouched DEF Unasked, Open, JobStep
<1> QED
  BY <1>1, <1>2

\* ... and an accepted reply, whose request names the interrupt it answered.
LEMMA Replied ==
  ASSUME TypeOK, OneOpenQuestion, NEW j \in Jobs, NEW p \in Payloads,
         SubmitOutlineReply(j, p), NEW i \in PendingInterrupts(j)
  PROVE  /\ jobs[j].status = "awaiting_input" /\ jobs'[j].status = "queued"
         /\ jobCommands'[j] # <<>>
         /\ jobCommands'[j][Len(jobCommands'[j])].interrupt = i
         /\ \A q \in Jobs : q # j => Unasked(q)
<1>1. jobs[j] \in JobRow /\ jobCommands[j] \in Seq(CommandRow)
  BY DEF TypeOK
<1>2. jobs'[j].status = "queued" /\ jobs[j].status = "awaiting_input"
  BY <1>1 DEF SubmitOutlineReply, TypeOK, JobRow
<1>3. PICK k \in PendingInterrupts(j) :
         jobCommands' = [jobCommands EXCEPT ![j] = Append(@, [interrupt |-> k, payload |-> p])]
  BY DEF SubmitOutlineReply
<1>4. k = i
  BY DEF OneOpenQuestion
<1>5. jobCommands'[j] = Append(jobCommands[j], [interrupt |-> i, payload |-> p])
  BY <1>3, <1>4 DEF TypeOK
<1>6. [interrupt |-> i, payload |-> p] \in CommandRow
  BY DEF CommandRow, PendingInterrupts
<1>7. /\ Len(jobCommands'[j]) = Len(jobCommands[j]) + 1
      /\ jobCommands'[j][Len(jobCommands[j]) + 1] = [interrupt |-> i, payload |-> p]
  BY <1>1, <1>5, <1>6
<1>8. Len(jobCommands[j]) + 1 # 0 /\ Len(<<>>) = 0
  BY <1>1
<1>9. ASSUME NEW q \in Jobs, q # j PROVE Unasked(q)
  BY <1>9, OtherJobsUntouched DEF Unasked, Open, JobStep
<1> QED
  BY <1>2, <1>7, <1>8, <1>9

-----------------------------------------------------------------------------
(* One message, one slot                                                   *)

\* A message row fits the outbox and its own history.
Counted(row, m) ==
    /\ row \in MessageState
    /\ row.state # "absent" \/ row.gaveUp => deliveries[m] > 0
    /\ row.state = "failed" => row.gaveUp
    /\ row.state \in {"waiting", "active", "delayed"} =>
          row.attempts < QueueAttempts /\ row.stalls <= MaxStalledCount
    /\ row.owner # NoSlot => row.state = "active"

\* The count of deliveries, message by message.
LEMMA CountedByMessages ==
  MessagesAreCounted <=>
      /\ DOMAIN message = Messages /\ message = [m \in Messages |-> message[m]]
      /\ \A m \in Messages : Counted(message[m], m)
      /\ \A m \in Messages : deliveries[m] > 0 => outbox[m].status # "absent"
  BY DEF MessagesAreCounted, Counted, InQueue

\* A step that sets one message keeps the others.
LEMMA MessageWritten ==
  ASSUME MessagesAreCounted, RowsStay, UNCHANGED deliveries, NEW m \in Messages, NEW new,
         Counted(new, m), message' = [message EXCEPT ![m] = new]
  PROVE  MessagesAreCounted' /\ message'[m] = new
         /\ \A n \in Messages : n # m => message'[n] = message[n]
<1>1. /\ message'[m] = new /\ \A n \in Messages : n # m => message'[n] = message[n]
      /\ DOMAIN message' = Messages /\ message' = [n \in Messages |-> message'[n]]
  BY DEF MessagesAreCounted
<1>2. \A n \in Messages : Counted(message'[n], n)
  BY <1>1, CountedByMessages
<1>3. (\A n \in Messages : Counted(message[n], n))'
  BY <1>2 DEF Counted
<1>4. (\A n \in Messages : deliveries[n] > 0 => outbox[n].status # "absent")'
  BY DEF MessagesAreCounted, RowsStay
<1>5. MessagesAreCounted'
  BY <1>1, <1>3, <1>4 DEF MessagesAreCounted, Counted, InQueue
<1> QED
  BY <1>1, <1>5

\* Messages that are not touched stay as they were.
LEMMA MessagesKept ==
  ASSUME MessagesAreCounted, RowsStay, UNCHANGED <<message, deliveries>>
  PROVE  MessagesAreCounted'
  BY DEF MessagesAreCounted, RowsStay, InQueue

\* A new message starts fresh, with one more delivery on record.
LEMMA MessagesFollow ==
  ASSUME MessagesAreCounted, RowsStay, deliveries \in [Messages -> Nat], FollowQueue
  PROVE  /\ MessagesAreCounted'
         /\ \A m \in Messages : OnItsWay(m) => OnItsWay(m)'
<1> DEFINE New(m) == [FreshMessage EXCEPT !.gaveUp = message[m].gaveUp]
<1>1. ASSUME NEW m \in Messages
      PROVE  /\ New(m) = [state |-> "waiting", owner |-> NoSlot, attempts |-> 0,
                          stalls |-> 0, gaveUp |-> message[m].gaveUp]
             /\ New(m) \in MessageState
  <2>1. message[m].gaveUp \in BOOLEAN
    BY DEF MessagesAreCounted, MessageState
  <2>2. 0 \in 0 .. QueueAttempts /\ 0 \in 0 .. MaxStalledCount + 1
    BY SystemAssumption
  <2>3. New(m) = [state |-> "waiting", owner |-> NoSlot, attempts |-> 0,
                  stalls |-> 0, gaveUp |-> message[m].gaveUp]
    BY DEF FreshMessage
  <2> HIDE DEF New
  <2> QED
    BY <2>1, <2>2, <2>3 DEF MessageState
<1> HIDE DEF New
<1>2. ASSUME NEW m \in Messages
      PROVE  /\ deliveries[m] \in Nat /\ deliveries[m] <= deliveries'[m]
             /\ deliveries'[m] > 0 => outbox'[m].status # "absent"
  BY DEF RowsStay, MessagesAreCounted
<1>3. ASSUME NEW m \in Messages, m \in queue' \ queue
      PROVE  /\ message'[m] = New(m) /\ deliveries'[m] > 0
             /\ message'[m].attempts < QueueAttempts /\ message'[m].stalls <= MaxStalledCount
  <2>1. message'[m] = New(m)
    BY <1>3 DEF FollowQueue, New
  <2>2. deliveries'[m] > 0
    BY <1>2, <1>3 DEF RowsStay
  <2>3. message'[m].attempts = 0 /\ message'[m].stalls = 0
    BY <1>1, <2>1
  <2>4. 0 < QueueAttempts /\ 0 <= MaxStalledCount
    BY SystemAssumption
  <2> QED
    BY <2>1, <2>2, <2>3, <2>4
<1>4. ASSUME NEW m \in Messages, m \notin queue' \ queue
      PROVE  message'[m] = message[m] /\ deliveries'[m] = deliveries[m]
  BY <1>4 DEF FollowQueue, RowsStay
<1>5. message' \in [Messages -> MessageState]
  <2>1. message' = [m \in Messages |-> message'[m]] /\ DOMAIN message' = Messages
    BY DEF FollowQueue
  <2> QED
    BY <1>1, <1>3, <1>4, <2>1 DEF MessagesAreCounted
<1>6. MessagesAreCounted'
  BY <1>1, <1>2, <1>3, <1>4, <1>5 DEF MessagesAreCounted, InQueue
<1>7. ASSUME NEW m \in Messages, OnItsWay(m) PROVE OnItsWay(m)'
  BY <1>1, <1>3, <1>4, <1>7 DEF OnItsWay, InQueue
<1> QED
  BY <1>6, <1>7

\* A slot row works on a message that was delivered, with a run of its own.
Known(row) ==
    /\ row \in SlotState
    /\ row.pc # "idle" =>
          row.message \in Messages /\ row.job = row.message.job /\ deliveries'[row.message] > 0
    /\ row.pc = "idle" => row.run = NoRun
    /\ row.pc = "pause" => row.interrupt \in Interrupts

\* The run of a slot row: none, the one the slot had, or one that was just created.
RunOfSlot(row, w) ==
    \/ row.run = NoRun
    \/ row.run = slot[w].run /\ row.job = slot[w].job
    \/ row.run \notin DOMAIN runs[row.job] /\ row.run \in DOMAIN runs'[row.job]

\* Deliveries are only ever added.
MoreDelivered == \A m \in Messages : deliveries[m] > 0 => deliveries'[m] > 0

\* A step that does not touch the slots leaves their knowledge true.
LEMMA SlotsKept ==
  ASSUME SlotsAreKnown, RunsGrow, MoreDelivered, UNCHANGED slot
  PROVE  SlotsAreKnown'
<1>1. ASSUME NEW w \in Slots PROVE SlotIsKnown(w)'
  <2>1. SlotIsKnown(w)
    BY DEF SlotsAreKnown
  <2>2. slot[w].run # NoRun => slot[w].job \in Jobs
    BY <2>1, WorkingSlot DEF SlotIsKnown
  <2> QED
    BY <2>1, <2>2 DEF SlotIsKnown, RunsGrow, MoreDelivered
<1> QED
  BY <1>1 DEF SlotsAreKnown

\* A step of one slot that keeps its run, or starts one of its own.
LEMMA SlotWritten ==
  ASSUME SlotsAreKnown, RunsGrow, MoreDelivered, NEW w \in Slots, NEW new,
         Known(new), RunOfSlot(new, w), slot' = [slot EXCEPT ![w] = new]
  PROVE  SlotsAreKnown' /\ slot'[w] = new /\ \A v \in Slots : v # w => slot'[v] = slot[v]
<1>1. /\ slot'[w] = new /\ \A v \in Slots : v # w => slot'[v] = slot[v]
      /\ slot' \in [Slots -> SlotState]
  BY DEF SlotsAreKnown, Known
<1>2. ASSUME NEW v \in Slots
      PROVE  /\ SlotIsKnown(v)
             /\ slot[v].run # NoRun => slot[v].job \in Jobs
                                       /\ slot[v].run \in DOMAIN runs[slot[v].job]
  <2>1. SlotIsKnown(v)
    BY DEF SlotsAreKnown
  <2> QED
    BY <2>1, WorkingSlot DEF SlotIsKnown
<1>3. ASSUME NEW v \in Slots, v # w PROVE SlotIsKnown(v)'
  BY <1>1, <1>2, <1>3 DEF SlotIsKnown, RunsGrow, MoreDelivered
<1>4. SlotIsKnown(w)'
  <2>1. new.run # NoRun => new.run \in DOMAIN runs'[new.job]
    BY <1>2 DEF RunOfSlot, RunsGrow
  <2> QED
    BY <1>1, <2>1 DEF SlotIsKnown, Known
<1>5. ASSUME NEW v \in Slots, v # w, new.run # NoRun, slot[v].job = new.job
      PROVE  slot[v].run # new.run
  <2>1. CASE new.run = slot[w].run /\ new.job = slot[w].job
    BY <1>5, <2>1 DEF SlotsAreKnown
  <2>2. CASE new.run \notin DOMAIN runs[new.job]
    BY <1>2, <1>5, <2>2
  <2> QED
    BY <1>5, <2>1, <2>2 DEF RunOfSlot
<1>6. \A u, v \in Slots :
         slot'[u].run # NoRun /\ slot'[u].job = slot'[v].job /\ slot'[u].run = slot'[v].run
         => u = v
  <2> SUFFICES ASSUME NEW u \in Slots, NEW v \in Slots, slot'[u].run # NoRun,
                      slot'[u].job = slot'[v].job, slot'[u].run = slot'[v].run, u # v
               PROVE  FALSE
    OBVIOUS
  <2>1. CASE u = w
    BY <1>1, <1>5, <2>1
  <2>2. CASE v = w
    BY <1>1, <1>5, <2>2
  <2>3. CASE u # w /\ v # w
    BY <1>1, <2>3 DEF SlotsAreKnown
  <2> QED
    BY <2>1, <2>2, <2>3
<1>7. SlotsAreKnown'
  BY <1>1, <1>3, <1>4, <1>6 DEF SlotsAreKnown
<1> QED
  BY <1>1, <1>7

\* The message of the newest request of a job is one for that job.
LEMMA RequestIsMessage ==
  ASSUME TypeOK, NEW j \in Jobs
  PROVE  Request(j) \in Messages /\ Request(j).job = j
<1>1. jobCommands[j] \in Seq(CommandRow)
  BY DEF TypeOK
<1>2. jobCommands[j] # <<>> => jobCommands[j][Len(jobCommands[j])] \in CommandRow
  BY <1>1
<1>3. jobCommands[j] # <<>> => jobCommands[j][Len(jobCommands[j])].interrupt \in Interrupts
  BY <1>2 DEF CommandRow
<1> QED
  BY <1>3, MessagesAskForJobs DEF Request

\* A message on its way stays so, unless a slot acknowledges it now.
MessagesMoveOn ==
    \A m \in Messages :
        OnItsWay(m) =>
            OnItsWay(m)' \/ \E w \in Slots : slot[w].pc = "ack" /\ slot[w].message = m

\* A slot goes on to acknowledge its message only when its job has stopped.
AcksAreDeserved ==
    \A w \in Slots : slot'[w].pc = "ack" =>
        \/ slot[w].pc = "ack" /\ slot'[w].message = slot[w].message
        \/ /\ slot'[w].message \in Messages
           /\ jobs'[slot'[w].message.job].status \notin {"queued", "running"}

\* A job that is asked for nothing keeps its request served.
LEMMA ServedStays ==
  ASSUME TypeOK, NEW j \in Jobs, RequestIsServed(j), Unasked(j), RowsStay,
         MessagesMoveOn, AcksAreDeserved
  PROVE  RequestIsServed(j)'
<1>1. PICK m \in Messages : m = Request(j) /\ m.job = j
  BY RequestIsMessage
<1>2. Request(j)' = m
  BY <1>1 DEF Request, Unasked
<1>3. jobs'[j].status = "absent" => jobCommands'[j] = <<>>
  BY DEF Unasked, RequestIsServed
<1>4. jobs'[j].status # "absent" => outbox'[m].status # "absent"
  BY <1>1 DEF Unasked, RequestIsServed, RowsStay
<1>5. Open(j)' => Open(j)
  BY DEF Open, Unasked
<1>6. Open(j)' => OnItsWay(m)'
  BY <1>1, <1>5 DEF RequestIsServed, MessagesMoveOn
<1>7. ASSUME NEW w \in Slots, slot'[w].pc = "ack", slot'[w].message = m PROVE ~Open(j)'
  <2>1. CASE slot[w].pc = "ack" /\ slot'[w].message = slot[w].message
    BY <1>1, <1>5, <1>7, <2>1 DEF RequestIsServed
  <2>2. CASE jobs'[slot'[w].message.job].status \notin {"queued", "running"}
    BY <1>1, <1>7, <2>2 DEF Open
  <2> QED
    BY <1>7, <2>1, <2>2 DEF AcksAreDeserved
<1> QED
  BY <1>2, <1>3, <1>4, <1>6, <1>7 DEF RequestIsServed

\* A job that is asked for with a new row waits for its first delivery.
LEMMA ServedAnew ==
  ASSUME SlotsAreKnown, MessagesAreCounted, NEW j \in Jobs, NEW m \in Messages,
         outbox[m].status = "absent", outbox'[m].status # "absent",
         Request(j)' = m, jobs'[j].status # "absent",
         UNCHANGED <<slot, deliveries>>, deliveries \in [Messages -> Nat]
  PROVE  RequestIsServed(j)'
<1>1. deliveries[m] = 0
  BY DEF MessagesAreCounted
<1>2. ASSUME NEW w \in Slots, slot[w].pc = "ack" PROVE slot[w].message # m
  BY <1>1, <1>2 DEF SlotsAreKnown, SlotIsKnown
<1> QED
  BY <1>1, <1>2 DEF RequestIsServed, OnItsWay

-----------------------------------------------------------------------------
(* The steps of a slot                                                     *)

Shut(j) == jobs'[j].status \notin {"queued", "running"}

\* A slot writes a row of its own, and acknowledges only a job that has stopped.
MovesTo(w, row) ==
    /\ slot' = [slot EXCEPT ![w] = row]
    /\ Known(row) /\ RunOfSlot(row, w)
    /\ row.pc = "ack" => row.message = slot[w].message /\ Shut(slot[w].job)

\* A slot that goes on to its next await keeps its message, its job and its run.
LEMMA GoesTo ==
  ASSUME SlotsAreKnown, MoreDelivered, NEW w \in Slots, slot[w].pc # "idle",
         NEW pc \in {"look", "complete", "pause", "fail", "cancel", "ack", "retry"},
         Goto(w, pc), pc = "pause" => slot[w].interrupt \in Interrupts,
         pc = "ack" => Shut(slot[w].job)
  PROVE  \E row : MovesTo(w, row)
<1> DEFINE s == slot[w]
           row == [pc |-> pc, message |-> s.message, job |-> s.job, run |-> s.run,
                   monitor |-> s.monitor, interrupt |-> s.interrupt]
<1>1. /\ s \in SlotState /\ s.message \in Messages /\ s.job = s.message.job
      /\ deliveries'[s.message] > 0
  BY WorkingSlot DEF SlotsAreKnown, SlotIsKnown, MoreDelivered
<1>2. s = [pc |-> s.pc, message |-> s.message, job |-> s.job, run |-> s.run,
           monitor |-> s.monitor, interrupt |-> s.interrupt]
  BY <1>1 DEF SlotState
<1>3. [s EXCEPT !.pc = pc] = row
  BY <1>2
<1>4. slot' = [slot EXCEPT ![w] = row]
  BY <1>3 DEF Goto
<1>5. row \in SlotState
  BY <1>1 DEF SlotState
<1>6. Known(row) /\ RunOfSlot(row, w)
  BY <1>1, <1>5 DEF Known, RunOfSlot
<1>7. row.pc = "ack" => row.message = slot[w].message /\ Shut(slot[w].job)
  OBVIOUS
<1> QED
  BY <1>4, <1>6, <1>7 DEF MovesTo

\* The monitor of a slot, or the interrupt its executor stopped at, is noted.
LEMMA Notes ==
  ASSUME SlotsAreKnown, MoreDelivered, NEW w \in Slots, slot[w].pc = "execute",
         NEW pc \in {"execute", "pause", "retry", "cancel"},
         NEW monitor \in {"none", "lease_lost", "cancel_requested"},
         NEW i \in Interrupts \cup {None}, pc = "pause" => i \in Interrupts,
         slot' = [slot EXCEPT ![w] =
             [pc |-> pc, message |-> slot[w].message, job |-> slot[w].job,
              run |-> slot[w].run, monitor |-> monitor, interrupt |-> i]]
  PROVE  \E row : MovesTo(w, row)
<1> DEFINE s == slot[w]
           row == [pc |-> pc, message |-> s.message, job |-> s.job, run |-> s.run,
                   monitor |-> monitor, interrupt |-> i]
<1>1. /\ s \in SlotState /\ s.message \in Messages /\ s.job = s.message.job
      /\ deliveries'[s.message] > 0
  BY WorkingSlot DEF SlotsAreKnown, SlotIsKnown, MoreDelivered
<1>2. row \in SlotState
  BY <1>1 DEF SlotState
<1>3. Known(row) /\ RunOfSlot(row, w)
  BY <1>1, <1>2 DEF Known, RunOfSlot
<1>4. slot' = [slot EXCEPT ![w] = row] /\ row.pc # "ack"
  OBVIOUS
<1> QED
  BY <1>3, <1>4, Zenon DEF MovesTo

\* claimJob hands the slot a run that no slot had before.
LEMMA ClaimMoves ==
  ASSUME TypeOK, SlotsAreKnown, MoreDelivered, NEW w \in Slots, Claim(w)
  PROVE  \E row : MovesTo(w, row)
<1> DEFINE s == slot[w]
           new == Len(runs[s.job]) + 1
           row == [pc |-> "execute", message |-> s.message, job |-> s.job, run |-> new,
                   monitor |-> s.monitor, interrupt |-> s.interrupt]
<1>0. s.pc = "claim"
  BY DEF Claim
<1>1. /\ s \in SlotState /\ s.message \in Messages /\ s.job = s.message.job /\ s.job \in Jobs
      /\ deliveries'[s.message] > 0
  BY <1>0, WorkingSlot DEF SlotsAreKnown, SlotIsKnown, MoreDelivered
<1>2. s = [pc |-> s.pc, message |-> s.message, job |-> s.job, run |-> s.run,
           monitor |-> s.monitor, interrupt |-> s.interrupt]
  BY <1>1 DEF SlotState
<1>3. [[s EXCEPT !.pc = "execute"] EXCEPT !.run = new] = row
  <2> DEFINE mid == [pc |-> "execute", message |-> s.message, job |-> s.job, run |-> s.run,
                     monitor |-> s.monitor, interrupt |-> s.interrupt]
  <2> HIDE DEF new
  <2>1. [s EXCEPT !.pc = "execute"] = mid
    BY <1>2
  <2>2. [mid EXCEPT !.run = new] = row
    OBVIOUS
  <2> HIDE DEF mid, row
  <2> QED
    BY <2>1, <2>2
<1>4. slot' = [slot EXCEPT ![w] = [[s EXCEPT !.pc = "execute"] EXCEPT !.run = new]]
  BY <1>1 DEF Claim, SlotsAreKnown
<1>5. runs[s.job] \in Seq(RunStatus)
  BY <1>1 DEF TypeOK
<1>6. new \in Nat /\ new \notin DOMAIN runs[s.job]
  BY <1>5
<1>7. new \in DOMAIN runs'[s.job]
  BY <1>1, ClaimAfter DEF Claim
<1>8. row \in SlotState
  BY <1>1, <1>6 DEF SlotState
<1> HIDE DEF new
<1>9. Known(row) /\ RunOfSlot(row, w)
  BY <1>1, <1>6, <1>7, <1>8 DEF Known, RunOfSlot
<1> QED
  BY <1>3, <1>4, <1>9 DEF MovesTo

\* A run that is settled leaves its job parked or over.
LEMMA SettledJobIsShut ==
  ASSUME TypeOK, NEW j \in Jobs, NEW r
  PROVE  /\ CompleteClaim(j, r, FALSE) => Shut(j)
         /\ \A i \in Interrupts : PauseClaim(j, r, i) => Shut(j)
         /\ \A outcome \in {"cancelled", "failed"} : TerminateClaim(j, r, outcome) => Shut(j)
<1>1. ASSUME NEW status \in {"completed", "failed", "cancelled", "awaiting_input"},
             ReleaseJob(j, status)
      PROVE  Shut(j)
  <2>1. jobs'[j].status = status
    BY <1>1, JobRowAfter DEF JobStatus, TerminalStatus
  <2> QED
    BY <2>1 DEF Shut
<1> QED
  BY <1>1 DEF CompleteClaim, PauseClaim, TerminateClaim

\* A row of a slot, field by field.
LEMMA SlotFields ==
  ASSUME SlotsAreKnown, NEW w \in Slots, NEW pc, NEW monitor, NEW i
  PROVE  LET s == slot[w] IN
         /\ [s EXCEPT !.monitor = monitor] =
               [pc |-> s.pc, message |-> s.message, job |-> s.job, run |-> s.run,
                monitor |-> monitor, interrupt |-> s.interrupt]
         /\ [s EXCEPT !.pc = pc, !.interrupt = i] =
               [pc |-> pc, message |-> s.message, job |-> s.job, run |-> s.run,
                monitor |-> s.monitor, interrupt |-> i]
<1> DEFINE s == slot[w]
           mid == [pc |-> pc, message |-> s.message, job |-> s.job, run |-> s.run,
                   monitor |-> s.monitor, interrupt |-> s.interrupt]
<1>1. s = [pc |-> s.pc, message |-> s.message, job |-> s.job, run |-> s.run,
           monitor |-> s.monitor, interrupt |-> s.interrupt]
  BY DEF SlotsAreKnown, SlotState
<1>2. [s EXCEPT !.monitor = monitor] =
        [pc |-> s.pc, message |-> s.message, job |-> s.job, run |-> s.run,
         monitor |-> monitor, interrupt |-> s.interrupt]
  BY <1>1
<1>3. [s EXCEPT !.pc = pc] = mid
  BY <1>1
<1>4. [mid EXCEPT !.interrupt = i] =
        [pc |-> pc, message |-> s.message, job |-> s.job, run |-> s.run,
         monitor |-> s.monitor, interrupt |-> i]
  OBVIOUS
<1> HIDE DEF mid
<1> QED
  BY <1>2, <1>3, <1>4

\* Where a slot goes when its executor is done, given what its monitor saw.
LEMMA RoutesAre ==
  \A monitor, result : Route(monitor, result) \in {"retry", "cancel", result}
  BY DEF Route

\* What a slot does between taking a message and settling it.
SlotWorks(w) ==
    \/ Claim(w) \/ ClaimRefused(w) \/ Look(w) \/ ExecutionEnds(w)
    \/ Conclude(w) \/ Terminate(w) \/ Heartbeat(w) \/ SlotFault(w)

\* A slot at work touches neither outbox nor queue.
LEMMA SlotWorksAlone ==
  ASSUME NEW w \in Slots, SlotWorks(w)
  PROVE  UNCHANGED <<boxVars, message>> /\ (Fault \/ UNCHANGED faults)
  BY DEF SlotWorks, Claim, ClaimRefused, Look, ExecutionEnds, Conclude, Terminate, Heartbeat,
         SlotFault, HeartbeatThrows, ConcludeThrows, TerminateThrows, ClaimThrows, SlotCrash

\* A slot moves from one place of its run to another, or stays.
LEMMA SlotMoves ==
  ASSUME TypeOK, SlotsAreKnown, MoreDelivered, NEW w \in Slots, SlotWorks(w)
  PROVE  UNCHANGED slot \/ \E row : MovesTo(w, row)
<1> DEFINE j == slot[w].job
           r == slot[w].run
           Moves == \E row : MovesTo(w, row)
<1>1. slot[w].pc # "idle" => j \in Jobs /\ slot[w] \in SlotState
  BY WorkingSlot
<1>2. slot[w].pc = "pause" => slot[w].interrupt \in Interrupts
  BY DEF SlotsAreKnown, SlotIsKnown
<1>3. ASSUME slot[w].pc # "idle", NEW pc \in {"look", "complete", "fail", "cancel", "retry"},
             Goto(w, pc)
      PROVE  Moves
  BY <1>3, GoesTo
<1>4. ASSUME slot[w].pc # "idle", Goto(w, "ack"), Shut(j) PROVE Moves
  BY <1>4, GoesTo
<1> SUFFICES UNCHANGED slot \/ Moves
  OBVIOUS
<1> HIDE DEF Moves
<1>5. CASE Claim(w)
  BY <1>5, ClaimMoves DEF Moves
<1>6. CASE ClaimRefused(w) \/ ClaimThrows(w)
  BY <1>3, <1>6 DEF ClaimRefused, ClaimThrows
<1>7. CASE Look(w)
  <2>1. Busy(jobs[j].status) => Goto(w, "retry")
    BY <1>7 DEF Look
  <2>2. ~Busy(jobs[j].status) => Goto(w, "ack") /\ Shut(j)
    BY <1>7 DEF Look, Shut, Busy, vars
  <2>3. slot[w].pc # "idle"
    BY <1>7 DEF Look
  <2> QED
    BY <1>3, <1>4, <2>1, <2>2, <2>3
<1>8. CASE ExecutionEnds(w)
  <2>1. slot[w].pc = "execute"
    BY <1>8 DEF ExecutionEnds
  <2>2. ASSUME NEW result \in {"complete", "fail"}, Goto(w, Route(slot[w].monitor, result))
        PROVE  Moves
    BY <1>3, <2>1, <2>2, RoutesAre
  <2>3. ASSUME NEW i \in Interrupts,
               slot' = [slot EXCEPT ![w].pc = Route(slot[w].monitor, "pause"),
                                    ![w].interrupt = i]
        PROVE  Moves
    <3>1. PICK pc \in {"retry", "cancel", "pause"} : pc = Route(slot[w].monitor, "pause")
      BY RoutesAre
    <3>2. slot' = [slot EXCEPT ![w] = [slot[w] EXCEPT !.pc = pc, !.interrupt = i]]
      BY <2>3, <3>1 DEF SlotsAreKnown
    <3>3. slot' = [slot EXCEPT ![w] =
             [pc |-> pc, message |-> slot[w].message, job |-> slot[w].job,
              run |-> slot[w].run, monitor |-> slot[w].monitor, interrupt |-> i]]
      BY <3>2, SlotFields
    <3>4. slot[w].monitor \in {"none", "lease_lost", "cancel_requested"}
      BY <1>1, <2>1 DEF SlotState
    <3> QED
      BY <2>1, <3>3, <3>4, Notes DEF Moves
  <2> QED
    BY <1>8, <2>2, <2>3 DEF ExecutionEnds
<1>9. CASE Conclude(w) \/ ConcludeThrows(w)
  <2>1. slot[w].pc # "idle"
    BY <1>9 DEF Conclude, ConcludeThrows
  <2> QED
    BY <1>1, <1>2, <1>3, <1>4, <1>9, <2>1, SettledJobIsShut DEF Conclude, ConcludeThrows
<1>10. CASE Terminate(w) \/ TerminateThrows(w)
  <2>1. slot[w].pc # "idle"
    BY <1>10 DEF Terminate, TerminateThrows
  <2> QED
    BY <1>1, <1>3, <1>4, <1>10, <2>1, SettledJobIsShut DEF Terminate, TerminateThrows
<1>11. ASSUME slot[w].pc = "execute", NEW monitor \in {"lease_lost", "cancel_requested"},
              slot' = [slot EXCEPT ![w].monitor = monitor]
       PROVE  Moves
  <2>1. slot' = [slot EXCEPT ![w] =
             [pc |-> "execute", message |-> slot[w].message, job |-> slot[w].job,
              run |-> slot[w].run, monitor |-> monitor, interrupt |-> slot[w].interrupt]]
    BY <1>11, SlotFields
  <2>2. slot[w].interrupt \in Interrupts \cup {None}
    BY <1>1, <1>11 DEF SlotState
  <2> QED
    BY <1>11, <2>1, <2>2, Notes DEF Moves
<1>12. CASE Heartbeat(w) \/ HeartbeatThrows(w)
  BY <1>11, <1>12 DEF Heartbeat, HeartbeatThrows, HeartbeatResult
<1>13. CASE SlotCrash(w)
  <2>1. Known(IdleSlot) /\ RunOfSlot(IdleSlot, w) /\ IdleSlot.pc # "ack"
    BY DEF Known, RunOfSlot, IdleSlot, SlotState, NoRun
  <2> QED
    BY <1>13, <2>1 DEF SlotCrash, Moves, MovesTo
<1> QED
  BY <1>5, <1>6, <1>7, <1>8, <1>9, <1>10, <1>12, <1>13 DEF SlotWorks, SlotFault

-----------------------------------------------------------------------------
(* Every step keeps outbox, messages and slots in agreement                *)

\* What a step of the write path does for the requests of all jobs.
ServesRequests == DeliveryInv' /\ RowsStay /\ MessagesMoveOn /\ AcksAreDeserved

\* Rows that stay inserted keep their deliveries.
LEMMA DeliveriesGrow ==
  ASSUME BoxProofs!OutboxInv, RowsStay
  PROVE  MoreDelivered /\ deliveries \in [Messages -> Nat]
  BY BoxInvTypes DEF RowsStay, MoreDelivered

\* What does not change is not lost and not acknowledged.
LEMMA NothingMoves ==
  /\ UNCHANGED <<message, deliveries>> => MessagesMoveOn
  /\ UNCHANGED slot => AcksAreDeserved
  BY DEF MessagesMoveOn, OnItsWay, InQueue, AcksAreDeserved

\* A business transaction with its outbox row.
LEMMA InsertServes ==
  ASSUME DeliveryInv, RunsGrow, NEW m \in Messages, InsertRow(m)
  PROVE  ServesRequests
<1>1. BoxProofs!OutboxInv /\ Box!Insert(m) /\ UNCHANGED <<message, slot>>
  BY DEF InsertRow, DeliveryInv
<1>2. RowsStay /\ UNCHANGED deliveries
  BY <1>1, InsertedRow
<1>3. BoxProofs!OutboxInv'
  BY <1>1, BoxStep DEF Box!Next
<1>4. MessagesAreCounted' /\ SlotsAreKnown'
  BY <1>1, <1>2, MessagesKept, SlotsKept, DeliveriesGrow DEF DeliveryInv
<1> QED
  BY <1>1, <1>2, <1>3, <1>4, NothingMoves DEF ServesRequests, DeliveryInv

\* What leaves outbox, messages and slots alone.
LEMMA StoreServes ==
  ASSUME DeliveryInv, RunsGrow, UNCHANGED <<boxVars, message, slot>>, Fault \/ UNCHANGED faults
  PROVE  ServesRequests
<1>1. UNCHANGED deliveries
  BY DEF boxVars
<1>2. BoxProofs!OutboxInv' /\ RowsStay
  BY FaultKeepsBox DEF DeliveryInv
<1>3. MessagesAreCounted' /\ SlotsAreKnown'
  BY <1>1, <1>2, MessagesKept, SlotsKept, DeliveriesGrow DEF DeliveryInv
<1> QED
  BY <1>1, <1>2, <1>3, NothingMoves DEF ServesRequests, DeliveryInv

\* Dispatchers, their faults, and the clocks of the outbox.
LEMMA DispatchServes ==
  ASSUME DeliveryInv, RunsGrow,
         \/ \E d \in Dispatchers : DispatcherStep(d) \/ DispatcherFault(d)
         \/ \E m \in Messages : OutboxClock(m)
  PROVE  ServesRequests
<1>1. BoxProofs!OutboxInv /\ MessagesAreCounted /\ SlotsAreKnown /\ UNCHANGED slot
  BY DEF DispatcherStep, DispatcherFault, OutboxClock, DeliveryInv
<1>2. BoxProofs!OutboxInv'
  BY <1>1, BoxStep DEF DispatcherStep, DispatcherFault, OutboxClock, Box!Next
<1>3. RowsStay
  BY <1>1, DispatchRows, ClockRows DEF DispatcherStep, DispatcherFault, OutboxClock
<1>4. SlotsAreKnown' /\ AcksAreDeserved /\ deliveries \in [Messages -> Nat]
  BY <1>1, <1>3, SlotsKept, DeliveriesGrow, NothingMoves
<1>5. CASE FollowQueue
  <2>1. MessagesAreCounted' /\ \A m \in Messages : OnItsWay(m) => OnItsWay(m)'
    BY <1>1, <1>3, <1>4, <1>5, MessagesFollow
  <2> QED
    BY <1>2, <1>3, <1>4, <2>1 DEF ServesRequests, DeliveryInv, MessagesMoveOn
<1>6. ASSUME NEW m \in Messages, OutboxClock(m) PROVE ServesRequests
  <2>1. UNCHANGED <<message, deliveries>>
    BY <1>6 DEF OutboxClock, Box!BecomesDue, Box!LockTimesOut
  <2>2. MessagesAreCounted' /\ MessagesMoveOn
    BY <1>1, <1>3, <2>1, MessagesKept, NothingMoves
  <2> QED
    BY <1>2, <1>3, <1>4, <2>2 DEF ServesRequests, DeliveryInv
<1> QED
  BY <1>5, <1>6 DEF DispatcherStep, DispatcherFault

\* A slot between taking a message and settling it.
LEMMA WorkServes ==
  ASSUME TypeOK, DeliveryInv, RunsGrow, NEW w \in Slots, SlotWorks(w)
  PROVE  ServesRequests
<1>1. UNCHANGED <<boxVars, message>> /\ (Fault \/ UNCHANGED faults)
  BY SlotWorksAlone
<1>2. UNCHANGED <<message, deliveries>>
  BY <1>1 DEF boxVars
<1>3. BoxProofs!OutboxInv' /\ RowsStay
  BY <1>1, FaultKeepsBox DEF DeliveryInv
<1>4. MoreDelivered
  BY <1>3, DeliveriesGrow DEF DeliveryInv
<1>5. MessagesAreCounted' /\ MessagesMoveOn
  BY <1>2, <1>3, MessagesKept, NothingMoves DEF DeliveryInv
<1>6. CASE UNCHANGED slot
  BY <1>1, <1>6, StoreServes
<1>7. ASSUME NEW row, MovesTo(w, row) PROVE ServesRequests
  <2>1. SlotsAreKnown' /\ slot'[w] = row /\ \A v \in Slots : v # w => slot'[v] = slot[v]
    BY <1>4, <1>7, SlotWritten DEF MovesTo, DeliveryInv
  <2>2. ASSUME row.pc = "ack"
        PROVE  row.message \in Messages
               /\ jobs'[row.message.job].status \notin {"queued", "running"}
    <3>1. row.message \in Messages /\ row.message = slot[w].message /\ Shut(slot[w].job)
      BY <1>7, <2>2 DEF MovesTo, Known
    <3>2. slot[w].pc # "idle"
      BY DEF SlotWorks, Claim, ClaimRefused, Look, ExecutionEnds, Conclude, Terminate, Heartbeat,
             SlotFault, HeartbeatThrows, ConcludeThrows, TerminateThrows, ClaimThrows, SlotCrash,
             Working
    <3>3. slot[w].job = row.message.job
      BY <3>1, <3>2, WorkingSlot DEF DeliveryInv
    <3> QED
      BY <3>1, <3>3 DEF Shut
  <2>3. AcksAreDeserved
    BY <2>1, <2>2 DEF AcksAreDeserved
  <2> QED
    BY <1>3, <1>5, <2>1, <2>3 DEF ServesRequests, DeliveryInv
<1> QED
  BY <1>6, <1>7, SlotMoves, <1>4 DEF DeliveryInv

\* The message is still in the queue, or the queue gave it up.
Carried(row) == row.state \in {"waiting", "active", "delayed"} \/ row.gaveUp

\* The fields of a message.
LEMMA MessageFields ==
  ASSUME MessagesAreCounted, NEW m \in Messages
  PROVE  LET row == message[m] IN
         /\ row = [state |-> row.state, owner |-> row.owner, attempts |-> row.attempts,
                   stalls |-> row.stalls, gaveUp |-> row.gaveUp]
         /\ row.attempts \in 0 .. QueueAttempts /\ row.stalls \in 0 .. MaxStalledCount + 1
         /\ row.owner \in Slots \cup {NoSlot} /\ row.gaveUp \in BOOLEAN
         /\ Counted(row, m) /\ row \in MessageState
  BY CountedByMessages DEF Counted, MessageState

\* A message written out.
MessageOf(state, owner, attempts, stalls, gaveUp) ==
    [state |-> state, owner |-> owner, attempts |-> attempts, stalls |-> stalls,
     gaveUp |-> gaveUp]

\* What the updates of a message write, field by field.
LEMMA MessageEdits ==
  ASSUME NEW row \in MessageState, NEW state, NEW owner
  PROVE  /\ [row EXCEPT !.state = state] =
               MessageOf(state, row.owner, row.attempts, row.stalls, row.gaveUp)
         /\ [row EXCEPT !.state = state, !.owner = owner] =
               MessageOf(state, owner, row.attempts, row.stalls, row.gaveUp)
<1> DEFINE o == row.owner
           a == row.attempts
           t == row.stalls
           g == row.gaveUp
<1>1. row = MessageOf(row.state, o, a, t, g)
  BY DEF MessageState, MessageOf
<1>2. [row EXCEPT !.state = state] = MessageOf(state, o, a, t, g)
  BY <1>1 DEF MessageOf
<1> HIDE DEF o, a, t, g
<1>3. [MessageOf(state, o, a, t, g) EXCEPT !.owner = owner] = MessageOf(state, owner, a, t, g)
  BY DEF MessageOf
<1>4. [row EXCEPT !.state = state, !.owner = owner] = MessageOf(state, owner, a, t, g)
  BY <1>2, <1>3
<1> QED
  BY <1>2, <1>4 DEF o, a, t, g

\* A message that waits again, after its backoff or in the hands of a slot.
LEMMA MessageTurns ==
  ASSUME MessagesAreCounted, NEW m \in Messages, InQueue(m),
         NEW state \in {"waiting", "active"}, NEW owner \in Slots \cup {NoSlot},
         owner # NoSlot => state = "active"
  PROVE  LET row == message[m]
             new == MessageOf(state, owner, row.attempts, row.stalls, row.gaveUp)
         IN  Counted(new, m) /\ Carried(new)
  BY MessageFields DEF Counted, Carried, MessageState, MessageOf, InQueue

\* A message that failed once more, by an error or by a stall.
LEMMA MessageFails ==
  ASSUME MessagesAreCounted, NEW m \in Messages, InQueue(m)
  PROVE  /\ LET row == message[m]
                spent == row.stalls >= MaxStalledCount
                new == MessageOf(IF spent THEN "failed" ELSE "waiting", NoSlot, row.attempts,
                                 row.stalls + 1, row.gaveUp \/ spent)
            IN  Counted(new, m) /\ Carried(new)
         /\ LET row == message[m]
                spent == row.attempts + 1 >= QueueAttempts
                new == MessageOf(IF spent THEN "failed" ELSE "delayed", NoSlot,
                                 row.attempts + 1, row.stalls, row.gaveUp \/ spent)
            IN  Counted(new, m) /\ Carried(new)
<1> DEFINE row == message[m]
<1>a. /\ row.attempts \in 0 .. QueueAttempts /\ row.stalls \in 0 .. MaxStalledCount + 1
      /\ row.gaveUp \in BOOLEAN /\ Counted(row, m)
  BY MessageFields
<1>b. row.state \in {"waiting", "active", "delayed"}
  BY DEF InQueue
<1>c. /\ row.attempts < QueueAttempts /\ row.stalls <= MaxStalledCount
      /\ row.state # "absent" => deliveries[m] > 0
  BY <1>a, <1>b, Zenon DEF Counted
<1>d. deliveries[m] > 0
  BY <1>b, <1>c
<1>1. /\ row.attempts \in Nat /\ row.stalls \in Nat /\ row.attempts < QueueAttempts
      /\ row.stalls <= MaxStalledCount /\ row.gaveUp \in BOOLEAN /\ deliveries[m] > 0
      /\ row.attempts \in 0 .. QueueAttempts /\ row.stalls \in 0 .. MaxStalledCount + 1
  BY <1>a, <1>c, <1>d, SystemAssumption
<1>2. QueueAttempts \in Nat /\ MaxStalledCount \in Nat
  BY SystemAssumption
<1> HIDE DEF row
<1>3. row.attempts + 1 \in 0 .. QueueAttempts /\ row.stalls + 1 \in 0 .. MaxStalledCount + 1
  BY <1>1, <1>2
<1>4. /\ ~(row.stalls >= MaxStalledCount) => row.stalls + 1 <= MaxStalledCount
      /\ ~(row.attempts + 1 >= QueueAttempts) => row.attempts + 1 < QueueAttempts
  BY <1>1, <1>2
<1>5. ASSUME NEW spent \in BOOLEAN, NEW attempts \in 0 .. QueueAttempts,
             NEW stalls \in 0 .. MaxStalledCount + 1, NEW state \in {"waiting", "delayed"},
             ~spent => attempts < QueueAttempts /\ stalls <= MaxStalledCount
      PROVE  LET new == MessageOf(IF spent THEN "failed" ELSE state, NoSlot, attempts, stalls,
                                  row.gaveUp \/ spent)
             IN  Counted(new, m) /\ Carried(new)
  BY <1>1, <1>5 DEF Counted, Carried, MessageState, MessageOf
<1>6. (row.stalls >= MaxStalledCount) \in BOOLEAN
      /\ (row.attempts + 1 >= QueueAttempts) \in BOOLEAN
  OBVIOUS
<1>7. LET spent == row.stalls >= MaxStalledCount
          new == MessageOf(IF spent THEN "failed" ELSE "waiting", NoSlot, row.attempts,
                           row.stalls + 1, row.gaveUp \/ spent)
      IN  Counted(new, m) /\ Carried(new)
  BY <1>1, <1>3, <1>4, <1>5, <1>6
<1>8. LET spent == row.attempts + 1 >= QueueAttempts
          new == MessageOf(IF spent THEN "failed" ELSE "delayed", NoSlot, row.attempts + 1,
                           row.stalls, row.gaveUp \/ spent)
      IN  Counted(new, m) /\ Carried(new)
  BY <1>1, <1>3, <1>4, <1>5, <1>6
<1> QED
  BY <1>7, <1>8 DEF row

\* A step of BullMQ on one message, which carries it on or gives it up.
LEMMA CarriedServes ==
  ASSUME DeliveryInv, RunsGrow, BoxProofs!OutboxInv', RowsStay, UNCHANGED deliveries,
         NEW m \in Messages, NEW new, Counted(new, m), message' = [message EXCEPT ![m] = new],
         OnItsWay(m) => Carried(new) \/ \E w \in Slots : slot[w].pc = "ack" /\ slot[w].message = m,
         SlotsAreKnown', AcksAreDeserved
  PROVE  ServesRequests
<1>1. /\ MessagesAreCounted' /\ message'[m] = new
      /\ \A n \in Messages : n # m => message'[n] = message[n]
  BY MessageWritten DEF DeliveryInv
<1>2. MessagesMoveOn
  BY <1>1 DEF MessagesMoveOn, OnItsWay, InQueue, Carried
<1> QED
  BY <1>1, <1>2 DEF ServesRequests, DeliveryInv

\* The backoff of a failed attempt ends.
LEMMA BackoffServes ==
  ASSUME DeliveryInv, RunsGrow, NEW m \in Messages, BackoffEnds(m)
  PROVE  ServesRequests
<1> DEFINE row == message[m]
           new == MessageOf("waiting", row.owner, row.attempts, row.stalls, row.gaveUp)
<1>1. MessagesAreCounted /\ SlotsAreKnown /\ row.state = "delayed" /\ UNCHANGED slot
      /\ UNCHANGED boxVars /\ UNCHANGED faults
  BY DEF BackoffEnds, DeliveryInv
<1>2. row.owner = NoSlot /\ InQueue(m)
  BY <1>1, MessageFields DEF Counted, InQueue
<1>3. Counted(new, m) /\ Carried(new)
  BY <1>1, <1>2, MessageTurns
<1>4. [row EXCEPT !.state = "waiting"] = new
  BY <1>1, MessageFields, MessageEdits
<1>5. message' = [message EXCEPT ![m] = new]
  BY <1>4 DEF BackoffEnds
<1>6. BoxProofs!OutboxInv' /\ RowsStay /\ UNCHANGED deliveries
  BY <1>1, FaultKeepsBox DEF DeliveryInv, boxVars
<1>7. SlotsAreKnown' /\ AcksAreDeserved
  BY <1>1, <1>6, SlotsKept, DeliveriesGrow, NothingMoves DEF DeliveryInv
<1> HIDE DEF new
<1> QED
  BY <1>3, <1>5, <1>6, <1>7, CarriedServes

\* The stalled check, right or wrong about the process.
LEMMA StallServes ==
  ASSUME DeliveryInv, RunsGrow, NEW m \in Messages, StalledCheck(m) \/ FalseStall(m)
  PROVE  ServesRequests
<1> DEFINE row == message[m]
           spent == row.stalls >= MaxStalledCount
           new == MessageOf(IF spent THEN "failed" ELSE "waiting", NoSlot, row.attempts,
                            row.stalls + 1, row.gaveUp \/ spent)
<1>1. /\ MessagesAreCounted /\ SlotsAreKnown /\ row.state = "active" /\ Stalled(m)
      /\ UNCHANGED boxVars /\ UNCHANGED slot /\ (Fault \/ UNCHANGED faults)
  BY DEF StalledCheck, FalseStall, Abandoned, DeliveryInv
<1>2. Counted(new, m) /\ Carried(new)
  BY <1>1, MessageFails DEF InQueue
<1>3. message' = [message EXCEPT ![m] =
         [row EXCEPT !.owner = NoSlot, !.stalls = row.stalls + 1,
                     !.state = IF spent THEN "failed" ELSE "waiting",
                     !.gaveUp = row.gaveUp \/ spent]]
  BY <1>1, Zenon DEF Stalled
<1>4. [row EXCEPT !.owner = NoSlot, !.stalls = row.stalls + 1,
                  !.state = IF spent THEN "failed" ELSE "waiting",
                  !.gaveUp = row.gaveUp \/ spent] = new
  <2> DEFINE state == IF spent THEN "failed" ELSE "waiting"
             gaveUp == row.gaveUp \/ spent
             stalls == row.stalls + 1
  <2>1. row \in MessageState
    BY <1>1, MessageFields
  <2> HIDE DEF row, spent, state, gaveUp, stalls, new
  <2>2. [row EXCEPT !.owner = NoSlot, !.stalls = stalls, !.state = state, !.gaveUp = gaveUp]
        = MessageOf(state, NoSlot, row.attempts, stalls, gaveUp)
    <3> DEFINE s == row.state
               o == row.owner
               a == row.attempts
               t == row.stalls
               g == row.gaveUp
    <3>1. row = MessageOf(s, o, a, t, g)
      BY <2>1 DEF MessageState, MessageOf
    <3>2. [row EXCEPT !.owner = NoSlot] = MessageOf(s, NoSlot, a, t, g)
      BY <3>1 DEF MessageOf
    <3> HIDE DEF s, o, a, t, g
    <3>3. /\ [MessageOf(s, NoSlot, a, t, g) EXCEPT !.stalls = stalls] = MessageOf(s, NoSlot, a, stalls, g)
          /\ [MessageOf(s, NoSlot, a, stalls, g) EXCEPT !.state = state] = MessageOf(state, NoSlot, a, stalls, g)
          /\ [MessageOf(state, NoSlot, a, stalls, g) EXCEPT !.gaveUp = gaveUp] = MessageOf(state, NoSlot, a, stalls, gaveUp)
      BY DEF MessageOf
    <3>4. [row EXCEPT !.owner = NoSlot, !.stalls = stalls, !.state = state, !.gaveUp = gaveUp]
          = MessageOf(state, NoSlot, a, stalls, gaveUp)
      BY <3>2, <3>3
    <3> QED
      BY <3>4 DEF a
  <2> QED
    BY <2>2, Zenon DEF state, gaveUp, stalls, new
<1>5. message' = [message EXCEPT ![m] = new]
  BY <1>3, <1>4
<1>6. BoxProofs!OutboxInv' /\ RowsStay /\ UNCHANGED deliveries
  BY <1>1, FaultKeepsBox DEF DeliveryInv, boxVars
<1>7. SlotsAreKnown' /\ AcksAreDeserved
  BY <1>1, <1>6, SlotsKept, DeliveriesGrow, NothingMoves DEF DeliveryInv
<1> HIDE DEF new
<1> QED
  BY <1>2, <1>5, <1>6, <1>7, CarriedServes

\* Retention forgets a finished message, but not that it gave up.
LEMMA ForgetServes ==
  ASSUME DeliveryInv, RunsGrow, NEW m \in Messages, Forget(m)
  PROVE  ServesRequests
<1> DEFINE row == message[m]
           new == [AbsentMessage EXCEPT !.gaveUp = row.gaveUp]
<1>1. /\ BoxProofs!OutboxInv /\ MessagesAreCounted /\ SlotsAreKnown
      /\ row.state \in {"done", "failed"} /\ UNCHANGED slot /\ Box!QueueForgets(m)
  BY DEF Forget, DeliveryInv
<1>2. Counted(row, m) /\ row.gaveUp \in BOOLEAN
  BY <1>1, MessageFields
<1>3. new = MessageOf("absent", NoSlot, 0, 0, row.gaveUp)
  <2>1. FreshMessage = MessageOf("waiting", NoSlot, 0, 0, FALSE)
    BY DEF FreshMessage, MessageOf
  <2> DEFINE no == FALSE
             zero == 0
             gaveUp == row.gaveUp
             nobody == NoSlot
  <2> HIDE DEF no, zero, gaveUp, nobody
  <2>2. AbsentMessage = MessageOf("absent", nobody, zero, zero, no)
    <3>1. [MessageOf("waiting", nobody, zero, zero, no) EXCEPT !.state = "absent"]
          = MessageOf("absent", nobody, zero, zero, no)
      BY DEF MessageOf
    <3> QED
      BY <2>1, <3>1, Zenon DEF AbsentMessage, nobody, zero, no
  <2>3. [MessageOf("absent", nobody, zero, zero, no) EXCEPT !.gaveUp = gaveUp]
        = MessageOf("absent", nobody, zero, zero, gaveUp)
    BY DEF MessageOf
  <2>4. [AbsentMessage EXCEPT !.gaveUp = gaveUp] = MessageOf("absent", nobody, zero, zero, gaveUp)
    BY <2>2, <2>3
  <2> QED
    BY <2>4, Zenon DEF nobody, zero, gaveUp
<1>4. 0 \in 0 .. QueueAttempts /\ 0 \in 0 .. MaxStalledCount + 1
  BY SystemAssumption
<1>5. new \in MessageState
  BY <1>2, <1>3, <1>4 DEF MessageState, MessageOf
<1>6. Counted(new, m)
  BY <1>2, <1>3, <1>5 DEF Counted, MessageOf
<1>7. OnItsWay(m) => Carried(new)
  <2>1. deliveries[m] > 0
    BY <1>1, <1>2 DEF Counted
  <2> QED
    BY <1>1, <1>3, <2>1 DEF OnItsWay, InQueue, Carried, MessageOf
<1>8. message' = [message EXCEPT ![m] = new]
  BY DEF Forget
<1>9. RowsStay /\ UNCHANGED deliveries
  BY <1>1, ClockRows DEF Box!QueueForgets
<1>10. BoxProofs!OutboxInv'
  BY <1>1, BoxStep DEF Box!Next
<1>11. SlotsAreKnown' /\ AcksAreDeserved
  BY <1>1, <1>9, SlotsKept, DeliveriesGrow, NothingMoves
<1> HIDE DEF new
<1> QED
  BY <1>6, <1>7, <1>8, <1>9, <1>10, <1>11, CarriedServes

\* A slot takes a waiting message.
LEMMA TakeServes ==
  ASSUME DeliveryInv, RunsGrow, NEW w \in Slots, NEW m \in Messages, Take(w, m)
  PROVE  ServesRequests
<1> DEFINE row == message[m]
           new == MessageOf("active", w, row.attempts, row.stalls, row.gaveUp)
           taken == [IdleSlot EXCEPT !.pc = "claim", !.message = m, !.job = m.job]
<1>1. /\ MessagesAreCounted /\ SlotsAreKnown /\ row.state = "waiting"
      /\ UNCHANGED boxVars /\ UNCHANGED faults
  BY DEF Take, DeliveryInv
<1>2. Counted(new, m) /\ Carried(new)
  BY <1>1, MessageTurns DEF InQueue
<1>3. [row EXCEPT !.state = "active", !.owner = w] = new
  BY <1>1, MessageFields, MessageEdits
<1>4. message' = [message EXCEPT ![m] = [row EXCEPT !.state = "active", !.owner = w]]
  BY <1>1 DEF Take, MessagesAreCounted
<1>5. BoxProofs!OutboxInv' /\ RowsStay /\ UNCHANGED deliveries /\ MoreDelivered
  BY <1>1, FaultKeepsBox, DeliveriesGrow DEF DeliveryInv, boxVars
<1>6. taken = [pc |-> "claim", message |-> m, job |-> m.job, run |-> NoRun,
               monitor |-> "none", interrupt |-> None]
  <2> DEFINE R(a, b, c) == [pc |-> a, message |-> b, job |-> c, run |-> NoRun,
                            monitor |-> "none", interrupt |-> None]
  <2>1. IdleSlot = R("idle", None, None)
    BY DEF IdleSlot
  <2> DEFINE job == m.job
  <2> HIDE DEF job
  <2>2. /\ [R("idle", None, None) EXCEPT !.pc = "claim"] = R("claim", None, None)
        /\ [R("claim", None, None) EXCEPT !.message = m] = R("claim", m, None)
        /\ [R("claim", m, None) EXCEPT !.job = job] = R("claim", m, job)
    OBVIOUS
  <2> HIDE DEF R
  <2>3. [IdleSlot EXCEPT !.pc = "claim", !.message = m, !.job = job] = R("claim", m, job)
    BY <2>1, <2>2
  <2> QED
    BY <2>3 DEF R, job
<1> HIDE DEF taken
<1>7. deliveries'[m] > 0
  BY <1>1, <1>5, MessageFields DEF Counted
<1>8. taken \in SlotState
  BY <1>6, MessagesAskForJobs DEF SlotState, NoRun
<1>9. Known(taken) /\ RunOfSlot(taken, w) /\ taken.pc = "claim"
  BY <1>6, <1>7, <1>8 DEF Known, RunOfSlot
<1>10. slot' = [slot EXCEPT ![w] = taken]
  BY DEF Take, taken
<1>11. SlotsAreKnown' /\ slot'[w] = taken /\ \A v \in Slots : v # w => slot'[v] = slot[v]
  BY <1>1, <1>5, <1>9, <1>10, SlotWritten
<1>12. AcksAreDeserved
  BY <1>9, <1>11 DEF AcksAreDeserved
<1>13. message' = [message EXCEPT ![m] = new]
  BY <1>3, <1>4
<1> HIDE DEF new
<1> QED
  BY <1>2, <1>5, <1>11, <1>12, <1>13, CarriedServes

\* The processor has returned or thrown: the message is settled by its owner only.
LEMMA SettleServes ==
  ASSUME DeliveryInv, RunsGrow, NEW w \in Slots, Acknowledge(w) \/ Retry(w)
  PROVE  ServesRequests
<1> DEFINE m == slot[w].message
<1>1. /\ MessagesAreCounted /\ SlotsAreKnown /\ slot[w].pc \in {"ack", "retry"}
      /\ UNCHANGED boxVars /\ UNCHANGED faults
  BY DEF Acknowledge, Retry, DeliveryInv
<1>2. m \in Messages
  BY <1>1, WorkingSlot
<1>3. PICK n \in Messages : n = m
  BY <1>2
<1>4. BoxProofs!OutboxInv' /\ RowsStay /\ UNCHANGED deliveries /\ MoreDelivered
  BY <1>1, FaultKeepsBox, DeliveriesGrow DEF DeliveryInv, boxVars
<1>5. slot' = [slot EXCEPT ![w] = IdleSlot]
  BY DEF Acknowledge, Retry, Settle
<1>6. Known(IdleSlot) /\ RunOfSlot(IdleSlot, w) /\ IdleSlot.pc = "idle"
  BY DEF Known, RunOfSlot, IdleSlot, SlotState, NoRun
<1>7. SlotsAreKnown' /\ slot'[w] = IdleSlot /\ \A v \in Slots : v # w => slot'[v] = slot[v]
  BY <1>1, <1>4, <1>5, <1>6, SlotWritten
<1>8. AcksAreDeserved
  BY <1>6, <1>7 DEF AcksAreDeserved
<1>9. CASE message[n].owner # w
  <2>1. UNCHANGED <<message, deliveries>>
    BY <1>3, <1>4, <1>9 DEF Acknowledge, Retry, Settle
  <2>2. MessagesAreCounted' /\ MessagesMoveOn
    BY <1>1, <1>4, <2>1, MessagesKept, NothingMoves
  <2> QED
    BY <1>4, <1>7, <1>8, <2>2 DEF ServesRequests, DeliveryInv
<1>10. ASSUME NEW new, Counted(new, n), message' = [message EXCEPT ![n] = new],
              Carried(new) \/ slot[w].pc = "ack"
       PROVE  ServesRequests
  BY <1>3, <1>4, <1>7, <1>8, <1>10, CarriedServes
<1>11. CASE message[n].owner = w
  <2> DEFINE row == message[n]
  <2>1. row.state = "active" /\ InQueue(n) /\ Counted(row, n)
    BY <1>1, <1>11, MessageFields, SystemAssumption DEF Counted, InQueue, NoSlot
  <2>2. ASSUME Acknowledge(w) PROVE ServesRequests
    <3> DEFINE new == [row EXCEPT !.state = "done", !.owner = NoSlot]
    <3>1. new = MessageOf("done", NoSlot, row.attempts, row.stalls, row.gaveUp)
      BY <1>1, MessageFields, MessageEdits
    <3>2. Counted(new, n)
      BY <2>1, <3>1 DEF Counted, MessageState, MessageOf
    <3>3. message' = [message EXCEPT ![n] = new] /\ slot[w].pc = "ack"
      BY <1>3, <1>11, <2>2 DEF Acknowledge, Settle
    <3> HIDE DEF new
    <3> QED
      BY <1>10, <3>2, <3>3
  <2>3. ASSUME Retry(w) PROVE ServesRequests
    <3> DEFINE spent == row.attempts + 1 >= QueueAttempts
               new == MessageOf(IF spent THEN "failed" ELSE "delayed", NoSlot,
                                row.attempts + 1, row.stalls, row.gaveUp \/ spent)
    <3>1. Counted(new, n) /\ Carried(new)
      BY <1>1, <2>1, MessageFails
    <3>2. message' = [message EXCEPT ![n] =
             [row EXCEPT !.owner = NoSlot, !.attempts = row.attempts + 1,
                         !.state = IF spent THEN "failed" ELSE "delayed",
                         !.gaveUp = row.gaveUp \/ spent]]
      BY <1>3, <1>11, <2>3 DEF Retry, Settle
    <3>3. [row EXCEPT !.owner = NoSlot, !.attempts = row.attempts + 1,
                      !.state = IF spent THEN "failed" ELSE "delayed",
                      !.gaveUp = row.gaveUp \/ spent] = new
      <4> DEFINE state == IF spent THEN "failed" ELSE "delayed"
                 gaveUp == row.gaveUp \/ spent
                 attempts == row.attempts + 1
      <4>1. row \in MessageState
        BY <1>1, MessageFields
      <4> HIDE DEF row, spent, state, gaveUp, attempts, new
      <4>2. [row EXCEPT !.owner = NoSlot, !.attempts = attempts, !.state = state,
                        !.gaveUp = gaveUp]
            = MessageOf(state, NoSlot, attempts, row.stalls, gaveUp)
        <5> DEFINE s == row.state
                   o == row.owner
                   a == row.attempts
                   t == row.stalls
                   g == row.gaveUp
        <5>1. row = MessageOf(s, o, a, t, g)
          BY <4>1 DEF MessageState, MessageOf
        <5>2. [row EXCEPT !.owner = NoSlot] = MessageOf(s, NoSlot, a, t, g)
          BY <5>1 DEF MessageOf
        <5> HIDE DEF s, o, a, t, g
        <5>3. /\ [MessageOf(s, NoSlot, a, t, g) EXCEPT !.attempts = attempts] = MessageOf(s, NoSlot, attempts, t, g)
              /\ [MessageOf(s, NoSlot, attempts, t, g) EXCEPT !.state = state] = MessageOf(state, NoSlot, attempts, t, g)
              /\ [MessageOf(state, NoSlot, attempts, t, g) EXCEPT !.gaveUp = gaveUp] = MessageOf(state, NoSlot, attempts, t, gaveUp)
          BY DEF MessageOf
        <5>4. [row EXCEPT !.owner = NoSlot, !.attempts = attempts, !.state = state, !.gaveUp = gaveUp]
              = MessageOf(state, NoSlot, attempts, t, gaveUp)
          BY <5>2, <5>3
        <5> QED
          BY <5>4 DEF t
      <4> QED
        BY <4>2, Zenon DEF state, gaveUp, attempts, new
    <3>4. message' = [message EXCEPT ![n] = new]
      BY <3>2, <3>3
    <3> HIDE DEF new
    <3> QED
      BY <1>10, <3>1, <3>4
  <2> QED
    BY <2>2, <2>3
<1> QED
  BY <1>9, <1>11

-----------------------------------------------------------------------------
(* The invariant                                                           *)

\* The invariant holds in the initial states.
LEMMA SystemStarts ==
  ASSUME SystemInit
  PROVE  SystemInv
<1>1. BoxProofs!Init
  BY DEF SystemInit, Box!Init, Box!AbsentRow, Box!NoLock, BoxProofs!Init, BoxProofs!AbsentRow,
         BoxProofs!NoLock
<1>2. BoxProofs!OutboxInv
  BY <1>1, SystemAssumption, BoxProofs!OutboxStart
<1>3. AbsentMessage = [state |-> "absent", owner |-> NoSlot, attempts |-> 0, stalls |-> 0,
                       gaveUp |-> FALSE]
  <2> DEFINE no == FALSE
             zero == 0
  <2>1. FreshMessage = [state |-> "waiting", owner |-> NoSlot, attempts |-> zero,
                        stalls |-> zero, gaveUp |-> no]
    BY DEF FreshMessage
  <2> HIDE DEF no, zero
  <2>2. [FreshMessage EXCEPT !.state = "absent"] =
          [state |-> "absent", owner |-> NoSlot, attempts |-> zero, stalls |-> zero,
           gaveUp |-> no]
    BY <2>1
  <2> QED
    BY <2>2, Zenon DEF AbsentMessage, no, zero
<1>4. 0 \in 0 .. QueueAttempts /\ 0 \in 0 .. MaxStalledCount + 1
  BY SystemAssumption
<1>5. AbsentMessage \in MessageState
  BY <1>3, <1>4 DEF MessageState
<1>6. /\ AbsentMessage.state = "absent" /\ AbsentMessage.owner = NoSlot
      /\ AbsentMessage.gaveUp = FALSE
  BY <1>3
<1>7. \A m \in Messages : message[m] = AbsentMessage /\ deliveries[m] = 0
  BY DEF SystemInit, Box!Init
<1>8. message \in [Messages -> MessageState]
  BY <1>5 DEF SystemInit
<1>9. MessagesAreCounted
  BY <1>6, <1>7, <1>8 DEF MessagesAreCounted, InQueue
<1>10. IdleSlot \in SlotState /\ IdleSlot.pc = "idle" /\ IdleSlot.run = NoRun
  BY DEF IdleSlot, SlotState, NoRun
<1>11. \A w \in Slots : slot[w] = IdleSlot
  BY DEF SystemInit
<1>12. slot \in [Slots -> SlotState]
  BY <1>10 DEF SystemInit
<1>13. SlotsAreKnown
  BY <1>10, <1>11, <1>12 DEF SlotsAreKnown, SlotIsKnown
<1>14. ASSUME NEW j \in Jobs PROVE RequestIsServed(j)
  <2>1. jobs[j].status = "absent" /\ jobCommands[j] = <<>>
    BY DEF SystemInit, Init, AbsentJob
  <2> QED
    BY <1>10, <1>11, <2>1 DEF RequestIsServed, Open
<1> QED
  BY <1>2, <1>9, <1>13, <1>14 DEF SystemInv, DeliveryInv

\* Every step keeps outbox, queue and slots in agreement.
LEMMA DeliveryStep ==
  ASSUME TypeOK, DeliveryInv, [SystemNext]_systemVars
  PROVE  ServesRequests
<1>1. RunsGrow
  BY SystemStepsTheStore, RunsOnlyGrow DEF DeliveryInv
<1>2. CASE UNCHANGED systemVars
  BY <1>1, <1>2, StoreServes DEF systemVars
<1>3. ASSUME NEW j \in Jobs, User(j) PROVE ServesRequests
  <2>1. ASSUME NEW k \in RequestKeys, Submit(j, k) PROVE ServesRequests
    BY <1>1, <2>1, InsertServes, MessagesAskForJobs DEF Submit
  <2>2. ASSUME NEW p \in Payloads, Reply(j, p) PROVE ServesRequests
    BY <1>1, <2>2, InsertServes, MessagesAskForJobs DEF Reply, PendingInterrupts
  <2>3. ASSUME Cancel(j) PROVE ServesRequests
    BY <1>1, <2>3, StoreServes DEF Cancel
  <2> QED
    BY <1>3, <2>1, <2>2, <2>3 DEF User
<1>4. ASSUME NEW j \in Jobs, LeaseClock(j) PROVE ServesRequests
  BY <1>1, <1>4, StoreServes DEF LeaseClock
<1>5. ASSUME NEW w \in Slots, SlotStep(w) \/ Heartbeat(w) \/ SlotFault(w)
      PROVE  ServesRequests
  BY <1>1, <1>5, WorkServes, SettleServes DEF SlotStep, SlotWorks
<1> QED
  BY <1>1, <1>2, <1>3, <1>4, <1>5, DispatchServes, BackoffServes, StallServes, ForgetServes,
     TakeServes
  DEF SystemNext

\* A step that is neither a new job nor a reply asks for nothing.
LEMMA QuietSteps ==
  ASSUME TypeOK, SlotsAreKnown, [SystemNext]_systemVars,
         ~\E j \in Jobs : \/ \E k \in RequestKeys : Submit(j, k)
                          \/ \E p \in Payloads : Reply(j, p)
  PROVE  \A q \in Jobs : Unasked(q)
<1>1. UNCHANGED vars => \A q \in Jobs : Unasked(q)
  BY NothingAsked
<1>2. ASSUME NEW j \in Jobs, Cancel(j) \/ LeaseClock(j) PROVE \A q \in Jobs : Unasked(q)
  BY <1>2, StepsThatAskNothing DEF Cancel, LeaseClock
<1>3. ASSUME NEW w \in Slots, SlotStep(w) \/ Heartbeat(w) \/ SlotFault(w)
      PROVE  \A q \in Jobs : Unasked(q)
  <2>1. CASE slot[w].pc # "idle" /\ (ClaimJob(slot[w].job) \/ SlotTransaction(w))
    BY <2>1, WorkingSlot, TransactionIsRunStep, StepsThatAskNothing
  <2> QED
    BY <1>1, <1>3, <2>1, SlotAndStore
<1>4. ASSUME UNCHANGED systemVars PROVE UNCHANGED vars
  BY <1>4 DEF systemVars
<1>5. ASSUME NEW d \in Dispatchers, DispatcherStep(d) \/ DispatcherFault(d)
      PROVE  UNCHANGED vars
  BY <1>5 DEF DispatcherStep, DispatcherFault
<1>6. ASSUME NEW m \in Messages,
             \/ OutboxClock(m) \/ BackoffEnds(m) \/ StalledCheck(m)
             \/ FalseStall(m) \/ Forget(m)
      PROVE  UNCHANGED vars
  BY <1>6 DEF OutboxClock, BackoffEnds, StalledCheck, FalseStall, Forget
<1>7. ASSUME NEW w \in Slots, NEW m \in Messages, Take(w, m) PROVE UNCHANGED vars
  BY <1>7 DEF Take
<1> QED
  BY <1>1, <1>2, <1>3, <1>4, <1>5, <1>6, <1>7 DEF SystemNext, User

\* Every step keeps the newest request of every open job in the queue, or on its way.
LEMMA RequestsStayServed ==
  ASSUME StoreInv, SystemInv, [SystemNext]_systemVars
  PROVE  SystemInv'
<1>1. TypeOK /\ DeliveryInv /\ OneOpenQuestion /\ (\A j \in Jobs : RequestIsServed(j))
      /\ SlotsAreKnown /\ MessagesAreCounted /\ BoxProofs!OutboxInv
  BY DEF StoreInv, SystemInv, DeliveryInv
<1>2. ServesRequests
  BY <1>1, DeliveryStep
<1>3. ASSUME NEW q \in Jobs, Unasked(q) PROVE RequestIsServed(q)'
  BY <1>1, <1>2, <1>3, ServedStays DEF ServesRequests
<1>4. ASSUME NEW j \in Jobs, NEW k \in RequestKeys, Submit(j, k)
      PROVE  \A q \in Jobs : RequestIsServed(q)'
  <2>1. CreateJob(j, k) /\ Box!Insert(EnqueueKey(j)) /\ UNCHANGED slot
    BY <1>4 DEF Submit, InsertRow
  <2>2. /\ jobs[j].status = "absent" /\ jobs'[j].status = "queued"
        /\ UNCHANGED jobCommands /\ \A q \in Jobs : q # j => Unasked(q)
    BY <1>1, <2>1, Accepted
  <2>3. EnqueueKey(j) \in Messages
    BY MessagesAskForJobs
  <2>4. /\ outbox[EnqueueKey(j)].status = "absent" /\ outbox'[EnqueueKey(j)].status = "pending"
        /\ UNCHANGED deliveries
    BY <1>1, <2>1, <2>3, InsertedRow
  <2>5. Request(j)' = EnqueueKey(j)
    <3>1. jobCommands'[j] = <<>>
      BY <1>1, <2>2 DEF RequestIsServed
    <3> QED
      BY <3>1 DEF Request, EnqueueKey
  <2>6. deliveries \in [Messages -> Nat]
    BY <1>1, BoxInvTypes
  <2>7. PICK m \in Messages : m = EnqueueKey(j)
    BY <2>3
  <2>8. RequestIsServed(j)'
    BY <1>1, <2>1, <2>2, <2>4, <2>5, <2>6, <2>7, ServedAnew
  <2> QED
    BY <1>3, <2>2, <2>8
<1>5. ASSUME NEW j \in Jobs, NEW p \in Payloads, Reply(j, p)
      PROVE  \A q \in Jobs : RequestIsServed(q)'
  <2>1. PICK i \in PendingInterrupts(j) : InsertRow(ResumeKey(j, i))
    BY <1>5 DEF Reply
  <2>2. SubmitOutlineReply(j, p) /\ Box!Insert(ResumeKey(j, i)) /\ UNCHANGED slot
    BY <1>5, <2>1 DEF Reply, InsertRow
  <2>3. /\ jobs[j].status = "awaiting_input" /\ jobs'[j].status = "queued"
        /\ jobCommands'[j] # <<>>
        /\ jobCommands'[j][Len(jobCommands'[j])].interrupt = i
        /\ \A q \in Jobs : q # j => Unasked(q)
    BY <1>1, <2>2, Replied
  <2>4. PICK m \in Messages : m = ResumeKey(j, i)
    BY MessagesAskForJobs DEF PendingInterrupts
  <2>5. /\ outbox[m].status = "absent" /\ outbox'[m].status = "pending"
        /\ UNCHANGED deliveries
    BY <1>1, <2>2, <2>4, InsertedRow
  <2>6. Request(j)' = m
    BY <2>3, <2>4 DEF Request, ResumeKey
  <2>7. deliveries \in [Messages -> Nat]
    BY <1>1, BoxInvTypes
  <2>8. RequestIsServed(j)'
    BY <1>1, <2>2, <2>3, <2>5, <2>6, <2>7, ServedAnew
  <2> QED
    BY <1>3, <2>3, <2>8
<1>6. \A q \in Jobs : RequestIsServed(q)'
  BY <1>1, <1>3, <1>4, <1>5, QuietSteps
<1> QED
  BY <1>2, <1>6 DEF ServesRequests, SystemInv

-----------------------------------------------------------------------------
(* Theorems                                                                *)

\* Outbox, queue and slots agree, whatever is lost, delayed or delivered twice.
LEMMA DeliveryInvariant == SystemSpec => [](TypeOK /\ DeliveryInv)
<1>1. SystemInit => TypeOK /\ DeliveryInv
  BY SystemStarts, InitTypeOK DEF SystemInit, SystemInv
<1>2. TypeOK /\ DeliveryInv /\ [SystemNext]_systemVars => (TypeOK /\ DeliveryInv)'
  <2>1. TypeOK /\ DeliveryInv /\ [SystemNext]_systemVars => TypeOK'
    BY SystemStepsTheStore, TypeStep DEF DeliveryInv
  <2>2. TypeOK /\ DeliveryInv /\ [SystemNext]_systemVars => DeliveryInv'
    BY DeliveryStep DEF ServesRequests
  <2> QED
    BY <2>1, <2>2
<1> QED
  BY <1>1, <1>2, PTL DEF SystemSpec

\* The write path, with its outbox, its queue, its workers and all their faults, changes
\* the job store only by the store's own transactions (runner.ts calls nothing but
\* claimJob, heartbeatClaim, completeClaim, pauseClaim and terminateClaim): every theorem
\* about JobStore holds of it.
THEOREM SystemImplementsStore == SystemSpec => Spec
<1>1. SystemInit => Init
  BY DEF SystemInit
<1>2. TypeOK /\ DeliveryInv /\ [SystemNext]_systemVars => [Next]_vars
  BY SystemStepsTheStore DEF DeliveryInv
<1> QED
  BY <1>1, <1>2, DeliveryInvariant, PTL DEF SystemSpec, Spec

\* The invariant of the write path: what the store, the outbox, the queue and the slots
\* know of a delivery fits together, and every open job has its newest request served.
THEOREM SystemInvariant == SystemSpec => [](StoreInv /\ SystemInv)
<1>1. RecordsAgree => OneOpenQuestion
  BY DEF RecordsAgree
<1>2. SystemSpec => []StoreInv
  <2>1. TypeOK /\ OneOwner /\ OneOpenQuestion => StoreInv
    BY DEF StoreInv
  <2> QED
    BY <1>1, <2>1, SystemImplementsStore, TypeCorrect, OneOwnerHolds, RecordsAgreeHolds, PTL
<1>3. SystemInit => SystemInv
  BY SystemStarts
<1>4. StoreInv /\ SystemInv /\ [SystemNext]_systemVars => SystemInv'
  BY RequestsStayServed
<1> QED
  BY <1>2, <1>3, <1>4, PTL DEF SystemSpec

\* SystemIsConsistent: store, outbox, queue and slots are well typed together, two slots
\* never act for the same run, and a slot without the lease has a run that is closed.
THEOREM SystemIsConsistentHolds == SystemSpec => []SystemIsConsistent
<1>1. StoreInv /\ SystemInv => SystemIsConsistent
  <2> SUFFICES ASSUME StoreInv, SystemInv PROVE SystemIsConsistent
    OBVIOUS
  <2>1. TypeOK /\ OneOwner /\ BoxProofs!OutboxInv /\ MessagesAreCounted /\ SlotsAreKnown
    BY DEF StoreInv, SystemInv, DeliveryInv
  <2>2. Box!TypeOK
    BY <2>1
    DEF BoxProofs!OutboxInv, BoxProofs!TypeOK, BoxProofs!OutboxRow, BoxProofs!Call,
        BoxProofs!RowStatus, BoxProofs!NoLock, Box!TypeOK, Box!OutboxRow, Box!RowStatus,
        Box!Call, Box!NoLock
  <2>3. SystemTypeOK
    BY <2>1, <2>2 DEF SystemTypeOK, MessagesAreCounted, SlotsAreKnown
  <2>4. ASSUME NEW w \in Slots, slot[w].pc # "idle"
        PROVE  OwnsRow(slot[w].job, slot[w].run) \/ ~ActiveRun(slot[w].job, slot[w].run)
    BY <2>1, <2>4, WorkingSlot DEF OneOwner, ActiveRun
  <2>5. RunsAreExclusive
    BY <2>1, <2>4 DEF RunsAreExclusive, SlotsAreKnown
  <2> QED
    BY <2>3, <2>5 DEF SystemIsConsistent
<1> QED
  BY <1>1, SystemInvariant, PTL

\* UnfinishedJobHasDelivery: whatever the interleaving of claims, replies, crashes,
\* stalls and retries, an open job has an outbox row or a queue message left, or one that
\* was given up; no race between claimJob, getJob and the acknowledgement loses it.
THEOREM UnfinishedJobHasDeliveryHolds == SystemSpec => []UnfinishedJobHasDelivery
<1>1. StoreInv /\ SystemInv => UnfinishedJobHasDelivery
  <2> SUFFICES ASSUME StoreInv, SystemInv, NEW j \in Jobs, Open(j)
               PROVE  \E m \in Messages :
                         /\ m.job = j
                         /\ \/ outbox[m].status \in {"pending", "publishing", "failed"}
                            \/ message[m].state \in {"waiting", "active", "delayed"}
                            \/ message[m].gaveUp
    BY DEF UnfinishedJobHasDelivery, Open
  <2>1. PICK m \in Messages : m = Request(j) /\ m.job = j
    BY RequestIsMessage DEF StoreInv
  <2>2. OnItsWay(m) /\ outbox[m].status # "absent" /\ BoxProofs!OutboxInv
    BY <2>1 DEF SystemInv, DeliveryInv, RequestIsServed, Open
  <2>3. outbox[m].status \in {"pending", "publishing", "published", "failed"}
    BY <2>2, BoxInvTypes DEF Box!OutboxRow, Box!RowStatus
  <2>4. outbox[m].status = "published" => deliveries[m] > 0
    BY <2>2 DEF BoxProofs!OutboxInv, BoxProofs!DeliveriesAreReal,
                BoxProofs!PublishedWasDelivered
  <2> QED
    BY <2>1, <2>2, <2>3, <2>4 DEF OnItsWay, InQueue
<1> QED
  BY <1>1, SystemInvariant, PTL
=============================================================================
