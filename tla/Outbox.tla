------------------------------- MODULE Outbox -------------------------------
(***************************************************************************)
(* The transactional outbox: OutboxRepository (packages/db) and the        *)
(* dispatcher loop of the worker process (apps/worker), which hands each   *)
(* row of outbox_events to the BullMQ queue under a stable queue job id.   *)
(*                                                                         *)
(* claimBatch gives every claimed row a random lock token and adds one to  *)
(* its attempts.  The two change together and attempts never goes back, so *)
(* the token of a claim is represented by the attempts it left in the row. *)
(*                                                                         *)
(* `faults' counts what the environment did wrong so far: errors of Redis  *)
(* or PostgreSQL, crashes, and dispatchers slower than the lock timeout.   *)
(***************************************************************************)
EXTENDS Naturals, FiniteSets

CONSTANTS
    Events,         \* identities of outbox rows
    Dispatchers,    \* worker processes running a dispatch loop
    BatchSize,      \* options.batchSize
    MaxAttempts,    \* options.maxAttempts
    MaxFaults       \* bound: faults of the environment

ASSUME OutboxAssumption ==
    /\ BatchSize \in Nat \ {0} /\ MaxAttempts \in Nat \ {0} /\ MaxFaults \in Nat

VARIABLES
    outbox,     \* the rows of outbox_events
    held,       \* held[d]: rows whose dispatch() call is in flight in d
    busy,       \* busy[d]: dispatchBatch of d has not returned
    queue,      \* ids BullMQ remembers (waiting, active or retained records)
    deliveries, \* messages BullMQ created for each id
    faults

outboxVars == <<outbox, held, busy, queue, deliveries, faults>>

NoLock == 0

RowStatus == {"absent", "pending", "publishing", "published", "failed"}

\* due: available_at has passed; stale: locked_at is older than the timeout.
OutboxRow == [status : RowStatus, attempts : Nat, lock : Nat,
              due : BOOLEAN, stale : BOOLEAN]

\* A dispatch() call: about to enqueue, accepted by the queue, or in its catch.
Call == [event : Events, lock : Nat, pc : {"enqueue", "mark", "release"}]

AbsentRow == [status |-> "absent", attempts |-> 0, lock |-> NoLock,
              due |-> FALSE, stale |-> FALSE]

Init ==
    /\ outbox = [e \in Events |-> AbsentRow]
    /\ held = [d \in Dispatchers |-> {}]
    /\ busy = [d \in Dispatchers |-> FALSE]
    /\ queue = {}
    /\ deliveries = [e \in Events |-> 0]
    /\ faults = 0

\* A business transaction inserts the row with its own facts.
Insert(e) ==
    /\ outbox[e].status = "absent"
    /\ outbox' = [outbox EXCEPT ![e] = [AbsentRow EXCEPT !.status = "pending", !.due = TRUE]]
    /\ UNCHANGED <<held, busy, queue, deliveries, faults>>

-----------------------------------------------------------------------------
(* The dispatcher                                                          *)

\* Mutant: a row whose dispatcher died is not claimed again.
PendingRows == {e \in Events : outbox[e].status = "pending" /\ outbox[e].due}

Candidates ==
    {e \in Events : \/ outbox[e].status = "pending" /\ outbox[e].due
                    \/ outbox[e].status = "publishing" /\ outbox[e].stale}

\* Mutant: every claim gets the same token.
FixedLock(e) == 1
NewLock(e) == outbox[e].attempts + 1

\* claimBatch: FOR UPDATE SKIP LOCKED hands a row to one dispatcher only.
ClaimBatch(d) ==
    /\ ~busy[d]
    /\ \E batch \in SUBSET Candidates :
          /\ batch # {}
          /\ \/ Cardinality(batch) = BatchSize
             \/ batch = Candidates /\ Cardinality(batch) < BatchSize
          /\ outbox' = [e \in Events |->
                IF e \in batch
                THEN [outbox[e] EXCEPT !.status = "publishing", !.attempts = @ + 1,
                                       !.lock = NewLock(e), !.stale = FALSE]
                ELSE outbox[e]]
          /\ held' = [held EXCEPT ![d] = @ \cup
                {[event |-> e, lock |-> NewLock(e), pc |-> "enqueue"] : e \in batch}]
    /\ busy' = [busy EXCEPT ![d] = TRUE]
    /\ UNCHANGED <<queue, deliveries, faults>>

\* queue.add under a stable id: a remembered id creates no second message.
QueueAdd(e) ==
    /\ queue' = queue \cup {e}
    /\ deliveries' = [deliveries EXCEPT ![e] = IF e \in queue THEN @ ELSE @ + 1]

Advance(d, call, pc) ==
    held' = [held EXCEPT ![d] = (@ \ {call}) \cup {[call EXCEPT !.pc = pc]}]

\* dispatch() returns; the batch returns with its last call.
Return(d, call) ==
    /\ held' = [held EXCEPT ![d] = @ \ {call}]
    /\ busy' = [busy EXCEPT ![d] = @ /\ held[d] # {call}]

Fault == faults < MaxFaults /\ faults' = faults + 1

Enqueue(d, call) ==
    /\ call.pc = "enqueue"
    /\ QueueAdd(call.event)
    /\ Advance(d, call, "mark")
    /\ UNCHANGED <<outbox, busy, faults>>

\* Mutant: the error is logged and the row marked.
AfterErrorMark == "mark"
AfterError == "release"

\* enqueue throws, whether or not Redis had accepted the message.
EnqueueThrows(d, call) ==
    /\ call.pc = "enqueue"
    /\ Fault
    /\ QueueAdd(call.event) \/ UNCHANGED <<queue, deliveries>>
    /\ Advance(d, call, AfterError)
    /\ UNCHANGED <<outbox, busy>>

\* Mutant: the token is not compared.
OwnsAny(call) == outbox[call.event].status = "publishing"

\* WHERE status = 'publishing' AND lock_token = token
Owns(call) ==
    outbox[call.event].status = "publishing" /\ outbox[call.event].lock = call.lock

\* Mutant: the lock fields are left in the row.
UnlockedAsIs(row, status) == [row EXCEPT !.status = status, !.stale = FALSE]
Unlocked(row, status) == [row EXCEPT !.status = status, !.lock = NoLock, !.stale = FALSE]

\* markPublished; without the lock it answers lease_lost and changes nothing.
MarkPublished(d, call) ==
    /\ call.pc = "mark"
    /\ outbox' = IF Owns(call)
                 THEN [outbox EXCEPT ![call.event] = Unlocked(@, "published")]
                 ELSE outbox
    /\ Return(d, call)
    /\ UNCHANGED <<queue, deliveries, faults>>

\* markPublished throws after the queue accepted: the call goes to its catch.
MarkThrows(d, call) ==
    /\ call.pc = "mark"
    /\ Fault
    /\ Advance(d, call, "release")
    /\ UNCHANGED <<outbox, busy, queue, deliveries>>

Spent(call) == call.lock >= MaxAttempts

\* releaseFailure: retry later, or give up when the attempts are spent.
ReleaseFailure(d, call) ==
    /\ call.pc = "release"
    /\ outbox' = IF Owns(call)
                 THEN [outbox EXCEPT ![call.event] =
                         [Unlocked(@, IF Spent(call) THEN "failed" ELSE "pending")
                             EXCEPT !.due = FALSE]]
                 ELSE outbox
    /\ Return(d, call)
    /\ UNCHANGED <<queue, deliveries, faults>>

\* releaseFailure throws: Promise.all rejects and the loop goes on, while the
\* batch's other calls are still in flight.
ReleaseThrows(d, call) ==
    /\ call.pc = "release"
    /\ Fault
    /\ held' = [held EXCEPT ![d] = @ \ {call}]
    /\ busy' = [busy EXCEPT ![d] = FALSE]
    /\ UNCHANGED <<outbox, queue, deliveries>>

\* The process dies with its calls; a new one takes its place.
Crash(d) ==
    /\ held[d] # {}
    /\ Fault
    /\ held' = [held EXCEPT ![d] = {}]
    /\ busy' = [busy EXCEPT ![d] = FALSE]
    /\ UNCHANGED <<outbox, queue, deliveries>>

-----------------------------------------------------------------------------
(* Clock and queue retention                                               *)

BecomesDue(e) ==
    /\ outbox[e].status = "pending" /\ ~outbox[e].due
    /\ outbox' = [outbox EXCEPT ![e].due = TRUE]
    /\ UNCHANGED <<held, busy, queue, deliveries, faults>>

InFlight(e) == \E d \in Dispatchers : \E call \in held[d] : call.event = e /\ Owns(call)

\* The lock of a crashed dispatcher times out; that of a live one does so only
\* when the dispatcher is slower than lockTimeoutMs.
LockTimesOut(e) ==
    /\ outbox[e].status = "publishing" /\ ~outbox[e].stale
    /\ IF InFlight(e) THEN Fault ELSE UNCHANGED faults
    /\ outbox' = [outbox EXCEPT ![e].stale = TRUE]
    /\ UNCHANGED <<held, busy, queue, deliveries>>

\* removeOnComplete / removeOnFail: BullMQ forgets a processed id.
QueueForgets(e) ==
    /\ e \in queue
    /\ queue' = queue \ {e}
    /\ UNCHANGED <<outbox, held, busy, deliveries, faults>>

Dispatch(d) ==
    \/ ClaimBatch(d)
    \/ \E call \in held[d] :
          Enqueue(d, call) \/ MarkPublished(d, call) \/ ReleaseFailure(d, call)

Misfortune(d) ==
    \/ Crash(d)
    \/ \E call \in held[d] :
          EnqueueThrows(d, call) \/ MarkThrows(d, call) \/ ReleaseThrows(d, call)

Next ==
    \/ \E e \in Events : Insert(e) \/ BecomesDue(e) \/ LockTimesOut(e) \/ QueueForgets(e)
    \/ \E d \in Dispatchers : Dispatch(d) \/ Misfortune(d)

Spec == Init /\ [][Next]_outboxVars

\* The loop of every live worker process polls again and again, a call in
\* flight returns, and the clock reaches every retry and every lock timeout.
Fairness ==
    /\ \A d \in Dispatchers : WF_outboxVars(Dispatch(d))
    /\ \A e \in Events : WF_outboxVars(BecomesDue(e))
    /\ \A e \in Events : WF_outboxVars(LockTimesOut(e) /\ ~InFlight(e))

FairSpec == Spec /\ Fairness

-----------------------------------------------------------------------------
(* Properties                                                              *)

\* With outbox_events_lock_shape_check of the schema.
TypeOK ==
    /\ outbox \in [Events -> OutboxRow]
    /\ \A e \in Events : outbox[e].status = "publishing" <=> outbox[e].lock # NoLock
    /\ held \in [Dispatchers -> SUBSET Call]
    /\ busy \in [Dispatchers -> BOOLEAN]
    /\ queue \subseteq Events
    /\ deliveries \in [Events -> Nat]
    /\ faults \in 0 .. MaxFaults

\* `published' is never a guess: whatever was lost, slow or retried, a row marked
\* published has produced at least one queue message.
PublishedWasDelivered ==
    \A e \in Events : outbox[e].status = "published" => deliveries[e] > 0

\* SKIP LOCKED and the lock token make one dispatch call the owner of a row: no
\* two calls in flight, in one process or in two, own the same row.
OneOwner ==
    \A d1, d2 \in Dispatchers : \A c1 \in held[d1], c2 \in held[d2] :
        c1.event = c2.event /\ Owns(c1) /\ Owns(c2) => d1 = d2 /\ c1 = c2

\* The rows are sound whoever claims, delivers, marks or crashes: well typed, with one
\* owner each, and marked as published only when the queue has got the message.
RowsAreSound == TypeOK /\ OneOwner /\ PublishedWasDelivered

\* A late dispatcher is harmless: a row that was claimed again is not released,
\* failed or marked by the call that lost it, and a settled row stays settled.
LateCallsAreHarmless ==
    [][\A e \in Events :
          /\ outbox[e].status \in {"published", "failed"} => outbox'[e] = outbox[e]
          /\ outbox[e].status = "publishing" /\ outbox'[e].status # "publishing" =>
                \E d \in Dispatchers : \E call \in held[d] \ held'[d] :
                    call.event = e /\ call.lock = outbox[e].lock]_outboxVars

\* At least once: every inserted row is published in the end, whichever process
\* crashed, failed or lagged behind, unless that happened as often as a row may be
\* attempted; then it is given up, and never left pending or publishing.
EventuallyPublished ==
    \A e \in Events :
        outbox[e].status = "pending" ~>
            \/ outbox[e].status = "published"
            \/ outbox[e].status = "failed" /\ faults >= MaxAttempts
=============================================================================
