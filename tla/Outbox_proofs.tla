--------------------------- MODULE Outbox_proofs ----------------------------
(***************************************************************************)
(* Theorems about the outbox, for any number of rows, dispatchers, retries *)
(* and faults: a row has one owner, `published' is never a guess, and a    *)
(* call that lost its row leaves it alone.                                 *)
(*                                                                         *)
(* The invariants are not inductive as they stand.  What makes them so is  *)
(* that a lock token identifies its claim: tokens only grow, and no two    *)
(* calls in flight for a row hold the same one.                            *)
(***************************************************************************)
EXTENDS Outbox, TLAPS

\* The token in a row is the one of its latest claim.
RowsCountClaims ==
    \A e \in Events :
        /\ outbox[e].status = "publishing" => outbox[e].lock = outbox[e].attempts
        /\ outbox[e].status = "absent" => outbox[e].attempts = 0

\* A call in flight holds the token of a claim that was really made.
CallsWereClaimed ==
    \A d \in Dispatchers : \A call \in held[d] :
        call.lock \in 1 .. outbox[call.event].attempts

\* A claim has one call, in one process.
TokensAreUnique ==
    \A d1, d2 \in Dispatchers : \A c1 \in held[d1], c2 \in held[d2] :
        c1.event = c2.event /\ c1.lock = c2.lock => d1 = d2 /\ c1 = c2

\* What the queue remembers, and what a call is about to mark, was delivered.
DeliveriesAreReal ==
    /\ \A e \in queue : deliveries[e] > 0
    /\ \A d \in Dispatchers : \A call \in held[d] :
          call.pc = "mark" => deliveries[call.event] > 0
    /\ PublishedWasDelivered

OutboxInv ==
    TypeOK /\ RowsCountClaims /\ CallsWereClaimed /\ TokensAreUnique /\ DeliveriesAreReal

-----------------------------------------------------------------------------
(* One call in flight                                                      *)

MovedTo(call, pc) == [call EXCEPT !.pc = pc]

\* A call that moves on keeps its row and its token, and no other call changes.
LEMMA AdvanceKeeps ==
  ASSUME TypeOK, NEW d \in Dispatchers, NEW call \in held[d],
         NEW pc \in {"enqueue", "mark", "release"}, Advance(d, call, pc)
  PROVE  /\ held' \in [Dispatchers -> SUBSET Call]
         /\ \A q \in Dispatchers : \A c \in held'[q] :
               \/ c \in held[q] /\ (q = d => c # call)
               \/ q = d /\ c = MovedTo(call, pc)
         /\ MovedTo(call, pc).event = call.event
         /\ MovedTo(call, pc).lock = call.lock
         /\ MovedTo(call, pc).pc = pc
<1> DEFINE new == MovedTo(call, pc)
<1>3. new \in Call /\ new.event = call.event /\ new.lock = call.lock /\ new.pc = pc
  <2>1. call \in Call
    BY DEF TypeOK
  <2> QED
    BY <2>1 DEF Call, MovedTo
<1>4. held' = [held EXCEPT ![d] = (held[d] \ {call}) \cup {new}]
  BY DEF Advance, MovedTo
<1>5. held \in [Dispatchers -> SUBSET Call]
  BY DEF TypeOK
<1> HIDE DEF new
<1>6. held' \in [Dispatchers -> SUBSET Call]
  BY <1>3, <1>4, <1>5
<1>7. ASSUME NEW q \in Dispatchers, NEW c \in held'[q]
      PROVE  (c \in held[q] /\ (q = d => c # call)) \/ (q = d /\ c = new)
  BY <1>4, <1>5, <1>7
<1> QED
  BY <1>3, <1>6, <1>7 DEF new

\* Calls that return, or die with their process, leave only calls that were there.
LEMMA FewerCalls ==
  ASSUME TypeOK, NEW d \in Dispatchers, NEW S, held' = [held EXCEPT ![d] = @ \ S]
  PROVE  /\ held' \in [Dispatchers -> SUBSET Call]
         /\ \A q \in Dispatchers : held'[q] \subseteq held[q]
  BY DEF TypeOK

-----------------------------------------------------------------------------
(* What a step leaves of the invariant                                     *)

\* The claims and the deliveries a step must not take back.
NothingIsTakenBack ==
    /\ outbox' \in [Events -> OutboxRow]
    /\ deliveries' \in [Events -> Nat]
    /\ \A e \in Events : /\ outbox'[e].attempts = outbox[e].attempts
                         /\ deliveries'[e] >= deliveries[e]

MarkedWasDelivered ==
    \A d \in Dispatchers : \A call \in held[d] :
        call.pc = "mark" => deliveries[call.event] > 0

\* A call that moves on keeps its claim, and marks only what was delivered.
LEMMA AdvanceSafe ==
  ASSUME OutboxInv, NothingIsTakenBack, NEW d \in Dispatchers, NEW call \in held[d],
         NEW pc \in {"enqueue", "mark", "release"}, Advance(d, call, pc),
         pc = "mark" => deliveries'[call.event] > 0
  PROVE  CallsWereClaimed' /\ TokensAreUnique' /\ MarkedWasDelivered'
<1>1. /\ held' \in [Dispatchers -> SUBSET Call]
      /\ \A q \in Dispatchers : \A c \in held'[q] :
            \/ c \in held[q] /\ (q = d => c # call)
            \/ q = d /\ c = MovedTo(call, pc)
      /\ MovedTo(call, pc).event = call.event
      /\ MovedTo(call, pc).lock = call.lock
      /\ MovedTo(call, pc).pc = pc
  BY AdvanceKeeps DEF OutboxInv
<1>2. \A q \in Dispatchers : \A c \in held[q] :
          c.event \in Events /\ c.lock \in 1 .. outbox[c.event].attempts
  BY DEF OutboxInv, TypeOK, CallsWereClaimed, Call
<1>3. CallsWereClaimed'
  <2> SUFFICES ASSUME NEW q \in Dispatchers, NEW c \in held'[q]
               PROVE  c.lock \in 1 .. outbox'[c.event].attempts
    BY DEF CallsWereClaimed
  <2>1. PICK o \in held[q] : o.event = c.event /\ o.lock = c.lock
    BY <1>1
  <2> QED
    BY <1>2, <2>1 DEF NothingIsTakenBack
<1>4. TokensAreUnique'
  <2> SUFFICES ASSUME NEW q1 \in Dispatchers, NEW q2 \in Dispatchers,
                      NEW c1 \in held'[q1], NEW c2 \in held'[q2],
                      c1.event = c2.event, c1.lock = c2.lock
               PROVE  q1 = q2 /\ c1 = c2
    BY DEF TokensAreUnique
  <2>1. \A p1, p2 \in Dispatchers : \A o1 \in held[p1], o2 \in held[p2] :
            o1.event = o2.event /\ o1.lock = o2.lock => p1 = p2 /\ o1 = o2
    BY DEF OutboxInv, TokensAreUnique
  <2>2. \/ c1 \in held[q1] /\ (q1 = d => c1 # call)
        \/ q1 = d /\ c1 = MovedTo(call, pc)
    BY <1>1
  <2>3. \/ c2 \in held[q2] /\ (q2 = d => c2 # call)
        \/ q2 = d /\ c2 = MovedTo(call, pc)
    BY <1>1
  <2> QED
    BY <1>1, <2>1, <2>2, <2>3
<1>5. MarkedWasDelivered'
  <2> SUFFICES ASSUME NEW q \in Dispatchers, NEW c \in held'[q], c.pc = "mark"
               PROVE  deliveries'[c.event] > 0
    BY DEF MarkedWasDelivered
  <2>1. CASE c \in held[q]
    <3>1. c.event \in Events /\ deliveries[c.event] > 0
      BY <1>2, <2>1 DEF OutboxInv, DeliveriesAreReal
    <3>2. deliveries[c.event] \in Nat /\ deliveries'[c.event] \in Nat
          /\ deliveries'[c.event] >= deliveries[c.event]
      BY <3>1 DEF NothingIsTakenBack, OutboxInv, TypeOK
    <3> QED
      BY <3>1, <3>2
  <2>2. CASE c = MovedTo(call, pc)
    BY <1>1, <2>2
  <2> QED
    BY <1>1, <2>1, <2>2
<1> QED
  BY <1>3, <1>4, <1>5

\* Calls that return or die leave the claims of the others as they are.
LEMMA FewerSafe ==
  ASSUME OutboxInv, NothingIsTakenBack,
         \A q \in Dispatchers : held'[q] \subseteq held[q]
  PROVE  CallsWereClaimed' /\ TokensAreUnique' /\ MarkedWasDelivered'
<1>1. \A q \in Dispatchers : \A c \in held[q] :
          /\ c.event \in Events /\ c.lock \in 1 .. outbox[c.event].attempts
          /\ c.pc = "mark" => deliveries[c.event] > 0
  BY DEF OutboxInv, TypeOK, CallsWereClaimed, Call, DeliveriesAreReal
<1>2. \A e \in Events :
          /\ deliveries[e] \in Nat /\ deliveries'[e] \in Nat /\ deliveries'[e] >= deliveries[e]
          /\ outbox'[e].attempts = outbox[e].attempts
  BY DEF NothingIsTakenBack, OutboxInv, TypeOK
<1>3. CallsWereClaimed'
  BY <1>1, <1>2 DEF CallsWereClaimed
<1>4. TokensAreUnique'
  BY DEF OutboxInv, TokensAreUnique
<1>5. MarkedWasDelivered'
  <2> SUFFICES ASSUME NEW q \in Dispatchers, NEW c \in held'[q], c.pc = "mark"
               PROVE  deliveries'[c.event] > 0
    BY DEF MarkedWasDelivered
  <2>1. c.event \in Events /\ deliveries[c.event] > 0
    BY <1>1
  <2> QED
    BY <1>2, <2>1
<1> QED
  BY <1>3, <1>4, <1>5

\* A claim takes a token nobody holds: the next one of its row.
LEMMA ClaimSafe ==
  ASSUME OutboxInv, NEW d \in Dispatchers, ClaimBatch(d)
  PROVE  OutboxInv'
<1>1. PICK batch \in SUBSET Candidates :
        /\ outbox' = [e \in Events |->
              IF e \in batch
              THEN [outbox[e] EXCEPT !.status = "publishing", !.attempts = @ + 1,
                                     !.lock = NewLock(e), !.stale = FALSE]
              ELSE outbox[e]]
        /\ held' = [held EXCEPT ![d] = held[d] \cup
              {[event |-> e, lock |-> NewLock(e), pc |-> "enqueue"] : e \in batch}]
  BY DEF ClaimBatch
<1>2. batch \subseteq Events /\ \A e \in batch : outbox[e].status \in {"pending", "publishing"}
  BY DEF Candidates
<1>3. busy' = [busy EXCEPT ![d] = TRUE] /\ UNCHANGED <<queue, deliveries, faults>>
  BY DEF ClaimBatch
<1>4. \A e \in Events : outbox[e] \in OutboxRow /\ outbox[e].attempts \in Nat
  BY DEF OutboxInv, TypeOK, OutboxRow
<1>5. \A e \in Events \ batch : outbox'[e] = outbox[e]
  BY <1>1
<1>6. \A e \in batch : /\ outbox'[e] \in OutboxRow
                       /\ outbox'[e].status = "publishing"
                       /\ outbox'[e].attempts = outbox[e].attempts + 1
                       /\ outbox'[e].lock = outbox[e].attempts + 1
  <2> TAKE e \in batch
  <2> DEFINE row == outbox[e]
             count == row.attempts + 1
  <2>1. e \in Events /\ row \in OutboxRow /\ count \in Nat
    BY <1>2, <1>4
  <2>2. outbox'[e] = [row EXCEPT !.status = "publishing", !.attempts = count,
                                 !.lock = count, !.stale = FALSE]
    BY <1>1, <2>1 DEF NewLock
  <2> HIDE DEF count
  <2> QED
    BY <2>1, <2>2 DEF OutboxRow, RowStatus, count
<1>7. outbox' \in [Events -> OutboxRow]
  <2>1. outbox' = [e \in Events |-> outbox'[e]]
    BY <1>1
  <2> QED
    BY <1>4, <1>5, <1>6, <2>1
<1> DEFINE new(e) == [event |-> e, lock |-> NewLock(e), pc |-> "enqueue"]
<1>8. \A e \in batch : /\ new(e) \in Call /\ new(e).event = e
                       /\ new(e).lock = outbox[e].attempts + 1 /\ new(e).pc = "enqueue"
  BY <1>2, <1>4 DEF Call, NewLock
<1>9. held' = [held EXCEPT ![d] = held[d] \cup {new(e) : e \in batch}]
  BY <1>1
<1> HIDE DEF new
<1>10. held \in [Dispatchers -> SUBSET Call]
  BY DEF OutboxInv, TypeOK
<1>11. held' \in [Dispatchers -> SUBSET Call]
  <2>1. {new(e) : e \in batch} \subseteq Call
    BY <1>8
  <2> DEFINE added == {new(e) : e \in batch}
  <2>2. added \in SUBSET Call /\ held' = [held EXCEPT ![d] = held[d] \cup added]
    BY <1>9, <2>1
  <2> HIDE DEF added
  <2> QED
    BY <1>10, <2>2
<1>12. \A q \in Dispatchers : \A c \in held'[q] :
          c \in held[q] \/ (q = d /\ \E e \in batch : c = new(e))
  BY <1>9, <1>10
<1>13. \A q \in Dispatchers : \A c \in held[q] :
          /\ c.event \in Events /\ c.lock \in 1 .. outbox[c.event].attempts
          /\ c.pc = "mark" => deliveries[c.event] > 0
  BY DEF OutboxInv, TypeOK, CallsWereClaimed, Call, DeliveriesAreReal
<1>14. TypeOK'
  <2>1. \A e \in Events : outbox'[e].status = "publishing" <=> outbox'[e].lock # NoLock
    BY <1>4, <1>5, <1>6 DEF OutboxInv, TypeOK, NoLock
  <2> QED
    BY <1>3, <1>7, <1>11, <2>1 DEF OutboxInv, TypeOK
<1>15. RowsCountClaims'
  BY <1>5, <1>6 DEF OutboxInv, RowsCountClaims
<1>16. CallsWereClaimed'
  <2> SUFFICES ASSUME NEW q \in Dispatchers, NEW c \in held'[q]
               PROVE  c.lock \in 1 .. outbox'[c.event].attempts
    BY DEF CallsWereClaimed
  <2>1. CASE c \in held[q]
    <3>1. c.event \in Events /\ c.lock \in 1 .. outbox[c.event].attempts
      BY <1>13, <2>1
    <3> QED
      BY <1>4, <1>5, <1>6, <3>1
  <2>2. CASE \E e \in batch : c = new(e)
    BY <1>2, <1>4, <1>6, <1>8, <2>2
  <2> QED
    BY <1>12, <2>1, <2>2
<1>17. TokensAreUnique'
  <2> SUFFICES ASSUME NEW q1 \in Dispatchers, NEW q2 \in Dispatchers,
                      NEW c1 \in held'[q1], NEW c2 \in held'[q2],
                      c1.event = c2.event, c1.lock = c2.lock
               PROVE  q1 = q2 /\ c1 = c2
    BY DEF TokensAreUnique
  <2>1. \A q \in Dispatchers : \A c \in held[q] : \A e \in batch :
            c.event = e => c.lock # outbox[e].attempts + 1
    BY <1>2, <1>4, <1>13
  <2>2. CASE c1 \in held[q1] /\ c2 \in held[q2]
    BY <2>2 DEF OutboxInv, TokensAreUnique
  <2>3. CASE c1 \in held[q1] /\ \E e \in batch : c2 = new(e)
    BY <1>8, <2>1, <2>3
  <2>4. CASE c2 \in held[q2] /\ \E e \in batch : c1 = new(e)
    BY <1>8, <2>1, <2>4
  <2>5. CASE q1 = d /\ q2 = d /\ (\E e \in batch : c1 = new(e)) /\ (\E e \in batch : c2 = new(e))
    BY <1>8, <2>5
  <2> QED
    BY <1>12, <2>2, <2>3, <2>4, <2>5
<1>18. DeliveriesAreReal'
  <2>1. \A e \in queue' : deliveries'[e] > 0
    BY <1>3 DEF OutboxInv, DeliveriesAreReal
  <2>2. \A q \in Dispatchers : \A c \in held'[q] : c.pc = "mark" => deliveries'[c.event] > 0
    BY <1>3, <1>8, <1>12, <1>13
  <2>3. PublishedWasDelivered'
    BY <1>3, <1>5, <1>6 DEF OutboxInv, DeliveriesAreReal, PublishedWasDelivered
  <2> QED
    BY <2>1, <2>2, <2>3 DEF DeliveriesAreReal
<1> QED
  BY <1>14, <1>15, <1>16, <1>17, <1>18 DEF OutboxInv

\* A remembered id is not delivered again, and deliveries are never taken back.
LEMMA QueueAddSafe ==
  ASSUME OutboxInv, NEW e \in Events, QueueAdd(e)
  PROVE  /\ queue' \subseteq Events /\ deliveries' \in [Events -> Nat]
         /\ \A q \in queue' : deliveries'[q] > 0
         /\ deliveries'[e] > 0
         /\ \A q \in Events : deliveries'[q] >= deliveries[q]
<1>1. queue' = queue \cup {e}
  BY DEF QueueAdd
<1>2. deliveries' = [deliveries EXCEPT ![e] = IF e \in queue THEN deliveries[e]
                                              ELSE deliveries[e] + 1]
  BY DEF QueueAdd
<1>3. deliveries \in [Events -> Nat] /\ queue \subseteq Events /\ \A q \in queue : deliveries[q] > 0
  BY DEF OutboxInv, TypeOK, DeliveriesAreReal
<1> QED
  BY <1>1, <1>2, <1>3

\* The rows a step writes keep the count of their claims.
RowIsSound(e) ==
    /\ outbox'[e].status = "publishing" => outbox'[e].lock = outbox'[e].attempts
    /\ outbox'[e].status = "absent" => outbox'[e].attempts = 0
    /\ outbox'[e].status = "publishing" <=> outbox'[e].lock # NoLock
    /\ outbox'[e].status = "published" => deliveries'[e] > 0

\* Rows that only the clock, a transaction or an owner writes.
LEMMA RowsSafe ==
  ASSUME OutboxInv, NothingIsTakenBack,
         \A e \in Events : outbox'[e] = outbox[e] \/ RowIsSound(e),
         \A e \in queue' : deliveries'[e] > 0
  PROVE  /\ RowsCountClaims'
         /\ \A e \in Events : outbox'[e].status = "publishing" <=> outbox'[e].lock # NoLock
         /\ PublishedWasDelivered'
<1>1. \A e \in Events : /\ deliveries[e] \in Nat /\ deliveries'[e] \in Nat
                        /\ deliveries'[e] >= deliveries[e]
  BY DEF NothingIsTakenBack, OutboxInv, TypeOK
<1>2. \A e \in Events : outbox[e].status = "publishing" <=> outbox[e].lock # NoLock
  BY DEF OutboxInv, TypeOK
<1>3. RowsCountClaims /\ PublishedWasDelivered
  BY DEF OutboxInv, DeliveriesAreReal
<1>4. RowsCountClaims'
  BY <1>3 DEF RowsCountClaims, RowIsSound
<1>5. \A e \in Events : outbox'[e].status = "publishing" <=> outbox'[e].lock # NoLock
  BY <1>2 DEF RowIsSound
<1>6. PublishedWasDelivered'
  BY <1>1, <1>3 DEF PublishedWasDelivered, RowIsSound
<1> QED
  BY <1>4, <1>5, <1>6

\* What the clock or a transaction writes in a row: a new row, a date or a timeout.
LEMMA RowClockRows ==
  ASSUME OutboxInv, NEW e \in Events, Insert(e) \/ BecomesDue(e) \/ LockTimesOut(e)
  PROVE  /\ outbox' \in [Events -> OutboxRow]
         /\ \A f \in Events : outbox'[f].attempts = outbox[f].attempts
         /\ \A f \in Events : outbox'[f] = outbox[f] \/ RowIsSound(f)
<1>1. outbox \in [Events -> OutboxRow] /\ outbox[e] \in OutboxRow
  BY DEF OutboxInv, TypeOK
<1>2. /\ outbox[e].status = "publishing" => outbox[e].lock = outbox[e].attempts
      /\ outbox[e].status = "absent" => outbox[e].attempts = 0
      /\ outbox[e].status = "publishing" <=> outbox[e].lock # NoLock
  BY DEF OutboxInv, TypeOK, RowsCountClaims
<1>3. CASE Insert(e)
  <2>1. outbox' = [outbox EXCEPT ![e] = [AbsentRow EXCEPT !.status = "pending", !.due = TRUE]]
    BY <1>3 DEF Insert
  <2>2. outbox[e].attempts = 0
    BY <1>2, <1>3 DEF Insert
  <2> DEFINE row == [AbsentRow EXCEPT !.status = "pending", !.due = TRUE]
  <2>3. row \in OutboxRow /\ row.status = "pending" /\ row.attempts = 0 /\ row.lock = NoLock
    BY DEF AbsentRow, OutboxRow, RowStatus, NoLock
  <2> HIDE DEF row
  <2>4. outbox'[e] = row /\ \A f \in Events \ {e} : outbox'[f] = outbox[f]
    BY <1>1, <2>1 DEF row
  <2>5. RowIsSound(e)
    BY <2>3, <2>4 DEF RowIsSound
  <2>6. outbox' \in [Events -> OutboxRow]
    BY <1>1, <2>1, <2>3 DEF row
  <2> QED
    BY <2>2, <2>3, <2>4, <2>5, <2>6
<1>4. CASE BecomesDue(e)
  <2>1. outbox' = [outbox EXCEPT ![e] = [outbox[e] EXCEPT !.due = TRUE]] /\ outbox[e].status = "pending"
    BY <1>4 DEF BecomesDue
  <2> QED
    BY <1>1, <1>2, <2>1 DEF OutboxRow, RowStatus, RowIsSound
<1>5. CASE LockTimesOut(e)
  <2>1. outbox' = [outbox EXCEPT ![e] = [outbox[e] EXCEPT !.stale = TRUE]] /\ outbox[e].status = "publishing"
    BY <1>5 DEF LockTimesOut
  <2> QED
    BY <1>1, <1>2, <2>1 DEF OutboxRow, RowStatus, RowIsSound
<1> QED
  BY <1>3, <1>4, <1>5

UnlockedFrom(old, row, status) ==
    /\ row \in OutboxRow /\ row.status = status
    /\ row.attempts = old.attempts /\ row.lock = NoLock

\* The row an answered call leaves: unlocked, with the claims it has counted.
LEMMA UnlockedRow ==
  ASSUME NEW old \in OutboxRow, NEW status \in {"pending", "published", "failed"}
  PROVE  /\ UnlockedFrom(old, Unlocked(old, status), status)
         /\ UnlockedFrom(old, [Unlocked(old, status) EXCEPT !.due = FALSE], status)
<1>1. UnlockedFrom(old, Unlocked(old, status), status)
  BY DEF OutboxRow, RowStatus, NoLock, Unlocked, UnlockedFrom
<1> DEFINE new == Unlocked(old, status)
<1> HIDE DEF new
<1>2. UnlockedFrom(old, [new EXCEPT !.due = FALSE], status)
  BY <1>1 DEF OutboxRow, UnlockedFrom, new
<1> QED
  BY <1>1, <1>2 DEF new

\* The rows after a call has been answered.
LEMMA AnsweredRows ==
  ASSUME OutboxInv, NEW d \in Dispatchers, NEW call \in held[d],
         MarkPublished(d, call) \/ ReleaseFailure(d, call)
  PROVE  /\ outbox' \in [Events -> OutboxRow]
         /\ \A f \in Events : outbox'[f].attempts = outbox[f].attempts
         /\ \A f \in Events : outbox'[f] = outbox[f] \/ RowIsSound(f)
<1> DEFINE e == call.event
<1>1. call \in Call /\ e \in Events /\ outbox \in [Events -> OutboxRow]
      /\ deliveries' = deliveries
  BY DEF OutboxInv, TypeOK, Call, MarkPublished, ReleaseFailure
<1>2. CASE outbox' = outbox
  BY <1>1, <1>2
<1>3. ASSUME MarkPublished(d, call), outbox' # outbox
      PROVE  /\ outbox' = [outbox EXCEPT ![e] = Unlocked(outbox[e], "published")]
             /\ deliveries[e] > 0
  BY <1>3 DEF MarkPublished, OutboxInv, DeliveriesAreReal
<1>4. ASSUME ReleaseFailure(d, call), outbox' # outbox
      PROVE  \E status \in {"pending", "failed"} :
               outbox' = [outbox EXCEPT ![e] = [Unlocked(outbox[e], status) EXCEPT !.due = FALSE]]
  <2>1. outbox' = [outbox EXCEPT ![e] =
                     [Unlocked(outbox[e], IF Spent(call) THEN "failed" ELSE "pending")
                        EXCEPT !.due = FALSE]]
    BY <1>4 DEF ReleaseFailure
  <2> QED
    BY <2>1
<1>5. ASSUME outbox' # outbox
      PROVE  \E status \in {"pending", "published", "failed"} : \E row \in OutboxRow :
               /\ outbox' = [outbox EXCEPT ![e] = row]
               /\ row.status = status /\ row.attempts = outbox[e].attempts /\ row.lock = NoLock
               /\ status = "published" => deliveries[e] > 0
  <2>1. CASE MarkPublished(d, call)
    <3>1. UnlockedFrom(outbox[e], Unlocked(outbox[e], "published"), "published")
      BY <1>1, UnlockedRow
    <3> QED
      BY <1>3, <1>5, <2>1, <3>1 DEF UnlockedFrom
  <2>2. CASE ReleaseFailure(d, call)
    <3>1. PICK status \in {"pending", "failed"} :
               outbox' = [outbox EXCEPT ![e] = [Unlocked(outbox[e], status) EXCEPT !.due = FALSE]]
      BY <1>4, <1>5, <2>2
    <3> DEFINE row == [Unlocked(outbox[e], status) EXCEPT !.due = FALSE]
    <3>2. UnlockedFrom(outbox[e], row, status)
      BY <1>1, UnlockedRow
    <3> HIDE DEF row
    <3>3. outbox' = [outbox EXCEPT ![e] = row]
      BY <3>1 DEF row
    <3> QED
      BY <3>2, <3>3 DEF UnlockedFrom
  <2> QED
    BY <2>1, <2>2
<1>6. CASE outbox' # outbox
  <2>1. PICK status \in {"pending", "published", "failed"}, row \in OutboxRow :
               /\ outbox' = [outbox EXCEPT ![e] = row]
               /\ row.status = status /\ row.attempts = outbox[e].attempts /\ row.lock = NoLock
               /\ status = "published" => deliveries[e] > 0
    BY <1>5, <1>6
  <2> HIDE DEF e
  <2>2. outbox'[e] = row /\ \A f \in Events \ {e} : outbox'[f] = outbox[f]
    BY <1>1, <2>1
  <2>3. RowIsSound(e)
    BY <1>1, <2>1, <2>2 DEF RowIsSound
  <2> QED
    BY <1>1, <2>1, <2>2, <2>3
<1> QED
  BY <1>2, <1>6

-----------------------------------------------------------------------------
(* The invariant is inductive                                              *)

\* The parts of the invariant, put together after a step that claims nothing.
LEMMA InvAfter ==
  ASSUME OutboxInv, NothingIsTakenBack,
         \A e \in Events : outbox'[e] = outbox[e] \/ RowIsSound(e),
         CallsWereClaimed', TokensAreUnique', MarkedWasDelivered',
         held' \in [Dispatchers -> SUBSET Call], busy' \in [Dispatchers -> BOOLEAN],
         queue' \subseteq Events, \A e \in queue' : deliveries'[e] > 0,
         faults' \in 0 .. MaxFaults
  PROVE  OutboxInv'
<1>1. /\ RowsCountClaims' /\ PublishedWasDelivered'
      /\ \A e \in Events : outbox'[e].status = "publishing" <=> outbox'[e].lock # NoLock
  BY RowsSafe
<1>2. TypeOK'
  BY <1>1 DEF TypeOK, NothingIsTakenBack
<1>3. DeliveriesAreReal'
  BY <1>1 DEF DeliveriesAreReal, MarkedWasDelivered
<1> QED
  BY <1>1, <1>2, <1>3 DEF OutboxInv

\* A step has a fault or none.
LEMMA FaultsAreBounded ==
  ASSUME OutboxInv, UNCHANGED faults \/ Fault
  PROVE  faults' \in 0 .. MaxFaults
  BY OutboxAssumption DEF OutboxInv, TypeOK, Fault

\* A step that leaves rows and deliveries alone takes nothing back.
LEMMA NothingTaken ==
  ASSUME OutboxInv, UNCHANGED <<outbox, deliveries>>
  PROVE  NothingIsTakenBack
  BY DEF NothingIsTakenBack, OutboxInv, TypeOK

\* Steps of the clock, of business transactions and of the queue's retention.
LEMMA RowClockSafe ==
  ASSUME OutboxInv, NEW e \in Events,
         Insert(e) \/ BecomesDue(e) \/ LockTimesOut(e) \/ QueueForgets(e)
  PROVE  OutboxInv'
<1>1. UNCHANGED <<held, busy, deliveries>> /\ (UNCHANGED faults \/ Fault)
      /\ queue' \subseteq queue
  BY DEF Insert, BecomesDue, LockTimesOut, QueueForgets
<1>2. /\ outbox' \in [Events -> OutboxRow]
      /\ \A f \in Events : outbox'[f].attempts = outbox[f].attempts
      /\ \A f \in Events : outbox'[f] = outbox[f] \/ RowIsSound(f)
  <2>1. CASE QueueForgets(e)
    BY <2>1 DEF QueueForgets, OutboxInv, TypeOK
  <2>2. CASE Insert(e) \/ BecomesDue(e) \/ LockTimesOut(e)
    BY <2>2, RowClockRows
  <2> QED
    BY <2>1, <2>2
<1>3. NothingIsTakenBack
  BY <1>1, <1>2 DEF NothingIsTakenBack, OutboxInv, TypeOK
<1>4. CallsWereClaimed' /\ TokensAreUnique' /\ MarkedWasDelivered'
  BY <1>1, <1>3, FewerSafe
<1>5. \A f \in queue' : deliveries'[f] > 0
  BY <1>1 DEF OutboxInv, DeliveriesAreReal
<1>6. /\ held' \in [Dispatchers -> SUBSET Call] /\ busy' \in [Dispatchers -> BOOLEAN]
      /\ queue' \subseteq Events
  BY <1>1 DEF OutboxInv, TypeOK
<1> QED
  BY <1>1, <1>2, <1>3, <1>4, <1>5, <1>6, FaultsAreBounded, InvAfter

\* Steps that hand a call to the queue, or to its catch block.
LEMMA CallMovesSafe ==
  ASSUME OutboxInv, NEW d \in Dispatchers, NEW call \in held[d],
         Enqueue(d, call) \/ EnqueueThrows(d, call) \/ MarkThrows(d, call)
  PROVE  OutboxInv'
<1>1. UNCHANGED <<outbox, busy>> /\ (UNCHANGED faults \/ Fault)
  BY DEF Enqueue, EnqueueThrows, MarkThrows
<1>2. call.event \in Events
  BY DEF OutboxInv, TypeOK, Call
<1>3. QueueAdd(call.event) \/ UNCHANGED <<queue, deliveries>>
  BY DEF Enqueue, EnqueueThrows, MarkThrows
<1>4. PICK pc \in {"enqueue", "mark", "release"} :
        /\ Advance(d, call, pc)
        /\ pc = "mark" => QueueAdd(call.event)
  BY DEF Enqueue, EnqueueThrows, MarkThrows, AfterError
<1>5. /\ queue' \subseteq Events /\ deliveries' \in [Events -> Nat]
      /\ \A q \in queue' : deliveries'[q] > 0
      /\ QueueAdd(call.event) => deliveries'[call.event] > 0
      /\ \A q \in Events : deliveries'[q] >= deliveries[q]
  <2>1. CASE QueueAdd(call.event)
    BY <1>2, <2>1, QueueAddSafe
  <2>2. CASE UNCHANGED <<queue, deliveries>> /\ ~QueueAdd(call.event)
    BY <2>2 DEF OutboxInv, TypeOK, DeliveriesAreReal
  <2> QED
    BY <1>3, <2>1, <2>2
<1>6. NothingIsTakenBack
  BY <1>1, <1>5 DEF NothingIsTakenBack, OutboxInv, TypeOK
<1>7. CallsWereClaimed' /\ TokensAreUnique' /\ MarkedWasDelivered'
  BY <1>4, <1>5, <1>6, AdvanceSafe
<1>8. held' \in [Dispatchers -> SUBSET Call]
  BY <1>4, AdvanceKeeps DEF OutboxInv
<1>9. \A e \in Events : outbox'[e] = outbox[e] \/ RowIsSound(e)
  BY <1>1
<1>10. busy' \in [Dispatchers -> BOOLEAN] /\ queue' \subseteq Events
       /\ (\A e \in queue' : deliveries'[e] > 0) /\ faults' \in 0 .. MaxFaults
  BY <1>1, <1>5, FaultsAreBounded DEF OutboxInv, TypeOK
<1> QED
  BY <1>6, <1>7, <1>8, <1>9, <1>10, InvAfter

\* Steps that end a call: with its answer, with an exception or with its process.
LEMMA CallEndsSafe ==
  ASSUME OutboxInv, NEW d \in Dispatchers,
         \/ Crash(d)
         \/ \E call \in held[d] : \/ MarkPublished(d, call) \/ ReleaseFailure(d, call)
                                  \/ ReleaseThrows(d, call)
  PROVE  OutboxInv'
<1>1. UNCHANGED <<queue, deliveries>> /\ (UNCHANGED faults \/ Fault)
  BY DEF Crash, MarkPublished, ReleaseFailure, ReleaseThrows
<1>2. /\ held' \in [Dispatchers -> SUBSET Call]
      /\ \A q \in Dispatchers : held'[q] \subseteq held[q]
  <2>1. \E S \in SUBSET held[d] : held' = [held EXCEPT ![d] = held[d] \ S]
    <3>1. CASE Crash(d)
      <4>1. held' = [held EXCEPT ![d] = held[d] \ held[d]]
        BY <3>1 DEF Crash
      <4> QED
        BY <4>1
    <3>2. ASSUME NEW call \in held[d],
                 MarkPublished(d, call) \/ ReleaseFailure(d, call) \/ ReleaseThrows(d, call)
          PROVE  held' = [held EXCEPT ![d] = held[d] \ {call}]
      BY <3>2 DEF MarkPublished, ReleaseFailure, ReleaseThrows, Return
    <3> QED
      BY <3>1, <3>2
  <2>2. PICK S \in SUBSET held[d] : held' = [held EXCEPT ![d] = held[d] \ S]
    BY <2>1
  <2> QED
    BY <2>2 DEF OutboxInv, TypeOK
<1>3. busy' \in [Dispatchers -> BOOLEAN]
  <2>1. \E b \in BOOLEAN : busy' = [busy EXCEPT ![d] = b]
    BY DEF Crash, MarkPublished, ReleaseFailure, ReleaseThrows, Return, OutboxInv, TypeOK
  <2> QED
    BY <2>1 DEF OutboxInv, TypeOK
<1>4. /\ outbox' \in [Events -> OutboxRow]
      /\ \A f \in Events : outbox'[f].attempts = outbox[f].attempts
      /\ \A f \in Events : outbox'[f] = outbox[f] \/ RowIsSound(f)
  <2>1. CASE \E call \in held[d] : MarkPublished(d, call) \/ ReleaseFailure(d, call)
    BY <2>1, AnsweredRows
  <2>2. CASE outbox' = outbox
    BY <2>2 DEF OutboxInv, TypeOK
  <2> QED
    BY <2>1, <2>2 DEF Crash, ReleaseThrows
<1>5. NothingIsTakenBack
  BY <1>1, <1>4 DEF NothingIsTakenBack, OutboxInv, TypeOK
<1>6. CallsWereClaimed' /\ TokensAreUnique' /\ MarkedWasDelivered'
  BY <1>2, <1>5, FewerSafe
<1>7. queue' \subseteq Events /\ (\A e \in queue' : deliveries'[e] > 0)
      /\ faults' \in 0 .. MaxFaults
  BY <1>1, FaultsAreBounded DEF OutboxInv, TypeOK, DeliveriesAreReal
<1> QED
  BY <1>2, <1>3, <1>4, <1>5, <1>6, <1>7, InvAfter

\* Every step of the outbox and its dispatchers keeps the invariant.
LEMMA OutboxStep ==
  ASSUME OutboxInv, [Next]_outboxVars
  PROVE  OutboxInv'
<1>1. ASSUME NEW e \in Events,
             Insert(e) \/ BecomesDue(e) \/ LockTimesOut(e) \/ QueueForgets(e)
      PROVE  OutboxInv'
  BY <1>1, RowClockSafe
<1>2. ASSUME NEW d \in Dispatchers, Dispatch(d) \/ Misfortune(d)
      PROVE  OutboxInv'
  BY <1>2, ClaimSafe, CallMovesSafe, CallEndsSafe DEF Dispatch, Misfortune
<1>3. CASE UNCHANGED outboxVars
  BY <1>3 DEF outboxVars, OutboxInv, TypeOK, RowsCountClaims, CallsWereClaimed,
              TokensAreUnique, DeliveriesAreReal, PublishedWasDelivered
<1> QED
  BY <1>1, <1>2, <1>3 DEF Next

\* No row has been inserted yet: there is nothing to claim.
LEMMA OutboxStart ==
  ASSUME Init
  PROVE  OutboxInv
<1>1. TypeOK
  BY OutboxAssumption
  DEF Init, TypeOK, AbsentRow, OutboxRow, RowStatus, NoLock
<1> QED
  BY <1>1 DEF Init, OutboxInv, RowsCountClaims, CallsWereClaimed, TokensAreUnique,
              DeliveriesAreReal, PublishedWasDelivered, AbsentRow

\* Two calls that own a row hold its token, so they are the same call.
LEMMA OwnersAgree ==
  ASSUME OutboxInv
  PROVE  RowsAreSound
  BY DEF OutboxInv, RowsAreSound, OneOwner, TokensAreUnique, Owns, DeliveriesAreReal

-----------------------------------------------------------------------------
(* Theorems                                                                *)

\* Tokens are never reused and never shared: the invariant of the whole outbox.
THEOREM OutboxInvariant == Spec => []OutboxInv
<1>1. Init => OutboxInv
  BY OutboxStart
<1>2. OutboxInv /\ [Next]_outboxVars => OutboxInv'
  BY OutboxStep
<1> QED
  BY <1>1, <1>2, PTL DEF Spec

\* For any number of dispatchers, rows and faults: the rows are well typed, a row in
\* publishing has at most one call that may settle it, and a published row was handed to
\* the queue (OutboxRepository.claimBatch, markPublished, releaseFailure).
THEOREM RowsAreSoundHolds == Spec => []RowsAreSound
<1>1. OutboxInv => RowsAreSound
  BY OwnersAgree
<1> QED
  BY <1>1, OutboxInvariant, PTL

\* What one step may do to a row: a settled row stays settled, and a row leaves
\* publishing only through the call that holds its token.
RowStep(e) ==
    /\ outbox[e].status \in {"published", "failed"} => outbox'[e] = outbox[e]
    /\ outbox[e].status = "publishing" /\ outbox'[e].status # "publishing" =>
          \E d \in Dispatchers : \E call \in held[d] \ held'[d] :
              call.event = e /\ call.lock = outbox[e].lock

\* What any step can make of the row of an event.
LEMMA RowStepHolds ==
  ASSUME OutboxInv, [Next]_outboxVars, NEW e \in Events
  PROVE  RowStep(e)
<1>1. outbox \in [Events -> OutboxRow] /\ held \in [Dispatchers -> SUBSET Call]
  BY DEF OutboxInv, TypeOK
<1>2. ASSUME NEW f \in Events, Insert(f) \/ BecomesDue(f) \/ LockTimesOut(f)
      PROVE  RowStep(e)
  <2>1. CASE e # f
    BY <1>1, <1>2, <2>1 DEF Insert, BecomesDue, LockTimesOut, RowStep
  <2>2. CASE e = f /\ outbox[e].status \in {"absent", "pending"}
    BY <2>2 DEF RowStep
  <2>3. CASE e = f /\ LockTimesOut(e)
    <3>1. outbox'[e] = [outbox[e] EXCEPT !.stale = TRUE] /\ outbox[e].status = "publishing"
      BY <1>1, <2>3 DEF LockTimesOut
    <3>2. outbox'[e].status = "publishing"
      BY <1>1, <3>1 DEF OutboxRow
    <3> QED
      BY <3>1, <3>2 DEF RowStep
  <2> QED
    BY <1>2, <2>1, <2>2, <2>3 DEF Insert, BecomesDue, LockTimesOut
<1>3. ASSUME NEW d \in Dispatchers, ClaimBatch(d)
      PROVE  RowStep(e)
  <2>1. PICK batch \in SUBSET Candidates :
          outbox' = [f \in Events |->
              IF f \in batch
              THEN [outbox[f] EXCEPT !.status = "publishing", !.attempts = @ + 1,
                                     !.lock = NewLock(f), !.stale = FALSE]
              ELSE outbox[f]]
    BY <1>3 DEF ClaimBatch
  <2>2. CASE e \notin batch
    BY <2>1, <2>2 DEF RowStep
  <2>3. CASE e \in batch
    <3>1. outbox[e].status \in {"pending", "publishing"}
      BY <2>3 DEF Candidates
    <3>2. outbox'[e].status = "publishing"
      <4> DEFINE count == outbox[e].attempts + 1
                 row == [outbox[e] EXCEPT !.status = "publishing", !.attempts = count,
                                          !.lock = NewLock(e), !.stale = FALSE]
      <4>1. outbox'[e] = row
        BY <2>1, <2>3
      <4>2. row.status = "publishing"
        BY <1>1 DEF OutboxRow
      <4> QED
        BY <4>1, <4>2
    <3> QED
      BY <3>1, <3>2 DEF RowStep
  <2> QED
    BY <2>2, <2>3
<1>4. ASSUME NEW d \in Dispatchers, NEW call \in held[d],
             MarkPublished(d, call) \/ ReleaseFailure(d, call)
      PROVE  RowStep(e)
  <2>1. outbox'[e] # outbox[e] => Owns(call) /\ call.event = e
    BY <1>1, <1>4 DEF MarkPublished, ReleaseFailure
  <2>2. call \in held[d] \ held'[d]
    <3>1. held' = [held EXCEPT ![d] = held[d] \ {call}]
      BY <1>4 DEF MarkPublished, ReleaseFailure, Return
    <3> QED
      BY <1>1, <3>1
  <2> QED
    BY <2>1, <2>2 DEF RowStep, Owns
<1>5. CASE outbox' = outbox
  BY <1>5 DEF RowStep
<1> QED
  BY <1>2, <1>3, <1>4, <1>5
  DEF Next, Dispatch, Misfortune, QueueForgets, Enqueue, EnqueueThrows, MarkThrows,
      ReleaseThrows, Crash, outboxVars

\* A late dispatcher is harmless for any number of processes and retries: a row that
\* was claimed again is only settled by its latest claim, and a settled row stays so.
THEOREM LateCallsAreHarmlessHolds == Spec => LateCallsAreHarmless
<1>1. OutboxInv /\ [Next]_outboxVars => \A e \in Events : RowStep(e)
  BY RowStepHolds
<1> QED
  BY <1>1, OutboxInvariant, PTL DEF Spec, LateCallsAreHarmless, RowStep
=============================================================================
