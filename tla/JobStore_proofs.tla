-------------------------- MODULE JobStore_proofs --------------------------
(***************************************************************************)
(* Theorems about JobStore, for every value of its constants: any jobs,    *)
(* keys and payloads, any number of claims and any lease duration.         *)
(***************************************************************************)
EXTENDS JobStore, TLAPS

\* The empty tables are well typed.
LEMMA InitTypeOK == Init => TypeOK
  BY LeaseDurationAssumption
  DEF Init, TypeOK, AbsentJob, JobRow, JobStatus, TerminalStatus, RunStatus,
      EffectRow, EffectStatus, SpanRow, SpanStatus, InterruptRow, InterruptStatus,
      NoRun

\* Appending a claim: the earlier attempts keep or change their status.
LEMMA ClaimedRuns ==
  ASSUME NEW s \in Seq(RunStatus)
  PROVE  LET closed == [r \in DOMAIN s |-> IF s[r] = "running" THEN "failed" ELSE s[r]] IN
         /\ closed \in Seq(RunStatus)
         /\ Append(closed, "running") \in Seq(RunStatus)
         /\ Len(Append(closed, "running")) = Len(s) + 1
         /\ Append(closed, "running")[Len(s) + 1] = "running"
         /\ \A r \in DOMAIN s :
              Append(closed, "running")[r] = IF s[r] = "running" THEN "failed" ELSE s[r]
         /\ DOMAIN Append(closed, "running") = DOMAIN s \cup {Len(s) + 1}
<1> DEFINE closed == [r \in DOMAIN s |-> IF s[r] = "running" THEN "failed" ELSE s[r]]
<1>1. closed \in Seq(RunStatus) /\ Len(closed) = Len(s) /\ DOMAIN closed = DOMAIN s
  BY DEF RunStatus, TerminalStatus
<1>2. "running" \in RunStatus
  BY DEF RunStatus
<1> HIDE DEF closed
<1>3. /\ Append(closed, "running") \in Seq(RunStatus)
      /\ Len(Append(closed, "running")) = Len(s) + 1
      /\ Append(closed, "running")[Len(s) + 1] = "running"
      /\ DOMAIN Append(closed, "running") = DOMAIN s \cup {Len(s) + 1}
  BY <1>1, <1>2
<1>4. ASSUME NEW r \in DOMAIN s
      PROVE Append(closed, "running")[r] = IF s[r] = "running" THEN "failed" ELSE s[r]
  BY <1>1 DEF closed
<1> QED
  BY <1>1, <1>3, <1>4 DEF closed

-----------------------------------------------------------------------------

\* The two bulk updates change statuses only, and only to `uncertain'.
LEMMA DoubtsKeepTypes ==
  ASSUME TypeOK, NEW j \in Jobs, NEW R
  PROVE  /\ DoubtEffects(j, R) => runEffects' \in [Jobs -> [EffectKeys -> EffectRow]]
         /\ DoubtSpans(j, R) => traceSpans' \in [Jobs -> [EffectKeys -> SpanRow]]
<1>1. /\ runEffects[j] \in [EffectKeys -> EffectRow]
      /\ traceSpans[j] \in [EffectKeys -> SpanRow]
  BY DEF TypeOK
<1>2. ASSUME NEW k \in EffectKeys
      PROVE  /\ [runEffects[j][k] EXCEPT !.status = "uncertain"] \in EffectRow
             /\ [traceSpans[j][k] EXCEPT !.status = "uncertain"] \in SpanRow
  BY <1>1 DEF EffectRow, EffectStatus, SpanRow, SpanStatus
<1>3. [k \in EffectKeys |->
        IF runEffects[j][k].status = "reserved" /\ runEffects[j][k].run \in R
        THEN [runEffects[j][k] EXCEPT !.status = "uncertain"] ELSE runEffects[j][k]]
      \in [EffectKeys -> EffectRow]
  BY <1>1, <1>2
<1>4. [k \in EffectKeys |->
        IF traceSpans[j][k].status = "running" /\ traceSpans[j][k].run \in R
        THEN [traceSpans[j][k] EXCEPT !.status = "uncertain"] ELSE traceSpans[j][k]]
      \in [EffectKeys -> SpanRow]
  BY <1>1, <1>2
<1> QED
  BY <1>3, <1>4 DEF TypeOK, DoubtEffects, DoubtSpans

\* An appended event is a row of its table.
LEMMA InsertKeepsTypes ==
  ASSUME TypeOK, NEW j \in Jobs, NEW type \in EventType,
         NEW key \in ProgressKeys \cup Interrupts \cup {None}, NEW r \in Nat,
         NEW p \in Payloads \cup {None}, InsertEvent(j, type, key, r, p)
  PROVE  jobEvents' \in [Jobs -> SUBSET EventRow]
<1>1. jobs[j].nextEventSeq \in Nat
  BY DEF TypeOK, JobRow
<1>2. EventAt(j, type, key, r, p) \in EventRow
  BY <1>1 DEF EventAt, EventRow
<1> QED
  BY <1>2 DEF InsertEvent, TypeOK

\* A job row with one column replaced is a job row.
LEMMA RowUpdates ==
  ASSUME NEW row \in JobRow
  PROVE  /\ \A v \in JobStatus : [row EXCEPT !.status = v] \in JobRow
         /\ \A v \in RequestKeys : [row EXCEPT !.key = v] \in JobRow
         /\ \A v \in BOOLEAN : [row EXCEPT !.cancelRequested = v] \in JobRow
         /\ \A v \in Nat : [row EXCEPT !.leaseToken = v] \in JobRow
         /\ \A v \in 0 .. LeaseDuration : [row EXCEPT !.lease = v] \in JobRow
         /\ \A v \in Nat : [row EXCEPT !.nextEventSeq = v] \in JobRow
  BY DEF JobRow

\* Releasing the job row keeps it a job row.
LEMMA ReleaseKeepsTypes ==
  ASSUME TypeOK, NEW j \in Jobs, NEW status \in JobStatus, ReleaseJob(j, status)
  PROVE  jobs' \in [Jobs -> JobRow]
<1> DEFINE row == jobs[j]
<1>1. row \in JobRow
  BY DEF TypeOK
<1>2. 0 \in 0 .. LeaseDuration /\ NoRun \in Nat /\ row.nextEventSeq + 1 \in Nat
  BY <1>1, LeaseDurationAssumption DEF JobRow, NoRun
<1>3. [row EXCEPT !.status = status] \in JobRow
  BY <1>1, RowUpdates
<1>4. [row EXCEPT !.status = status, !.leaseToken = NoRun] \in JobRow
  BY <1>2, <1>3, RowUpdates
<1>5. [row EXCEPT !.status = status, !.leaseToken = NoRun, !.lease = 0] \in JobRow
  BY <1>2, <1>4, RowUpdates
<1>6. [row EXCEPT !.status = status, !.leaseToken = NoRun, !.lease = 0,
                  !.nextEventSeq = @ + 1] \in JobRow
  BY <1>2, <1>5, RowUpdates
<1> QED
  BY <1>6 DEF TypeOK, ReleaseJob

\* Setting the status of one run keeps the list of runs well typed.
LEMMA SetRunKeepsTypes ==
  ASSUME TypeOK, NEW j \in Jobs, NEW r \in DOMAIN runs[j], NEW status \in RunStatus,
         SetRun(j, r, status)
  PROVE  runs' \in [Jobs -> Seq(RunStatus)]
<1>1. runs[j] \in Seq(RunStatus)
  BY DEF TypeOK
<1>2. [runs[j] EXCEPT ![r] = status] \in Seq(RunStatus)
  BY <1>1
<1> QED
  BY <1>2 DEF TypeOK, SetRun

\* Writing one column in a row of a table that every job has.
LEMMA InterruptUpdate ==
  ASSUME TypeOK, NEW j \in Jobs, NEW i \in Interrupts, NEW s \in InterruptStatus,
         jobInterrupts' = [jobInterrupts EXCEPT ![j][i].status = s]
  PROVE  jobInterrupts' \in [Jobs -> [Interrupts -> InterruptRow]]
<1>1. jobInterrupts[j] \in [Interrupts -> InterruptRow]
  BY DEF TypeOK
<1>2. [jobInterrupts[j][i] EXCEPT !.status = s] \in InterruptRow
  BY <1>1 DEF InterruptRow
<1>3. [jobInterrupts[j] EXCEPT ![i].status = s] \in [Interrupts -> InterruptRow]
  BY <1>1, <1>2
<1> QED
  BY <1>3 DEF TypeOK

\* Cancelling the pending interrupts keeps them interrupt rows.
LEMMA InterruptsCancelled ==
  ASSUME TypeOK, NEW j \in Jobs,
         jobInterrupts' = [jobInterrupts EXCEPT ![j] = [i \in Interrupts |->
           IF @[i].status = "pending" THEN [@[i] EXCEPT !.status = "cancelled"] ELSE @[i]]]
  PROVE  jobInterrupts' \in [Jobs -> [Interrupts -> InterruptRow]]
<1>1. jobInterrupts[j] \in [Interrupts -> InterruptRow]
  BY DEF TypeOK
<1>2. ASSUME NEW i \in Interrupts
      PROVE  [jobInterrupts[j][i] EXCEPT !.status = "cancelled"] \in InterruptRow
  BY <1>1 DEF InterruptRow, InterruptStatus
<1>3. [i \in Interrupts |->
          IF jobInterrupts[j][i].status = "pending"
          THEN [jobInterrupts[j][i] EXCEPT !.status = "cancelled"] ELSE jobInterrupts[j][i]]
      \in [Interrupts -> InterruptRow]
  BY <1>1, <1>2
<1> QED
  BY <1>3 DEF TypeOK

\* A reply adds a command row.
LEMMA CommandAppended ==
  ASSUME TypeOK, NEW j \in Jobs, NEW i \in Interrupts, NEW p \in Payloads,
         jobCommands' = [jobCommands EXCEPT ![j] =
             Append(@, [interrupt |-> i, payload |-> p])]
  PROVE  jobCommands' \in [Jobs -> Seq(CommandRow)]
<1>1. [interrupt |-> i, payload |-> p] \in CommandRow
  BY DEF CommandRow
<1>2. jobCommands[j] \in Seq(CommandRow)
  BY DEF TypeOK
<1>3. Append(jobCommands[j], [interrupt |-> i, payload |-> p]) \in Seq(CommandRow)
  BY <1>1, <1>2
<1> QED
  BY <1>3 DEF TypeOK

\* Settling an effect and its span keeps both rows well typed.
LEMMA EffectUpdate ==
  ASSUME TypeOK, NEW j \in Jobs, NEW k \in EffectKeys,
         NEW outcome \in EffectStatus \cap SpanStatus,
         runEffects' = [runEffects EXCEPT ![j][k].status = outcome],
         traceSpans' = [traceSpans EXCEPT ![j][k].status = outcome]
  PROVE  /\ runEffects' \in [Jobs -> [EffectKeys -> EffectRow]]
         /\ traceSpans' \in [Jobs -> [EffectKeys -> SpanRow]]
<1>1. /\ runEffects[j] \in [EffectKeys -> EffectRow]
      /\ traceSpans[j] \in [EffectKeys -> SpanRow]
  BY DEF TypeOK
<1>2. [runEffects[j][k] EXCEPT !.status = outcome] \in EffectRow
  BY <1>1 DEF EffectRow
<1>3. [traceSpans[j][k] EXCEPT !.status = outcome] \in SpanRow
  BY <1>1 DEF SpanRow
<1>4. [runEffects[j] EXCEPT ![k].status = outcome] \in [EffectKeys -> EffectRow]
  BY <1>1, <1>2
<1>5. [traceSpans[j] EXCEPT ![k].status = outcome] \in [EffectKeys -> SpanRow]
  BY <1>1, <1>3
<1> QED
  BY <1>4, <1>5 DEF TypeOK

\* No transaction, and no call of a stale worker, breaks a column type.
LEMMA TypeStep == TypeOK /\ [Next]_vars => TypeOK'
<1> SUFFICES ASSUME TypeOK, [Next]_vars PROVE TypeOK'
  OBVIOUS
<1> USE LeaseDurationAssumption
<1>a. \A j \in Jobs : jobs[j] \in JobRow /\ runs[j] \in Seq(RunStatus)
  BY DEF TypeOK
<1>1. CASE UNCHANGED vars
  BY <1>1 DEF vars, TypeOK
<1>2. ASSUME NEW j \in Jobs, NEW k \in RequestKeys, CreateJob(j, k) PROVE TypeOK'
  <2>a. AbsentJob \in JobRow
    BY DEF AbsentJob, JobRow, JobStatus, NoRun
  <2>b. [AbsentJob EXCEPT !.status = "queued"] \in JobRow
    BY <2>a, RowUpdates DEF JobStatus
  <2>1. [AbsentJob EXCEPT !.status = "queued", !.key = k] \in JobRow
    BY <2>b, RowUpdates
  <2>2. EnqueueKey(j) \in OutboxKey
    BY DEF EnqueueKey, OutboxKey, NoRun
  <2> QED
    BY <1>2, <2>1, <2>2 DEF CreateJob, TypeOK
<1>3. ASSUME NEW j \in Jobs, ClaimJob(j) PROVE TypeOK'
  <2>a. Len(runs[j]) + 1 \in Nat /\ LeaseDuration \in 0 .. LeaseDuration
    BY <1>a
  <2>b. [jobs[j] EXCEPT !.status = "running"] \in JobRow
    BY <1>a, RowUpdates DEF JobStatus
  <2>c. [jobs[j] EXCEPT !.status = "running", !.leaseToken = Len(runs[j]) + 1] \in JobRow
    BY <2>a, <2>b, RowUpdates
  <2>1. [jobs[j] EXCEPT !.status = "running", !.leaseToken = Len(runs[j]) + 1,
                        !.lease = LeaseDuration] \in JobRow
    BY <2>a, <2>c, RowUpdates
  <2>2. runs' \in [Jobs -> Seq(RunStatus)]
    BY <1>3, <1>a, ClaimedRuns DEF ClaimJob, ClosedRuns, TypeOK
  <2>3. /\ runEffects' \in [Jobs -> [EffectKeys -> EffectRow]]
        /\ traceSpans' \in [Jobs -> [EffectKeys -> SpanRow]]
    BY <1>3, DoubtsKeepTypes DEF ClaimJob
  <2> QED
    BY <1>3, <2>1, <2>2, <2>3 DEF ClaimJob, TypeOK
<1>4. ASSUME NEW j \in Jobs, Tick(j) PROVE TypeOK'
  <2>1. [jobs[j] EXCEPT !.lease = @ - 1] \in JobRow
    BY <1>4, <1>a DEF Tick, JobRow
  <2> QED
    BY <1>4, <2>1 DEF Tick, TypeOK
<1>5. ASSUME NEW j \in Jobs, CancelParkedJob(j) PROVE TypeOK'
  <2>a. 0 \in 0 .. LeaseDuration /\ NoRun \in Nat /\ jobs[j].nextEventSeq + 1 \in Nat
    BY <1>a DEF JobRow, NoRun
  <2>b. [jobs[j] EXCEPT !.status = "cancelled"] \in JobRow
    BY <1>a, RowUpdates DEF JobStatus, TerminalStatus
  <2>c. [jobs[j] EXCEPT !.status = "cancelled", !.cancelRequested = TRUE] \in JobRow
    BY <2>b, RowUpdates
  <2>d. [jobs[j] EXCEPT !.status = "cancelled", !.cancelRequested = TRUE,
                        !.leaseToken = NoRun] \in JobRow
    BY <2>a, <2>c, RowUpdates
  <2>e. [jobs[j] EXCEPT !.status = "cancelled", !.cancelRequested = TRUE,
                        !.leaseToken = NoRun, !.lease = 0] \in JobRow
    BY <2>a, <2>d, RowUpdates
  <2>1. [jobs[j] EXCEPT !.status = "cancelled", !.cancelRequested = TRUE,
                        !.leaseToken = NoRun, !.lease = 0,
                        !.nextEventSeq = @ + 1] \in JobRow
    BY <2>a, <2>e, RowUpdates
  <2>2. jobEvents' \in [Jobs -> SUBSET EventRow]
    BY <1>5, InsertKeepsTypes DEF CancelParkedJob, EventType, TerminalEvent, NoRun
  <2>3. jobInterrupts' \in [Jobs -> [Interrupts -> InterruptRow]]
    BY <1>5, InterruptsCancelled DEF CancelParkedJob
  <2> QED
    BY <1>5, <2>1, <2>2, <2>3 DEF CancelParkedJob, TypeOK
<1>6. ASSUME NEW j \in Jobs, CancelRunningJob(j) PROVE TypeOK'
  <2>1. [jobs[j] EXCEPT !.cancelRequested = TRUE] \in JobRow
    BY <1>a DEF JobRow
  <2> QED
    BY <1>6, <2>1 DEF CancelRunningJob, TypeOK
<1>7. ASSUME NEW j \in Jobs, NEW p \in Payloads, SubmitOutlineReply(j, p) PROVE TypeOK'
  <2>1. [jobs[j] EXCEPT !.status = "queued"] \in JobRow
    BY <1>a DEF JobRow, JobStatus
  <2>2. PICK i \in Interrupts :
          /\ jobCommands' = [jobCommands EXCEPT ![j] =
                 Append(@, [interrupt |-> i, payload |-> p])]
          /\ jobInterrupts' = [jobInterrupts EXCEPT ![j][i].status = "replied"]
          /\ outboxEvents' = outboxEvents \cup {ResumeKey(j, i)}
    BY <1>7 DEF SubmitOutlineReply, PendingInterrupts
  <2>3. jobCommands' \in [Jobs -> Seq(CommandRow)]
    BY <2>2, CommandAppended
  <2>4. jobInterrupts' \in [Jobs -> [Interrupts -> InterruptRow]]
    BY <2>2, InterruptUpdate DEF InterruptStatus
  <2>5. ResumeKey(j, i) \in OutboxKey
    BY DEF ResumeKey, OutboxKey, NoRun
  <2> QED
    BY <1>7, <2>1, <2>2, <2>3, <2>4, <2>5 DEF SubmitOutlineReply, TypeOK
<1>8. ASSUME NEW j \in Jobs, NEW r \in DOMAIN runs[j], RunStep(j, r) PROVE TypeOK'
  <2>a. r \in Nat
    BY <1>a
  <2>1. CASE HeartbeatClaim(j, r)
    <3>1. [jobs[j] EXCEPT !.lease = LeaseDuration] \in JobRow
      BY <1>a DEF JobRow
    <3> QED
      BY <2>1, <3>1 DEF HeartbeatClaim, TypeOK
  <2>2. ASSUME NEW k \in ProgressKeys, NEW p \in Payloads, AppendRunEvent(j, r, k, p)
        PROVE TypeOK'
    <3>1. [jobs[j] EXCEPT !.nextEventSeq = @ + 1] \in JobRow
      BY <1>a DEF JobRow
    <3>2. jobEvents' \in [Jobs -> SUBSET EventRow]
      BY <2>2, <2>a, InsertKeepsTypes DEF AppendRunEvent, EventType
    <3> QED
      BY <2>2, <3>1, <3>2 DEF AppendRunEvent, TypeOK
  <2>3. ASSUME NEW k \in EffectKeys, NEW p \in Payloads, ReserveRunEffect(j, r, k, p)
        PROVE TypeOK'
    <3>1. /\ [status |-> "reserved", run |-> r, request |-> p] \in EffectRow
          /\ [status |-> "running", run |-> r] \in SpanRow
      BY <2>a DEF EffectRow, EffectStatus, SpanRow, SpanStatus
    <3> QED
      BY <2>3, <3>1 DEF ReserveRunEffect, TypeOK
  <2>4. ASSUME NEW k \in EffectKeys, NEW outcome \in {"succeeded", "failed"},
               FinishRunEffect(j, r, k, outcome)
        PROVE TypeOK'
    <3>1. /\ runEffects' \in [Jobs -> [EffectKeys -> EffectRow]]
          /\ traceSpans' \in [Jobs -> [EffectKeys -> SpanRow]]
      BY <2>4, EffectUpdate DEF FinishRunEffect, EffectStatus, SpanStatus
    <3> QED
      BY <2>4, <3>1 DEF FinishRunEffect, TypeOK
  <2>5. ASSUME NEW memory \in BOOLEAN, CompleteClaim(j, r, memory) PROVE TypeOK'
    <3>1. jobEvents' \in [Jobs -> SUBSET EventRow]
      BY <2>5, <2>a, InsertKeepsTypes DEF CompleteClaim, EventType, TerminalEvent
    <3>2. jobs' \in [Jobs -> JobRow]
      BY <2>5, ReleaseKeepsTypes DEF CompleteClaim, JobStatus, TerminalStatus
    <3>3. runs' \in [Jobs -> Seq(RunStatus)]
      BY <2>5, SetRunKeepsTypes DEF CompleteClaim, RunStatus, TerminalStatus
    <3>4. runEffects' \in [Jobs -> [EffectKeys -> EffectRow]]
      BY <2>5, DoubtsKeepTypes DEF CompleteClaim
    <3>5. MemoryKey(j, r) \in OutboxKey
      BY <2>a DEF MemoryKey, OutboxKey
    <3> QED
      BY <2>5, <2>a, <3>1, <3>2, <3>3, <3>4, <3>5 DEF CompleteClaim, TypeOK
  <2>6. CASE ReplayCompletion(j, r)
    <3>1. MemoryKey(j, r) \in OutboxKey
      BY <2>a DEF MemoryKey, OutboxKey
    <3> QED
      BY <2>6, <3>1 DEF ReplayCompletion, TypeOK
  <2>7. ASSUME NEW outcome \in {"cancelled", "failed"}, TerminateClaim(j, r, outcome)
        PROVE TypeOK'
    <3>1. jobEvents' \in [Jobs -> SUBSET EventRow]
      BY <2>7, <2>a, InsertKeepsTypes
      DEF TerminateClaim, TerminalEventOf, EventType, TerminalEvent
    <3>2. jobs' \in [Jobs -> JobRow]
      BY <2>7, ReleaseKeepsTypes DEF TerminateClaim, JobStatus, TerminalStatus
    <3>3. runs' \in [Jobs -> Seq(RunStatus)]
      BY <2>7, SetRunKeepsTypes DEF TerminateClaim, RunStatus, TerminalStatus
    <3>4. /\ runEffects' \in [Jobs -> [EffectKeys -> EffectRow]]
          /\ traceSpans' \in [Jobs -> [EffectKeys -> SpanRow]]
      BY <2>7, DoubtsKeepTypes DEF TerminateClaim
    <3> QED
      BY <2>7, <3>1, <3>2, <3>3, <3>4 DEF TerminateClaim, TypeOK
  <2>8. ASSUME NEW i \in Interrupts, PauseClaim(j, r, i) PROVE TypeOK'
    <3>1. jobEvents' \in [Jobs -> SUBSET EventRow]
      BY <2>8, <2>a, InsertKeepsTypes DEF PauseClaim, EventType
    <3>2. jobs' \in [Jobs -> JobRow]
      BY <2>8, ReleaseKeepsTypes DEF PauseClaim, JobStatus
    <3>3. runs' \in [Jobs -> Seq(RunStatus)]
      BY <2>8, SetRunKeepsTypes DEF PauseClaim, RunStatus, TerminalStatus
    <3>4. runEffects' \in [Jobs -> [EffectKeys -> EffectRow]]
      BY <2>8, DoubtsKeepTypes DEF PauseClaim
    <3>5. [status |-> "pending", run |-> r] \in InterruptRow
      BY <2>a DEF InterruptRow, InterruptStatus
    <3> QED
      BY <2>8, <3>1, <3>2, <3>3, <3>4, <3>5 DEF PauseClaim, TypeOK
  <2> QED
    BY <1>8, <2>1, <2>2, <2>3, <2>4, <2>5, <2>6, <2>7, <2>8 DEF RunStep
<1> QED
  BY <1>1, <1>2, <1>3, <1>4, <1>5, <1>6, <1>7, <1>8 DEF Next, JobStep

\* TypeOK: every table holds rows of its own shape; in particular a lease never
\* exceeds leaseDurationMs and sequence numbers stay natural.
THEOREM TypeCorrect == Spec => []TypeOK
<1>1. Init => TypeOK
  BY InitTypeOK
<1>2. TypeOK /\ [Next]_vars => TypeOK'
  BY TypeStep
<1> QED
  BY <1>1, <1>2, PTL DEF Spec

-----------------------------------------------------------------------------

\* A transaction on one job leaves the rows of every other job alone.
LEMMA OtherJobsUntouched ==
  ASSUME TypeOK, NEW j \in Jobs, NEW q \in Jobs, q # j,
         JobStep(j) \/ \E r \in DOMAIN runs[j] : RunStep(j, r)
  PROVE  /\ jobs'[q] = jobs[q] /\ runs'[q] = runs[q]
         /\ jobEvents'[q] = jobEvents[q] /\ runEffects'[q] = runEffects[q]
         /\ traceSpans'[q] = traceSpans[q] /\ jobInterrupts'[q] = jobInterrupts[q]
         /\ jobCommands'[q] = jobCommands[q] /\ articles'[q] = articles[q]
<1> DEFINE Untouched ==
         /\ jobs'[q] = jobs[q] /\ runs'[q] = runs[q]
         /\ jobEvents'[q] = jobEvents[q] /\ runEffects'[q] = runEffects[q]
         /\ traceSpans'[q] = traceSpans[q] /\ jobInterrupts'[q] = jobInterrupts[q]
         /\ jobCommands'[q] = jobCommands[q] /\ articles'[q] = articles[q]
<1> USE DEF TypeOK
<1>1. ASSUME NEW k \in RequestKeys, CreateJob(j, k) PROVE Untouched
  BY <1>1 DEF CreateJob
<1>2. CASE ClaimJob(j)
  BY <1>2 DEF ClaimJob, ClosedRuns, DoubtEffects, DoubtSpans
<1>3. CASE Tick(j) \/ CancelRunningJob(j)
  BY <1>3 DEF Tick, CancelRunningJob
<1>4. CASE CancelParkedJob(j)
  BY <1>4 DEF CancelParkedJob, InsertEvent
<1>5. ASSUME NEW p \in Payloads, SubmitOutlineReply(j, p) PROVE Untouched
  BY <1>5 DEF SubmitOutlineReply
<1>6. ASSUME NEW r \in DOMAIN runs[j], RunStep(j, r) PROVE Untouched
  <2>1. CASE HeartbeatClaim(j, r) \/ ReplayCompletion(j, r)
    BY <2>1 DEF HeartbeatClaim, ReplayCompletion
  <2>2. ASSUME NEW k \in ProgressKeys, NEW p \in Payloads, AppendRunEvent(j, r, k, p)
        PROVE  Untouched
    BY <2>2 DEF AppendRunEvent, InsertEvent
  <2>3. ASSUME NEW k \in EffectKeys, NEW p \in Payloads, ReserveRunEffect(j, r, k, p)
        PROVE  Untouched
    BY <2>3 DEF ReserveRunEffect
  <2>4. ASSUME NEW k \in EffectKeys, NEW outcome \in {"succeeded", "failed"},
               FinishRunEffect(j, r, k, outcome)
        PROVE  Untouched
    BY <2>4 DEF FinishRunEffect
  <2>5. ASSUME NEW memory \in BOOLEAN, CompleteClaim(j, r, memory) PROVE Untouched
    BY <2>5 DEF CompleteClaim, InsertEvent, ReleaseJob, DoubtEffects, SetRun
  <2>6. ASSUME NEW outcome \in {"cancelled", "failed"}, TerminateClaim(j, r, outcome)
        PROVE  Untouched
    BY <2>6 DEF TerminateClaim, InsertEvent, ReleaseJob, DoubtEffects, DoubtSpans, SetRun
  <2>7. ASSUME NEW i \in Interrupts, PauseClaim(j, r, i) PROVE Untouched
    BY <2>7 DEF PauseClaim, InsertEvent, ReleaseJob, DoubtEffects, SetRun
  <2> HIDE DEF Untouched
  <2> QED
    BY <1>6, <2>1, <2>2, <2>3, <2>4, <2>5, <2>6, <2>7 DEF RunStep
<1> QED
  BY <1>1, <1>2, <1>3, <1>4, <1>5, <1>6 DEF JobStep

\* What the updates shared by several transactions do to the rows of one job.
LEMMA JobRowAfter ==
  ASSUME TypeOK, NEW j \in Jobs, NEW status \in JobStatus, ReleaseJob(j, status)
  PROVE  /\ jobs'[j].status = status /\ jobs'[j].leaseToken = NoRun
         /\ jobs'[j].lease = 0
         /\ jobs'[j].cancelRequested = jobs[j].cancelRequested
         /\ jobs'[j].nextEventSeq = jobs[j].nextEventSeq + 1
         /\ jobs'[j].key = jobs[j].key
<1>1. jobs[j] \in JobRow
  BY DEF TypeOK
<1> QED
  BY <1>1 DEF ReleaseJob, TypeOK, JobRow

\* What a claim does to the job row and the runs of its job.
LEMMA ClaimAfter ==
  ASSUME TypeOK, NEW j \in Jobs, ClaimJob(j)
  PROVE  /\ jobs'[j].status = "running" /\ jobs'[j].lease = LeaseDuration
         /\ jobs'[j].leaseToken = Len(runs[j]) + 1
         /\ jobs'[j].cancelRequested = jobs[j].cancelRequested
         /\ jobs'[j].nextEventSeq = jobs[j].nextEventSeq
         /\ jobs'[j].key = jobs[j].key
         /\ Len(runs'[j]) = Len(runs[j]) + 1
         /\ DOMAIN runs'[j] = DOMAIN runs[j] \cup {Len(runs[j]) + 1}
         /\ runs'[j][Len(runs[j]) + 1] = "running"
         /\ \A r \in DOMAIN runs[j] :
               runs'[j][r] = IF runs[j][r] = "running" THEN "failed" ELSE runs[j][r]
<1>1. jobs[j] \in JobRow /\ runs[j] \in Seq(RunStatus)
  BY DEF TypeOK
<1>2. /\ jobs'[j].status = "running" /\ jobs'[j].lease = LeaseDuration
      /\ jobs'[j].leaseToken = Len(runs[j]) + 1
      /\ jobs'[j].cancelRequested = jobs[j].cancelRequested
      /\ jobs'[j].nextEventSeq = jobs[j].nextEventSeq
      /\ jobs'[j].key = jobs[j].key
  BY <1>1 DEF ClaimJob, ClosedRuns, TypeOK, JobRow
<1>3. runs'[j] = Append([r \in DOMAIN runs[j] |->
                            IF runs[j][r] = "running" THEN "failed" ELSE runs[j][r]],
                        "running")
  BY DEF ClaimJob, ClosedRuns, TypeOK
<1> QED
  BY <1>1, <1>2, <1>3, ClaimedRuns

\* What setting one run does to the runs of its job.
LEMMA RunAfter ==
  ASSUME TypeOK, NEW j \in Jobs, NEW r \in DOMAIN runs[j], NEW status, SetRun(j, r, status)
  PROVE  /\ DOMAIN runs'[j] = DOMAIN runs[j] /\ Len(runs'[j]) = Len(runs[j])
         /\ runs'[j][r] = status
         /\ \A other \in DOMAIN runs[j] : other # r => runs'[j][other] = runs[j][other]
<1>1. runs[j] \in Seq(RunStatus)
  BY DEF TypeOK
<1>2. runs'[j] = [runs[j] EXCEPT ![r] = status]
  BY DEF SetRun, TypeOK
<1> QED
  BY <1>1, <1>2

-----------------------------------------------------------------------------

\* OneOwner: of all the runs of a job only the latest can be running, and only
\* while the job row carries its token.
THEOREM OneOwnerHolds == Spec => []OneOwner
<1>1. Init => OneOwner
  BY DEF Init, OneOwner, OwnsRow, AbsentJob, NoRun
<1>2. TypeOK /\ OneOwner /\ [Next]_vars => OneOwner'
  <2> SUFFICES ASSUME TypeOK, OneOwner, [Next]_vars PROVE OneOwner'
    OBVIOUS
  <2> DEFINE Owned(q) ==
        /\ \A r \in DOMAIN runs[q] : runs[q][r] = "running" <=> OwnsRow(q, r)
        /\ jobs[q].status = "running" <=> jobs[q].leaseToken # NoRun
        /\ jobs[q].status = "running" => jobs[q].leaseToken = Len(runs[q])
        /\ jobs[q].lease > 0 => jobs[q].status = "running"
  <2>a. \A q \in Jobs : Owned(q)
    BY DEF OneOwner
  <2>b. \A q \in Jobs : jobs[q] \in JobRow /\ runs[q] \in Seq(RunStatus)
    BY DEF TypeOK
  <2>1. CASE UNCHANGED vars
    BY <2>1, <2>a DEF vars, OneOwner, OwnsRow
  <2>2. ASSUME NEW j \in Jobs, NEW k \in RequestKeys, CreateJob(j, k) PROVE Owned(j)'
    <3>1. jobs'[j].status = "queued" /\ jobs'[j].leaseToken = NoRun /\ jobs'[j].lease = 0
      BY <2>2 DEF CreateJob, AbsentJob, TypeOK
    <3> QED
      BY <2>2, <2>a, <3>1 DEF CreateJob, OwnsRow
  <2>3. ASSUME NEW j \in Jobs, ClaimJob(j) PROVE Owned(j)'
    <3>1. Len(runs[j]) + 1 # NoRun /\ DOMAIN runs[j] = 1 .. Len(runs[j]) /\ Len(runs[j]) \in Nat
      BY <2>b DEF NoRun
    <3>2. \A r \in DOMAIN runs'[j] : runs'[j][r] = "running" <=> r = Len(runs[j]) + 1
      BY <2>3, <3>1, ClaimAfter
    <3> QED
      BY <2>3, <3>1, <3>2, ClaimAfter DEF OwnsRow
  <2>4. ASSUME NEW j \in Jobs, Tick(j) PROVE Owned(j)'
    <3>1. /\ jobs'[j].status = jobs[j].status /\ jobs'[j].leaseToken = jobs[j].leaseToken
          /\ jobs[j].lease > 0
      BY <2>4, <2>b DEF Tick, TypeOK, JobRow
    <3> QED
      BY <2>4, <2>a, <3>1 DEF Tick, OwnsRow
  <2>5. ASSUME NEW j \in Jobs, CancelParkedJob(j) PROVE Owned(j)'
    <3>1. /\ jobs'[j].status = "cancelled" /\ jobs'[j].leaseToken = NoRun
          /\ jobs'[j].lease = 0 /\ jobs[j].status # "running"
      BY <2>5, <2>b DEF CancelParkedJob, TypeOK, JobRow
    <3>2. runs' = runs
      BY <2>5 DEF CancelParkedJob
    <3> QED
      BY <2>a, <3>1, <3>2 DEF OwnsRow
  <2>6. ASSUME NEW j \in Jobs, CancelRunningJob(j) PROVE Owned(j)'
    <3>1. /\ jobs'[j].status = jobs[j].status /\ jobs'[j].leaseToken = jobs[j].leaseToken
          /\ jobs'[j].lease = jobs[j].lease
      BY <2>6, <2>b DEF CancelRunningJob, TypeOK, JobRow
    <3> QED
      BY <2>6, <2>a, <3>1 DEF CancelRunningJob, OwnsRow
  <2>7. ASSUME NEW j \in Jobs, NEW p \in Payloads, SubmitOutlineReply(j, p) PROVE Owned(j)'
    <3>1. /\ jobs'[j].status = "queued" /\ jobs'[j].leaseToken = jobs[j].leaseToken
          /\ jobs'[j].lease = jobs[j].lease /\ jobs[j].status # "running"
      BY <2>7, <2>b DEF SubmitOutlineReply, TypeOK, JobRow
    <3> QED
      BY <2>7, <2>a, <3>1 DEF SubmitOutlineReply, OwnsRow
  <2>8. ASSUME NEW j \in Jobs, NEW r \in DOMAIN runs[j], RunStep(j, r) PROVE Owned(j)'
    <3>1. CASE HeartbeatClaim(j, r)
      <4>1. /\ jobs'[j].status = jobs[j].status /\ jobs'[j].leaseToken = jobs[j].leaseToken
            /\ jobs[j].status = "running"
        BY <3>1, <2>b DEF HeartbeatClaim, Authorized, HoldsLease, OwnsRow, TypeOK, JobRow
      <4> QED
        BY <3>1, <2>a, <4>1 DEF HeartbeatClaim, OwnsRow
    <3>2. ASSUME NEW k \in ProgressKeys, NEW p \in Payloads, AppendRunEvent(j, r, k, p)
          PROVE  Owned(j)'
      <4>1. /\ jobs'[j].status = jobs[j].status /\ jobs'[j].leaseToken = jobs[j].leaseToken
            /\ jobs'[j].lease = jobs[j].lease
        BY <3>2, <2>b DEF AppendRunEvent, TypeOK, JobRow
      <4> QED
        BY <3>2, <2>a, <4>1 DEF AppendRunEvent, OwnsRow
    <3>3. ASSUME UNCHANGED <<jobs, runs>> PROVE Owned(j)'
      BY <3>3, <2>a DEF OwnsRow
    <3>4. ASSUME NEW status \in TerminalStatus \cup {"awaiting_input"}, NEW outcome \in TerminalStatus,
                 HoldsLease(j, r), ReleaseJob(j, status), SetRun(j, r, outcome)
          PROVE  Owned(j)'
      <4>1. /\ jobs'[j].status = status /\ jobs'[j].leaseToken = NoRun /\ jobs'[j].lease = 0
            /\ status # "running" /\ outcome # "running"
        BY <3>4, JobRowAfter DEF JobStatus, TerminalStatus
      <4>2. \A other \in DOMAIN runs[j] : other # r => runs[j][other] # "running"
        BY <3>4, <2>a DEF HoldsLease, OwnsRow
      <4>3. \A other \in DOMAIN runs'[j] : runs'[j][other] # "running"
        BY <3>4, <4>1, <4>2, RunAfter
      <4> QED
        BY <4>1, <4>3 DEF OwnsRow
    <3>5. ASSUME NEW memory \in BOOLEAN, CompleteClaim(j, r, memory) PROVE Owned(j)'
      BY <3>4, <3>5 DEF CompleteClaim, Authorized, TerminalStatus
    <3>6. ASSUME NEW outcome \in {"cancelled", "failed"}, TerminateClaim(j, r, outcome)
          PROVE  Owned(j)'
      BY <3>4, <3>6 DEF TerminateClaim, TerminalStatus
    <3>7. ASSUME NEW i \in Interrupts, PauseClaim(j, r, i) PROVE Owned(j)'
      BY <3>4, <3>7 DEF PauseClaim, Authorized, TerminalStatus
    <3> QED
      BY <2>8, <3>1, <3>2, <3>3, <3>5, <3>6, <3>7
      DEF RunStep, ReserveRunEffect, FinishRunEffect, ReplayCompletion
  <2>9. ASSUME NEW j \in Jobs, JobStep(j) \/ \E r \in DOMAIN runs[j] : RunStep(j, r)
        PROVE  OneOwner'
    <3>1. Owned(j)'
      BY <2>2, <2>3, <2>4, <2>5, <2>6, <2>7, <2>8, <2>9 DEF JobStep
    <3>2. ASSUME NEW q \in Jobs, q # j PROVE Owned(q)'
      BY <2>9, <2>a, <3>2, OtherJobsUntouched DEF OwnsRow
    <3> QED
      BY <3>1, <3>2 DEF OneOwner
  <2> QED
    BY <2>1, <2>9 DEF Next
<1> QED
  BY <1>1, <1>2, TypeCorrect, PTL DEF Spec

-----------------------------------------------------------------------------

\* The run identities in use are attempts 1 .. MaxRuns: no transaction but claimJob
\* adds a run.
RunsAreBounded == \A j \in Jobs : Len(runs[j]) <= MaxRuns

\* Only a claim lengthens the list of runs of a job.
LEMMA RunsOfStep ==
  ASSUME TypeOK, NEW j \in Jobs, JobStep(j) \/ \E r \in DOMAIN runs[j] : RunStep(j, r)
  PROVE  \/ ClaimJob(j)
         \/ runs'[j] = runs[j]
         \/ \E r \in DOMAIN runs[j] : ActiveRun(j, r) /\ \E status : SetRun(j, r, status)
  BY DEF JobStep, CreateJob, Tick, CancelParkedJob, CancelRunningJob, SubmitOutlineReply,
         RunStep, HeartbeatClaim, AppendRunEvent, ReserveRunEffect, FinishRunEffect,
         CompleteClaim, ReplayCompletion, TerminateClaim, PauseClaim, Authorized

\* No transaction but a claim lengthens a list of runs, and a claim stops at the bound.
LEMMA RunsBoundedStep == TypeOK /\ RunsAreBounded /\ [Next]_vars => RunsAreBounded'
<1> SUFFICES ASSUME TypeOK, RunsAreBounded, [Next]_vars PROVE RunsAreBounded'
  OBVIOUS
<1>a. \A q \in Jobs : Len(runs[q]) <= MaxRuns /\ Len(runs[q]) \in Nat
  BY DEF RunsAreBounded, TypeOK
<1>1. CASE UNCHANGED vars
  BY <1>1, <1>a DEF vars, RunsAreBounded
<1>2. ASSUME NEW j \in Jobs, JobStep(j) \/ \E r \in DOMAIN runs[j] : RunStep(j, r)
      PROVE  RunsAreBounded'
  <2>1. ASSUME NEW r \in DOMAIN runs[j], NEW status, SetRun(j, r, status)
        PROVE  Len(runs'[j]) = Len(runs[j])
    BY <2>1, RunAfter
  <2>2. Len(runs'[j]) <= MaxRuns
    <3>1. CASE ClaimJob(j)
      <4>1. Len(runs'[j]) = Len(runs[j]) + 1
        BY <3>1, ClaimAfter
      <4>2. Len(runs[j]) < MaxRuns
        BY <3>1 DEF ClaimJob
      <4> QED
        BY <1>a, <4>1, <4>2, MaxRunsAssumption
    <3> QED
      BY <1>2, <1>a, <2>1, <3>1, RunsOfStep
  <2>3. \A q \in Jobs : q # j => runs'[q] = runs[q]
    BY <1>2, OtherJobsUntouched
  <2> QED
    BY <1>a, <2>2, <2>3 DEF RunsAreBounded
<1> QED
  BY <1>1, <1>2 DEF Next

\* No job is claimed more often than the bound of the model says.
THEOREM RunsAreBoundedHolds == Spec => []RunsAreBounded
<1>1. Init => RunsAreBounded
  BY MaxRunsAssumption DEF Init, RunsAreBounded
<1>2. TypeOK /\ RunsAreBounded /\ [Next]_vars => RunsAreBounded'
  BY RunsBoundedStep
<1> QED
  BY <1>1, <1>2, TypeCorrect, PTL DEF Spec

-----------------------------------------------------------------------------

\* CancellationWins: no completion, failure, pause, reply or claim that comes
\* after a cancellation request takes the job anywhere but to `cancelled'.
THEOREM CancellationWinsHolds == Spec => []CancellationWins
<1>1. Init => CancellationWins
  BY DEF Init, CancellationWins, AbsentJob
<1>2. TypeOK /\ CancellationWins /\ [Next]_vars => CancellationWins'
  <2> SUFFICES ASSUME TypeOK, CancellationWins, [Next]_vars PROVE CancellationWins'
    OBVIOUS
  <2> DEFINE Obeys(q) == jobs[q].cancelRequested => jobs[q].status \in {"running", "cancelled"}
  <2>a. \A q \in Jobs : Obeys(q)
    BY DEF CancellationWins
  <2>b. \A q \in Jobs : jobs[q] \in JobRow
    BY DEF TypeOK
  <2>1. CASE UNCHANGED vars
    BY <2>1, <2>a DEF vars, CancellationWins
  <2>2. ASSUME NEW j \in Jobs, NEW k \in RequestKeys, CreateJob(j, k) PROVE Obeys(j)'
    BY <2>2 DEF CreateJob, AbsentJob, TypeOK
  <2>3. ASSUME NEW j \in Jobs, ClaimJob(j) PROVE Obeys(j)'
    BY <2>3, ClaimAfter
  <2>4. ASSUME NEW j \in Jobs, Tick(j) PROVE Obeys(j)'
    BY <2>4, <2>a, <2>b DEF Tick, TypeOK, JobRow
  <2>5. ASSUME NEW j \in Jobs, CancelParkedJob(j) PROVE Obeys(j)'
    <3>1. jobs'[j].status = "cancelled"
      BY <2>5, <2>b DEF CancelParkedJob, TypeOK, JobRow
    <3> QED
      BY <3>1
  <2>6. ASSUME NEW j \in Jobs, CancelRunningJob(j) PROVE Obeys(j)'
    BY <2>6, <2>b DEF CancelRunningJob, TypeOK, JobRow
  <2>7. ASSUME NEW j \in Jobs, NEW p \in Payloads, SubmitOutlineReply(j, p) PROVE Obeys(j)'
    BY <2>7, <2>a, <2>b DEF SubmitOutlineReply, TypeOK, JobRow
  <2>8. ASSUME NEW j \in Jobs, NEW r \in DOMAIN runs[j], RunStep(j, r) PROVE Obeys(j)'
    <3>1. CASE HeartbeatClaim(j, r)
      BY <3>1, <2>b DEF HeartbeatClaim, Authorized, TypeOK, JobRow
    <3>2. ASSUME NEW k \in ProgressKeys, NEW p \in Payloads, AppendRunEvent(j, r, k, p)
          PROVE  Obeys(j)'
      BY <3>2, <2>b DEF AppendRunEvent, Authorized, TypeOK, JobRow
    <3>3. ASSUME UNCHANGED jobs PROVE Obeys(j)'
      BY <3>3, <2>a
    <3>4. ASSUME NEW memory \in BOOLEAN, CompleteClaim(j, r, memory) PROVE Obeys(j)'
      BY <3>4, JobRowAfter DEF CompleteClaim, Authorized, JobStatus, TerminalStatus
    <3>5. ASSUME NEW outcome \in {"cancelled", "failed"}, TerminateClaim(j, r, outcome)
          PROVE  Obeys(j)'
      BY <3>5, JobRowAfter DEF TerminateClaim, JobStatus, TerminalStatus
    <3>6. ASSUME NEW i \in Interrupts, PauseClaim(j, r, i) PROVE Obeys(j)'
      BY <3>6, JobRowAfter DEF PauseClaim, Authorized, JobStatus, TerminalStatus
    <3> QED
      BY <2>8, <3>1, <3>2, <3>3, <3>4, <3>5, <3>6
      DEF RunStep, ReserveRunEffect, FinishRunEffect, ReplayCompletion
  <2>9. ASSUME NEW j \in Jobs, JobStep(j) \/ \E r \in DOMAIN runs[j] : RunStep(j, r)
        PROVE  CancellationWins'
    <3>1. Obeys(j)'
      BY <2>2, <2>3, <2>4, <2>5, <2>6, <2>7, <2>8, <2>9 DEF JobStep
    <3>2. ASSUME NEW q \in Jobs, q # j PROVE Obeys(q)'
      BY <2>9, <2>a, <3>2, OtherJobsUntouched
    <3> QED
      BY <3>1, <3>2 DEF CancellationWins
  <2> QED
    BY <2>1, <2>9 DEF Next
<1> QED
  BY <1>1, <1>2, TypeCorrect, PTL DEF Spec

-----------------------------------------------------------------------------

\* The rows left reserved by a bulk update were reserved before, by a run
\* outside the set it closes.
LEMMA DoubtedEffects ==
  ASSUME TypeOK, NEW j \in Jobs, NEW R, DoubtEffects(j, R),
         NEW k \in EffectKeys, runEffects'[j][k].status = "reserved"
  PROVE  runEffects'[j][k] = runEffects[j][k] /\ runEffects[j][k].run \notin R
<1>1. runEffects[j] \in [EffectKeys -> EffectRow]
  BY DEF TypeOK
<1>2. runEffects'[j][k] =
        IF runEffects[j][k].status = "reserved" /\ runEffects[j][k].run \in R
        THEN [runEffects[j][k] EXCEPT !.status = "uncertain"] ELSE runEffects[j][k]
  BY DEF DoubtEffects, TypeOK
<1>3. [runEffects[j][k] EXCEPT !.status = "uncertain"].status = "uncertain"
  BY <1>1 DEF EffectRow
<1> QED
  BY <1>2, <1>3

\* NoOrphanEffect: takeover, failure, completion and pause settle whatever call
\* their run left open, so a reserved effect always has a live owner.  That
\* completion and pause need only look at their own run is OneOwner.
THEOREM NoOrphanEffectHolds == Spec => []NoOrphanEffect
<1>1. Init => NoOrphanEffect
  BY DEF Init, NoOrphanEffect
<1>2. TypeOK /\ OneOwner /\ NoOrphanEffect /\ [Next]_vars => NoOrphanEffect'
  <2> SUFFICES ASSUME TypeOK, OneOwner, NoOrphanEffect, [Next]_vars PROVE NoOrphanEffect'
    OBVIOUS
  <2> DEFINE Settled(q) == \A k \in EffectKeys :
                runEffects[q][k].status = "reserved" => ActiveRun(q, runEffects[q][k].run)
  <2>a. \A q \in Jobs : Settled(q)
    BY DEF NoOrphanEffect
  <2>b. \A q \in Jobs : runEffects[q] \in [EffectKeys -> EffectRow]
    BY DEF TypeOK
  <2>1. CASE UNCHANGED vars
    BY <2>1, <2>a DEF vars, NoOrphanEffect, ActiveRun
  <2>2. ASSUME NEW j \in Jobs, UNCHANGED <<runs, runEffects>> PROVE Settled(j)'
    BY <2>2, <2>a DEF ActiveRun
  <2>3. ASSUME NEW j \in Jobs, ClaimJob(j) PROVE Settled(j)'
    <3>1. ASSUME NEW k \in EffectKeys PROVE runEffects'[j][k].status # "reserved"
      BY <2>3, <2>b, DoubtedEffects DEF ClaimJob, EffectRow
    <3> QED
      BY <3>1
  <2>4. ASSUME NEW j \in Jobs, NEW r \in DOMAIN runs[j], RunStep(j, r) PROVE Settled(j)'
    <3>1. ASSUME NEW k \in EffectKeys, NEW p \in Payloads, ReserveRunEffect(j, r, k, p)
          PROVE  Settled(j)'
      <4>1. /\ runEffects'[j][k].run = r /\ runs' = runs /\ ActiveRun(j, r)
            /\ \A other \in EffectKeys :
                  other # k => runEffects'[j][other] = runEffects[j][other]
        BY <3>1, <2>b DEF ReserveRunEffect, Authorized, TypeOK
      <4> QED
        BY <4>1, <2>a DEF ActiveRun
    <3>2. ASSUME NEW k \in EffectKeys, NEW outcome \in {"succeeded", "failed"},
                 FinishRunEffect(j, r, k, outcome)
          PROVE  Settled(j)'
      <4>1. /\ runEffects'[j][k].status = outcome /\ runs' = runs
            /\ \A other \in EffectKeys :
                  other # k => runEffects'[j][other] = runEffects[j][other]
        BY <3>2, <2>b DEF FinishRunEffect, TypeOK, EffectRow
      <4> QED
        BY <4>1, <2>a DEF ActiveRun
    <3>3. ASSUME NEW status, DoubtEffects(j, {r}), SetRun(j, r, status)
          PROVE  Settled(j)'
      <4>1. ASSUME NEW k \in EffectKeys, runEffects'[j][k].status = "reserved"
            PROVE  ActiveRun(j, runEffects[j][k].run) /\ runEffects[j][k].run # r
                   /\ runEffects'[j][k] = runEffects[j][k]
        BY <3>3, <2>a, <4>1, DoubtedEffects
      <4> QED
        BY <3>3, <4>1, RunAfter DEF ActiveRun
    <3> QED
      BY <2>4, <2>2, <3>1, <3>2, <3>3
      DEF RunStep, HeartbeatClaim, AppendRunEvent, CompleteClaim, ReplayCompletion,
          TerminateClaim, PauseClaim
  <2>5. ASSUME NEW j \in Jobs, JobStep(j) \/ \E r \in DOMAIN runs[j] : RunStep(j, r)
        PROVE  NoOrphanEffect'
    <3>1. Settled(j)'
      BY <2>2, <2>3, <2>4, <2>5
      DEF JobStep, CreateJob, Tick, CancelParkedJob, CancelRunningJob, SubmitOutlineReply
    <3>2. ASSUME NEW q \in Jobs, q # j PROVE Settled(q)'
      BY <2>5, <2>a, <3>2, OtherJobsUntouched DEF ActiveRun
    <3> QED
      BY <3>1, <3>2 DEF NoOrphanEffect
  <2> QED
    BY <2>1, <2>5 DEF Next
<1> QED
  BY <1>1, <1>2, TypeCorrect, OneOwnerHolds, PTL DEF Spec

-----------------------------------------------------------------------------

\* What a transaction on job j does to the three things the lifecycle shows.
LEMMA ShownByLifecycle ==
  ASSUME TypeOK, NEW j \in Jobs,
         JobStep(j) \/ \E r \in DOMAIN runs[j] : RunStep(j, r)
  PROVE  /\ [q \in Jobs |-> jobs'[q].status] =
                [[q \in Jobs |-> jobs[q].status] EXCEPT ![j] = jobs'[j].status]
         /\ [q \in Jobs |-> Len(runs'[q])] =
                [[q \in Jobs |-> Len(runs[q])] EXCEPT ![j] = Len(runs'[j])]
         /\ [q \in Jobs |-> jobs'[q].cancelRequested] =
                [[q \in Jobs |-> jobs[q].cancelRequested] EXCEPT
                    ![j] = jobs'[j].cancelRequested]
<1>1. \A q \in Jobs : q # j => jobs'[q] = jobs[q] /\ runs'[q] = runs[q]
  BY OtherJobsUntouched
<1> QED
  BY <1>1

\* ImplementsLifecycle: through every interleaving of users, workers, stale
\* workers and the clock, the job seen from the API moves only as JobLifecycle
\* allows.
THEOREM LifecycleImplemented == Spec => ImplementsLifecycle
<1> USE DEF Lifecycle!lifecycleVars
<1>1. Init => Lifecycle!Init
  BY DEF Init, AbsentJob, Lifecycle!Init
<1>2. TypeOK /\ CancellationWins /\ [Next]_vars => [Lifecycle!Next]_Lifecycle!lifecycleVars
  <2> SUFFICES ASSUME TypeOK, CancellationWins, [Next]_vars
               PROVE  [Lifecycle!Next]_Lifecycle!lifecycleVars
    OBVIOUS
  <2> DEFINE phase == [j \in Jobs |-> jobs[j].status]
             attempt == [j \in Jobs |-> Len(runs[j])]
             stopping == [j \in Jobs |-> jobs[j].cancelRequested]
             Shown == Lifecycle!Next \/ UNCHANGED <<phase, attempt, stopping>>
  <2>a. \A j \in Jobs : jobs[j] \in JobRow /\ runs[j] \in Seq(RunStatus)
    BY DEF TypeOK
  <2>1. CASE UNCHANGED vars
    BY <2>1 DEF vars
  <2>2. ASSUME NEW j \in Jobs, NEW k \in RequestKeys, CreateJob(j, k) PROVE Shown
    <3>1. /\ jobs[j].status = "absent" /\ jobs'[j].status = "queued"
          /\ jobs'[j].cancelRequested = jobs[j].cancelRequested /\ runs' = runs
      <4>1. jobs[j].status = "absent" /\ runs' = runs
        BY <2>2 DEF CreateJob
      <4>2. jobs[j].cancelRequested = FALSE
        BY <4>1, <2>a DEF CancellationWins, JobRow
      <4>3. jobs'[j].status = "queued" /\ jobs'[j].cancelRequested = FALSE
        BY <2>2 DEF CreateJob, AbsentJob, TypeOK
      <4> QED
        BY <4>1, <4>2, <4>3
    <3>2. JobStep(j)
      BY <2>2 DEF JobStep
    <3>3. Lifecycle!Accept(j)
      BY <3>1, <3>2, ShownByLifecycle DEF Lifecycle!Accept, Lifecycle!Move
    <3> QED
      BY <3>3 DEF Lifecycle!Next
  <2>3. ASSUME NEW j \in Jobs, ClaimJob(j) PROVE Shown
    <3>1. jobs[j].status \in {"queued", "running"} /\ ~jobs[j].cancelRequested
      BY <2>3 DEF ClaimJob, Claimable
    <3>2. JobStep(j)
      BY <2>3 DEF JobStep
    <3>a. /\ jobs'[j].status = "running" /\ Len(runs'[j]) = Len(runs[j]) + 1
          /\ jobs'[j].cancelRequested = jobs[j].cancelRequested
      BY <2>3, ClaimAfter
    <3>b. /\ phase' = [phase EXCEPT ![j] = "running"]
          /\ attempt' = [attempt EXCEPT ![j] = Len(runs[j]) + 1]
          /\ stopping' = [stopping EXCEPT ![j] = jobs[j].cancelRequested]
      BY <3>2, <3>a, ShownByLifecycle
    <3>3. Lifecycle!Start(j)
      BY <3>1, <3>b DEF Lifecycle!Start, Lifecycle!Move
    <3> QED
      BY <3>3 DEF Lifecycle!Next
  <2>4. ASSUME NEW j \in Jobs, CancelParkedJob(j) \/ CancelRunningJob(j) PROVE Shown
    <3>1. /\ jobs'[j].cancelRequested = TRUE /\ runs' = runs
          /\ \/ jobs[j].status \in {"queued", "awaiting_input"} /\ jobs'[j].status = "cancelled"
             \/ jobs[j].status = "running" /\ jobs'[j].status = "running"
      BY <2>4, <2>a DEF CancelParkedJob, CancelRunningJob, TypeOK, JobRow
    <3>2. JobStep(j)
      BY <2>4 DEF JobStep
    <3>3. Lifecycle!Stop(j)
      BY <3>1, <3>2, ShownByLifecycle DEF Lifecycle!Stop, Lifecycle!Move
    <3> QED
      BY <3>3 DEF Lifecycle!Next
  <2>5. ASSUME NEW j \in Jobs, NEW p \in Payloads, SubmitOutlineReply(j, p) PROVE Shown
    <3>1. /\ jobs[j].status = "awaiting_input" /\ jobs'[j].status = "queued"
          /\ jobs'[j].cancelRequested = jobs[j].cancelRequested /\ runs' = runs
      BY <2>5, <2>a DEF SubmitOutlineReply, TypeOK, JobRow
    <3>2. JobStep(j)
      BY <2>5 DEF JobStep
    <3>3. Lifecycle!Answer(j)
      BY <3>1, <3>2, ShownByLifecycle DEF Lifecycle!Answer, Lifecycle!Move
    <3> QED
      BY <3>3 DEF Lifecycle!Next
  <2>6. ASSUME NEW j \in Jobs, JobStep(j) \/ \E r \in DOMAIN runs[j] : RunStep(j, r),
               jobs'[j].status = jobs[j].status, runs'[j] = runs[j],
               jobs'[j].cancelRequested = jobs[j].cancelRequested
        PROVE  Shown
    BY <2>6, OtherJobsUntouched
  <2>7. ASSUME NEW j \in Jobs, NEW r \in DOMAIN runs[j], RunStep(j, r) PROVE Shown
    <3>1. ASSUME UNCHANGED <<jobs, runs>> PROVE Shown
      BY <2>7, <2>6, <3>1
    <3>2. CASE HeartbeatClaim(j, r)
      <4>1. /\ jobs'[j].status = jobs[j].status /\ runs' = runs
            /\ jobs'[j].cancelRequested = jobs[j].cancelRequested
        BY <3>2, <2>a DEF HeartbeatClaim, TypeOK, JobRow
      <4> QED
        BY <2>6, <2>7, <4>1
    <3>3. ASSUME NEW k \in ProgressKeys, NEW p \in Payloads, AppendRunEvent(j, r, k, p)
          PROVE  Shown
      <4>1. /\ jobs'[j].status = jobs[j].status /\ runs' = runs
            /\ jobs'[j].cancelRequested = jobs[j].cancelRequested
        BY <3>3, <2>a DEF AppendRunEvent, TypeOK, JobRow
      <4> QED
        BY <2>6, <2>7, <4>1
    <3>4. ASSUME NEW outcome \in TerminalStatus, NEW status,
                 jobs[j].status = "running", jobs[j].cancelRequested => outcome = "cancelled",
                 ReleaseJob(j, outcome), SetRun(j, r, status)
          PROVE  Shown
      <4>1. /\ jobs'[j].status = outcome /\ Len(runs'[j]) = Len(runs[j])
            /\ jobs'[j].cancelRequested = jobs[j].cancelRequested
        BY <3>4, JobRowAfter, RunAfter DEF JobStatus
      <4>2. Lifecycle!Finish(j, outcome)
        BY <2>7, <3>4, <4>1, ShownByLifecycle DEF Lifecycle!Finish, Lifecycle!Move
      <4> QED
        BY <4>2 DEF Lifecycle!Next, Lifecycle!Finished, TerminalStatus
    <3>5. ASSUME NEW memory \in BOOLEAN, CompleteClaim(j, r, memory) PROVE Shown
      BY <3>4, <3>5 DEF CompleteClaim, Authorized, HoldsLease, OwnsRow, TerminalStatus
    <3>6. ASSUME NEW outcome \in {"cancelled", "failed"}, TerminateClaim(j, r, outcome)
          PROVE  Shown
      BY <3>4, <3>6 DEF TerminateClaim, HoldsLease, OwnsRow, TerminalStatus
    <3>7. ASSUME NEW i \in Interrupts, PauseClaim(j, r, i) PROVE Shown
      <4>1. /\ jobs[j].status = "running" /\ ~jobs[j].cancelRequested
            /\ jobs'[j].status = "awaiting_input" /\ Len(runs'[j]) = Len(runs[j])
            /\ jobs'[j].cancelRequested = jobs[j].cancelRequested
        BY <3>7, JobRowAfter, RunAfter
        DEF PauseClaim, Authorized, HoldsLease, OwnsRow, JobStatus
      <4>2. Lifecycle!Ask(j)
        BY <2>7, <4>1, ShownByLifecycle DEF Lifecycle!Ask, Lifecycle!Move
      <4> QED
        BY <4>2 DEF Lifecycle!Next
    <3> HIDE DEF Shown
    <3> QED
      BY <2>7, <3>1, <3>2, <3>3, <3>5, <3>6, <3>7
      DEF RunStep, ReserveRunEffect, FinishRunEffect, ReplayCompletion
  <2>8. ASSUME NEW j \in Jobs, Tick(j) PROVE Shown
    <3>1. /\ jobs'[j].status = jobs[j].status /\ runs' = runs
          /\ jobs'[j].cancelRequested = jobs[j].cancelRequested
      BY <2>8, <2>a DEF Tick, TypeOK, JobRow
    <3> QED
      BY <2>6, <2>8, <3>1 DEF JobStep
  <2>9. ASSUME Next PROVE Shown
    <3> HIDE DEF Shown
    <3> QED
      BY <2>2, <2>3, <2>4, <2>5, <2>7, <2>8, <2>9 DEF Next, JobStep
  <2> QED
    BY <2>1, <2>9
<1> QED
  BY <1>1, <1>2, TypeCorrect, CancellationWinsHolds, PTL
  DEF Spec, ImplementsLifecycle, Lifecycle!Spec

-----------------------------------------------------------------------------
(* The records: the event log a client replays, the article, the question   *)
(* and the spans of a job, and what no later call may change.  They rest on *)
(* the types and on the ownership of a job by its latest run.               *)

\* A run that holds the lease, or is running, is the latest one of its job, and it
\* is running.
LEMMA HolderIsLatest ==
  ASSUME TypeOK, OneOwner, NEW j \in Jobs, NEW r \in DOMAIN runs[j], HoldsLease(j, r)
  PROVE  /\ r = Len(runs[j]) /\ r \in Nat /\ r # NoRun /\ runs[j][r] = "running"
         /\ jobs[j].status = "running"
<1>1. runs[j] \in Seq(RunStatus) /\ DOMAIN runs[j] = 1 .. Len(runs[j])
  BY DEF TypeOK
<1>2. jobs[j].status = "running" /\ jobs[j].leaseToken = r
  BY DEF HoldsLease, OwnsRow
<1>3. runs[j][r] = "running" /\ r = Len(runs[j])
  BY <1>2 DEF OneOwner, OwnsRow
<1> QED
  BY <1>1, <1>2, <1>3 DEF NoRun

\* Columns of the job row that the row updates leave alone.
LEMMA JobRowColumns ==
  ASSUME TypeOK, NEW j \in Jobs
  PROVE  /\ \A k \in RequestKeys : CreateJob(j, k) =>
              /\ jobs'[j].status = "queued" /\ ~jobs'[j].cancelRequested
              /\ jobs'[j].leaseToken = NoRun /\ jobs'[j].lease = 0
              /\ jobs'[j].nextEventSeq = 0
         /\ Tick(j) =>
              /\ jobs'[j].status = jobs[j].status
              /\ jobs'[j].cancelRequested = jobs[j].cancelRequested
              /\ jobs'[j].leaseToken = jobs[j].leaseToken
              /\ jobs'[j].lease = jobs[j].lease - 1
              /\ jobs'[j].nextEventSeq = jobs[j].nextEventSeq
         /\ CancelParkedJob(j) =>
              /\ jobs'[j].status = "cancelled" /\ jobs'[j].cancelRequested
              /\ jobs'[j].leaseToken = NoRun /\ jobs'[j].lease = 0
              /\ jobs'[j].nextEventSeq = jobs[j].nextEventSeq + 1
         /\ CancelRunningJob(j) =>
              /\ jobs'[j].status = jobs[j].status /\ jobs'[j].cancelRequested
              /\ jobs'[j].leaseToken = jobs[j].leaseToken
              /\ jobs'[j].lease = jobs[j].lease
              /\ jobs'[j].nextEventSeq = jobs[j].nextEventSeq
         /\ \A p \in Payloads : SubmitOutlineReply(j, p) =>
              /\ jobs'[j].status = "queued"
              /\ jobs'[j].cancelRequested = jobs[j].cancelRequested
              /\ jobs'[j].leaseToken = jobs[j].leaseToken
              /\ jobs'[j].lease = jobs[j].lease
              /\ jobs'[j].nextEventSeq = jobs[j].nextEventSeq
         /\ \A r \in DOMAIN runs[j] : HeartbeatClaim(j, r) =>
              /\ jobs'[j].status = jobs[j].status
              /\ jobs'[j].cancelRequested = jobs[j].cancelRequested
              /\ jobs'[j].leaseToken = jobs[j].leaseToken
              /\ jobs'[j].lease = LeaseDuration
              /\ jobs'[j].nextEventSeq = jobs[j].nextEventSeq
         /\ \A r \in DOMAIN runs[j], k \in ProgressKeys, p \in Payloads :
              AppendRunEvent(j, r, k, p) =>
                /\ jobs'[j].status = jobs[j].status
                /\ jobs'[j].cancelRequested = jobs[j].cancelRequested
                /\ jobs'[j].leaseToken = jobs[j].leaseToken
                /\ jobs'[j].lease = jobs[j].lease
                /\ jobs'[j].nextEventSeq = jobs[j].nextEventSeq + 1
<1>a. jobs[j] \in JobRow /\ jobs \in [Jobs -> JobRow]
  BY DEF TypeOK
<1>1. ASSUME NEW k \in RequestKeys, CreateJob(j, k)
      PROVE  /\ jobs'[j].status = "queued" /\ ~jobs'[j].cancelRequested
             /\ jobs'[j].leaseToken = NoRun /\ jobs'[j].lease = 0
             /\ jobs'[j].nextEventSeq = 0
  BY <1>1, <1>a DEF CreateJob, AbsentJob
<1>2. ASSUME Tick(j)
      PROVE  /\ jobs'[j].status = jobs[j].status
             /\ jobs'[j].cancelRequested = jobs[j].cancelRequested
             /\ jobs'[j].leaseToken = jobs[j].leaseToken
             /\ jobs'[j].lease = jobs[j].lease - 1
             /\ jobs'[j].nextEventSeq = jobs[j].nextEventSeq
  BY <1>2, <1>a DEF Tick, JobRow
<1>3. ASSUME CancelParkedJob(j)
      PROVE  /\ jobs'[j].status = "cancelled" /\ jobs'[j].cancelRequested
             /\ jobs'[j].leaseToken = NoRun /\ jobs'[j].lease = 0
             /\ jobs'[j].nextEventSeq = jobs[j].nextEventSeq + 1
  BY <1>3, <1>a DEF CancelParkedJob, JobRow
<1>4. ASSUME CancelRunningJob(j)
      PROVE  /\ jobs'[j].status = jobs[j].status /\ jobs'[j].cancelRequested
             /\ jobs'[j].leaseToken = jobs[j].leaseToken
             /\ jobs'[j].lease = jobs[j].lease
             /\ jobs'[j].nextEventSeq = jobs[j].nextEventSeq
  BY <1>4, <1>a DEF CancelRunningJob, JobRow
<1>5. ASSUME NEW p \in Payloads, SubmitOutlineReply(j, p)
      PROVE  /\ jobs'[j].status = "queued"
             /\ jobs'[j].cancelRequested = jobs[j].cancelRequested
             /\ jobs'[j].leaseToken = jobs[j].leaseToken
             /\ jobs'[j].lease = jobs[j].lease
             /\ jobs'[j].nextEventSeq = jobs[j].nextEventSeq
  BY <1>5, <1>a DEF SubmitOutlineReply, JobRow
<1>6. ASSUME NEW r \in DOMAIN runs[j], HeartbeatClaim(j, r)
      PROVE  /\ jobs'[j].status = jobs[j].status
             /\ jobs'[j].cancelRequested = jobs[j].cancelRequested
             /\ jobs'[j].leaseToken = jobs[j].leaseToken
             /\ jobs'[j].lease = LeaseDuration
             /\ jobs'[j].nextEventSeq = jobs[j].nextEventSeq
  BY <1>6, <1>a DEF HeartbeatClaim, JobRow
<1>7. ASSUME NEW r \in DOMAIN runs[j], NEW k \in ProgressKeys, NEW p \in Payloads,
             AppendRunEvent(j, r, k, p)
      PROVE  /\ jobs'[j].status = jobs[j].status
             /\ jobs'[j].cancelRequested = jobs[j].cancelRequested
             /\ jobs'[j].leaseToken = jobs[j].leaseToken
             /\ jobs'[j].lease = jobs[j].lease
             /\ jobs'[j].nextEventSeq = jobs[j].nextEventSeq + 1
  BY <1>7, <1>a DEF AppendRunEvent, JobRow
<1> QED
  BY <1>1, <1>2, <1>3, <1>4, <1>5, <1>6, <1>7

-----------------------------------------------------------------------------
(* The event log                                                           *)

\* EventLogIsSound, one job at a time.
LogIsNumbered(j) ==
    /\ {e.seq : e \in jobEvents[j]} = 0 .. jobs[j].nextEventSeq - 1
    /\ \A e, f \in jobEvents[j] :
          e.seq = f.seq \/ (e.type = f.type /\ e.key = f.key) => e = f

LogIsOrdered(j) ==
    \A e, f \in jobEvents[j] : e.seq < f.seq /\ f.run # NoRun => e.run <= f.run

LogEnds(j) ==
    IF jobs[j].status \in TerminalStatus
    THEN \E e \in jobEvents[j] :
            /\ {x \in jobEvents[j] : x.type \in TerminalEvent} = {e}
            /\ e.type = EventOfStatus(jobs[j].status)
            /\ e.seq = jobs[j].nextEventSeq - 1
    ELSE \A e \in jobEvents[j] : e.type \notin TerminalEvent

\* What makes it inductive: no event is of a later attempt than the latest, an
\* interrupt that was announced is on record, and a job that does not exist has
\* no log.
EventsAreExplained(j) ==
    /\ \A e \in jobEvents[j] : e.run <= Len(runs[j])
    /\ \A i \in Interrupts :
          HasEvent(j, "outline_ready", i) => jobInterrupts[j][i].status # "absent"
    /\ jobs[j].status = "absent" => jobs[j].nextEventSeq = 0

LogOfJob(j) == LogIsNumbered(j) /\ LogIsOrdered(j) /\ LogEnds(j) /\ EventsAreExplained(j)

\* Cutting the log by jobs loses nothing.
LEMMA LogByJobs ==
  EventLogIsSound <=> \A j \in Jobs : LogIsNumbered(j) /\ LogIsOrdered(j) /\ LogEnds(j)
<1>1. LogHasNoGaps <=> \A j \in Jobs : LogIsNumbered(j)
  BY DEF LogHasNoGaps, LogIsNumbered
<1>2. LogInAttemptOrder <=> \A j \in Jobs : LogIsOrdered(j)
  BY DEF LogInAttemptOrder, LogIsOrdered
<1>3. TerminalEventIsLast <=> \A j \in Jobs : LogEnds(j)
  <2>1. ASSUME NEW j \in Jobs
        PROVE  LogEnds(j) <=>
                 LET ends == {e \in jobEvents[j] : e.type \in TerminalEvent} IN
                 IF jobs[j].status \in TerminalStatus
                 THEN \E e \in ends :
                         /\ ends = {e}
                         /\ e.type = EventOfStatus(jobs[j].status)
                         /\ e.seq = jobs[j].nextEventSeq - 1
                 ELSE ends = {}
    BY DEF LogEnds
  <2> QED
    BY <2>1 DEF TerminalEventIsLast
<1> QED
  BY <1>1, <1>2, <1>3 DEF EventLogIsSound

\* A row of the log: the columns are numbers where they are compared.
LEMMA EventColumns ==
  ASSUME TypeOK, NEW j \in Jobs
  PROVE  /\ \A e \in jobEvents[j] : e.seq \in Nat /\ e.run \in Nat
         /\ jobs[j].nextEventSeq \in Nat /\ Len(runs[j]) \in Nat
<1>1. jobEvents[j] \subseteq EventRow /\ jobs[j] \in JobRow /\ runs[j] \in Seq(RunStatus)
  BY DEF TypeOK
<1> QED
  BY <1>1 DEF EventRow, JobRow

\* An event that is new under its key, and of the latest attempt or of none, keeps
\* the log numbered and ordered.
LEMMA EventAppended ==
  ASSUME TypeOK, NEW j \in Jobs, LogIsNumbered(j), LogIsOrdered(j), EventsAreExplained(j),
         NEW type, NEW key, NEW r, NEW p,
         InsertEvent(j, type, key, r, p), ~HasEvent(j, type, key),
         r = NoRun \/ r = Len(runs[j]),
         jobs'[j].nextEventSeq = jobs[j].nextEventSeq + 1, Len(runs'[j]) = Len(runs[j])
  PROVE  /\ LogIsNumbered(j)' /\ LogIsOrdered(j)'
         /\ \A e \in jobEvents'[j] : e.run <= Len(runs'[j])
         /\ jobEvents'[j] = jobEvents[j] \cup {EventAt(j, type, key, r, p)}
<1> DEFINE new == EventAt(j, type, key, r, p)
           n == jobs[j].nextEventSeq
<1>1. jobEvents'[j] = jobEvents[j] \cup {new}
  BY DEF InsertEvent, TypeOK
<1>2. new.seq = n /\ new.type = type /\ new.key = key /\ new.run = r
  BY DEF EventAt
<1>3. /\ \A e \in jobEvents[j] : e.seq \in Nat /\ e.run \in Nat
      /\ n \in Nat /\ Len(runs[j]) \in Nat
  BY EventColumns
<1>4. \A e \in jobEvents[j] : e.seq \in 0 .. n - 1
  BY DEF LogIsNumbered
<1>5. r \in Nat /\ r <= Len(runs[j])
  BY <1>3 DEF NoRun
<1> HIDE DEF new, n
<1>6. {e.seq : e \in jobEvents'[j]} = {e.seq : e \in jobEvents[j]} \cup {n}
  BY <1>1, <1>2
<1>7. 0 .. n - 1 \cup {n} = 0 .. jobs'[j].nextEventSeq - 1
  BY <1>3 DEF n
<1>8. {e.seq : e \in jobEvents'[j]} = 0 .. jobs'[j].nextEventSeq - 1
  BY <1>6, <1>7 DEF LogIsNumbered, n
<1>9. \A e, f \in jobEvents'[j] :
         e.seq = f.seq \/ (e.type = f.type /\ e.key = f.key) => e = f
  <2>1. ASSUME NEW e \in jobEvents[j]
        PROVE  e.seq # new.seq /\ ~(e.type = new.type /\ e.key = new.key)
    BY <1>2, <1>3, <1>4 DEF HasEvent
  <2> QED
    BY <1>1, <2>1 DEF LogIsNumbered
<1>10. LogIsOrdered(j)'
  <2>1. ASSUME NEW e \in jobEvents[j] PROVE e.seq < new.seq /\ (r # NoRun => e.run <= r)
    BY <1>2, <1>3, <1>4 DEF EventsAreExplained
  <2>2. ASSUME NEW e \in jobEvents'[j], NEW f \in jobEvents'[j], e.seq < f.seq, f.run # NoRun
        PROVE  e.run <= f.run
    <3>1. CASE f = new
      BY <1>1, <1>2, <1>3, <1>5, <2>1, <2>2, <3>1
    <3>2. CASE f # new
      <4>1. f \in jobEvents[j] /\ e # new
        BY <1>1, <1>2, <1>3, <2>1, <2>2, <3>2
      <4> QED
        BY <1>1, <2>2, <4>1 DEF LogIsOrdered
    <3> QED
      BY <3>1, <3>2
  <2> QED
    BY <2>2 DEF LogIsOrdered
<1>11. \A e \in jobEvents'[j] : e.run <= Len(runs'[j])
  BY <1>1, <1>2, <1>5 DEF EventsAreExplained
<1> QED
  BY <1>1, <1>8, <1>9, <1>10, <1>11 DEF LogIsNumbered, new

\* A step that adds no event, opens no question unannounced and neither starts nor
\* ends the job keeps its log sound.
LEMMA LogKept ==
  ASSUME TypeOK, NEW j \in Jobs, LogOfJob(j),
         jobEvents'[j] = jobEvents[j],
         jobs'[j].nextEventSeq = jobs[j].nextEventSeq,
         \/ jobs'[j].status = jobs[j].status
         \/ /\ jobs[j].status \notin TerminalStatus
            /\ jobs'[j].status \notin TerminalStatus \cup {"absent"},
         Len(runs'[j]) \in {Len(runs[j]), Len(runs[j]) + 1},
         \A i \in Interrupts :
            jobInterrupts[j][i].status # "absent" => jobInterrupts'[j][i].status # "absent"
  PROVE  LogOfJob(j)'
<1>1. \A e \in jobEvents[j] : e.run \in Nat
  BY EventColumns
<1>2. LogIsNumbered(j)' /\ LogIsOrdered(j)'
  BY DEF LogOfJob, LogIsNumbered, LogIsOrdered
<1>3. LogEnds(j)'
  BY DEF LogOfJob, LogEnds
<1>4. EventsAreExplained(j)'
  <2>1. Len(runs[j]) \in Nat
    BY EventColumns
  <2> QED
    BY <1>1, <2>1 DEF LogOfJob, EventsAreExplained, HasEvent
<1> QED
  BY <1>2, <1>3, <1>4 DEF LogOfJob

\* The transactions that end a job write its terminal event with its status.
LEMMA LogEnded ==
  ASSUME TypeOK, NEW j \in Jobs, LogOfJob(j),
         jobs[j].status \notin TerminalStatus \cup {"absent"},
         NEW status \in TerminalStatus, jobs'[j].status = status,
         jobs'[j].nextEventSeq = jobs[j].nextEventSeq + 1,
         NEW r, r = NoRun \/ r = Len(runs[j]),
         InsertEvent(j, EventOfStatus(status), None, r, None),
         Len(runs'[j]) = Len(runs[j]),
         \A i \in Interrupts :
            jobInterrupts[j][i].status # "absent" => jobInterrupts'[j][i].status # "absent"
  PROVE  LogOfJob(j)'
<1> DEFINE type == EventOfStatus(status)
           new == EventAt(j, type, None, r, None)
<1>1. type \in TerminalEvent
  BY DEF EventOfStatus, TerminalStatus, TerminalEvent
<1>2. \A e \in jobEvents[j] : e.type \notin TerminalEvent
  BY DEF LogOfJob, LogEnds
<1> HIDE DEF type
<1>3. ~HasEvent(j, type, None)
  BY <1>1, <1>2 DEF HasEvent
<1>4. /\ LogIsNumbered(j)' /\ LogIsOrdered(j)'
      /\ \A e \in jobEvents'[j] : e.run <= Len(runs'[j])
      /\ jobEvents'[j] = jobEvents[j] \cup {new}
  BY <1>3, EventAppended DEF LogOfJob, type
<1>5. new.seq = jobs[j].nextEventSeq /\ new.type = type /\ new.key = None
  BY DEF EventAt
<1> HIDE DEF new
<1>6. LogEnds(j)'
  <2>1. {x \in jobEvents'[j] : x.type \in TerminalEvent} = {new}
    BY <1>1, <1>2, <1>4, <1>5
  <2>2. new.seq = jobs'[j].nextEventSeq - 1
    BY <1>5, EventColumns
  <2> QED
    BY <1>4, <1>5, <2>1, <2>2 DEF LogEnds, type
<1>7. EventsAreExplained(j)'
  <2>1. "outline_ready" # type
    BY <1>1 DEF TerminalEvent
  <2>2. \A i \in Interrupts : HasEvent(j, "outline_ready", i)' => HasEvent(j, "outline_ready", i)
    BY <1>4, <1>5, <2>1 DEF HasEvent
  <2>3. jobs'[j].status # "absent"
    BY DEF TerminalStatus
  <2> QED
    BY <1>4, <2>2, <2>3 DEF LogOfJob, EventsAreExplained
<1> QED
  BY <1>4, <1>6, <1>7 DEF LogOfJob

\* A row in the middle of a job: neither the job nor its log ends with it.
LEMMA LogContinued ==
  ASSUME TypeOK, NEW j \in Jobs, LogOfJob(j),
         jobs[j].status \notin TerminalStatus \cup {"absent"},
         jobs'[j].status \notin TerminalStatus \cup {"absent"},
         jobs'[j].nextEventSeq = jobs[j].nextEventSeq + 1,
         NEW type \in {"progress", "outline_ready"}, NEW key, NEW p,
         ~HasEvent(j, type, key),
         InsertEvent(j, type, key, Len(runs[j]), p),
         Len(runs'[j]) = Len(runs[j]),
         \A i \in Interrupts :
            jobInterrupts[j][i].status # "absent" \/ (type = "outline_ready" /\ i = key)
               => jobInterrupts'[j][i].status # "absent"
  PROVE  LogOfJob(j)'
<1> DEFINE new == EventAt(j, type, key, Len(runs[j]), p)
<1>1. /\ LogIsNumbered(j)' /\ LogIsOrdered(j)'
      /\ \A e \in jobEvents'[j] : e.run <= Len(runs'[j])
      /\ jobEvents'[j] = jobEvents[j] \cup {new}
  BY EventAppended DEF LogOfJob
<1>2. new.type = type /\ new.key = key
  BY DEF EventAt
<1> HIDE DEF new
<1>3. LogEnds(j)'
  BY <1>1, <1>2 DEF LogOfJob, LogEnds, TerminalEvent
<1>4. EventsAreExplained(j)'
  BY <1>1, <1>2 DEF LogOfJob, EventsAreExplained, HasEvent
<1> QED
  BY <1>1, <1>3, <1>4 DEF LogOfJob

\* Interrupts are never deleted, and the three transactions that write them only
\* move their status.
LEMMA InterruptsAfter ==
  ASSUME TypeOK, NEW j \in Jobs
  PROVE  /\ CancelParkedJob(j) =>
              \A i \in Interrupts :
                /\ jobInterrupts[j][i].status = "pending" =>
                     jobInterrupts'[j][i].status = "cancelled"
                /\ jobInterrupts[j][i].status # "pending" =>
                     jobInterrupts'[j][i] = jobInterrupts[j][i]
         /\ \A p \in Payloads : SubmitOutlineReply(j, p) =>
              \E i \in PendingInterrupts(j) :
                /\ jobInterrupts'[j][i].status = "replied"
                /\ \A k \in Interrupts :
                      k # i => jobInterrupts'[j][k] = jobInterrupts[j][k]
         /\ \A r \in DOMAIN runs[j], i \in Interrupts : PauseClaim(j, r, i) =>
                /\ jobInterrupts'[j][i].status = "pending" /\ jobInterrupts'[j][i].run = r
                /\ \A k \in Interrupts :
                      k # i => jobInterrupts'[j][k] = jobInterrupts[j][k]
<1>a. jobInterrupts[j] \in [Interrupts -> InterruptRow]
  BY DEF TypeOK
<1>b. \A i \in Interrupts : \A v : [jobInterrupts[j][i] EXCEPT !.status = v].status = v
  BY <1>a DEF InterruptRow
<1>1. ASSUME CancelParkedJob(j), NEW i \in Interrupts
      PROVE  /\ jobInterrupts[j][i].status = "pending" =>
                  jobInterrupts'[j][i].status = "cancelled"
             /\ jobInterrupts[j][i].status # "pending" =>
                  jobInterrupts'[j][i] = jobInterrupts[j][i]
  BY <1>1, <1>b DEF CancelParkedJob, TypeOK
<1>2. ASSUME NEW p \in Payloads, SubmitOutlineReply(j, p)
      PROVE  \E i \in PendingInterrupts(j) :
                /\ jobInterrupts'[j][i].status = "replied"
                /\ \A k \in Interrupts :
                      k # i => jobInterrupts'[j][k] = jobInterrupts[j][k]
  <2>1. PICK i \in PendingInterrupts(j) :
          jobInterrupts' = [jobInterrupts EXCEPT ![j][i].status = "replied"]
    BY <1>2 DEF SubmitOutlineReply
  <2>2. i \in Interrupts
    BY DEF PendingInterrupts
  <2>3. jobInterrupts'[j] =
          [jobInterrupts[j] EXCEPT ![i] = [jobInterrupts[j][i] EXCEPT !.status = "replied"]]
    BY <2>1 DEF TypeOK
  <2>4. /\ jobInterrupts'[j][i].status = "replied"
        /\ \A k \in Interrupts : k # i => jobInterrupts'[j][k] = jobInterrupts[j][k]
    BY <2>2, <2>3, <1>a, <1>b
  <2> QED
    BY <2>4
<1>3. ASSUME NEW r \in DOMAIN runs[j], NEW i \in Interrupts, PauseClaim(j, r, i)
      PROVE  /\ jobInterrupts'[j][i].status = "pending" /\ jobInterrupts'[j][i].run = r
             /\ \A k \in Interrupts :
                   k # i => jobInterrupts'[j][k] = jobInterrupts[j][k]
  BY <1>3, <1>a DEF PauseClaim, TypeOK
<1> QED
  BY <1>1, <1>2, <1>3

\* EventLogIsSound: whatever workers, stale workers, users and the clock do, the log
\* a client replays has no gap and no duplicate, follows the attempts and ends with
\* the job.
THEOREM EventLogIsSoundHolds == Spec => []EventLogIsSound
<1> DEFINE Inv == \A j \in Jobs : LogOfJob(j)
<1>1. Init => Inv
  BY DEF Init, LogOfJob, LogIsNumbered, LogIsOrdered, LogEnds, EventsAreExplained,
         HasEvent, AbsentJob, TerminalStatus
<1>2. TypeOK /\ OneOwner /\ Inv /\ [Next]_vars => Inv'
  <2> SUFFICES ASSUME TypeOK, OneOwner, Inv, [Next]_vars PROVE Inv'
    OBVIOUS
  <2>a. \A q \in Jobs : LogOfJob(q)
    OBVIOUS
  <2> HIDE DEF Inv
  <2>1. CASE UNCHANGED vars
    BY <2>1, <2>a DEF vars, Inv, LogOfJob, LogIsNumbered, LogIsOrdered, LogEnds,
                      EventsAreExplained, HasEvent
  <2>2. ASSUME NEW j \in Jobs, NEW k \in RequestKeys, CreateJob(j, k) PROVE LogOfJob(j)'
    <3>1. jobs[j].status = "absent" /\ jobs[j].nextEventSeq = 0
      BY <2>2, <2>a DEF CreateJob, LogOfJob, EventsAreExplained
    <3>2. jobs'[j].status = "queued" /\ jobs'[j].nextEventSeq = 0
      BY <2>2, JobRowColumns
    <3> QED
      BY <2>2, <2>a, <3>1, <3>2, LogKept DEF CreateJob, TerminalStatus
  <2>3. ASSUME NEW j \in Jobs, ClaimJob(j) PROVE LogOfJob(j)'
    BY <2>3, <2>a, LogKept, ClaimAfter DEF ClaimJob, Claimable, TerminalStatus
  <2>4. ASSUME NEW j \in Jobs, Tick(j) \/ CancelRunningJob(j) PROVE LogOfJob(j)'
    BY <2>4, <2>a, LogKept, JobRowColumns DEF Tick, CancelRunningJob
  <2>5. ASSUME NEW j \in Jobs, CancelParkedJob(j) PROVE LogOfJob(j)'
    <3>1. EventOfStatus("cancelled") = "cancelled" /\ "cancelled" \in TerminalStatus
      BY DEF EventOfStatus, TerminalStatus
    <3>2. \A i \in Interrupts :
            jobInterrupts[j][i].status # "absent" => jobInterrupts'[j][i].status # "absent"
      BY <2>5, InterruptsAfter
    <3>3. /\ jobs[j].status \notin TerminalStatus \cup {"absent"}
          /\ jobs'[j].status = "cancelled"
          /\ jobs'[j].nextEventSeq = jobs[j].nextEventSeq + 1
      BY <2>5, JobRowColumns DEF CancelParkedJob, TerminalStatus
    <3>4. InsertEvent(j, EventOfStatus("cancelled"), None, NoRun, None) /\ UNCHANGED runs
      BY <2>5, <3>1 DEF CancelParkedJob
    <3> QED
      BY <2>a, <3>1, <3>2, <3>3, <3>4, LogEnded
  <2>6. ASSUME NEW j \in Jobs, NEW p \in Payloads, SubmitOutlineReply(j, p)
        PROVE  LogOfJob(j)'
    <3>1. \A i \in Interrupts :
            jobInterrupts[j][i].status # "absent" => jobInterrupts'[j][i].status # "absent"
      BY <2>6, InterruptsAfter
    <3> QED
      BY <2>6, <2>a, <3>1, LogKept, JobRowColumns DEF SubmitOutlineReply, TerminalStatus
  <2>7. ASSUME NEW j \in Jobs, NEW r \in DOMAIN runs[j], RunStep(j, r) PROVE LogOfJob(j)'
    <3>1. ASSUME UNCHANGED <<runs, jobEvents, jobInterrupts>>,
                 jobs'[j].status = jobs[j].status,
                 jobs'[j].nextEventSeq = jobs[j].nextEventSeq
          PROVE  LogOfJob(j)'
      BY <3>1, <2>a, LogKept
    <3>2. CASE HeartbeatClaim(j, r)
      BY <3>1, <3>2, JobRowColumns DEF HeartbeatClaim
    <3>3. ASSUME NEW k \in ProgressKeys, NEW p \in Payloads, AppendRunEvent(j, r, k, p)
          PROVE  LogOfJob(j)'
      <4>1. r = Len(runs[j]) /\ jobs[j].status = "running"
        BY <3>3, HolderIsLatest DEF AppendRunEvent, Authorized
      <4>2. jobs'[j].status = "running" /\ jobs'[j].nextEventSeq = jobs[j].nextEventSeq + 1
        BY <3>3, <4>1, JobRowColumns
      <4> QED
        BY <3>3, <2>a, <4>1, <4>2, LogContinued DEF AppendRunEvent, TerminalStatus
    <3>4. ASSUME NEW outcome \in TerminalStatus, NEW status,
                 HoldsLease(j, r), ReleaseJob(j, outcome), SetRun(j, r, status),
                 InsertEvent(j, EventOfStatus(outcome), None, r, None),
                 UNCHANGED jobInterrupts
          PROVE  LogOfJob(j)'
      <4>1. r = Len(runs[j]) /\ jobs[j].status = "running" /\ Len(runs'[j]) = Len(runs[j])
        BY <3>4, HolderIsLatest, RunAfter
      <4>2. jobs'[j].status = outcome /\ jobs'[j].nextEventSeq = jobs[j].nextEventSeq + 1
        BY <3>4, JobRowAfter DEF JobStatus
      <4> QED
        BY <3>4, <2>a, <4>1, <4>2, LogEnded DEF TerminalStatus
    <3>5. ASSUME NEW memory \in BOOLEAN, CompleteClaim(j, r, memory) PROVE LogOfJob(j)'
      BY <3>4, <3>5 DEF CompleteClaim, Authorized, EventOfStatus, TerminalStatus
    <3>6. ASSUME NEW outcome \in {"cancelled", "failed"}, TerminateClaim(j, r, outcome)
          PROVE  LogOfJob(j)'
      <4>1. TerminalEventOf(outcome) = EventOfStatus(outcome) /\ outcome \in TerminalStatus
        BY DEF TerminalEventOf, EventOfStatus, TerminalStatus
      <4> QED
        BY <3>4, <3>6, <4>1 DEF TerminateClaim
    <3>7. ASSUME NEW i \in Interrupts, PauseClaim(j, r, i) PROVE LogOfJob(j)'
      <4>1. r = Len(runs[j]) /\ jobs[j].status = "running" /\ Len(runs'[j]) = Len(runs[j])
        BY <3>7, HolderIsLatest, RunAfter DEF PauseClaim, Authorized
      <4>2. /\ jobs'[j].status = "awaiting_input"
            /\ jobs'[j].nextEventSeq = jobs[j].nextEventSeq + 1
        BY <3>7, JobRowAfter DEF PauseClaim, JobStatus
      <4>3. ~HasEvent(j, "outline_ready", i)
        BY <3>7, <2>a DEF PauseClaim, LogOfJob, EventsAreExplained
      <4>4. \A k \in Interrupts : jobInterrupts[j][k].status # "absent" \/ k = i =>
               jobInterrupts'[j][k].status # "absent"
        BY <3>7, InterruptsAfter
      <4> QED
        BY <3>7, <2>a, <4>1, <4>2, <4>3, <4>4, LogContinued DEF PauseClaim, TerminalStatus
    <3> QED
      BY <2>7, <3>1, <3>2, <3>3, <3>5, <3>6, <3>7
      DEF RunStep, ReserveRunEffect, FinishRunEffect, ReplayCompletion
  <2>8. ASSUME NEW j \in Jobs, JobStep(j) \/ \E r \in DOMAIN runs[j] : RunStep(j, r)
        PROVE  Inv'
    <3>1. LogOfJob(j)'
      BY <2>2, <2>3, <2>4, <2>5, <2>6, <2>7, <2>8 DEF JobStep
    <3>2. ASSUME NEW q \in Jobs, q # j PROVE LogOfJob(q)'
      BY <2>8, <2>a, <3>2, OtherJobsUntouched
      DEF LogOfJob, LogIsNumbered, LogIsOrdered, LogEnds, EventsAreExplained, HasEvent
    <3> QED
      BY <3>1, <3>2 DEF Inv
  <2> QED
    BY <2>1, <2>8 DEF Next
<1>3. Inv => EventLogIsSound
  BY LogByJobs DEF LogOfJob
<1> QED
  BY <1>1, <1>2, <1>3, TypeCorrect, OneOwnerHolds, PTL DEF Spec

-----------------------------------------------------------------------------
(* The article, the question and the spans of a job                        *)

\* RecordsAgree, one job at a time.
ArticleOfJob(j) ==
    /\ articles[j] # NoRun <=> jobs[j].status = "completed"
    /\ articles[j] # NoRun =>
          /\ articles[j] = Len(runs[j])
          /\ runs[j][articles[j]] = "completed"
          /\ \E e \in jobEvents[j] : e.type = "done" /\ e.run = articles[j]

QuestionOfJob(j) ==
    /\ jobs[j].status = "awaiting_input" <=> PendingInterrupts(j) # {}
    /\ \A i, k \in PendingInterrupts(j) : i = k
    /\ \A i \in PendingInterrupts(j) :
          /\ jobInterrupts[j][i].run = Len(runs[j])
          /\ \E e \in jobEvents[j] :
                e.type = "outline_ready" /\ e.key = i /\ e.run = Len(runs[j])

SpanIsExplained(j, k) ==
    traceSpans[j][k].status = "running" =>
        /\ traceSpans[j][k].run = runEffects[j][k].run
        /\ traceSpans[j][k].run = Len(runs[j])
        /\ \/ runEffects[j][k].status = "reserved"
           \/ /\ runEffects[j][k].status = "uncertain"
              /\ runs[j][traceSpans[j][k].run] = "completed"

SpansOfJob(j) == \A k \in EffectKeys : SpanIsExplained(j, k)

RecordsOfJob(j) == ArticleOfJob(j) /\ QuestionOfJob(j) /\ SpansOfJob(j)

\* Cutting the records by jobs loses nothing.
LEMMA RecordsByJobs == RecordsAgree <=> \A j \in Jobs : RecordsOfJob(j)
  BY DEF RecordsAgree, ArticleMatchesOutcome, OneOpenQuestion, OpenSpansAreExplained,
         RecordsOfJob, ArticleOfJob, QuestionOfJob, SpansOfJob, SpanIsExplained

\* What the two bulk updates do to one row.
LEMMA DoubtsAfter ==
  ASSUME TypeOK, NEW j \in Jobs, NEW R, NEW k \in EffectKeys
  PROVE  /\ DoubtEffects(j, R) =>
              /\ runEffects'[j][k].run = runEffects[j][k].run
              /\ runEffects'[j][k].request = runEffects[j][k].request
              /\ runEffects'[j][k].status =
                    IF runEffects[j][k].status = "reserved" /\ runEffects[j][k].run \in R
                    THEN "uncertain" ELSE runEffects[j][k].status
              /\ runEffects[j][k].status # "reserved" =>
                    runEffects'[j][k] = runEffects[j][k]
         /\ DoubtSpans(j, R) =>
              /\ traceSpans'[j][k].run = traceSpans[j][k].run
              /\ traceSpans'[j][k].status =
                    IF traceSpans[j][k].status = "running" /\ traceSpans[j][k].run \in R
                    THEN "uncertain" ELSE traceSpans[j][k].status
<1>1. runEffects[j][k] \in EffectRow /\ traceSpans[j][k] \in SpanRow
  BY DEF TypeOK
<1>2. ASSUME DoubtEffects(j, R)
      PROVE  runEffects'[j][k] =
               IF runEffects[j][k].status = "reserved" /\ runEffects[j][k].run \in R
               THEN [runEffects[j][k] EXCEPT !.status = "uncertain"] ELSE runEffects[j][k]
  BY <1>2 DEF DoubtEffects, TypeOK
<1>3. ASSUME DoubtSpans(j, R)
      PROVE  traceSpans'[j][k] =
               IF traceSpans[j][k].status = "running" /\ traceSpans[j][k].run \in R
               THEN [traceSpans[j][k] EXCEPT !.status = "uncertain"] ELSE traceSpans[j][k]
  BY <1>3 DEF DoubtSpans, TypeOK
<1> QED
  BY <1>1, <1>2, <1>3 DEF EffectRow, SpanRow

\* An article appears with the completion, once, and no later step of the job takes
\* the status or the runs away from it.
LEMMA ArticleStep ==
  ASSUME TypeOK, OneOwner, NEW j \in Jobs, ArticleOfJob(j),
         JobStep(j) \/ \E r \in DOMAIN runs[j] : RunStep(j, r)
  PROVE  ArticleOfJob(j)'
<1>1. ASSUME UNCHANGED articles, jobs[j].status # "completed", jobs'[j].status # "completed"
      PROVE  ArticleOfJob(j)'
  BY <1>1 DEF ArticleOfJob
<1>2. ASSUME UNCHANGED <<articles, runs, jobEvents>>, jobs'[j].status = jobs[j].status
      PROVE  ArticleOfJob(j)'
  BY <1>2 DEF ArticleOfJob
<1>3. ASSUME NEW k \in RequestKeys, CreateJob(j, k) PROVE ArticleOfJob(j)'
  BY <1>1, <1>3, JobRowColumns DEF CreateJob
<1>4. CASE ClaimJob(j)
  BY <1>1, <1>4, ClaimAfter DEF ClaimJob, Claimable
<1>5. CASE Tick(j) \/ CancelRunningJob(j)
  BY <1>2, <1>5, JobRowColumns DEF Tick, CancelRunningJob
<1>6. CASE CancelParkedJob(j)
  BY <1>1, <1>6, JobRowColumns DEF CancelParkedJob
<1>7. ASSUME NEW p \in Payloads, SubmitOutlineReply(j, p) PROVE ArticleOfJob(j)'
  BY <1>1, <1>7, JobRowColumns DEF SubmitOutlineReply
<1>8. ASSUME NEW r \in DOMAIN runs[j], RunStep(j, r) PROVE ArticleOfJob(j)'
  <2>1. CASE HeartbeatClaim(j, r)
    BY <1>2, <2>1, JobRowColumns DEF HeartbeatClaim
  <2>2. ASSUME NEW k \in ProgressKeys, NEW p \in Payloads, AppendRunEvent(j, r, k, p)
        PROVE  ArticleOfJob(j)'
    BY <1>1, <2>2, JobRowColumns DEF AppendRunEvent, Authorized, HoldsLease, OwnsRow
  <2>3. ASSUME UNCHANGED <<jobs, runs, jobEvents, articles>> PROVE ArticleOfJob(j)'
    BY <1>2, <2>3
  <2>4. ASSUME NEW memory \in BOOLEAN, CompleteClaim(j, r, memory) PROVE ArticleOfJob(j)'
    <3>1. r = Len(runs[j]) /\ r # NoRun /\ Len(runs'[j]) = r /\ runs'[j][r] = "completed"
      BY <2>4, HolderIsLatest, RunAfter DEF CompleteClaim, Authorized
    <3>2. jobs'[j].status = "completed" /\ articles'[j] = r
      BY <2>4, JobRowAfter DEF CompleteClaim, JobStatus, TerminalStatus, TypeOK
    <3>3. EventAt(j, "done", None, r, None) \in jobEvents'[j]
      BY <2>4 DEF CompleteClaim, InsertEvent, TypeOK
    <3>4. /\ EventAt(j, "done", None, r, None).type = "done"
          /\ EventAt(j, "done", None, r, None).run = r
      BY DEF EventAt
    <3> QED
      BY <3>1, <3>2, <3>3, <3>4 DEF ArticleOfJob
  <2>5. ASSUME NEW outcome \in {"cancelled", "failed"}, TerminateClaim(j, r, outcome)
        PROVE  ArticleOfJob(j)'
    BY <1>1, <2>5, JobRowAfter
    DEF TerminateClaim, HoldsLease, OwnsRow, JobStatus, TerminalStatus
  <2>6. ASSUME NEW i \in Interrupts, PauseClaim(j, r, i) PROVE ArticleOfJob(j)'
    BY <1>1, <2>6, JobRowAfter DEF PauseClaim, Authorized, HoldsLease, OwnsRow, JobStatus
  <2> QED
    BY <1>8, <2>1, <2>2, <2>3, <2>4, <2>5, <2>6
    DEF RunStep, ReserveRunEffect, FinishRunEffect, ReplayCompletion
<1> QED
  BY <1>3, <1>4, <1>5, <1>6, <1>7, <1>8 DEF JobStep

\* A question is open exactly while the job waits: it opens with the pause, and the
\* reply or the cancellation that ends the wait closes it.
LEMMA QuestionStep ==
  ASSUME TypeOK, OneOwner, NEW j \in Jobs, QuestionOfJob(j),
         JobStep(j) \/ \E r \in DOMAIN runs[j] : RunStep(j, r)
  PROVE  QuestionOfJob(j)'
<1>1. ASSUME PendingInterrupts(j)' = {}, jobs'[j].status # "awaiting_input"
      PROVE  QuestionOfJob(j)'
  BY <1>1 DEF QuestionOfJob
<1>2. ASSUME UNCHANGED jobInterrupts, jobs[j].status # "awaiting_input",
             jobs'[j].status # "awaiting_input"
      PROVE  QuestionOfJob(j)'
  BY <1>1, <1>2 DEF QuestionOfJob, PendingInterrupts
<1>3. ASSUME UNCHANGED <<jobInterrupts, runs, jobEvents>>, jobs'[j].status = jobs[j].status
      PROVE  QuestionOfJob(j)'
  BY <1>3 DEF QuestionOfJob, PendingInterrupts
<1>4. ASSUME NEW k \in RequestKeys, CreateJob(j, k) PROVE QuestionOfJob(j)'
  BY <1>2, <1>4, JobRowColumns DEF CreateJob
<1>5. CASE ClaimJob(j)
  BY <1>2, <1>5, ClaimAfter DEF ClaimJob, Claimable
<1>6. CASE Tick(j) \/ CancelRunningJob(j)
  BY <1>3, <1>6, JobRowColumns DEF Tick, CancelRunningJob
<1>7. CASE CancelParkedJob(j)
  <2>1. PendingInterrupts(j)' = {}
    BY <1>7, InterruptsAfter DEF PendingInterrupts
  <2> QED
    BY <1>1, <1>7, <2>1, JobRowColumns
<1>8. ASSUME NEW p \in Payloads, SubmitOutlineReply(j, p) PROVE QuestionOfJob(j)'
  <2>1. PICK i \in PendingInterrupts(j) :
          /\ jobInterrupts'[j][i].status = "replied"
          /\ \A k \in Interrupts : k # i => jobInterrupts'[j][k] = jobInterrupts[j][k]
    BY <1>8, InterruptsAfter
  <2>2. \A k \in PendingInterrupts(j) : k = i
    BY DEF QuestionOfJob
  <2>3. PendingInterrupts(j)' = {}
    BY <2>1, <2>2 DEF PendingInterrupts
  <2> QED
    BY <1>1, <1>8, <2>3, JobRowColumns
<1>9. ASSUME NEW r \in DOMAIN runs[j], RunStep(j, r) PROVE QuestionOfJob(j)'
  <2>1. CASE HeartbeatClaim(j, r)
    BY <1>3, <2>1, JobRowColumns DEF HeartbeatClaim
  <2>2. ASSUME NEW k \in ProgressKeys, NEW p \in Payloads, AppendRunEvent(j, r, k, p)
        PROVE  QuestionOfJob(j)'
    BY <1>2, <2>2, JobRowColumns DEF AppendRunEvent, Authorized, HoldsLease, OwnsRow
  <2>3. ASSUME UNCHANGED <<jobs, runs, jobEvents, jobInterrupts>> PROVE QuestionOfJob(j)'
    BY <1>3, <2>3
  <2>4. ASSUME NEW outcome \in TerminalStatus, HoldsLease(j, r), ReleaseJob(j, outcome),
               UNCHANGED jobInterrupts
        PROVE  QuestionOfJob(j)'
    BY <1>2, <2>4, JobRowAfter DEF HoldsLease, OwnsRow, JobStatus, TerminalStatus
  <2>5. ASSUME NEW memory \in BOOLEAN, CompleteClaim(j, r, memory) PROVE QuestionOfJob(j)'
    BY <2>4, <2>5 DEF CompleteClaim, Authorized, TerminalStatus
  <2>6. ASSUME NEW outcome \in {"cancelled", "failed"}, TerminateClaim(j, r, outcome)
        PROVE  QuestionOfJob(j)'
    BY <2>4, <2>6 DEF TerminateClaim, TerminalStatus
  <2>7. ASSUME NEW i \in Interrupts, PauseClaim(j, r, i) PROVE QuestionOfJob(j)'
    <3>1. r = Len(runs[j]) /\ Len(runs'[j]) = r
      BY <2>7, HolderIsLatest, RunAfter DEF PauseClaim, Authorized
    <3>2. jobs'[j].status = "awaiting_input"
      BY <2>7, JobRowAfter DEF PauseClaim, JobStatus
    <3>a. /\ jobInterrupts'[j][i].status = "pending" /\ jobInterrupts'[j][i].run = r
          /\ \A k \in Interrupts : k # i => jobInterrupts'[j][k] = jobInterrupts[j][k]
      BY <2>7, InterruptsAfter
    <3>c. \A k \in Interrupts : jobInterrupts[j][k].status # "pending"
      BY <2>7 DEF PauseClaim, PendingInterrupts
    <3>b. \A k : k \in PendingInterrupts(j)' <=> k = i
      BY <3>a, <3>c DEF PendingInterrupts
    <3>3. PendingInterrupts(j)' = {i} /\ jobInterrupts'[j][i].run = r
      BY <3>a, <3>b
    <3>4. EventAt(j, "outline_ready", i, r, None) \in jobEvents'[j]
      BY <2>7 DEF PauseClaim, InsertEvent, TypeOK
    <3>5. /\ EventAt(j, "outline_ready", i, r, None).type = "outline_ready"
          /\ EventAt(j, "outline_ready", i, r, None).key = i
          /\ EventAt(j, "outline_ready", i, r, None).run = r
      BY DEF EventAt
    <3> QED
      BY <3>1, <3>2, <3>3, <3>4, <3>5 DEF QuestionOfJob
  <2> QED
    BY <1>9, <2>1, <2>2, <2>3, <2>5, <2>6, <2>7
    DEF RunStep, ReserveRunEffect, FinishRunEffect, ReplayCompletion
<1> QED
  BY <1>4, <1>5, <1>6, <1>7, <1>8, <1>9 DEF JobStep

\* What the two transactions of an effect do to its rows, and to no others.
LEMMA ReserveAfter ==
  ASSUME TypeOK, NEW j \in Jobs, NEW r \in DOMAIN runs[j], NEW k \in EffectKeys,
         NEW p \in Payloads, ReserveRunEffect(j, r, k, p)
  PROVE  /\ runEffects'[j][k] = [status |-> "reserved", run |-> r, request |-> p]
         /\ traceSpans'[j][k] = [status |-> "running", run |-> r]
         /\ \A other \in EffectKeys : other # k =>
               /\ runEffects'[j][other] = runEffects[j][other]
               /\ traceSpans'[j][other] = traceSpans[j][other]
<1>1. /\ runEffects[j] \in [EffectKeys -> EffectRow]
      /\ traceSpans[j] \in [EffectKeys -> SpanRow]
  BY DEF TypeOK
<1> QED
  BY <1>1 DEF ReserveRunEffect, TypeOK

\* Settling a call keeps whose call it was and what it asked.
LEMMA FinishAfter ==
  ASSUME TypeOK, NEW j \in Jobs, NEW r \in DOMAIN runs[j], NEW k \in EffectKeys,
         NEW outcome \in {"succeeded", "failed"}, FinishRunEffect(j, r, k, outcome)
  PROVE  /\ runEffects'[j][k].status = outcome
         /\ runEffects'[j][k].run = runEffects[j][k].run
         /\ runEffects'[j][k].request = runEffects[j][k].request
         /\ traceSpans'[j][k].status = outcome
         /\ \A other \in EffectKeys : other # k =>
               /\ runEffects'[j][other] = runEffects[j][other]
               /\ traceSpans'[j][other] = traceSpans[j][other]
<1>1. /\ runEffects[j] \in [EffectKeys -> EffectRow]
      /\ traceSpans[j] \in [EffectKeys -> SpanRow]
  BY DEF TypeOK
<1>2. runEffects[j][k] \in EffectRow /\ traceSpans[j][k] \in SpanRow
  BY <1>1
<1>3. /\ runEffects'[j] = [runEffects[j] EXCEPT ![k] =
                             [runEffects[j][k] EXCEPT !.status = outcome]]
      /\ traceSpans'[j] = [traceSpans[j] EXCEPT ![k] =
                             [traceSpans[j][k] EXCEPT !.status = outcome]]
  BY DEF FinishRunEffect, TypeOK
<1> QED
  BY <1>1, <1>2, <1>3 DEF EffectRow, SpanRow

\* A span stays open only with its call, or under the latest run after it completed
\* or paused.
LEMMA SpansStep ==
  ASSUME TypeOK, OneOwner, NEW j \in Jobs, SpansOfJob(j),
         JobStep(j) \/ \E r \in DOMAIN runs[j] : RunStep(j, r)
  PROVE  SpansOfJob(j)'
<1>1. ASSUME UNCHANGED <<runs, runEffects, traceSpans>> PROVE SpansOfJob(j)'
  BY <1>1 DEF SpansOfJob, SpanIsExplained
<1>2. ASSUME ClaimJob(j), NEW k \in EffectKeys PROVE traceSpans'[j][k].status # "running"
  <2>1. traceSpans[j][k].run \in Nat
    BY DEF TypeOK, SpanRow
  <2>2. traceSpans'[j][k].status =
          IF traceSpans[j][k].status = "running" /\ traceSpans[j][k].run \in Nat
          THEN "uncertain" ELSE traceSpans[j][k].status
    <3>1. DoubtSpans(j, Nat)
      BY <1>2 DEF ClaimJob
    <3> QED
      BY <3>1, DoubtsAfter
  <2> QED
    BY <2>1, <2>2
<1>3. ASSUME NEW r \in DOMAIN runs[j], RunStep(j, r) PROVE SpansOfJob(j)'
  <2>1. ASSUME NEW k \in EffectKeys, NEW p \in Payloads, ReserveRunEffect(j, r, k, p)
        PROVE  SpansOfJob(j)'
    <3>1. r = Len(runs[j]) /\ UNCHANGED runs
      BY <2>1, HolderIsLatest DEF ReserveRunEffect, Authorized
    <3>2. /\ runEffects'[j][k] = [status |-> "reserved", run |-> r, request |-> p]
          /\ traceSpans'[j][k] = [status |-> "running", run |-> r]
          /\ \A other \in EffectKeys : other # k =>
                /\ runEffects'[j][other] = runEffects[j][other]
                /\ traceSpans'[j][other] = traceSpans[j][other]
      BY <2>1, ReserveAfter
    <3> QED
      BY <3>1, <3>2 DEF SpansOfJob, SpanIsExplained
  <2>2. ASSUME NEW k \in EffectKeys, NEW outcome \in {"succeeded", "failed"},
               FinishRunEffect(j, r, k, outcome)
        PROVE  SpansOfJob(j)'
    <3>1. UNCHANGED runs
      BY <2>2 DEF FinishRunEffect
    <3>2. /\ traceSpans'[j][k].status = outcome
          /\ \A other \in EffectKeys : other # k =>
                /\ runEffects'[j][other] = runEffects[j][other]
                /\ traceSpans'[j][other] = traceSpans[j][other]
      BY <2>2, FinishAfter
    <3>3. ASSUME NEW other \in EffectKeys, other # k PROVE SpanIsExplained(j, other)'
      BY <3>1, <3>2, <3>3 DEF SpansOfJob, SpanIsExplained
    <3>4. SpanIsExplained(j, k)'
      BY <3>2 DEF SpanIsExplained
    <3> QED
      BY <3>3, <3>4 DEF SpansOfJob
  <2>3. ASSUME HoldsLease(j, r), DoubtEffects(j, {r}), UNCHANGED traceSpans,
               SetRun(j, r, "completed"), NEW k \in EffectKeys
        PROVE  SpanIsExplained(j, k)'
    <3>1. r = Len(runs[j]) /\ Len(runs'[j]) = r /\ runs'[j][r] = "completed"
      BY <2>3, HolderIsLatest, RunAfter
    <3> QED
      BY <2>3, <3>1, DoubtsAfter DEF SpansOfJob, SpanIsExplained
  <2>4. ASSUME NEW outcome \in {"cancelled", "failed"}, TerminateClaim(j, r, outcome),
               NEW k \in EffectKeys
        PROVE  traceSpans'[j][k].status # "running"
    <3>1. HoldsLease(j, r) /\ DoubtSpans(j, {r})
      BY <2>4 DEF TerminateClaim
    <3>2. r = Len(runs[j])
      BY <3>1, HolderIsLatest
    <3>3. traceSpans'[j][k].status =
            IF traceSpans[j][k].status = "running" /\ traceSpans[j][k].run \in {r}
            THEN "uncertain" ELSE traceSpans[j][k].status
      BY <3>1, DoubtsAfter
    <3>4. SpanIsExplained(j, k)
      BY DEF SpansOfJob
    <3> QED
      BY <3>2, <3>3, <3>4 DEF SpanIsExplained
  <2>5. ASSUME NEW memory \in BOOLEAN, CompleteClaim(j, r, memory) PROVE SpansOfJob(j)'
    BY <2>3, <2>5 DEF CompleteClaim, Authorized, SpansOfJob
  <2>6. ASSUME NEW i \in Interrupts, PauseClaim(j, r, i) PROVE SpansOfJob(j)'
    BY <2>3, <2>6 DEF PauseClaim, Authorized, SpansOfJob
  <2>7. ASSUME NEW outcome \in {"cancelled", "failed"}, TerminateClaim(j, r, outcome)
        PROVE  SpansOfJob(j)'
    BY <2>4, <2>7 DEF SpansOfJob, SpanIsExplained
  <2> QED
    BY <1>1, <1>3, <2>1, <2>2, <2>5, <2>6, <2>7
    DEF RunStep, HeartbeatClaim, AppendRunEvent, ReplayCompletion
<1>4. CASE ClaimJob(j)
  BY <1>2, <1>4 DEF SpansOfJob, SpanIsExplained
<1> QED
  BY <1>1, <1>3, <1>4
  DEF JobStep, CreateJob, Tick, CancelParkedJob, CancelRunningJob, SubmitOutlineReply

\* RecordsAgree: article with outcome, question with status, span with effect, in
\* every state, whoever wrote them and whatever happened to the runs in between.
THEOREM RecordsAgreeHolds == Spec => []RecordsAgree
<1> DEFINE Inv == \A j \in Jobs : RecordsOfJob(j)
<1> USE DEF RecordsOfJob, ArticleOfJob, QuestionOfJob, SpansOfJob, SpanIsExplained,
            PendingInterrupts
<1>1. Init => Inv
  BY DEF Init, AbsentJob, NoRun
<1>2. TypeOK /\ OneOwner /\ Inv /\ [Next]_vars => Inv'
  <2> SUFFICES ASSUME TypeOK, OneOwner, Inv, [Next]_vars PROVE Inv'
    OBVIOUS
  <2>a. \A q \in Jobs : RecordsOfJob(q)
    OBVIOUS
  <2> HIDE DEF Inv
  <2>1. CASE UNCHANGED vars
    BY <2>1, <2>a DEF vars, Inv
  <2>2. ASSUME NEW j \in Jobs, JobStep(j) \/ \E r \in DOMAIN runs[j] : RunStep(j, r)
        PROVE  Inv'
    <3>1. ASSUME NEW q \in Jobs, q # j PROVE RecordsOfJob(q)'
      BY <2>2, <2>a, <3>1, OtherJobsUntouched
    <3> HIDE DEF ArticleOfJob, QuestionOfJob, SpansOfJob
    <3>2. RecordsOfJob(j)'
      BY <2>2, <2>a, ArticleStep, QuestionStep, SpansStep
    <3> HIDE DEF RecordsOfJob
    <3> QED
      BY <3>1, <3>2 DEF Inv
  <2> QED
    BY <2>1, <2>2 DEF Next
<1>3. Inv => RecordsAgree
  BY RecordsByJobs
<1> QED
  BY <1>1, <1>2, <1>3, TypeCorrect, OneOwnerHolds, PTL DEF Spec

-----------------------------------------------------------------------------
(* What no later call may change                                           *)

\* An effect row is only ever settled once, by its own run or by doubt.
LEMMA EffectsStayStep ==
  ASSUME TypeOK, NEW j \in Jobs, JobStep(j) \/ \E r \in DOMAIN runs[j] : RunStep(j, r)
  PROVE  EffectsStay(j)
<1>1. ASSUME UNCHANGED runEffects PROVE EffectsStay(j)
  BY <1>1 DEF EffectsStay
<1>2. ASSUME NEW R, DoubtEffects(j, R) PROVE EffectsStay(j)
  BY <1>2, DoubtsAfter DEF EffectsStay
<1>3. CASE ClaimJob(j)
  BY <1>2, <1>3 DEF ClaimJob
<1>4. ASSUME NEW r \in DOMAIN runs[j], RunStep(j, r) PROVE EffectsStay(j)
  <2>1. ASSUME NEW k \in EffectKeys, NEW p \in Payloads, ReserveRunEffect(j, r, k, p)
        PROVE  EffectsStay(j)
    <3>1. runEffects[j][k].status = "absent"
      BY <2>1 DEF ReserveRunEffect
    <3>2. /\ runEffects'[j][k] = [status |-> "reserved", run |-> r, request |-> p]
          /\ traceSpans'[j][k] = [status |-> "running", run |-> r]
          /\ \A other \in EffectKeys : other # k =>
                /\ runEffects'[j][other] = runEffects[j][other]
                /\ traceSpans'[j][other] = traceSpans[j][other]
      BY <2>1, ReserveAfter
    <3>3. runEffects[j][k].status \notin {"succeeded", "failed", "uncertain"}
      BY <3>1
    <3>4. ASSUME NEW other \in EffectKeys, runEffects[j][other].status # "absent"
          PROVE  runEffects'[j][other] = runEffects[j][other]
      BY <3>1, <3>2, <3>4
    <3> QED
      BY <3>3, <3>4 DEF EffectsStay
  <2>2. ASSUME NEW k \in EffectKeys, NEW outcome \in {"succeeded", "failed"},
               FinishRunEffect(j, r, k, outcome)
        PROVE  EffectsStay(j)
    <3>1. runEffects[j][k].status = "reserved"
      BY <2>2 DEF FinishRunEffect
    <3>2. /\ runEffects'[j][k].status \in {"succeeded", "failed"}
          /\ runEffects'[j][k].run = runEffects[j][k].run
          /\ runEffects'[j][k].request = runEffects[j][k].request
          /\ \A other \in EffectKeys :
                other # k => runEffects'[j][other] = runEffects[j][other]
      BY <2>2, FinishAfter
    <3> QED
      BY <3>1, <3>2 DEF EffectsStay
  <2> QED
    BY <1>1, <1>2, <1>4, <2>1, <2>2
    DEF RunStep, HeartbeatClaim, AppendRunEvent, CompleteClaim, ReplayCompletion,
        TerminateClaim, PauseClaim
<1> QED
  BY <1>1, <1>3, <1>4
  DEF JobStep, CreateJob, Tick, CancelParkedJob, CancelRunningJob, SubmitOutlineReply

\* Once cancelled, a job has two steps left: its clock, and its own end.
LEMMA QuietStep ==
  ASSUME TypeOK, CancellationWins, NEW j \in Jobs,
         JobStep(j) \/ \E r \in DOMAIN runs[j] : RunStep(j, r)
  PROVE  NothingButTheEnd(j)
<1> SUFFICES ASSUME jobs[j].cancelRequested PROVE NothingButTheEnd(j)
  BY DEF NothingButTheEnd
<1>1. jobs[j].status \in {"running", "cancelled"}
  BY DEF CancellationWins
<1>2. jobs[j].lease \in Nat /\ jobs[j].lease >= 0
  BY LeaseDurationAssumption DEF TypeOK, JobRow
<1>3. CASE Tick(j)
  BY <1>2, <1>3, JobRowColumns DEF Tick, NothingButTheEnd, PendingInterrupts
<1>4. ASSUME NEW r \in DOMAIN runs[j], TerminateClaim(j, r, "cancelled")
      PROVE  NothingButTheEnd(j)
  <2>1. \A e \in jobEvents'[j] \ jobEvents[j] : e.type = "cancelled"
    BY <1>4 DEF TerminateClaim, InsertEvent, EventAt, TerminalEventOf, TypeOK
  <2>2. jobs'[j].lease = 0
    BY <1>4, JobRowAfter DEF TerminateClaim, JobStatus, TerminalStatus
  <2>3. ASSUME NEW k \in EffectKeys
        PROVE  /\ runEffects[j][k].status = "absent" => runEffects'[j][k].status = "absent"
               /\ runEffects'[j][k].status \in {"succeeded", "failed"} =>
                     runEffects'[j][k] = runEffects[j][k]
    BY <1>4, DoubtsAfter DEF TerminateClaim
  <2>4. UNCHANGED <<jobInterrupts, articles>>
    BY <1>4 DEF TerminateClaim
  <2> QED
    BY <1>2, <2>1, <2>2, <2>3, <2>4 DEF NothingButTheEnd, PendingInterrupts
<1>5. ASSUME NEW r \in DOMAIN runs[j], RunStep(j, r)
      PROVE  TerminateClaim(j, r, "cancelled")
  BY <1>1, <1>5
  DEF RunStep, HeartbeatClaim, AppendRunEvent, ReserveRunEffect, FinishRunEffect,
      CompleteClaim, ReplayCompletion, TerminateClaim, PauseClaim, Authorized
<1> QED
  BY <1>1, <1>3, <1>4, <1>5
  DEF JobStep, CreateJob, ClaimJob, Claimable, CancelParkedJob, CancelRunningJob,
      SubmitOutlineReply

\* Rows of events and commands stay, finished runs stay finished, and a terminal job
\* has no step that touches it.
LEMMA HistoryStep ==
  ASSUME TypeOK, OneOwner, NEW j \in Jobs,
         JobStep(j) \/ \E r \in DOMAIN runs[j] : RunStep(j, r)
  PROVE  OnlyAddsToHistory(j)
<1>a. jobs[j].lease > 0 => jobs[j].status = "running"
  BY DEF OneOwner
<1>b. "running" \notin TerminalStatus
  BY DEF TerminalStatus
<1>1. jobEvents[j] \subseteq jobEvents'[j]
  <2>1. ASSUME NEW type, NEW key, NEW r, NEW p, InsertEvent(j, type, key, r, p)
        PROVE  jobEvents[j] \subseteq jobEvents'[j]
    BY <2>1 DEF InsertEvent, TypeOK
  <2> QED
    BY <2>1
    DEF JobStep, CreateJob, ClaimJob, Tick, CancelParkedJob, CancelRunningJob,
        SubmitOutlineReply, RunStep, HeartbeatClaim, AppendRunEvent, ReserveRunEffect,
        FinishRunEffect, CompleteClaim, ReplayCompletion, TerminateClaim, PauseClaim
<1>2. \A n \in DOMAIN jobCommands[j] : jobCommands'[j][n] = jobCommands[j][n]
  <2>1. ASSUME NEW p \in Payloads, SubmitOutlineReply(j, p)
        PROVE  \A n \in DOMAIN jobCommands[j] : jobCommands'[j][n] = jobCommands[j][n]
    <3>1. PICK i \in Interrupts :
            jobCommands'[j] = Append(jobCommands[j], [interrupt |-> i, payload |-> p])
      BY <2>1 DEF SubmitOutlineReply, PendingInterrupts, TypeOK
    <3>2. jobCommands[j] \in Seq(CommandRow) /\ [interrupt |-> i, payload |-> p] \in CommandRow
      BY DEF TypeOK, CommandRow
    <3> QED
      BY <3>1, <3>2
  <2>2. (\E p \in Payloads : SubmitOutlineReply(j, p)) \/ UNCHANGED jobCommands
    BY DEF JobStep, CreateJob, ClaimJob, Tick, CancelParkedJob, CancelRunningJob,
           RunStep, HeartbeatClaim, AppendRunEvent, ReserveRunEffect,
           FinishRunEffect, CompleteClaim, ReplayCompletion, TerminateClaim, PauseClaim
  <2> QED
    BY <2>1, <2>2
<1>3. \A r \in DOMAIN runs[j] : runs[j][r] \in TerminalStatus => runs'[j][r] = runs[j][r]
  <2>1. CASE ClaimJob(j)
    BY <2>1, <1>b, ClaimAfter
  <2>2. ASSUME NEW r \in DOMAIN runs[j], ActiveRun(j, r), NEW status, SetRun(j, r, status)
        PROVE  \A s \in DOMAIN runs[j] : runs[j][s] \in TerminalStatus =>
                  runs'[j][s] = runs[j][s]
    BY <2>2, <1>b, RunAfter DEF ActiveRun
  <2>3. \/ ClaimJob(j) \/ UNCHANGED runs
        \/ \E r \in DOMAIN runs[j] : ActiveRun(j, r) /\ \E status : SetRun(j, r, status)
    BY DEF JobStep, CreateJob, Tick, CancelParkedJob, CancelRunningJob,
           SubmitOutlineReply, RunStep, HeartbeatClaim, AppendRunEvent, ReserveRunEffect,
           FinishRunEffect, CompleteClaim, ReplayCompletion, TerminateClaim, PauseClaim,
           Authorized
  <2> QED
    BY <2>1, <2>2, <2>3
<1>4. ASSUME jobs[j].status \in TerminalStatus
      PROVE  UNCHANGED <<jobs, runs, jobEvents, articles, jobInterrupts, runEffects, traceSpans>>
  BY <1>4, <1>a
  DEF JobStep, CreateJob, ClaimJob, Claimable, Tick, CancelParkedJob, CancelRunningJob,
      SubmitOutlineReply, RunStep, HeartbeatClaim, AppendRunEvent, ReserveRunEffect,
      FinishRunEffect, CompleteClaim, ReplayCompletion, TerminateClaim, PauseClaim,
      Authorized, HoldsLease, OwnsRow, TerminalStatus
<1> QED
  BY <1>1, <1>2, <1>3, <1>4 DEF OnlyAddsToHistory

\* HistoryIsFinal: no late call of a stale worker, user or clock undoes what is
\* settled, and a cancellation request leaves the job nothing to add but its end.
THEOREM HistoryIsFinalHolds == Spec => HistoryIsFinal
<1>1. TypeOK /\ OneOwner /\ CancellationWins /\ [Next]_vars =>
        /\ [\A j \in Jobs : EffectsStay(j)]_vars
        /\ [\A j \in Jobs : NothingButTheEnd(j)]_vars
        /\ [\A j \in Jobs : OnlyAddsToHistory(j)]_vars
  <2> SUFFICES ASSUME TypeOK, OneOwner, CancellationWins, Next, NEW q \in Jobs
               PROVE  EffectsStay(q) /\ NothingButTheEnd(q) /\ OnlyAddsToHistory(q)
    OBVIOUS
  <2>1. PICK j \in Jobs : JobStep(j) \/ \E r \in DOMAIN runs[j] : RunStep(j, r)
    BY DEF Next
  <2>2. CASE q = j
    BY <2>1, <2>2, EffectsStayStep, QuietStep, HistoryStep
  <2>3. CASE q # j
    <3>1. /\ jobs'[q] = jobs[q] /\ runs'[q] = runs[q]
          /\ jobEvents'[q] = jobEvents[q] /\ runEffects'[q] = runEffects[q]
          /\ traceSpans'[q] = traceSpans[q] /\ jobInterrupts'[q] = jobInterrupts[q]
          /\ jobCommands'[q] = jobCommands[q] /\ articles'[q] = articles[q]
      BY <2>1, <2>3, OtherJobsUntouched
    <3>2. jobs[q].lease \in Nat
      BY LeaseDurationAssumption DEF TypeOK, JobRow
    <3> QED
      BY <3>1, <3>2
      DEF EffectsStay, NothingButTheEnd, OnlyAddsToHistory, PendingInterrupts
  <2> QED
    BY <2>2, <2>3
<1> QED
  BY <1>1, TypeCorrect, OneOwnerHolds, CancellationWinsHolds, PTL
  DEF Spec, HistoryIsFinal, EffectIsFinal, QuietAfterCancel, HistoryIsKept
=============================================================================
