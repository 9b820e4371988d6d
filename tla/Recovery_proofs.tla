-------------------------- MODULE Recovery_proofs --------------------------
(***************************************************************************)
(* Theorems about the two things a later attempt of a job recovers from,   *)
(* for any number of jobs, runs, effects, checkpoints, tasks and graph     *)
(* versions.  Both components extend the job store and drive it only       *)
(* through its own transactions, so both parts below start from the        *)
(* invariant of JobStore_proofs.                                           *)
(*                                                                         *)
(* The effect journal: the provider is asked at most once per key.         *)
(*                                                                         *)
(* Checkpoint attempts: a job has one recovery point whose pointers can be *)
(* followed, and no confirmed work is lost.  The heart of that invariant   *)
(* is ForkIsCurrent: as long as a run is the latest of its job, what it    *)
(* prepared to fork from is what the active attempt points to, because no  *)
(* other run can pass a fence any more.                                    *)
(***************************************************************************)
EXTENDS EffectJournal, Checkpoints, JobStore_proofs

-----------------------------------------------------------------------------
(* The effect journal.                                                     *)

\* A reservation answered `reserved' found no row; any other answer changes nothing.
LEMMA FreshReservation ==
  ASSUME NEW j \in Jobs, NEW r, NEW k, NEW p, ReserveResult(j, r, k, p) = "reserved"
  PROVE  runEffects[j][k].status = "absent"
  BY DEF ReserveResult, Authorization

\* What the answer to an attempt to settle a call says about its row.
LEMMA SettlingAnswers ==
  ASSUME NEW j \in Jobs, NEW r, NEW k, NEW outcome
  PROVE  /\ FinishResult(j, r, k, outcome) = "finished" =>
              runEffects[j][k].status # "absent"
         /\ FinishResult(j, r, k, outcome) = "replayed" =>
              runEffects[j][k].run = r /\ runEffects[j][k].status = outcome
  BY DEF FinishResult, Authorization

\* The calls are well typed, and a call that has an answer has its outcome.
CallsTypeOK ==
    /\ call \in [Jobs -> [Attempts -> [EffectKeys -> CallState]]]
    /\ \A j \in Jobs, r \in Attempts, k \in EffectKeys :
          call[j][r][k].stage \in {"finish", "returned"} => call[j][r][k].outcome # None

\* Moving one call on, and what that leaves of the others.
LEMMA EnterAfter ==
  ASSUME CallsTypeOK, NEW j \in Jobs, NEW r \in Attempts, NEW k \in EffectKeys,
         NEW stage \in Stages, Enter(j, r, k, stage)
  PROVE  /\ call' \in [Jobs -> [Attempts -> [EffectKeys -> CallState]]]
         /\ call'[j][r][k].stage = stage
         /\ call'[j][r][k].outcome = call[j][r][k].outcome
         /\ \A q \in Jobs, s \in Attempts, l \in EffectKeys :
               <<q, s, l>> # <<j, r, k>> => call'[q][s][l] = call[q][s][l]
<1> DEFINE old == call[j][r][k]
           new == [old EXCEPT !.stage = stage]
<1>1. old \in CallState
  BY DEF CallsTypeOK
<1>2. new \in CallState /\ new.stage = stage /\ new.outcome = old.outcome
  BY <1>1 DEF CallState
<1>3. call[j][r] \in [EffectKeys -> CallState] /\ call[j] \in [Attempts -> [EffectKeys -> CallState]]
  BY DEF CallsTypeOK
<1> HIDE DEF new
<1>4. call' = [call EXCEPT ![j] = [call[j] EXCEPT ![r] = [call[j][r] EXCEPT ![k] = new]]]
  BY DEF Enter, new, CallsTypeOK
<1>5. [call[j][r] EXCEPT ![k] = new] \in [EffectKeys -> CallState]
  BY <1>2, <1>3
<1>6. [call[j] EXCEPT ![r] = [call[j][r] EXCEPT ![k] = new]]
        \in [Attempts -> [EffectKeys -> CallState]]
  BY <1>3, <1>5
<1> QED
  BY <1>2, <1>3, <1>4, <1>6 DEF CallsTypeOK

\* Writing one call as a whole.
CallBecomes(j, r, k, new) == call' = [call EXCEPT ![j][r][k] = new]
Answered(outcome) == [stage |-> "finish", outcome |-> outcome]

\* A call that is written as a whole is the only one that is written.
LEMMA CallWritten ==
  ASSUME CallsTypeOK, NEW j \in Jobs, NEW r \in Attempts, NEW k \in EffectKeys,
         NEW new \in CallState, CallBecomes(j, r, k, new)
  PROVE  /\ call' \in [Jobs -> [Attempts -> [EffectKeys -> CallState]]]
         /\ call'[j][r][k] = new
         /\ \A q \in Jobs, s \in Attempts, l \in EffectKeys :
               <<q, s, l>> # <<j, r, k>> => call'[q][s][l] = call[q][s][l]
<1>1. call[j][r] \in [EffectKeys -> CallState] /\ call[j] \in [Attempts -> [EffectKeys -> CallState]]
  BY DEF CallsTypeOK
<1>2. call' = [call EXCEPT ![j] = [call[j] EXCEPT ![r] = [call[j][r] EXCEPT ![k] = new]]]
  BY DEF CallsTypeOK, CallBecomes
<1>3. [call[j][r] EXCEPT ![k] = new] \in [EffectKeys -> CallState]
  BY <1>1
<1>4. [call[j] EXCEPT ![r] = [call[j][r] EXCEPT ![k] = new]]
        \in [Attempts -> [EffectKeys -> CallState]]
  BY <1>1, <1>3
<1> QED
  BY <1>1, <1>2, <1>4 DEF CallsTypeOK

\* A dead worker's calls are all dead, and only its own.
LEMMA CallsKilled ==
  ASSUME CallsTypeOK, NEW j \in Jobs, NEW r \in Attempts, Crash(j, r)
  PROVE  /\ call' \in [Jobs -> [Attempts -> [EffectKeys -> CallState]]]
         /\ \A k \in EffectKeys : call'[j][r][k].stage = "dead"
         /\ \A q \in Jobs, s \in Attempts, l \in EffectKeys :
               <<q, s>> # <<j, r>> => call'[q][s][l] = call[q][s][l]
<1> DEFINE dead == [k \in EffectKeys |-> [stage |-> "dead", outcome |-> None]]
<1>1. call[j] \in [Attempts -> [EffectKeys -> CallState]]
  BY DEF CallsTypeOK
<1>2. dead \in [EffectKeys -> CallState] /\ \A k \in EffectKeys : dead[k].stage = "dead"
  BY DEF CallState, Stages
<1> HIDE DEF dead
<1>3. call' = [call EXCEPT ![j] = [call[j] EXCEPT ![r] = dead]]
  BY DEF Crash, dead, CallsTypeOK
<1>4. [call[j] EXCEPT ![r] = dead] \in [Attempts -> [EffectKeys -> CallState]]
  BY <1>1, <1>2
<1> QED
  BY <1>1, <1>2, <1>3, <1>4 DEF CallsTypeOK

\* The runs of a job are within the bound the calls are kept for.
LEMMA RunsAreAttempts ==
  ASSUME TypeOK, RunsAreBounded, NEW j \in Jobs, NEW r \in DOMAIN runs[j]
  PROVE  r \in Attempts
<1>1. runs[j] \in Seq(RunStatus) /\ Len(runs[j]) <= MaxRuns /\ MaxRuns \in Nat
  BY MaxRunsAssumption DEF TypeOK, RunsAreBounded
<1> QED
  BY <1>1 DEF Attempts

\* The stages a journalled call may move to.
LEMMA CallStepShape ==
  ASSUME NEW j \in Jobs, NEW r, NEW k \in EffectKeys, CallStep(j, r, k)
  PROVE  \/ \E stage \in {"send", "refused"} : Enter(j, r, k, stage)
         \/ call[j][r][k].stage = "finish" /\ Enter(j, r, k, "returned")
         \/ \E outcome \in Outcomes : CallBecomes(j, r, k, Answered(outcome))
<1>1. ASSUME NEW p \in Payloads, Reserve(j, r, k, p)
      PROVE  \E stage \in {"send", "refused"} : Enter(j, r, k, stage)
  BY <1>1 DEF Reserve, AfterReservation
<1>2. ASSUME NEW p \in Payloads, ReserveThrows(j, r, k, p) PROVE Enter(j, r, k, "refused")
  BY <1>2 DEF ReserveThrows
<1>3. CASE Send(j, r, k)
  BY <1>3 DEF Send, Outcomes, CallBecomes, Answered
<1>4. CASE Finish(j, r, k)
  BY <1>4 DEF Finish
<1>5. CASE FinishThrows(j, r, k)
  BY <1>5 DEF FinishThrows
<1> QED
  BY <1>1, <1>2, <1>3, <1>4, <1>5 DEF CallStep

\* No step of the journal leaves a call ill typed.
LEMMA CallsTypeStep ==
  ASSUME TypeOK, RunsAreBounded, CallsTypeOK, [JournalNext]_journalledVars
  PROVE  CallsTypeOK'
<1>1. ASSUME UNCHANGED call PROVE CallsTypeOK'
  BY <1>1 DEF CallsTypeOK
<1>2. ASSUME NEW j \in Jobs, NEW r \in Attempts, Crash(j, r) PROVE CallsTypeOK'
  <2>1. /\ call' \in [Jobs -> [Attempts -> [EffectKeys -> CallState]]]
        /\ \A k \in EffectKeys : call'[j][r][k].stage = "dead"
        /\ \A q \in Jobs, s \in Attempts, l \in EffectKeys :
              <<q, s>> # <<j, r>> => call'[q][s][l] = call[q][s][l]
    BY <1>2, CallsKilled
  <2>2. ASSUME NEW q \in Jobs, NEW s \in Attempts, NEW l \in EffectKeys,
               call'[q][s][l].stage \in {"finish", "returned"}
        PROVE  call'[q][s][l].outcome # None
    <3>1. call'[q][s][l] = call[q][s][l]
      BY <2>1, <2>2
    <3> QED
      BY <2>2, <3>1 DEF CallsTypeOK
  <2> QED
    BY <2>1, <2>2 DEF CallsTypeOK
<1>3. ASSUME NEW j \in Jobs, NEW r \in Attempts, NEW k \in EffectKeys,
             NEW stage \in {"send", "refused"}, Enter(j, r, k, stage)
      PROVE  CallsTypeOK'
  <2>1. stage \in Stages /\ stage \notin {"finish", "returned"}
    BY DEF Stages
  <2>2. /\ call' \in [Jobs -> [Attempts -> [EffectKeys -> CallState]]]
        /\ call'[j][r][k].stage = stage
        /\ \A q \in Jobs, s \in Attempts, l \in EffectKeys :
              <<q, s, l>> # <<j, r, k>> => call'[q][s][l] = call[q][s][l]
    BY <1>3, <2>1, EnterAfter
  <2>3. ASSUME NEW q \in Jobs, NEW s \in Attempts, NEW l \in EffectKeys,
               call'[q][s][l].stage \in {"finish", "returned"}
        PROVE  call'[q][s][l].outcome # None
    <3>1. call'[q][s][l] = call[q][s][l]
      BY <2>1, <2>2, <2>3
    <3> QED
      BY <2>3, <3>1 DEF CallsTypeOK
  <2> QED
    BY <2>2, <2>3 DEF CallsTypeOK
<1>4. ASSUME NEW j \in Jobs, NEW r \in Attempts, NEW k \in EffectKeys,
             call[j][r][k].stage = "finish", Enter(j, r, k, "returned")
      PROVE  CallsTypeOK'
  <2>1. "returned" \in Stages
    BY DEF Stages
  <2>2. call[j][r][k].outcome # None
    BY <1>4 DEF CallsTypeOK
  <2>3. /\ call' \in [Jobs -> [Attempts -> [EffectKeys -> CallState]]]
        /\ call'[j][r][k].outcome = call[j][r][k].outcome
        /\ \A q \in Jobs, s \in Attempts, l \in EffectKeys :
              <<q, s, l>> # <<j, r, k>> => call'[q][s][l] = call[q][s][l]
    BY <1>4, <2>1, EnterAfter
  <2>4. ASSUME NEW q \in Jobs, NEW s \in Attempts, NEW l \in EffectKeys,
               call'[q][s][l].stage \in {"finish", "returned"}
        PROVE  call'[q][s][l].outcome # None
    <3>1. CASE <<q, s, l>> = <<j, r, k>>
      BY <2>2, <2>3, <3>1
    <3>2. CASE <<q, s, l>> # <<j, r, k>>
      BY <2>3, <2>4, <3>2 DEF CallsTypeOK
    <3> QED
      BY <3>1, <3>2
  <2> QED
    BY <2>3, <2>4 DEF CallsTypeOK
<1>5. ASSUME NEW j \in Jobs, NEW r \in Attempts, NEW k \in EffectKeys, NEW outcome \in Outcomes,
             CallBecomes(j, r, k, Answered(outcome))
      PROVE  CallsTypeOK'
  <2>1. Answered(outcome) \in CallState /\ Answered(outcome).outcome # None
    BY NoneIsNoOutcome DEF CallState, Stages, Outcomes, Answered
  <2>2. /\ call' \in [Jobs -> [Attempts -> [EffectKeys -> CallState]]]
        /\ call'[j][r][k] = Answered(outcome)
        /\ \A q \in Jobs, s \in Attempts, l \in EffectKeys :
              <<q, s, l>> # <<j, r, k>> => call'[q][s][l] = call[q][s][l]
    BY <1>5, <2>1, CallWritten
  <2>3. ASSUME NEW q \in Jobs, NEW s \in Attempts, NEW l \in EffectKeys,
               call'[q][s][l].stage \in {"finish", "returned"}
        PROVE  call'[q][s][l].outcome # None
    <3>1. CASE <<q, s, l>> = <<j, r, k>>
      BY <2>1, <2>2, <3>1
    <3>2. CASE <<q, s, l>> # <<j, r, k>>
      BY <2>2, <2>3, <3>2 DEF CallsTypeOK
    <3> QED
      BY <3>1, <3>2
  <2> QED
    BY <2>2, <2>3 DEF CallsTypeOK
<1>6. ASSUME NEW j \in Jobs, NEW r \in Attempts, NEW k \in EffectKeys, CallStep(j, r, k)
      PROVE  CallsTypeOK'
  BY <1>3, <1>4, <1>5, <1>6, CallStepShape
<1> QED
  BY <1>1, <1>2, <1>6, RunsAreAttempts DEF JournalNext, StoreStep, journalVars, journalledVars

\* Every step of the journal is a step of the store or leaves it alone.
LEMMA JournalStepsTheStore ==
  ASSUME TypeOK, RunsAreBounded, CallsTypeOK, [JournalNext]_journalledVars
  PROVE  [Next]_vars
<1>1. CASE UNCHANGED journalledVars
  BY <1>1 DEF journalledVars
<1>2. ASSUME NEW j \in Jobs, StoreStep(j) PROVE Next
  BY <1>2 DEF StoreStep, Next, RunStep
<1>3. ASSUME NEW j \in Jobs, NEW r \in DOMAIN runs[j], Crash(j, r) PROVE UNCHANGED vars
  BY <1>3 DEF Crash
<1>4. ASSUME NEW j \in Jobs, NEW r \in DOMAIN runs[j], NEW k \in EffectKeys, CallStep(j, r, k)
      PROVE  [Next]_vars
  <2>1. ASSUME NEW p \in Payloads, Reserve(j, r, k, p) \/ ReserveThrows(j, r, k, p)
        PROVE  ReserveRunEffect(j, r, k, p) \/ UNCHANGED vars
    BY <2>1 DEF Reserve, ReserveThrows, Reservation
  <2>2. CASE Send(j, r, k)
    BY <2>2 DEF Send
  <2>3. ASSUME Finish(j, r, k) \/ FinishThrows(j, r, k)
        PROVE  \/ \E outcome \in {"succeeded", "failed"} : FinishRunEffect(j, r, k, outcome)
               \/ UNCHANGED vars
    <3> DEFINE outcome == call[j][r][k].outcome
    <3>1. call[j][r][k].stage = "finish"
      BY <2>3 DEF Finish, FinishThrows
    <3>2. FinishRunEffect(j, r, k, outcome) \/ UNCHANGED vars
      BY <2>3 DEF Finish, FinishThrows
    <3>3. outcome \in {"succeeded", "failed"}
      BY <3>1, RunsAreAttempts DEF CallsTypeOK, CallState, Outcomes
    <3> QED
      BY <3>2, <3>3
  <2> QED
    BY <1>4, <2>1, <2>2, <2>3 DEF CallStep, Next, RunStep
<1> QED
  BY <1>1, <1>2, <1>3, <1>4 DEF JournalNext

\* The journal refines the store: whatever is proved of the job store holds under it.
THEOREM JournalImplementsStore == JournalSpec => Spec
<1> DEFINE Inv == TypeOK /\ RunsAreBounded /\ CallsTypeOK
<1>1. JournalInit => Init /\ Inv
  <2>1. JournalInit => CallsTypeOK
    BY DEF JournalInit, CallsTypeOK, NewCall, CallState, Stages
  <2> QED
    BY <2>1, InitTypeOK, MaxRunsAssumption DEF JournalInit, Init, RunsAreBounded
<1>2. Inv /\ [JournalNext]_journalledVars => [Next]_vars /\ Inv'
  BY JournalStepsTheStore, CallsTypeStep, TypeStep, RunsBoundedStep
<1> QED
  BY <1>1, <1>2, PTL DEF JournalSpec, Spec

\* The calls stay well typed.
THEOREM CallsTypeCorrect == JournalSpec => []CallsTypeOK
<1>1. JournalInit => CallsTypeOK
  BY DEF JournalInit, CallsTypeOK, NewCall, CallState, Stages
<1>2. TypeOK /\ RunsAreBounded /\ CallsTypeOK /\ [JournalNext]_journalledVars => CallsTypeOK'
  BY CallsTypeStep
<1> QED
  BY <1>1, <1>2, JournalImplementsStore, TypeCorrect, RunsAreBoundedHolds, PTL
  DEF JournalSpec

-----------------------------------------------------------------------------

\* What the provider saw and answered, and the faults, stay numbers and outcomes.
LedgersTypeOK ==
    /\ sent \in [Jobs -> [EffectKeys -> Nat]]
    /\ answer \in [Jobs -> [EffectKeys -> Outcomes \cup {None}]]
    /\ faults \in 0 .. MaxFaults

\* A request that reached the provider is counted and answered under its own key.
LEMMA SendAfter ==
  ASSUME LedgersTypeOK, NEW j \in Jobs, NEW k \in EffectKeys, NEW outcome \in Outcomes,
         sent' = [sent EXCEPT ![j][k] = @ + 1], answer' = [answer EXCEPT ![j][k] = outcome]
  PROVE  /\ sent' \in [Jobs -> [EffectKeys -> Nat]]
         /\ answer' \in [Jobs -> [EffectKeys -> Outcomes \cup {None}]]
         /\ sent'[j][k] = sent[j][k] + 1 /\ answer'[j][k] = outcome
         /\ \A q \in Jobs, l \in EffectKeys :
               q # j \/ l # k => sent'[q][l] = sent[q][l] /\ answer'[q][l] = answer[q][l]
<1>1. /\ sent[j] \in [EffectKeys -> Nat]
      /\ answer[j] \in [EffectKeys -> Outcomes \cup {None}]
      /\ sent[j][k] + 1 \in Nat
  BY DEF LedgersTypeOK
<1>2. /\ sent' = [sent EXCEPT ![j] = [sent[j] EXCEPT ![k] = sent[j][k] + 1]]
      /\ answer' = [answer EXCEPT ![j] = [answer[j] EXCEPT ![k] = outcome]]
  BY DEF LedgersTypeOK
<1>3. /\ [sent[j] EXCEPT ![k] = sent[j][k] + 1] \in [EffectKeys -> Nat]
      /\ [answer[j] EXCEPT ![k] = outcome] \in [EffectKeys -> Outcomes \cup {None}]
  BY <1>1
<1> QED
  BY <1>1, <1>2, <1>3 DEF LedgersTypeOK

\* No step of the journal leaves a ledger ill typed.
LEMMA LedgersTypeStep ==
  ASSUME LedgersTypeOK, [JournalNext]_journalledVars
  PROVE  LedgersTypeOK'
<1>1. ASSUME UNCHANGED <<sent, answer>>, faults' \in {faults, faults + 1},
             faults' # faults => faults < MaxFaults
      PROVE  LedgersTypeOK'
  BY <1>1, MaxFaultsAssumption DEF LedgersTypeOK
<1>2. ASSUME Fault PROVE faults' = faults + 1 /\ faults < MaxFaults
  BY <1>2 DEF Fault
<1>3. ASSUME NEW j \in Jobs, NEW r, NEW k \in EffectKeys, CallStep(j, r, k)
      PROVE  LedgersTypeOK'
  <2>1. ASSUME NEW outcome \in Outcomes, UNCHANGED faults,
               sent' = [sent EXCEPT ![j][k] = @ + 1],
               answer' = [answer EXCEPT ![j][k] = outcome]
        PROVE  LedgersTypeOK'
    <3>1. /\ sent' \in [Jobs -> [EffectKeys -> Nat]]
          /\ answer' \in [Jobs -> [EffectKeys -> Outcomes \cup {None}]]
      BY <2>1, SendAfter
    <3> QED
      BY <2>1, <3>1 DEF LedgersTypeOK
  <2>2. CASE Send(j, r, k)
    BY <1>1, <2>1, <2>2 DEF Send
  <2>3. ASSUME NEW p \in Payloads, Reserve(j, r, k, p) PROVE LedgersTypeOK'
    BY <1>1, <2>3 DEF Reserve
  <2>4. ASSUME NEW p \in Payloads, ReserveThrows(j, r, k, p) PROVE LedgersTypeOK'
    BY <1>1, <1>2, <2>4 DEF ReserveThrows
  <2>5. CASE Finish(j, r, k)
    BY <1>1, <2>5 DEF Finish
  <2>6. CASE FinishThrows(j, r, k)
    BY <1>1, <1>2, <2>6 DEF FinishThrows
  <2> QED
    BY <1>3, <2>2, <2>3, <2>4, <2>5, <2>6 DEF CallStep
<1>4. ASSUME NEW j \in Jobs, NEW r, Crash(j, r) PROVE LedgersTypeOK'
  BY <1>1, <1>2, <1>4 DEF Crash
<1> QED
  BY <1>1, <1>3, <1>4 DEF JournalNext, StoreStep, journalVars, journalledVars

\* The journal's own variables stay well typed.
THEOREM JournalTypeCorrect == JournalSpec => []JournalTypeOK
<1>1. JournalInit => LedgersTypeOK
  BY MaxFaultsAssumption DEF JournalInit, LedgersTypeOK
<1>2. LedgersTypeOK /\ [JournalNext]_journalledVars => LedgersTypeOK'
  BY LedgersTypeStep
<1>3. CallsTypeOK /\ LedgersTypeOK => JournalTypeOK
  BY DEF CallsTypeOK, LedgersTypeOK, JournalTypeOK
<1> QED
  BY <1>1, <1>2, <1>3, CallsTypeCorrect, PTL DEF JournalSpec

-----------------------------------------------------------------------------

\* Row and provider: no row means no request, a settled row tells what the provider
\* answered, and an unsettled one belongs to a call that is under way or was cut short.
RowIsExplained(j, k) ==
    /\ runEffects[j][k].status = "absent" => sent[j][k] = 0 /\ answer[j][k] = None
    /\ runEffects[j][k].status = "succeeded" => answer[j][k] = "succeeded"
    /\ runEffects[j][k].status = "failed" => answer[j][k] \in {"failed", None}
    /\ runEffects[j][k].status \in {"reserved", "uncertain"} =>
          /\ runEffects[j][k].run \in Attempts
          /\ call[j][runEffects[j][k].run][k].stage \in {"send", "finish", "refused", "dead"}
    /\ sent[j][k] <= 1

\* Call and row: a call that goes out, or has gone out, holds the row alone; only
\* the one about to go out may still ask the provider.
CallIsExplained(j, r, k) ==
    /\ call[j][r][k].stage \in {"send", "finish"} =>
          /\ runEffects[j][k].run = r
          /\ runEffects[j][k].status \in {"reserved", "uncertain"}
    /\ call[j][r][k].stage = "send" => sent[j][k] = 0 /\ answer[j][k] = None
    /\ call[j][r][k].stage = "finish" =>
          /\ call[j][r][k].outcome \in Outcomes
          /\ call[j][r][k].outcome = "succeeded" => answer[j][k] = "succeeded"
          /\ call[j][r][k].outcome = "failed" => answer[j][k] \in {"failed", None}
    /\ call[j][r][k].stage = "returned" =>
          /\ call[j][r][k].outcome \in Outcomes
          /\ runEffects[j][k].run = r
          /\ runEffects[j][k].status = call[j][r][k].outcome

KeyIsExplained(j, k) ==
    RowIsExplained(j, k) /\ \A r \in Attempts : CallIsExplained(j, r, k)

\* Nothing but the doubt of the store falls on the rows while no call moves.
LEMMA RowsDoubted ==
  ASSUME NEW j \in Jobs, NEW k \in EffectKeys, KeyIsExplained(j, k),
         UNCHANGED journalVars,
         runEffects'[j][k].run = runEffects[j][k].run,
         \/ runEffects'[j][k].status = runEffects[j][k].status
         \/ runEffects[j][k].status = "reserved" /\ runEffects'[j][k].status = "uncertain"
  PROVE  KeyIsExplained(j, k)'
  BY DEF KeyIsExplained, RowIsExplained, CallIsExplained, journalVars, Outcomes

\* A call asks for its row: it gets a fresh one, or nothing.
LEMMA KeyAsked ==
  ASSUME NEW j \in Jobs, NEW k \in EffectKeys, NEW r \in Attempts, KeyIsExplained(j, k),
         call[j][r][k].stage \in MayAsk,
         UNCHANGED <<sent, answer>>,
         call'[j][r][k].stage \in {"send", "refused"},
         \A s \in Attempts : s # r => call'[j][s][k] = call[j][s][k],
         \/ /\ runEffects[j][k].status = "absent"
            /\ runEffects'[j][k].status = "reserved" /\ runEffects'[j][k].run = r
         \/ runEffects'[j][k] = runEffects[j][k] /\ call'[j][r][k].stage = "refused"
  PROVE  KeyIsExplained(j, k)'
<1>1. RowIsExplained(j, k)'
  BY DEF KeyIsExplained, RowIsExplained
<1>2. ASSUME NEW s \in Attempts PROVE CallIsExplained(j, s, k)'
  BY DEF KeyIsExplained, RowIsExplained, CallIsExplained, Outcomes
<1> QED
  BY <1>1, <1>2 DEF KeyIsExplained

\* The call goes out, or is stopped before it does.
LEMMA KeySent ==
  ASSUME NEW j \in Jobs, NEW k \in EffectKeys, NEW r \in Attempts, KeyIsExplained(j, k),
         call[j][r][k].stage = "send", UNCHANGED runEffects,
         NEW outcome \in Outcomes, call'[j][r][k] = Answered(outcome),
         \A s \in Attempts : s # r => call'[j][s][k] = call[j][s][k],
         \/ sent'[j][k] = sent[j][k] + 1 /\ answer'[j][k] = outcome
         \/ UNCHANGED <<sent, answer>> /\ outcome = "failed"
  PROVE  KeyIsExplained(j, k)'
<1>1. Answered(outcome).stage = "finish" /\ Answered(outcome).outcome = outcome
  BY DEF Answered
<1>2. /\ runEffects[j][k].run = r /\ runEffects[j][k].status \in {"reserved", "uncertain"}
      /\ sent[j][k] = 0 /\ answer[j][k] = None
  BY DEF KeyIsExplained, CallIsExplained
<1>3. RowIsExplained(j, k)'
  BY <1>1, <1>2 DEF KeyIsExplained, RowIsExplained
<1>4. ASSUME NEW s \in Attempts PROVE CallIsExplained(j, s, k)'
  BY <1>1, <1>2 DEF KeyIsExplained, CallIsExplained, Outcomes
<1> QED
  BY <1>3, <1>4 DEF KeyIsExplained

\* The outcome is recorded, or the call ends without it.
LEMMA KeyFinished ==
  ASSUME NEW j \in Jobs, NEW k \in EffectKeys, NEW r \in Attempts, KeyIsExplained(j, k),
         call[j][r][k].stage = "finish", UNCHANGED <<sent, answer>>,
         call'[j][r][k].outcome = call[j][r][k].outcome,
         \A s \in Attempts : s # r => call'[j][s][k] = call[j][s][k],
         \/ /\ runEffects'[j][k].status = call[j][r][k].outcome
            /\ runEffects'[j][k].run = runEffects[j][k].run
            /\ call'[j][r][k].stage \in {"returned", "refused"}
         \/ runEffects'[j][k] = runEffects[j][k] /\ call'[j][r][k].stage = "refused"
  PROVE  KeyIsExplained(j, k)'
<1>1. /\ runEffects[j][k].run = r /\ runEffects[j][k].status \in {"reserved", "uncertain"}
      /\ call[j][r][k].outcome \in Outcomes
  BY DEF KeyIsExplained, CallIsExplained
<1>2. RowIsExplained(j, k)'
  BY <1>1 DEF KeyIsExplained, RowIsExplained, CallIsExplained, Outcomes
<1>3. ASSUME NEW s \in Attempts PROVE CallIsExplained(j, s, k)'
  BY <1>1 DEF KeyIsExplained, CallIsExplained, Outcomes
<1> QED
  BY <1>2, <1>3 DEF KeyIsExplained

\* The worker dies with its calls.
LEMMA KeyAbandoned ==
  ASSUME NEW j \in Jobs, NEW k \in EffectKeys, NEW r \in Attempts, KeyIsExplained(j, k),
         UNCHANGED <<runEffects, sent, answer>>, call'[j][r][k].stage = "dead",
         \A s \in Attempts : s # r => call'[j][s][k] = call[j][s][k]
  PROVE  KeyIsExplained(j, k)'
<1>1. RowIsExplained(j, k)'
  BY DEF KeyIsExplained, RowIsExplained
<1>2. ASSUME NEW s \in Attempts PROVE CallIsExplained(j, s, k)'
  BY DEF KeyIsExplained, CallIsExplained
<1> QED
  BY <1>1, <1>2 DEF KeyIsExplained

\* What a step of the store itself, without a call, does to the rows of its job.
LEMMA StoreStepRows ==
  ASSUME TypeOK, NEW j \in Jobs, StoreStep(j), NEW k \in EffectKeys
  PROVE  /\ runEffects'[j][k].run = runEffects[j][k].run
         /\ \/ runEffects'[j][k].status = runEffects[j][k].status
            \/ runEffects[j][k].status = "reserved" /\ runEffects'[j][k].status = "uncertain"
<1>1. ASSUME NEW R, DoubtEffects(j, R)
      PROVE  /\ runEffects'[j][k].run = runEffects[j][k].run
             /\ \/ runEffects'[j][k].status = runEffects[j][k].status
                \/ runEffects[j][k].status = "reserved" /\ runEffects'[j][k].status = "uncertain"
  BY <1>1, DoubtsAfter
<1>2. UNCHANGED runEffects \/ \E R : DoubtEffects(j, R)
  BY DEF StoreStep, JobStep, CreateJob, ClaimJob, Tick, CancelParkedJob, CancelRunningJob,
         SubmitOutlineReply, HeartbeatClaim, CompleteClaim, TerminateClaim, PauseClaim
<1> QED
  BY <1>1, <1>2

\* A call moves only its own key: row, ledgers and the other calls stay.
LEMMA CallStepLocal ==
  ASSUME TypeOK, CallsTypeOK, LedgersTypeOK,
         NEW j \in Jobs, NEW r \in DOMAIN runs[j], r \in Attempts,
         NEW k \in EffectKeys, CallStep(j, r, k)
  PROVE  /\ \A q \in Jobs, l \in EffectKeys : q # j \/ l # k =>
               /\ runEffects'[q][l] = runEffects[q][l]
               /\ sent'[q][l] = sent[q][l] /\ answer'[q][l] = answer[q][l]
         /\ \A q \in Jobs, s \in Attempts, l \in EffectKeys :
               <<q, s, l>> # <<j, r, k>> => call'[q][s][l] = call[q][s][l]
<1>1. \A q \in Jobs, s \in Attempts, l \in EffectKeys :
         <<q, s, l>> # <<j, r, k>> => call'[q][s][l] = call[q][s][l]
  <2>1. ASSUME NEW stage \in Stages, Enter(j, r, k, stage)
        PROVE  \A q \in Jobs, s \in Attempts, l \in EffectKeys :
                  <<q, s, l>> # <<j, r, k>> => call'[q][s][l] = call[q][s][l]
    BY <2>1, EnterAfter
  <2>2. ASSUME NEW outcome \in Outcomes, CallBecomes(j, r, k, Answered(outcome))
        PROVE  \A q \in Jobs, s \in Attempts, l \in EffectKeys :
                  <<q, s, l>> # <<j, r, k>> => call'[q][s][l] = call[q][s][l]
    <3>1. Answered(outcome) \in CallState
      BY DEF CallState, Stages, Answered
    <3> QED
      BY <2>2, <3>1, CallWritten
  <2> QED
    BY <2>1, <2>2, CallStepShape DEF Stages
<1>2. \A q \in Jobs, l \in EffectKeys : q # j \/ l # k =>
         sent'[q][l] = sent[q][l] /\ answer'[q][l] = answer[q][l]
  <2>1. \/ UNCHANGED <<sent, answer>>
        \/ \E outcome \in Outcomes : /\ sent' = [sent EXCEPT ![j][k] = @ + 1]
                                     /\ answer' = [answer EXCEPT ![j][k] = outcome]
    BY DEF CallStep, Reserve, ReserveThrows, Send, Finish, FinishThrows
  <2>2. ASSUME NEW outcome \in Outcomes, sent' = [sent EXCEPT ![j][k] = @ + 1],
               answer' = [answer EXCEPT ![j][k] = outcome]
        PROVE  \A q \in Jobs, l \in EffectKeys : q # j \/ l # k =>
                  sent'[q][l] = sent[q][l] /\ answer'[q][l] = answer[q][l]
    BY <2>2, SendAfter
  <2> QED
    BY <2>1, <2>2
<1>3. \A q \in Jobs, l \in EffectKeys : q # j \/ l # k =>
         runEffects'[q][l] = runEffects[q][l]
  <2>1. \/ UNCHANGED runEffects
        \/ \E p \in Payloads : ReserveRunEffect(j, r, k, p)
        \/ call[j][r][k].stage = "finish" /\ FinishRunEffect(j, r, k, call[j][r][k].outcome)
    BY DEF CallStep, Reserve, ReserveThrows, Reservation, Send, Finish, FinishThrows, vars
  <2>2. ASSUME NEW p \in Payloads, ReserveRunEffect(j, r, k, p)
        PROVE  \A q \in Jobs, l \in EffectKeys : q # j \/ l # k =>
                  runEffects'[q][l] = runEffects[q][l]
    BY <2>2, ReserveAfter DEF ReserveRunEffect, TypeOK
  <2>3. ASSUME NEW outcome \in {"succeeded", "failed"}, FinishRunEffect(j, r, k, outcome)
        PROVE  \A q \in Jobs, l \in EffectKeys : q # j \/ l # k =>
                  runEffects'[q][l] = runEffects[q][l]
    BY <2>3, FinishAfter DEF FinishRunEffect, TypeOK
  <2>4. call[j][r][k].stage = "finish" => call[j][r][k].outcome \in {"succeeded", "failed"}
    BY DEF CallsTypeOK, CallState, Outcomes
  <2> QED
    BY <2>1, <2>2, <2>3, <2>4
<1> QED
  BY <1>1, <1>2, <1>3

\* The three awaits of a call keep its key explained.
LEMMA CallStepKey ==
  ASSUME TypeOK, CallsTypeOK, LedgersTypeOK,
         NEW j \in Jobs, NEW r \in DOMAIN runs[j], r \in Attempts,
         NEW k \in EffectKeys, CallStep(j, r, k), KeyIsExplained(j, k)
  PROVE  KeyIsExplained(j, k)'
<1>a. \A s \in Attempts : s # r => call'[j][s][k] = call[j][s][k]
  BY CallStepLocal
<1>b. ASSUME NEW stage \in Stages, Enter(j, r, k, stage)
      PROVE  call'[j][r][k].stage = stage /\ call'[j][r][k].outcome = call[j][r][k].outcome
  BY <1>b, EnterAfter
<1>c. \A stage \in {"send", "refused", "returned"} : stage \in Stages
  BY DEF Stages
<1>1. ASSUME NEW p \in Payloads, ReserveRunEffect(j, r, k, p)
      PROVE  /\ runEffects[j][k].status = "absent"
             /\ runEffects'[j][k].status = "reserved" /\ runEffects'[j][k].run = r
  <2>1. runEffects'[j][k] = [status |-> "reserved", run |-> r, request |-> p]
    BY <1>1 DEF ReserveRunEffect, TypeOK
  <2> QED
    BY <1>1, <2>1 DEF ReserveRunEffect
<1>2. ASSUME NEW outcome \in {"succeeded", "failed"}, FinishRunEffect(j, r, k, outcome)
      PROVE  /\ runEffects'[j][k].status = outcome
             /\ runEffects'[j][k].run = runEffects[j][k].run
  BY <1>2, FinishAfter
<1>3. ASSUME NEW p \in Payloads, Reserve(j, r, k, p) PROVE KeyIsExplained(j, k)'
  <2>1. CASE ReserveResult(j, r, k, p) = "reserved"
    <3>1. ReserveRunEffect(j, r, k, p) /\ Enter(j, r, k, "send")
      BY <1>3, <2>1 DEF Reserve, Reservation, AfterReservation
    <3> QED
      BY <1>3, <1>a, <1>b, <1>c, <1>1, <3>1, KeyAsked DEF Reserve
  <2>2. CASE ReserveResult(j, r, k, p) # "reserved"
    <3>1. UNCHANGED runEffects /\ Enter(j, r, k, "refused")
      BY <1>3, <2>2 DEF Reserve, Reservation, AfterReservation, vars
    <3> QED
      BY <1>3, <1>a, <1>b, <1>c, <3>1, KeyAsked DEF Reserve
  <2> QED
    BY <2>1, <2>2
<1>4. ASSUME NEW p \in Payloads, ReserveThrows(j, r, k, p) PROVE KeyIsExplained(j, k)'
  <2>1. ReserveRunEffect(j, r, k, p) \/ UNCHANGED runEffects
    BY <1>4 DEF ReserveThrows, Reservation, vars
  <2>2. Enter(j, r, k, "refused")
    BY <1>4 DEF ReserveThrows
  <2> QED
    BY <1>4, <1>a, <1>b, <1>c, <1>1, <2>1, <2>2, KeyAsked DEF ReserveThrows
<1>5. CASE Send(j, r, k)
  <2>1. PICK outcome \in Outcomes :
          /\ CallBecomes(j, r, k, Answered(outcome))
          /\ \/ /\ sent' = [sent EXCEPT ![j][k] = @ + 1]
                /\ answer' = [answer EXCEPT ![j][k] = outcome]
             \/ UNCHANGED <<sent, answer>> /\ outcome = "failed"
    BY <1>5 DEF Send, CallBecomes, Answered, Outcomes
  <2>2. Answered(outcome) \in CallState
    BY DEF CallState, Stages, Answered
  <2>3. call'[j][r][k] = Answered(outcome)
    BY <2>1, <2>2, CallWritten
  <2>4. \/ sent'[j][k] = sent[j][k] + 1 /\ answer'[j][k] = outcome
        \/ UNCHANGED <<sent, answer>> /\ outcome = "failed"
    BY <2>1, SendAfter
  <2>5. call[j][r][k].stage = "send" /\ UNCHANGED runEffects
    BY <1>5 DEF Send, vars
  <2> QED
    BY <1>a, <2>3, <2>4, <2>5, KeySent
<1>6. ASSUME call[j][r][k].stage = "finish" PROVE call[j][r][k].outcome \in {"succeeded", "failed"}
  BY <1>6 DEF CallsTypeOK, CallState, Outcomes
<1>7. CASE FinishThrows(j, r, k)
  <2>1. /\ call[j][r][k].stage = "finish" /\ Enter(j, r, k, "refused")
        /\ UNCHANGED <<sent, answer>>
        /\ FinishRunEffect(j, r, k, call[j][r][k].outcome) \/ UNCHANGED runEffects
    BY <1>7 DEF FinishThrows, vars
  <2> QED
    BY <1>a, <1>b, <1>c, <1>2, <1>6, <2>1, KeyFinished
<1>8. CASE Finish(j, r, k)
  <2> DEFINE outcome == call[j][r][k].outcome
             result == FinishResult(j, r, k, outcome)
  <2>1. call[j][r][k].stage = "finish" /\ UNCHANGED <<sent, answer>>
    BY <1>8 DEF Finish
  <2>2. outcome \in {"succeeded", "failed"}
    BY <1>6, <2>1
  <2>3. result # "replayed"
    <3>1. runEffects[j][k].status \in {"reserved", "uncertain"}
      BY <2>1 DEF KeyIsExplained, CallIsExplained
    <3> QED
      BY <2>2, <3>1, SettlingAnswers
  <2>4. CASE result = "finished"
    <3>1. FinishRunEffect(j, r, k, outcome) /\ Enter(j, r, k, "returned")
      BY <1>8, <2>4 DEF Finish, Recorded
    <3> QED
      BY <1>a, <1>b, <1>c, <1>2, <2>1, <2>2, <3>1, KeyFinished
  <2>5. CASE result # "finished"
    <3>1. UNCHANGED runEffects /\ Enter(j, r, k, "refused")
      BY <1>8, <2>3, <2>5 DEF Finish, Recorded, vars
    <3> QED
      BY <1>a, <1>b, <1>c, <2>1, <3>1, KeyFinished
  <2> QED
    BY <2>4, <2>5
<1> QED
  BY <1>3, <1>4, <1>5, <1>7, <1>8 DEF CallStep

\* Every key of every job is explained in every state of the journal.
KeysAreExplained == \A j \in Jobs : \A k \in EffectKeys : KeyIsExplained(j, k)

\* No step of the journal, the store or a crash leaves a key unexplained.
LEMMA KeysStep ==
  ASSUME TypeOK, RunsAreBounded, CallsTypeOK, LedgersTypeOK, KeysAreExplained,
         [JournalNext]_journalledVars
  PROVE  KeysAreExplained'
<1>a. \A q \in Jobs, l \in EffectKeys : KeyIsExplained(q, l)
  BY DEF KeysAreExplained
<1>b. ASSUME NEW q \in Jobs, NEW l \in EffectKeys,
             runEffects'[q][l] = runEffects[q][l],
             sent'[q][l] = sent[q][l], answer'[q][l] = answer[q][l],
             \A s \in Attempts : call'[q][s][l] = call[q][s][l]
      PROVE  KeyIsExplained(q, l)'
  BY <1>a, <1>b DEF KeyIsExplained, RowIsExplained, CallIsExplained
<1>1. CASE UNCHANGED journalledVars
  BY <1>1, <1>b DEF journalledVars, vars, journalVars, KeysAreExplained
<1>2. ASSUME NEW j \in Jobs, StoreStep(j) PROVE KeysAreExplained'
  <2>1. ASSUME NEW k \in EffectKeys PROVE KeyIsExplained(j, k)'
    <3>1. /\ runEffects'[j][k].run = runEffects[j][k].run
          /\ \/ runEffects'[j][k].status = runEffects[j][k].status
             \/ runEffects[j][k].status = "reserved" /\ runEffects'[j][k].status = "uncertain"
      BY <1>2, StoreStepRows
    <3> QED
      BY <1>2, <1>a, <3>1, RowsDoubted DEF StoreStep
  <2>2. JobStep(j) \/ \E r \in DOMAIN runs[j] : RunStep(j, r)
    BY <1>2 DEF StoreStep, RunStep
  <2>3. ASSUME NEW q \in Jobs, q # j, NEW k \in EffectKeys PROVE KeyIsExplained(q, k)'
    BY <1>2, <1>b, <2>2, <2>3, OtherJobsUntouched DEF StoreStep, journalVars
  <2> QED
    BY <2>1, <2>3 DEF KeysAreExplained
<1>3. ASSUME NEW j \in Jobs, NEW r \in Attempts, Crash(j, r) PROVE KeysAreExplained'
  <2>1. /\ UNCHANGED <<runEffects, sent, answer>>
        /\ \A k \in EffectKeys : call'[j][r][k].stage = "dead"
        /\ \A q \in Jobs, s \in Attempts, l \in EffectKeys :
              <<q, s>> # <<j, r>> => call'[q][s][l] = call[q][s][l]
    BY <1>3, CallsKilled DEF Crash, vars
  <2>2. ASSUME NEW k \in EffectKeys PROVE KeyIsExplained(j, k)'
    BY <1>a, <2>1, KeyAbandoned
  <2>3. ASSUME NEW q \in Jobs, q # j, NEW k \in EffectKeys PROVE KeyIsExplained(q, k)'
    BY <1>b, <2>1, <2>3
  <2> QED
    BY <2>2, <2>3 DEF KeysAreExplained
<1>4. ASSUME NEW j \in Jobs, NEW r \in DOMAIN runs[j], r \in Attempts, NEW k \in EffectKeys,
             CallStep(j, r, k)
      PROVE  KeysAreExplained'
  <2>1. KeyIsExplained(j, k)'
    BY <1>4, <1>a, CallStepKey
  <2>2. ASSUME NEW q \in Jobs, NEW l \in EffectKeys, q # j \/ l # k
        PROVE  KeyIsExplained(q, l)'
    <3>1. runEffects'[q][l] = runEffects[q][l] /\ sent'[q][l] = sent[q][l]
          /\ answer'[q][l] = answer[q][l]
      BY <1>4, <2>2, CallStepLocal
    <3>2. \A s \in Attempts : call'[q][s][l] = call[q][s][l]
      BY <1>4, <2>2, CallStepLocal
    <3> QED
      BY <1>b, <3>1, <3>2
  <2> QED
    BY <2>1, <2>2 DEF KeysAreExplained
<1> QED
  BY <1>1, <1>2, <1>3, <1>4, RunsAreAttempts DEF JournalNext

\* Every key is explained from the empty journal on.
THEOREM KeysAreExplainedHolds == JournalSpec => []KeysAreExplained
<1>1. JournalInit => KeysAreExplained
  BY DEF JournalInit, Init, KeysAreExplained, KeyIsExplained, RowIsExplained,
         CallIsExplained, NewCall
<1>2. LedgersTypeOK /\ [JournalNext]_journalledVars => LedgersTypeOK'
  BY LedgersTypeStep
<1>3. JournalInit => LedgersTypeOK
  BY MaxFaultsAssumption DEF JournalInit, LedgersTypeOK
<1>4. TypeOK /\ RunsAreBounded /\ CallsTypeOK /\ LedgersTypeOK /\ KeysAreExplained
        /\ [JournalNext]_journalledVars => KeysAreExplained'
  BY KeysStep
<1> QED
  BY <1>1, <1>2, <1>3, <1>4, CallsTypeCorrect, JournalImplementsStore, TypeCorrect,
     RunsAreBoundedHolds, PTL DEF JournalSpec

\* ProviderAskedOnce: across retries inside a run, crashes, pauses and takeovers, no
\* two requests reach the provider under one effect key.
THEOREM ProviderAskedOnceHolds == JournalSpec => []ProviderAskedOnce
<1>1. KeysAreExplained => ProviderAskedOnce
  BY DEF KeysAreExplained, KeyIsExplained, RowIsExplained, ProviderAskedOnce
<1> QED
  BY <1>1, KeysAreExplainedHolds, PTL

\* JournalIsConsistent: the journal is truthful about the provider, a caller has only
\* recorded answers, and no effect is uncertain without a cause.
THEOREM JournalIsConsistentHolds == JournalSpec => []JournalIsConsistent
<1>1. TypeOK /\ RunsAreBounded /\ JournalTypeOK /\ KeysAreExplained => JournalIsConsistent
  <2> SUFFICES ASSUME TypeOK, RunsAreBounded, JournalTypeOK, KeysAreExplained
               PROVE  JournalIsConsistent
    OBVIOUS
  <2>1. JournalIsTruthful
    BY DEF KeysAreExplained, KeyIsExplained, RowIsExplained, JournalIsTruthful
  <2>2. ReturnedIsRecorded
    BY RunsAreAttempts
    DEF KeysAreExplained, KeyIsExplained, CallIsExplained, ReturnedIsRecorded
  <2>3. UncertainNeedsCause
    BY DEF KeysAreExplained, KeyIsExplained, RowIsExplained, UncertainNeedsCause
  <2> QED
    BY <2>1, <2>2, <2>3 DEF JournalIsConsistent
<1> QED
  BY <1>1, KeysAreExplainedHolds, JournalTypeCorrect, JournalImplementsStore, TypeCorrect,
     RunsAreBoundedHolds, PTL

-----------------------------------------------------------------------------
(* Checkpoint attempts.                                                    *)

\* Rows and executors are those of claims that were made, and each claim left its
\* graph version.
RowsFollowClaims(j) ==
    /\ Len(graphOf[j]) = Len(runs[j])
    /\ \A r \in Attempts :
          /\ attempts[j][r].status # "absent" => r <= Len(runs[j])
          /\ attempts[j][r].forkRun # NoRun <=> attempts[j][r].forkId # NoCheckpoint
          /\ attempts[j][r].forkRun <= Len(runs[j])
          /\ attempts[j][r].status = "absent" => attempts[j][r].forkRun = NoRun
          /\ r > Len(runs[j]) => saver[j][r] = IdleSaver

\* A saver acts on its own thread: what it is about to confirm is stored there.
SaverIsInStep(j, r) ==
    /\ saver[j][r].init # "ready" => saver[j][r].put = NoPut /\ saver[j][r].write = NoWrite
    /\ saver[j][r].put.stage # "none" => saver[j][r].put.id # NoCheckpoint
    /\ saver[j][r].put.stage \in {"confirm", "advance"} =>
          saver[j][r].put.id \in checkpoints[j][r]
    /\ saver[j][r].write.stage # "none" =>
          saver[j][r].write.id \in checkpoints[j][r] /\ saver[j][r].write.task \in Tasks
    /\ saver[j][r].write.stage = "confirm" =>
          <<saver[j][r].write.id, saver[j][r].write.task>> \in writes[j][r]

\* An executor that prepares follows its own row: the checkpoint it was told to copy
\* is in its thread before it activates.
ForkIsInStep(j, r) ==
    /\ saver[j][r].init \in {"read", "copy", "activate"} => attempts[j][r].status # "absent"
    /\ saver[j][r].init \in {"read", "copy"} => attempts[j][r].forkId # NoCheckpoint
    /\ saver[j][r].init \in {"copy", "activate"} /\ attempts[j][r].forkId # NoCheckpoint =>
          attempts[j][r].forkId \in checkpoints[j][r]

\* The active attempt is the newest that ever was active.
NewestIsActive(j) ==
    \A a \in ActiveAttempts(j) : \A r \in Attempts :
        attempts[j][r].status \in {"active", "superseded"} => r <= a

PointerResolves(j, r) ==
    /\ attempts[j][r].latest # NoCheckpoint => attempts[j][r].latest \in checkpoints[j][r]
    /\ attempts[j][r].forkId # NoCheckpoint =>
          /\ attempts[j][r].forkId \in checkpoints[j][attempts[j][r].forkRun]
          /\ graphOf[j][attempts[j][r].forkRun] = graphOf[j][r]

\* What the latest run prepared to fork from is still the recovery point.
ForkIsCurrent(j) ==
    \A r \in Attempts :
        r = Len(runs[j]) /\ attempts[j][r].status = "preparing" =>
            /\ \A a \in ActiveAttempts(j) :
                  /\ attempts[j][r].forkId = attempts[j][a].latest
                  /\ attempts[j][r].forkId # NoCheckpoint => attempts[j][r].forkRun = a
            /\ ActiveAttempts(j) = {} => attempts[j][r].forkId = NoCheckpoint

\* The active attempt is not behind what was confirmed.
PointerIsCurrent(j) ==
    /\ \A a \in ActiveAttempts(j) : attempts[j][a].latest >= confirmed[j]
    /\ ActiveAttempts(j) = {} => confirmed[j] = NoCheckpoint

\* Confirmed pending writes are in the thread that needs them.
WritesAt(j, c, r) ==
    \A t \in Tasks : <<c, t>> \in confirmedWrites[j] => <<c, t>> \in writes[j][r]

WritesAreStored(j) ==
    \A c \in Ids, t \in Tasks :
        <<c, t>> \in confirmedWrites[j] => \E r \in Attempts : c \in checkpoints[j][r]

WritesAreCurrent(j) ==
    \A a \in ActiveAttempts(j) :
        /\ WritesAt(j, attempts[j][a].latest, a)
        /\ saver[j][a].put.stage # "none" => WritesAt(j, saver[j][a].put.id, a)

\* ... or being copied there.
WritesAreCopied(j) ==
    \A r \in Attempts :
        r = Len(runs[j]) /\ attempts[j][r].status = "preparing" =>
            /\ saver[j][r].init = "activate" => WritesAt(j, attempts[j][r].forkId, r)
            /\ saver[j][r].init = "copy" =>
                  \A t \in Tasks :
                      <<attempts[j][r].forkId, t>> \in confirmedWrites[j] =>
                          \/ <<attempts[j][r].forkId, t>> \in writes[j][r]
                          \/ t \in saver[j][r].tasks

TablesTyped ==
    /\ graphOf \in [Jobs -> Seq(GraphVersions)]
    /\ attempts \in [Jobs -> [Attempts -> AttemptRow]]
    /\ checkpoints \in [Jobs -> [Attempts -> SUBSET Ids]]
    /\ writes \in [Jobs -> [Attempts -> SUBSET (Ids \X Tasks)]]
    /\ saver \in [Jobs -> [Attempts -> SaverState]]
    /\ confirmed \in [Jobs -> 0 .. MaxCheckpoint]
    /\ confirmedWrites \in [Jobs -> SUBSET (Ids \X Tasks)]

JobIsSound(j) ==
    /\ RowsFollowClaims(j) /\ NewestIsActive(j)
    /\ \A r \in Attempts : SaverIsInStep(j, r) /\ ForkIsInStep(j, r) /\ PointerResolves(j, r)
    /\ ForkIsCurrent(j) /\ PointerIsCurrent(j)
    /\ WritesAreStored(j) /\ WritesAreCurrent(j) /\ WritesAreCopied(j)

CheckpointInv == TablesTyped /\ \A j \in Jobs : JobIsSound(j)

-----------------------------------------------------------------------------
(* The store underneath                                                    *)

\* Every step of a checkpointed worker is a step of the job store, or leaves it alone.
LEMMA CheckpointStepsTheStore == [CheckpointNext]_allVars => [Next]_vars
<1> SUFFICES ASSUME [CheckpointNext]_allVars PROVE [Next]_vars
  OBVIOUS
<1>1. CASE UNCHANGED allVars
  BY <1>1 DEF allVars
<1>2. ASSUME NEW j \in Jobs, OtherStoreStep(j) PROVE Next
  BY <1>2 DEF OtherStoreStep, Next, JobStep, RunStep
<1>3. ASSUME NEW j \in Jobs, NEW g \in GraphVersions, ClaimWithGraph(j, g) PROVE Next
  BY <1>3 DEF ClaimWithGraph, Next, JobStep
<1>4. ASSUME NEW j \in Jobs, NEW r \in Attempts, SaverStep(j, r) PROVE UNCHANGED vars
  BY <1>4 DEF SaverStep, Prepare, ReadSource, CopyWrites, Activate, BeginPut, StoreCheckpoint,
              ConfirmPut, AdvancePointer, BeginWrites, StoreWrites, ConfirmWrites, Abort
<1>5. ASSUME NEW j \in Jobs, NEW r \in Attempts, Conclude(j, r) PROVE Next
  <2>1. \/ CompleteClaim(j, r, FALSE)
        \/ \E i \in Interrupts : PauseClaim(j, r, i)
        \/ \E outcome \in {"cancelled", "failed"} : TerminateClaim(j, r, outcome)
    BY <1>5 DEF Conclude
  <2>2. RunStep(j, r)
    BY <2>1 DEF RunStep
  <2>3. r \in DOMAIN runs[j]
    BY <2>1 DEF CompleteClaim, PauseClaim, TerminateClaim, Authorized, ActiveRun
  <2> QED
    BY <2>2, <2>3 DEF Next
<1> QED
  BY <1>1, <1>2, <1>3, <1>4, <1>5 DEF CheckpointNext

\* The checkpointed workers refine the store: whatever is proved of the store holds
\* under them, however late a saver calls.
THEOREM CheckpointsImplementStore == CheckpointSpec => Spec
<1>1. CheckpointInit => Init
  BY DEF CheckpointInit
<1> QED
  BY <1>1, CheckpointStepsTheStore, PTL DEF CheckpointSpec, Spec

\* What the store guarantees in every state.
StoreInv == TypeOK /\ OneOwner /\ RunsAreBounded

\* A fence lets only the latest run of a job through.
LEMMA FencedIsLatest ==
  ASSUME StoreInv, NEW j \in Jobs, NEW r, Authorized(j, r)
  PROVE  r = Len(runs[j]) /\ r \in Attempts
<1>1. r \in DOMAIN runs[j] /\ jobs[j].status = "running" /\ jobs[j].leaseToken = r
  BY DEF Authorized, HoldsLease, OwnsRow, ActiveRun
<1>2. r = Len(runs[j])
  BY <1>1 DEF StoreInv, OneOwner
<1>3. runs[j] \in Seq(RunStatus) /\ Len(runs[j]) <= MaxRuns
  BY DEF StoreInv, TypeOK, RunsAreBounded
<1> QED
  BY <1>1, <1>2, <1>3, MaxRunsAssumption DEF Attempts

\* Only a claim lengthens the list of runs.
LEMMA RunsStayLong ==
  ASSUME StoreInv, NEW j \in Jobs, OtherStoreStep(j) \/ \E r \in Attempts : Conclude(j, r)
  PROVE  \A q \in Jobs : Len(runs'[q]) = Len(runs[q])
<1>1. JobStep(j) \/ \E r \in DOMAIN runs[j] : RunStep(j, r)
  BY DEF OtherStoreStep, Conclude, JobStep, RunStep,
         CompleteClaim, PauseClaim, TerminateClaim, Authorized, ActiveRun
<1>2. \/ runs'[j] = runs[j]
      \/ \E r \in DOMAIN runs[j] : \E status : SetRun(j, r, status)
  BY DEF OtherStoreStep, Conclude, CreateJob, Tick, CancelParkedJob, CancelRunningJob,
         SubmitOutlineReply, HeartbeatClaim, CompleteClaim, PauseClaim, TerminateClaim,
         Authorized, ActiveRun
<1>3. Len(runs'[j]) = Len(runs[j])
  BY <1>2, RunAfter DEF StoreInv
<1>4. ASSUME NEW q \in Jobs, q # j PROVE Len(runs'[q]) = Len(runs[q])
  BY <1>1, <1>4, OtherJobsUntouched DEF StoreInv
<1> QED
  BY <1>3, <1>4

-----------------------------------------------------------------------------
(* Writing one row of a table                                              *)

CellIs(new, old, j, r, v) == new = [old EXCEPT ![j][r] = v]
RowsOf(table, T) == table \in [Jobs -> [Attempts -> T]]
OnlyRow(new, old, j, r, v) ==
    /\ new[j][r] = v
    /\ \A s \in Attempts \ {r} : new[j][s] = old[j][s]
    /\ \A q \in Jobs \ {j} : new[q] = old[q]

\* A table whose row for one run is written keeps its type and its other rows.
LEMMA CellWritten ==
  ASSUME NEW T, NEW old, RowsOf(old, T), NEW j \in Jobs, NEW r \in Attempts,
         NEW v \in T, NEW new, CellIs(new, old, j, r, v)
  PROVE  RowsOf(new, T) /\ OnlyRow(new, old, j, r, v)
<1>1. old \in [Jobs -> [Attempts -> T]] /\ old[j] \in [Attempts -> T]
  BY DEF RowsOf
<1>2. new = [old EXCEPT ![j] = [old[j] EXCEPT ![r] = v]]
  BY DEF CellIs
<1>3. [old[j] EXCEPT ![r] = v] \in [Attempts -> T]
  BY <1>1
<1> QED
  BY <1>1, <1>2, <1>3 DEF RowsOf, OnlyRow

\* What the rows of a job say does not depend on the rows of other jobs.
ThreadKept(q) ==
    /\ Len(runs'[q]) = Len(runs[q])
    /\ graphOf'[q] = graphOf[q] /\ attempts'[q] = attempts[q]
    /\ checkpoints'[q] = checkpoints[q] /\ writes'[q] = writes[q] /\ saver'[q] = saver[q]
    /\ confirmed'[q] = confirmed[q] /\ confirmedWrites'[q] = confirmedWrites[q]

\* A job whose thread a step leaves alone stays sound.
LEMMA KeptIsSound ==
  ASSUME NEW q \in Jobs, JobIsSound(q), ThreadKept(q)
  PROVE  JobIsSound(q)'
<1>1. ActiveAttempts(q)' = ActiveAttempts(q)
  BY DEF ThreadKept, ActiveAttempts
<1>2. RowsFollowClaims(q)' /\ NewestIsActive(q)'
  BY <1>1 DEF ThreadKept, JobIsSound, RowsFollowClaims, NewestIsActive
<1>3. ASSUME NEW r \in Attempts
      PROVE  SaverIsInStep(q, r)' /\ ForkIsInStep(q, r)' /\ PointerResolves(q, r)'
  BY <1>3 DEF ThreadKept, JobIsSound, SaverIsInStep, ForkIsInStep, PointerResolves
<1>4. ForkIsCurrent(q)' /\ PointerIsCurrent(q)' /\ WritesAreStored(q)'
  BY <1>1 DEF ThreadKept, JobIsSound, ForkIsCurrent, PointerIsCurrent, WritesAreStored
<1>5. WritesAreCurrent(q)' /\ WritesAreCopied(q)'
  BY <1>1 DEF ThreadKept, JobIsSound, WritesAreCurrent, WritesAreCopied, WritesAt
<1> QED
  BY <1>2, <1>3, <1>4, <1>5 DEF JobIsSound

-----------------------------------------------------------------------------
(* Steps that move a saver and may add to its storage                      *)

NewWritesAt(j, c, r) ==
    \A t \in Tasks : <<c, t>> \in confirmedWrites[j] => <<c, t>> \in writes'[j][r]

\* What the new state of a saver must agree with, if the rows stay as they are.
SaverFits(j, r, new) ==
    /\ new.init # "ready" => new.put = NoPut /\ new.write = NoWrite
    /\ new.put.stage # "none" => new.put.id # NoCheckpoint
    /\ new.put.stage \in {"confirm", "advance"} => new.put.id \in checkpoints'[j][r]
    /\ new.write.stage # "none" => new.write.id \in checkpoints'[j][r] /\ new.write.task \in Tasks
    /\ new.write.stage = "confirm" => <<new.write.id, new.write.task>> \in writes'[j][r]
    /\ new.init \in {"read", "copy", "activate"} => attempts[j][r].status # "absent"
    /\ new.init \in {"read", "copy"} => attempts[j][r].forkId # NoCheckpoint
    /\ new.init \in {"copy", "activate"} /\ attempts[j][r].forkId # NoCheckpoint =>
          attempts[j][r].forkId \in checkpoints'[j][r]
    /\ attempts[j][r].status = "active" /\ new.put.stage # "none" =>
          NewWritesAt(j, new.put.id, r)
    /\ r = Len(runs[j]) /\ attempts[j][r].status = "preparing" =>
          /\ new.init = "activate" => NewWritesAt(j, attempts[j][r].forkId, r)
          /\ new.init = "copy" =>
                \A t \in Tasks :
                    <<attempts[j][r].forkId, t>> \in confirmedWrites[j] =>
                        <<attempts[j][r].forkId, t>> \in writes'[j][r] \/ t \in new.tasks

\* Nothing but the storage of the job changes, and storage only grows.
StorageGrows(j) ==
    /\ UNCHANGED <<graphOf, attempts, confirmed, confirmedWrites>>
    /\ RowsOf(checkpoints', SUBSET Ids) /\ RowsOf(writes', SUBSET (Ids \X Tasks))
    /\ \A r \in Attempts : /\ checkpoints[j][r] \subseteq checkpoints'[j][r]
                           /\ writes[j][r] \subseteq writes'[j][r]
    /\ \A q \in Jobs \ {j} : checkpoints'[q] = checkpoints[q] /\ writes'[q] = writes[q]

TablesKept == UNCHANGED <<graphOf, attempts, checkpoints, writes, confirmed, confirmedWrites>>

\* A step that leaves the tables alone takes nothing from storage.
LEMMA StorageKept ==
  ASSUME CheckpointInv, TablesKept, NEW j \in Jobs
  PROVE  StorageGrows(j)
  BY DEF CheckpointInv, TablesTyped, TablesKept, StorageGrows, RowsOf

\* A saver that moves to a state that fits the tables leaves its job sound.
LEMMA SaverMoves ==
  ASSUME CheckpointInv, NEW j \in Jobs, NEW r \in Attempts, NEW new \in SaverState,
         CellIs(saver', saver, j, r, new), StorageGrows(j),
         \A q \in Jobs : Len(runs'[q]) = Len(runs[q]),
         r <= Len(runs[j]), SaverFits(j, r, new)
  PROVE  CheckpointInv'
<1>1. /\ saver' \in [Jobs -> [Attempts -> SaverState]]
      /\ saver'[j][r] = new
      /\ \A s \in Attempts \ {r} : saver'[j][s] = saver[j][s]
      /\ \A q \in Jobs \ {j} : saver'[q] = saver[q]
  <2>1. RowsOf(saver, SaverState)
    BY DEF CheckpointInv, TablesTyped, RowsOf
  <2>2. RowsOf(saver', SaverState) /\ OnlyRow(saver', saver, j, r, new)
    BY <2>1, CellWritten
  <2> QED
    BY <2>2 DEF RowsOf, OnlyRow
<1>2. TablesTyped'
  BY <1>1 DEF CheckpointInv, TablesTyped, StorageGrows, RowsOf
<1>3. JobIsSound(j)
  BY DEF CheckpointInv
<1>4. ActiveAttempts(j)' = ActiveAttempts(j)
  BY DEF StorageGrows, ActiveAttempts
<1>5. RowsFollowClaims(j)'
  <2>1. Len(runs'[j]) = Len(runs[j]) /\ RowsFollowClaims(j) /\ Len(runs[j]) \in Nat
    <3>1. graphOf[j] \in Seq(GraphVersions)
      BY DEF CheckpointInv, TablesTyped
    <3> QED
      BY <1>3, <3>1 DEF JobIsSound, RowsFollowClaims
  <2> QED
    BY <1>1, <2>1 DEF RowsFollowClaims, StorageGrows, Attempts
<1>6. NewestIsActive(j)' /\ PointerIsCurrent(j)' /\ WritesAreStored(j)'
  BY <1>3, <1>4 DEF JobIsSound, NewestIsActive, PointerIsCurrent, WritesAreStored, StorageGrows
<1>7. ForkIsCurrent(j)'
  BY <1>3, <1>4 DEF JobIsSound, ForkIsCurrent, StorageGrows
<1>8. ASSUME NEW s \in Attempts
      PROVE  SaverIsInStep(j, s)' /\ ForkIsInStep(j, s)' /\ PointerResolves(j, s)'
  <2>1. PointerResolves(j, s)'
    <3>1. /\ attempts[j][s].forkRun \in 0 .. MaxRuns
          /\ attempts[j][s].forkId # NoCheckpoint => attempts[j][s].forkRun # NoRun
      <4>1. attempts[j][s] \in AttemptRow /\ RowsFollowClaims(j)
        BY <1>3 DEF CheckpointInv, TablesTyped, JobIsSound
      <4> QED
        BY <4>1 DEF AttemptRow, RowsFollowClaims
    <3>2. attempts[j][s].forkId # NoCheckpoint => attempts[j][s].forkRun \in Attempts
      BY <3>1, MaxRunsAssumption DEF NoRun, Attempts
    <3>3. PointerResolves(j, s)
      BY <1>3 DEF JobIsSound
    <3> QED
      BY <3>2, <3>3 DEF PointerResolves, StorageGrows
  <2>2. CASE s # r
    BY <1>1, <1>3, <2>1, <2>2 DEF JobIsSound, SaverIsInStep, ForkIsInStep, StorageGrows
  <2>3. CASE s = r
    BY <1>1, <2>1, <2>3 DEF SaverFits, SaverIsInStep, ForkIsInStep, StorageGrows
  <2> QED
    BY <2>2, <2>3
<1>9. WritesAreCurrent(j)'
  <2> SUFFICES ASSUME NEW a \in ActiveAttempts(j)
               PROVE  /\ NewWritesAt(j, attempts[j][a].latest, a)
                      /\ saver'[j][a].put.stage # "none" => NewWritesAt(j, saver'[j][a].put.id, a)
    BY <1>4 DEF WritesAreCurrent, StorageGrows, WritesAt, NewWritesAt
  <2>1. /\ a \in Attempts /\ NewWritesAt(j, attempts[j][a].latest, a)
        /\ saver[j][a].put.stage # "none" => NewWritesAt(j, saver[j][a].put.id, a)
    BY <1>3 DEF JobIsSound, ActiveAttempts, WritesAreCurrent, StorageGrows, WritesAt, NewWritesAt
  <2>2. CASE a # r
    BY <1>1, <2>1, <2>2
  <2>3. CASE a = r
    BY <1>1, <2>1, <2>3 DEF SaverFits, ActiveAttempts
  <2> QED
    BY <2>2, <2>3
<1>10. WritesAreCopied(j)'
  <2> SUFFICES ASSUME NEW s \in Attempts, s = Len(runs[j]), attempts[j][s].status = "preparing"
               PROVE  /\ saver'[j][s].init = "activate" => NewWritesAt(j, attempts[j][s].forkId, s)
                      /\ saver'[j][s].init = "copy" =>
                            \A t \in Tasks :
                                <<attempts[j][s].forkId, t>> \in confirmedWrites[j] =>
                                    \/ <<attempts[j][s].forkId, t>> \in writes'[j][s]
                                    \/ t \in saver'[j][s].tasks
    BY DEF WritesAreCopied, StorageGrows, WritesAt, NewWritesAt
  <2>1. /\ saver[j][s].init = "activate" => WritesAt(j, attempts[j][s].forkId, s)
        /\ saver[j][s].init = "copy" =>
              \A t \in Tasks :
                  <<attempts[j][s].forkId, t>> \in confirmedWrites[j] =>
                      \/ <<attempts[j][s].forkId, t>> \in writes[j][s]
                      \/ t \in saver[j][s].tasks
    BY <1>3 DEF JobIsSound, WritesAreCopied
  <2>2. CASE s # r
    BY <1>1, <2>1, <2>2 DEF StorageGrows, WritesAt, NewWritesAt
  <2>3. CASE s = r
    BY <1>1, <2>3 DEF SaverFits
  <2> QED
    BY <2>2, <2>3
<1>11. JobIsSound(j)'
  BY <1>5, <1>6, <1>7, <1>8, <1>9, <1>10 DEF JobIsSound
<1>12. ASSUME NEW q \in Jobs, q # j PROVE JobIsSound(q)'
  <2>1. ThreadKept(q) /\ JobIsSound(q)
    BY <1>1, <1>12 DEF ThreadKept, StorageGrows, CheckpointInv
  <2> QED
    BY <2>1, KeptIsSound
<1> QED
  BY <1>2, <1>11, <1>12 DEF CheckpointInv

\* An executor that has begun is one of a claimed run.
LEMMA StartedWasClaimed ==
  ASSUME CheckpointInv, NEW j \in Jobs, NEW r \in Attempts, saver[j][r].init # "idle"
  PROVE  r <= Len(runs[j])
<1>1. RowsFollowClaims(j) /\ graphOf[j] \in Seq(GraphVersions)
  BY DEF CheckpointInv, JobIsSound, TablesTyped
<1> QED
  BY <1>1 DEF RowsFollowClaims, IdleSaver, Attempts

\* The state an executor is left in when it stops.
StoppedSaver == [IdleSaver EXCEPT !.init = "stopped"]

\* An executor may stop at any time: an exception, an abort or a crash.
LEMMA StopIsSound ==
  ASSUME CheckpointInv, NEW j \in Jobs, NEW r \in Attempts, saver[j][r].init # "idle",
         Stop(j, r), StorageGrows(j), \A q \in Jobs : Len(runs'[q]) = Len(runs[q])
  PROVE  CheckpointInv'
<1> DEFINE new == StoppedSaver
<1>1. /\ new \in SaverState /\ new.init = "stopped" /\ new.put = NoPut /\ new.write = NoWrite
      /\ NoPut.stage = "none" /\ NoWrite.stage = "none"
  BY MaxCheckpointAssumption
  DEF StoppedSaver, IdleSaver, SaverState, NoPut, NoWrite, NoCheckpoint
<1>2. CellIs(saver', saver, j, r, new)
  BY DEF Stop, CellIs, StoppedSaver
<1> HIDE DEF new
<1>3. SaverFits(j, r, new)
  BY <1>1 DEF SaverFits
<1>4. r <= Len(runs[j])
  BY StartedWasClaimed
<1> QED
  BY <1>1, <1>2, <1>3, <1>4, SaverMoves

\* What is known of a saver before its step.
LEMMA BeforeStep ==
  ASSUME CheckpointInv, NEW j \in Jobs, NEW r \in Attempts
  PROVE  /\ saver[j][r] \in SaverState /\ attempts[j][r] \in AttemptRow
         /\ SaverIsInStep(j, r) /\ ForkIsInStep(j, r) /\ PointerResolves(j, r)
         /\ attempts[j][r].status = "active" => r \in ActiveAttempts(j)
  BY DEF CheckpointInv, TablesTyped, JobIsSound, ActiveAttempts

\* A state of the saver of an active attempt that keeps the put in flight, or starts
\* one under a new id, fits the tables.
LEMMA ActiveSaverFits ==
  ASSUME CheckpointInv, NEW j \in Jobs, NEW r \in Attempts, NEW new,
         StorageGrows(j),
         attempts[j][r].status = "active", saver[j][r].init = "ready", new.init = "ready",
         \/ new.put = saver[j][r].put
         \/ new.put.stage = "store" /\ new.put.id \in Ids /\ new.put.id \notin Used(j)
         \/ saver[j][r].put.stage = "confirm" /\ new.put.stage = "advance"
            /\ new.put.id = saver[j][r].put.id,
         \/ new.write = saver[j][r].write
         \/ new.write.stage = "store" /\ new.write.id \in checkpoints[j][r]
            /\ new.write.task \in Tasks
  PROVE  SaverFits(j, r, new)
<1>1. /\ SaverIsInStep(j, r) /\ r \in ActiveAttempts(j)
      /\ WritesAreCurrent(j) /\ WritesAreStored(j)
  BY BeforeStep DEF CheckpointInv, JobIsSound
<1>2. ASSUME new.put.stage = "store", new.put.id \in Ids, new.put.id \notin Used(j)
      PROVE  NewWritesAt(j, new.put.id, r) /\ new.put.id # NoCheckpoint
  BY <1>1, <1>2, MaxCheckpointAssumption DEF NewWritesAt, WritesAreStored, Used, Ids, NoCheckpoint
<1>3. ASSUME saver[j][r].put.stage # "none"
      PROVE  NewWritesAt(j, saver[j][r].put.id, r)
  BY <1>1, <1>3 DEF WritesAreCurrent, WritesAt, NewWritesAt, StorageGrows
<1>4. /\ new.put.stage # "none" => NewWritesAt(j, new.put.id, r) /\ new.put.id # NoCheckpoint
      /\ new.put.stage \in {"confirm", "advance"} => new.put.id \in checkpoints'[j][r]
  BY <1>1, <1>2, <1>3 DEF SaverIsInStep, StorageGrows
<1>5. /\ new.write.stage # "none" => new.write.id \in checkpoints'[j][r] /\ new.write.task \in Tasks
      /\ new.write.stage = "confirm" => <<new.write.id, new.write.task>> \in writes'[j][r]
  BY <1>1 DEF SaverIsInStep, StorageGrows
<1> QED
  BY <1>4, <1>5 DEF SaverFits

\* A step that leaves the store alone claims nothing.
LEMMA VarsKeepRuns ==
  ASSUME UNCHANGED vars
  PROVE  \A q \in Jobs : Len(runs'[q]) = Len(runs[q])
  BY DEF vars

\* A put or putWrites call begins, or a put is confirmed.
LEMMA AuthorizedStepsSound ==
  ASSUME CheckpointInv, NEW j \in Jobs, NEW r \in Attempts,
         \/ \E c \in Ids : BeginPut(j, r, c)
         \/ ConfirmPut(j, r)
         \/ \E c \in Ids, t \in Tasks : BeginWrites(j, r, c, t)
  PROVE  CheckpointInv'
<1> DEFINE old == saver[j][r]
<1>1. StorageGrows(j) /\ \A q \in Jobs : Len(runs'[q]) = Len(runs[q])
  BY VarsKeepRuns, StorageKept DEF BeginPut, ConfirmPut, BeginWrites, TablesKept
<1>2. old \in SaverState /\ SaverIsInStep(j, r) /\ old.init = "ready"
  <2>1. old \in SaverState /\ SaverIsInStep(j, r)
    BY BeforeStep
  <2>2. old.init = "ready" \/ old.put.stage = "confirm"
    BY DEF BeginPut, ConfirmPut, BeginWrites
  <2>3. NoPut.stage = "none"
    BY DEF NoPut
  <2> QED
    BY <2>1, <2>2, <2>3 DEF SaverIsInStep
<1>3. r <= Len(runs[j])
  BY <1>2, StartedWasClaimed
<1>4. CASE Stop(j, r)
  BY <1>1, <1>2, <1>4, StopIsSound
<1>5. ASSUME NEW new \in SaverState, CellIs(saver', saver, j, r, new), SaverFits(j, r, new)
      PROVE  CheckpointInv'
  BY <1>1, <1>3, <1>5, SaverMoves
<1>6. ASSUME NEW c \in Ids, BeginPut(j, r, c), ~Stop(j, r)
      PROVE  CheckpointInv'
  <2> DEFINE new == [old EXCEPT !.put = NewPut(c)]
  <2>1. /\ new \in SaverState /\ new.init = "ready" /\ new.write = old.write
        /\ new.put.stage = "store" /\ new.put.id = c
    BY <1>2, MaxCheckpointAssumption DEF SaverState, NewPut, Ids
  <2>2. CellIs(saver', saver, j, r, new)
    BY <1>6 DEF BeginPut, CellIs
  <2>3. attempts[j][r].status = "active" /\ c \notin Used(j)
    BY <1>6 DEF BeginPut, MayWrite
  <2> HIDE DEF new
  <2>4. SaverFits(j, r, new)
    BY <1>1, <1>2, <2>1, <2>3, ActiveSaverFits
  <2> QED
    BY <1>5, <2>1, <2>2, <2>4
<1>7. ASSUME ConfirmPut(j, r), ~Stop(j, r)
      PROVE  CheckpointInv'
  <2> DEFINE new == [old EXCEPT !.put = [old.put EXCEPT !.stage = "advance"]]
  <2>1. /\ new \in SaverState /\ new.init = "ready" /\ new.write = old.write
        /\ new.put.stage = "advance" /\ new.put.id = old.put.id
    BY <1>2 DEF SaverState
  <2>2. CellIs(saver', saver, j, r, new)
    BY <1>7 DEF ConfirmPut, PutStage, CellIs
  <2>3. attempts[j][r].status = "active" /\ old.put.stage = "confirm"
    BY <1>7 DEF ConfirmPut, MayWrite
  <2> HIDE DEF new
  <2>4. SaverFits(j, r, new)
    BY <1>1, <1>2, <2>1, <2>3, ActiveSaverFits
  <2> QED
    BY <1>5, <2>1, <2>2, <2>4
<1>8. ASSUME NEW c \in Ids, NEW t \in Tasks, BeginWrites(j, r, c, t), ~Stop(j, r)
      PROVE  CheckpointInv'
  <2> DEFINE new == [old EXCEPT !.write = [stage |-> "store", id |-> c, task |-> t]]
  <2>1. /\ new \in SaverState /\ new.init = "ready" /\ new.put = old.put
        /\ new.write.stage = "store" /\ new.write.id = c /\ new.write.task = t
    BY <1>2, MaxCheckpointAssumption DEF SaverState, Ids
  <2>2. CellIs(saver', saver, j, r, new)
    BY <1>8 DEF BeginWrites, CellIs
  <2>3. attempts[j][r].status = "active" /\ c \in checkpoints[j][r]
    BY <1>8 DEF BeginWrites, MayWrite
  <2> HIDE DEF new
  <2>4. SaverFits(j, r, new)
    BY <1>1, <1>2, <2>1, <2>3, ActiveSaverFits
  <2> QED
    BY <1>5, <2>1, <2>2, <2>4
<1> QED
  BY <1>4, <1>6, <1>7, <1>8

StorageOf(table, T) == RowsOf(table, SUBSET T)
Gains(new, old, j, r, v) == CellIs(new, old, j, r, old[j][r] \cup {v})
GrowsBy(new, old, j, r, v) ==
    /\ v \in new[j][r]
    /\ \A s \in Attempts : old[j][s] \subseteq new[j][s]
    /\ \A q \in Jobs \ {j} : new[q] = old[q]

\* A row of storage that gains an element grows, and no other row changes.
LEMMA RowGrows ==
  ASSUME NEW T, NEW old, StorageOf(old, T), NEW j \in Jobs, NEW r \in Attempts,
         NEW v \in T, NEW new, Gains(new, old, j, r, v)
  PROVE  StorageOf(new, T) /\ GrowsBy(new, old, j, r, v)
<1> DEFINE row == old[j][r] \cup {v}
           rows == SUBSET T
<1>1. row \in rows /\ RowsOf(old, rows) /\ CellIs(new, old, j, r, row)
  BY DEF StorageOf, RowsOf, Gains
<1>2. old[j][r] \subseteq row /\ v \in row
  OBVIOUS
<1> HIDE DEF row, rows
<1>3. RowsOf(new, rows) /\ OnlyRow(new, old, j, r, row)
  BY <1>1, CellWritten
<1> QED
  BY <1>2, <1>3 DEF OnlyRow, GrowsBy, StorageOf, rows

\* A put or putWrites call reaches storage, with or without the lease.
LEMMA StoresSound ==
  ASSUME CheckpointInv, NEW j \in Jobs, NEW r \in Attempts,
         StoreCheckpoint(j, r) \/ StoreWrites(j, r)
  PROVE  CheckpointInv'
<1> DEFINE old == saver[j][r]
<1>1. \A q \in Jobs : Len(runs'[q]) = Len(runs[q])
  BY VarsKeepRuns DEF StoreCheckpoint, StoreWrites
<1>2. old \in SaverState /\ SaverIsInStep(j, r)
  BY BeforeStep
<1>3. old.init = "ready"
  <2>1. old.put.stage = "store" \/ old.write.stage = "store"
    BY DEF StoreCheckpoint, StoreWrites
  <2>2. NoPut.stage = "none" /\ NoWrite.stage = "none"
    BY DEF NoPut, NoWrite
  <2> QED
    BY <1>2, <2>1, <2>2 DEF SaverIsInStep
<1>4. r <= Len(runs[j])
  BY <1>3, StartedWasClaimed
<1>5. StorageOf(checkpoints, Ids) /\ StorageOf(writes, Ids \X Tasks)
  BY DEF CheckpointInv, TablesTyped, RowsOf, StorageOf
<1>6. attempts[j][r].status = "active" /\ old.put.stage # "none" => WritesAt(j, old.put.id, r)
  BY BeforeStep DEF CheckpointInv, JobIsSound, WritesAreCurrent
<1>7. CASE StoreCheckpoint(j, r)
  <2> DEFINE new == [old EXCEPT !.put = [old.put EXCEPT !.stage = "confirm"]]
             c == old.put.id
  <2>1. /\ new \in SaverState /\ new.init = "ready" /\ new.write = old.write
        /\ new.put.stage = "confirm" /\ new.put.id = old.put.id
    BY <1>2, <1>3 DEF SaverState
  <2>2. CellIs(saver', saver, j, r, new)
    BY <1>7 DEF StoreCheckpoint, PutStage, CellIs
  <2>3. old.put.stage = "store" /\ c \in Ids /\ c # NoCheckpoint
    <3>1. old.put.stage = "store"
      BY <1>7 DEF StoreCheckpoint
    <3>2. c \in 0 .. MaxCheckpoint
      BY <1>2 DEF SaverState
    <3> QED
      BY <1>2, <3>1, <3>2, MaxCheckpointAssumption DEF SaverIsInStep, Ids, NoCheckpoint
  <2>4. Gains(checkpoints', checkpoints, j, r, c)
    BY <1>7 DEF StoreCheckpoint, Gains, CellIs
  <2> HIDE DEF c
  <2>5. StorageOf(checkpoints', Ids) /\ GrowsBy(checkpoints', checkpoints, j, r, c)
    BY <1>5, <2>3, <2>4, RowGrows
  <2>6. StorageGrows(j) /\ writes' = writes /\ c \in checkpoints'[j][r]
        /\ checkpoints[j][r] \subseteq checkpoints'[j][r]
    BY <1>5, <1>7, <2>5 DEF StoreCheckpoint, StorageGrows, StorageOf, GrowsBy
  <2> HIDE DEF new
  <2>7. SaverFits(j, r, new)
    BY <1>2, <1>3, <1>6, <2>1, <2>3, <2>6
    DEF SaverIsInStep, SaverFits, WritesAt, NewWritesAt, c
  <2> QED
    BY <1>1, <1>4, <2>1, <2>2, <2>6, <2>7, SaverMoves
<1>8. CASE StoreWrites(j, r)
  <2> DEFINE new == [old EXCEPT !.write = [old.write EXCEPT !.stage = "confirm"]]
             w == <<old.write.id, old.write.task>>
  <2>1. /\ new \in SaverState /\ new.init = "ready" /\ new.put = old.put
        /\ new.write.stage = "confirm" /\ new.write.id = old.write.id
        /\ new.write.task = old.write.task
    BY <1>2, <1>3 DEF SaverState
  <2>2. CellIs(saver', saver, j, r, new)
    BY <1>8 DEF StoreWrites, WriteStage, CellIs
  <2>3. old.write.stage = "store" /\ w \in Ids \X Tasks
    <3>1. old.write.stage = "store"
      BY <1>8 DEF StoreWrites
    <3>2. old.write.id \in Ids
      BY <1>2, <1>5, <3>1 DEF SaverIsInStep, RowsOf, StorageOf
    <3> QED
      BY <1>2, <3>1, <3>2 DEF SaverIsInStep
  <2>4. Gains(writes', writes, j, r, w)
    BY <1>8 DEF StoreWrites, Gains, CellIs
  <2> HIDE DEF w
  <2> DEFINE pairs == Ids \X Tasks
  <2>5. StorageOf(writes, pairs) /\ w \in pairs
    BY <1>5, <2>3
  <2> HIDE DEF pairs
  <2>9. StorageOf(writes', pairs) /\ GrowsBy(writes', writes, j, r, w)
    BY <2>4, <2>5, RowGrows
  <2>6. StorageGrows(j) /\ checkpoints' = checkpoints /\ w \in writes'[j][r]
        /\ writes[j][r] \subseteq writes'[j][r]
    BY <1>5, <1>8, <2>9 DEF StoreWrites, StorageGrows, StorageOf, GrowsBy, pairs
  <2> HIDE DEF new
  <2>7. SaverFits(j, r, new)
    BY <1>2, <1>3, <1>6, <2>1, <2>3, <2>6
    DEF SaverIsInStep, SaverFits, WritesAt, NewWritesAt, w
  <2> QED
    BY <1>1, <1>4, <2>1, <2>2, <2>6, <2>7, SaverMoves
<1> QED
  BY <1>7, <1>8

\* What a run that still is the latest reads has all that was confirmed.
LEMMA SourceIsCurrent ==
  ASSUME CheckpointInv, NEW j \in Jobs, NEW r \in Attempts,
         r = Len(runs[j]), attempts[j][r].status = "preparing",
         attempts[j][r].forkId # NoCheckpoint
  PROVE  WritesAt(j, attempts[j][r].forkId, attempts[j][r].forkRun)
  BY DEF CheckpointInv, JobIsSound, ForkIsCurrent, WritesAreCurrent

\* The source is read into the new thread.
LEMMA ReadSourceSound ==
  ASSUME CheckpointInv, NEW j \in Jobs, NEW r \in Attempts, ReadSource(j, r)
  PROVE  CheckpointInv'
<1> DEFINE old == saver[j][r]
           s == attempts[j][r].forkRun
           c == attempts[j][r].forkId
           tasks == {t \in Tasks : <<c, t>> \in writes[j][s]}
           new == [old EXCEPT !.init = "copy", !.tasks = tasks]
<1>1. \A q \in Jobs : Len(runs'[q]) = Len(runs[q])
  BY VarsKeepRuns DEF ReadSource
<1>2. old \in SaverState /\ SaverIsInStep(j, r) /\ ForkIsInStep(j, r) /\ old.init = "read"
  BY BeforeStep DEF ReadSource
<1>3. r <= Len(runs[j])
  BY <1>2, StartedWasClaimed
<1>4. CASE c \notin checkpoints[j][s]
  <2>1. Stop(j, r) /\ TablesKept
    BY <1>4 DEF ReadSource, TablesKept
  <2>2. StorageGrows(j)
    BY <2>1, StorageKept
  <2> QED
    BY <1>1, <1>2, <2>1, <2>2, StopIsSound
<1>5. CASE c \in checkpoints[j][s]
  <2>1. /\ new \in SaverState /\ new.init = "copy" /\ new.tasks = tasks
        /\ new.put = old.put /\ new.write = old.write
    BY <1>2 DEF SaverState
  <2>2. CellIs(saver', saver, j, r, new)
    BY <1>5 DEF ReadSource, CellIs
  <2>3. c \in Ids /\ c # NoCheckpoint
    <3>1. attempts[j][r] \in AttemptRow
      BY BeforeStep
    <3> QED
      BY <1>2, <3>1, MaxCheckpointAssumption DEF ForkIsInStep, AttemptRow, Ids, NoCheckpoint
  <2>4. Gains(checkpoints', checkpoints, j, r, c)
    BY <1>5 DEF ReadSource, Gains, CellIs
  <2>5. StorageOf(checkpoints, Ids) /\ StorageOf(writes, Ids \X Tasks)
    BY DEF CheckpointInv, TablesTyped, RowsOf, StorageOf
  <2>8. ASSUME r = Len(runs[j]), attempts[j][r].status = "preparing", NEW t \in Tasks,
               <<c, t>> \in confirmedWrites[j]
        PROVE  t \in tasks
    BY <2>3, <2>8, SourceIsCurrent DEF WritesAt
  <2> HIDE DEF c, tasks
  <2>6. StorageOf(checkpoints', Ids) /\ GrowsBy(checkpoints', checkpoints, j, r, c)
    BY <2>3, <2>4, <2>5, RowGrows
  <2>7. StorageGrows(j) /\ writes' = writes /\ c \in checkpoints'[j][r]
    BY <1>5, <2>5, <2>6 DEF ReadSource, StorageGrows, StorageOf, GrowsBy, c
  <2>9. NoPut.stage = "none" /\ NoWrite.stage = "none"
    BY DEF NoPut, NoWrite
  <2> HIDE DEF new
  <2>10. SaverFits(j, r, new)
    BY <1>2, <2>1, <2>3, <2>7, <2>8, <2>9 DEF SaverIsInStep, ForkIsInStep, SaverFits, c
  <2> QED
    BY <1>1, <1>3, <2>1, <2>2, <2>7, <2>10, SaverMoves
<1> QED
  BY <1>4, <1>5

\* The pending writes are copied one by one; when none is left the run may activate.
LEMMA CopyWritesSound ==
  ASSUME CheckpointInv, NEW j \in Jobs, NEW r \in Attempts, CopyWrites(j, r)
  PROVE  CheckpointInv'
<1> DEFINE old == saver[j][r]
           c == attempts[j][r].forkId
<1>1. \A q \in Jobs : Len(runs'[q]) = Len(runs[q])
  BY VarsKeepRuns DEF CopyWrites
<1>2. /\ old \in SaverState /\ SaverIsInStep(j, r) /\ ForkIsInStep(j, r)
      /\ old.init = "copy" /\ attempts[j][r] \in AttemptRow
  BY BeforeStep DEF CopyWrites
<1>3. r <= Len(runs[j])
  BY <1>2, StartedWasClaimed
<1>4. c \in Ids /\ c # NoCheckpoint /\ c \in checkpoints[j][r] /\ attempts[j][r].status # "absent"
  BY <1>2, MaxCheckpointAssumption DEF ForkIsInStep, AttemptRow, Ids, NoCheckpoint
<1>5. ASSUME r = Len(runs[j]), attempts[j][r].status = "preparing", NEW t \in Tasks,
             <<c, t>> \in confirmedWrites[j]
      PROVE  <<c, t>> \in writes[j][r] \/ t \in old.tasks
  BY <1>2, <1>5 DEF CheckpointInv, JobIsSound, WritesAreCopied
<1>6. NoPut.stage = "none" /\ NoWrite.stage = "none"
  BY DEF NoPut, NoWrite
<1>7. StorageOf(writes, Ids \X Tasks) /\ StorageOf(checkpoints, Ids)
  BY DEF CheckpointInv, TablesTyped, RowsOf, StorageOf
<1>8. ASSUME NEW t \in old.tasks,
             writes' = [writes EXCEPT ![j][r] = @ \cup {<<c, t>>}],
             saver' = [saver EXCEPT ![j][r].tasks = @ \ {t}],
             UNCHANGED <<graphOf, attempts, checkpoints, confirmed, confirmedWrites>>
      PROVE  CheckpointInv'
  <2> DEFINE new == [old EXCEPT !.tasks = old.tasks \ {t}]
             w == <<c, t>>
             pairs == Ids \X Tasks
  <2>1. /\ new \in SaverState /\ new.init = "copy" /\ new.put = old.put
        /\ new.write = old.write /\ new.tasks = old.tasks \ {t}
    BY <1>2 DEF SaverState
  <2>2. CellIs(saver', saver, j, r, new)
    BY <1>8 DEF CellIs
  <2>3. Gains(writes', writes, j, r, w)
    BY <1>8 DEF Gains, CellIs
  <2>4. StorageOf(writes, pairs) /\ w \in pairs
    BY <1>2, <1>4, <1>7, <1>8 DEF SaverState
  <2> HIDE DEF pairs, w
  <2>5. StorageOf(writes', pairs) /\ GrowsBy(writes', writes, j, r, w)
    BY <2>3, <2>4, RowGrows
  <2>6. StorageGrows(j) /\ w \in writes'[j][r] /\ writes[j][r] \subseteq writes'[j][r]
    BY <1>7, <1>8, <2>5 DEF StorageGrows, StorageOf, GrowsBy, pairs
  <2> HIDE DEF new
  <2>7. ASSUME r = Len(runs[j]), attempts[j][r].status = "preparing", NEW s \in Tasks,
               <<c, s>> \in confirmedWrites[j]
        PROVE  <<c, s>> \in writes'[j][r] \/ s \in new.tasks
    BY <1>5, <2>1, <2>6, <2>7 DEF w
  <2>8. checkpoints' = checkpoints
    BY <1>8
  <2>9. SaverFits(j, r, new)
    BY <1>2, <1>4, <1>6, <2>1, <2>7, <2>8 DEF SaverIsInStep, SaverFits
  <2> QED
    BY <1>1, <1>3, <2>1, <2>2, <2>6, <2>9, SaverMoves
<1>9. ASSUME old.tasks = {}, Move(j, r, "activate"), TablesKept
      PROVE  CheckpointInv'
  <2> DEFINE new == [old EXCEPT !.init = "activate"]
  <2>1. new \in SaverState /\ new.init = "activate" /\ new.put = old.put /\ new.write = old.write
    BY <1>2 DEF SaverState
  <2>2. CellIs(saver', saver, j, r, new)
    BY <1>9 DEF Move, CellIs
  <2>3. StorageGrows(j)
    BY <1>9, StorageKept
  <2> HIDE DEF new
  <2>4. r = Len(runs[j]) /\ attempts[j][r].status = "preparing" => NewWritesAt(j, c, r)
    BY <1>5, <1>9 DEF NewWritesAt, TablesKept
  <2>5. SaverFits(j, r, new)
    BY <1>2, <1>4, <1>6, <1>9, <2>1, <2>4 DEF SaverIsInStep, SaverFits, TablesKept
  <2> QED
    BY <1>1, <1>3, <2>1, <2>2, <2>3, <2>5, SaverMoves
<1> QED
  BY <1>8, <1>9 DEF CopyWrites, TablesKept

-----------------------------------------------------------------------------
(* Steps that change the recovery point or what is confirmed               *)

\* A putWrites call is confirmed: its pairs are in the thread of the active attempt.
LEMMA ConfirmWritesSound ==
  ASSUME StoreInv, CheckpointInv, NEW j \in Jobs, NEW r \in Attempts, ConfirmWrites(j, r)
  PROVE  CheckpointInv'
<1> DEFINE old == saver[j][r]
           w == <<old.write.id, old.write.task>>
<1>1. \A q \in Jobs : Len(runs'[q]) = Len(runs[q])
  BY VarsKeepRuns DEF ConfirmWrites
<1>2. /\ old \in SaverState /\ SaverIsInStep(j, r) /\ ForkIsInStep(j, r) /\ JobIsSound(j)
      /\ old.write.stage = "confirm"
  BY BeforeStep DEF ConfirmWrites, CheckpointInv
<1>3. NoWrite.stage = "none"
  BY DEF NoWrite
<1>4. old.init = "ready"
  BY <1>2, <1>3 DEF SaverIsInStep
<1>5. CASE ~MayWrite(j, r)
  <2>1. Stop(j, r) /\ TablesKept
    BY <1>5 DEF ConfirmWrites, TablesKept
  <2>2. StorageGrows(j)
    BY <2>1, StorageKept
  <2> QED
    BY <1>1, <1>4, <2>1, <2>2, StopIsSound
<1>6. CASE MayWrite(j, r)
  <2> DEFINE new == [old EXCEPT !.write = NoWrite]
  <2>1. /\ new \in SaverState /\ new.init = "ready" /\ new.put = old.put /\ new.write = NoWrite
    BY <1>2, <1>4, MaxCheckpointAssumption DEF SaverState, NoWrite, NoCheckpoint
  <2>2. CellIs(saver', saver, j, r, new)
    BY <1>6 DEF ConfirmWrites, CellIs
  <2> HIDE DEF new
  <2>3. RowsOf(saver', SaverState) /\ OnlyRow(saver', saver, j, r, new)
    <3>1. RowsOf(saver, SaverState)
      BY DEF CheckpointInv, TablesTyped, RowsOf
    <3> QED
      BY <2>1, <2>2, <3>1, CellWritten
  <2>4. confirmedWrites' = [confirmedWrites EXCEPT ![j] = confirmedWrites[j] \cup {w}]
        /\ UNCHANGED <<graphOf, attempts, checkpoints, writes, confirmed>>
    BY <1>6 DEF ConfirmWrites
  <2>5. w \in writes[j][r] /\ w[1] \in checkpoints[j][r]
    BY <1>2 DEF SaverIsInStep
  <2>6. w \in Ids \X Tasks
    BY <2>5 DEF CheckpointInv, TablesTyped
  <2>7. r \in ActiveAttempts(j) /\ attempts[j][r].status = "active"
    BY <1>6 DEF MayWrite, ActiveAttempts
  <2>8. \A a \in ActiveAttempts(j) : a = r
    BY <1>2, <2>7 DEF JobIsSound, NewestIsActive, ActiveAttempts, Attempts
  <2>9. /\ \A q \in Jobs \ {j} : saver'[q] = saver[q] /\ confirmedWrites'[q] = confirmedWrites[q]
        /\ confirmedWrites'[j] = confirmedWrites[j] \cup {w}
    BY <2>3, <2>4 DEF OnlyRow, CheckpointInv, TablesTyped
  <2>10. TablesTyped'
    BY <2>3, <2>4, <2>6 DEF CheckpointInv, TablesTyped, RowsOf
  <2>11. ActiveAttempts(j)' = ActiveAttempts(j)
    BY <2>4 DEF ActiveAttempts
  <2>12. RowsFollowClaims(j)'
    <3>1. r <= Len(runs[j]) /\ Len(runs'[j]) = Len(runs[j]) /\ Len(runs[j]) \in Nat
      <4>1. graphOf[j] \in Seq(GraphVersions)
        BY DEF CheckpointInv, TablesTyped
      <4> QED
        BY <1>1, <1>2, <1>4, <4>1, StartedWasClaimed DEF JobIsSound, RowsFollowClaims
    <3>2. \A s \in Attempts \ {r} : saver'[j][s] = saver[j][s]
      BY <2>3 DEF OnlyRow
    <3> QED
      BY <1>2, <2>4, <3>1, <3>2 DEF JobIsSound, RowsFollowClaims, Attempts
  <2>13. NewestIsActive(j)' /\ PointerIsCurrent(j)' /\ ForkIsCurrent(j)'
    BY <1>1, <1>2, <2>4, <2>11
    DEF JobIsSound, NewestIsActive, PointerIsCurrent, ForkIsCurrent
  <2>14. ASSUME NEW s \in Attempts
         PROVE  SaverIsInStep(j, s)' /\ ForkIsInStep(j, s)' /\ PointerResolves(j, s)'
    <3>1. PointerResolves(j, s)'
      BY <1>2, <2>4 DEF JobIsSound, PointerResolves
    <3>2. CASE s # r
      BY <1>2, <2>3, <2>4, <3>1, <3>2 DEF OnlyRow, JobIsSound, SaverIsInStep, ForkIsInStep
    <3>3. CASE s = r
      <4>1. saver'[j][r] = new
        BY <2>3 DEF OnlyRow
      <4> QED
        BY <1>2, <1>3, <2>1, <2>4, <3>1, <3>3, <4>1 DEF SaverIsInStep, ForkIsInStep
    <3> QED
      BY <3>2, <3>3
  <2>15. WritesAreStored(j)'
    BY <1>2, <2>4, <2>5, <2>9 DEF JobIsSound, WritesAreStored
  <2>16. WritesAreCurrent(j)'
    <3>1. saver'[j][r].put = saver[j][r].put
      BY <2>1, <2>3 DEF OnlyRow
    <3>2. /\ WritesAt(j, attempts[j][r].latest, r)
          /\ saver[j][r].put.stage # "none" => WritesAt(j, saver[j][r].put.id, r)
      BY <1>2, <2>7 DEF JobIsSound, WritesAreCurrent
    <3>3. \A c, t : <<c, t>> \in confirmedWrites'[j] => <<c, t>> \in confirmedWrites[j] \/ <<c, t>> = w
      BY <2>9
    <3> QED
      BY <2>4, <2>5, <2>8, <2>11, <3>1, <3>2, <3>3 DEF WritesAreCurrent, WritesAt
  <2>17. WritesAreCopied(j)'
    <3> SUFFICES ASSUME NEW s \in Attempts, s = Len(runs'[j]), attempts'[j][s].status = "preparing"
                 PROVE  FALSE
      BY DEF WritesAreCopied
    <3>1. s = Len(runs[j]) /\ attempts[j][s].status = "preparing"
      BY <1>1, <2>4
    <3>2. r = Len(runs[j])
      BY <1>6, FencedIsLatest DEF MayWrite
    <3> QED
      BY <2>7, <3>1, <3>2
  <2>18. JobIsSound(j)'
    BY <2>12, <2>13, <2>14, <2>15, <2>16, <2>17 DEF JobIsSound
  <2>19. ASSUME NEW q \in Jobs, q # j PROVE JobIsSound(q)'
    <3>1. ThreadKept(q) /\ JobIsSound(q)
      BY <1>1, <2>4, <2>9, <2>19 DEF ThreadKept, CheckpointInv
    <3> QED
      BY <3>1, KeptIsSound
  <2> QED
    BY <2>10, <2>18, <2>19 DEF CheckpointInv
<1> QED
  BY <1>5, <1>6

\* A job stays sound if its rows of the active and the newest run do, and nobody
\* but the run that takes the step is touched.
LEMMA JobStepSound ==
  ASSUME CheckpointInv, NEW j \in Jobs, NEW r \in Attempts, NEW new \in SaverState,
         NEW row \in AttemptRow,
         CellIs(saver', saver, j, r, new), CellIs(attempts', attempts, j, r, row),
         UNCHANGED <<graphOf, checkpoints, writes, confirmedWrites>>,
         confirmed' \in [Jobs -> 0 .. MaxCheckpoint],
         \A q \in Jobs \ {j} : confirmed'[q] = confirmed[q],
         \A q \in Jobs : Len(runs'[q]) = Len(runs[q]),
         r <= Len(runs[j]), row.status # "absent",
         row.forkRun # NoRun <=> row.forkId # NoCheckpoint, row.forkRun <= Len(runs[j]),
         row.status = "active" <=> attempts[j][r].status = "active",
         row.status = "superseded" => attempts[j][r].status = "superseded",
         SaverIsInStep(j, r)', ForkIsInStep(j, r)', PointerResolves(j, r)',
         ForkIsCurrent(j)', PointerIsCurrent(j)', WritesAreCurrent(j)', WritesAreCopied(j)'
  PROVE  CheckpointInv'
<1>1. RowsOf(saver', SaverState) /\ OnlyRow(saver', saver, j, r, new)
  <2>1. RowsOf(saver, SaverState)
    BY DEF CheckpointInv, TablesTyped, RowsOf
  <2> QED
    BY <2>1, CellWritten
<1>2. RowsOf(attempts', AttemptRow) /\ OnlyRow(attempts', attempts, j, r, row)
  <2>1. RowsOf(attempts, AttemptRow)
    BY DEF CheckpointInv, TablesTyped, RowsOf
  <2> QED
    BY <2>1, CellWritten
<1>3. TablesTyped'
  BY <1>1, <1>2 DEF CheckpointInv, TablesTyped, RowsOf
<1>4. JobIsSound(j) /\ Len(runs[j]) \in Nat
  <2>1. graphOf[j] \in Seq(GraphVersions)
    BY DEF CheckpointInv, TablesTyped
  <2> QED
    BY <2>1 DEF CheckpointInv, JobIsSound, RowsFollowClaims
<1>5. ASSUME NEW s \in Attempts
      PROVE  /\ s # r => saver'[j][s] = saver[j][s] /\ attempts'[j][s] = attempts[j][s]
             /\ s = r => saver'[j][s] = new /\ attempts'[j][s] = row
  BY <1>1, <1>2 DEF OnlyRow
<1>6. RowsFollowClaims(j)'
  BY <1>4, <1>5 DEF JobIsSound, RowsFollowClaims, Attempts
<1>7. NewestIsActive(j)'
  <2>1. ActiveAttempts(j)' = ActiveAttempts(j)
    BY <1>5 DEF ActiveAttempts
  <2> QED
    BY <1>4, <1>5, <2>1 DEF JobIsSound, NewestIsActive
<1>8. ASSUME NEW s \in Attempts
      PROVE  SaverIsInStep(j, s)' /\ ForkIsInStep(j, s)' /\ PointerResolves(j, s)'
  <2>1. CASE s = r
    BY <2>1
  <2>2. CASE s # r
    <3>1. saver'[j][s] = saver[j][s] /\ attempts'[j][s] = attempts[j][s]
      BY <1>5, <2>2
    <3>2. SaverIsInStep(j, s) /\ ForkIsInStep(j, s) /\ PointerResolves(j, s)
      BY <1>4 DEF JobIsSound
    <3>3. SaverIsInStep(j, s)'
      BY <3>1, <3>2 DEF SaverIsInStep
    <3>4. ForkIsInStep(j, s)'
      BY <3>1, <3>2 DEF ForkIsInStep
    <3>5. PointerResolves(j, s)'
      BY <3>1, <3>2 DEF PointerResolves
    <3> QED
      BY <3>3, <3>4, <3>5
  <2> QED
    BY <2>1, <2>2
<1>9. WritesAreStored(j)'
  BY <1>4 DEF JobIsSound, WritesAreStored
<1>10. JobIsSound(j)'
  BY <1>6, <1>7, <1>8, <1>9 DEF JobIsSound
<1>11. ASSUME NEW q \in Jobs, q # j PROVE JobIsSound(q)'
  <2>1. ThreadKept(q) /\ JobIsSound(q)
    BY <1>1, <1>2, <1>11 DEF ThreadKept, CheckpointInv, OnlyRow
  <2> QED
    BY <2>1, KeptIsSound
<1> QED
  BY <1>3, <1>10, <1>11 DEF CheckpointInv

\* The pointer of the active attempt follows the checkpoint that was stored.
LEMMA AdvancePointerSound ==
  ASSUME StoreInv, CheckpointInv, NEW j \in Jobs, NEW r \in Attempts, AdvancePointer(j, r)
  PROVE  CheckpointInv'
<1> DEFINE old == saver[j][r]
           c == old.put.id
<1>1. \A q \in Jobs : Len(runs'[q]) = Len(runs[q])
  BY VarsKeepRuns DEF AdvancePointer
<1>2. /\ old \in SaverState /\ SaverIsInStep(j, r) /\ ForkIsInStep(j, r) /\ JobIsSound(j)
      /\ attempts[j][r] \in AttemptRow /\ PointerResolves(j, r) /\ old.put.stage = "advance"
  BY BeforeStep DEF AdvancePointer, CheckpointInv
<1>3. NoPut.stage = "none" /\ NoPut.id = NoCheckpoint
  BY DEF NoPut
<1>4. old.init = "ready" /\ r <= Len(runs[j])
  BY <1>2, <1>3, StartedWasClaimed DEF SaverIsInStep
<1>5. CASE AdvanceResult(j, r, c) \notin {"advanced", "replayed"}
  <2>1. Stop(j, r) /\ TablesKept
    BY <1>5 DEF AdvancePointer, TablesKept
  <2>2. StorageGrows(j)
    BY <2>1, StorageKept
  <2> QED
    BY <1>1, <1>4, <2>1, <2>2, StopIsSound
<1>6. CASE AdvanceResult(j, r, c) \in {"advanced", "replayed"}
  <2> DEFINE new == [old EXCEPT !.put = NoPut]
             row == [attempts[j][r] EXCEPT !.latest = c]
  <2>1. /\ new \in SaverState /\ new.init = "ready" /\ new.put = NoPut /\ new.write = old.write
    BY <1>2, <1>4, MaxCheckpointAssumption DEF SaverState, NoPut, NoCheckpoint
  <2>2. /\ row \in AttemptRow /\ row.latest = c /\ row.status = attempts[j][r].status
        /\ row.forkRun = attempts[j][r].forkRun /\ row.forkId = attempts[j][r].forkId
    BY <1>2 DEF AttemptRow, SaverState
  <2>3. CellIs(saver', saver, j, r, new) /\ CellIs(attempts', attempts, j, r, row)
    BY <1>6 DEF AdvancePointer, CellIs
  <2>4. /\ Authorized(j, r) /\ attempts[j][r].status = "active"
        /\ c >= attempts[j][r].latest
    BY <1>2, <1>6 DEF AdvanceResult, Authorization, Authorized, AttemptRow, SaverState
  <2>5. r = Len(runs[j]) /\ r \in ActiveAttempts(j)
    BY <2>4, FencedIsLatest DEF ActiveAttempts
  <2>6. UNCHANGED <<graphOf, checkpoints, writes, confirmedWrites>>
    BY <1>6 DEF AdvancePointer
  <2>7. /\ confirmed' = [confirmed EXCEPT ![j] = IF c > confirmed[j] THEN c ELSE confirmed[j]]
        /\ confirmed \in [Jobs -> 0 .. MaxCheckpoint] /\ c \in 0 .. MaxCheckpoint
    BY <1>2, <1>6 DEF AdvancePointer, CheckpointInv, TablesTyped, SaverState
  <2>8. /\ confirmed' \in [Jobs -> 0 .. MaxCheckpoint]
        /\ \A q \in Jobs \ {j} : confirmed'[q] = confirmed[q]
        /\ confirmed'[j] = IF c > confirmed[j] THEN c ELSE confirmed[j]
    BY <2>7
  <2> HIDE DEF new, row
  <2>9. OnlyRow(saver', saver, j, r, new) /\ OnlyRow(attempts', attempts, j, r, row)
    <3>1. RowsOf(saver, SaverState) /\ RowsOf(attempts, AttemptRow)
      BY DEF CheckpointInv, TablesTyped, RowsOf
    <3>2. OnlyRow(saver', saver, j, r, new)
      BY <2>1, <2>3, <3>1, CellWritten
    <3>3. OnlyRow(attempts', attempts, j, r, row)
      BY <2>2, <2>3, <3>1, CellWritten
    <3> QED
      BY <3>2, <3>3
  <2>10. ActiveAttempts(j) = {r} /\ ActiveAttempts(j)' = {r}
    <3>1. ActiveAttempts(j)' = ActiveAttempts(j)
      BY <2>2, <2>9 DEF ActiveAttempts, OnlyRow
    <3>2. \A a \in ActiveAttempts(j) : a = r
      BY <1>2, <2>4, <2>5 DEF JobIsSound, NewestIsActive, ActiveAttempts, Attempts
    <3> QED
      BY <2>5, <3>1, <3>2
  <2>11. saver'[j][r] = new /\ attempts'[j][r] = row
    BY <2>9 DEF OnlyRow
  <2>12. SaverIsInStep(j, r)' /\ ForkIsInStep(j, r)' /\ PointerResolves(j, r)'
    BY <1>2, <1>3, <1>4, <2>1, <2>2, <2>6, <2>11
    DEF SaverIsInStep, ForkIsInStep, PointerResolves
  <2>13. ForkIsCurrent(j)' /\ WritesAreCopied(j)'
    BY <1>1, <2>2, <2>4, <2>5, <2>11 DEF ForkIsCurrent, WritesAreCopied
  <2>14. PointerIsCurrent(j)'
    <3>1. attempts[j][r].latest >= confirmed[j] /\ attempts[j][r].latest \in Nat
          /\ confirmed[j] \in Nat /\ c \in Nat
      BY <1>2, <2>5, <2>7 DEF JobIsSound, PointerIsCurrent, AttemptRow
    <3>2. c >= confirmed'[j]
      BY <2>4, <2>8, <3>1
    <3> QED
      BY <2>2, <2>10, <2>11, <3>2 DEF PointerIsCurrent
  <2>15. WritesAreCurrent(j)'
    <3>1. WritesAt(j, c, r)
      BY <1>2, <2>5 DEF JobIsSound, WritesAreCurrent
    <3> QED
      BY <1>3, <2>1, <2>2, <2>6, <2>10, <2>11, <3>1 DEF WritesAreCurrent, WritesAt
  <2>16. /\ row.status # "absent" /\ row.forkRun <= Len(runs[j])
         /\ row.forkRun # NoRun <=> row.forkId # NoCheckpoint
    BY <1>2, <2>2, <2>4 DEF JobIsSound, RowsFollowClaims
  <2> QED
    BY <1>1, <1>4, <2>1, <2>2, <2>3, <2>4, <2>6, <2>8, <2>12, <2>13, <2>14, <2>15, <2>16,
       JobStepSound
<1> QED
  BY <1>5, <1>6

\* The newest run prepares its row, with the recovery point it will fork from.
LEMMA PrepareSound ==
  ASSUME StoreInv, CheckpointInv, NEW j \in Jobs, NEW r \in Attempts, Prepare(j, r)
  PROVE  CheckpointInv'
<1> DEFINE old == saver[j][r]
<1>1. \A q \in Jobs : Len(runs'[q]) = Len(runs[q])
  BY VarsKeepRuns DEF Prepare
<1>2. /\ old \in SaverState /\ SaverIsInStep(j, r) /\ JobIsSound(j)
      /\ attempts[j][r] \in AttemptRow /\ old.init = "prepare"
  BY BeforeStep DEF Prepare, CheckpointInv
<1>3. NoPut.stage = "none" /\ NoWrite.stage = "none"
  BY DEF NoPut, NoWrite
<1>4. r <= Len(runs[j])
  BY <1>2, StartedWasClaimed
<1>5. CASE PrepareResult(j, r) # "prepared"
  <2>1. Stop(j, r) /\ TablesKept
    BY <1>5 DEF Prepare, TablesKept
  <2>2. StorageGrows(j)
    BY <2>1, StorageKept
  <2> QED
    BY <1>1, <1>2, <2>1, <2>2, StopIsSound
<1>6. CASE PrepareResult(j, r) = "prepared"
  <2>1. /\ Authorized(j, r) /\ attempts[j][r].status = "absent"
        /\ \A s \in ForkSources(j) : graphOf[j][s] = graphOf[j][r]
    BY <1>6 DEF PrepareResult, Authorization, Authorized
  <2>2. r = Len(runs[j]) /\ r \notin ActiveAttempts(j)
    BY <2>1, FencedIsLatest DEF ActiveAttempts
  <2> DEFINE Source == CHOOSE s \in ForkSources(j) : TRUE
             stage == IF ForkSources(j) = {} THEN "activate" ELSE "read"
             new == [old EXCEPT !.init = stage]
             row == IF ForkSources(j) = {} THEN [AbsentAttempt EXCEPT !.status = "preparing"]
                    ELSE [AbsentAttempt EXCEPT !.status = "preparing", !.forkRun = Source,
                                               !.forkId = attempts[j][Source].latest]
  <2>3. /\ new \in SaverState /\ new.init = stage /\ new.put = old.put /\ new.write = old.write
    BY <1>2 DEF SaverState
  <2>4. ForkSources(j) # {} => /\ Source \in ActiveAttempts(j) /\ Source \in ForkSources(j)
                               /\ Source \in Attempts
                               /\ attempts[j][Source].status # "absent"
                               /\ attempts[j][Source].latest \in Ids
    <3>1. ASSUME ForkSources(j) # {} PROVE Source \in ForkSources(j)
      BY <3>1
    <3> HIDE DEF Source
    <3> QED
      BY <3>1, MaxCheckpointAssumption
      DEF ForkSources, ActiveAttempts, CheckpointInv, TablesTyped, AttemptRow, Ids, NoCheckpoint
  <2>5. \A a, b \in ActiveAttempts(j) : a = b
    BY <1>2 DEF JobIsSound, NewestIsActive, ActiveAttempts, Attempts
  <2> HIDE DEF Source
  <2>6. /\ row \in AttemptRow /\ row.status = "preparing" /\ row.latest = NoCheckpoint
        /\ ForkSources(j) = {} => row.forkRun = NoRun /\ row.forkId = NoCheckpoint
        /\ ForkSources(j) # {} => row.forkRun = Source /\ row.forkId = attempts[j][Source].latest
    <3>1. CASE ForkSources(j) = {}
      <4>1. row = [AbsentAttempt EXCEPT !.status = "preparing"]
        BY <3>1
      <4> QED
        BY <3>1, <4>1, MaxRunsAssumption, MaxCheckpointAssumption
        DEF AbsentAttempt, AttemptRow, AttemptStatus, NoRun, NoCheckpoint
    <3>2. CASE ForkSources(j) # {}
      <4> DEFINE c == attempts[j][Source].latest
      <4>1. row = [AbsentAttempt EXCEPT !.status = "preparing", !.forkRun = Source, !.forkId = c]
        BY <3>2
      <4>2. Source \in 0 .. MaxRuns /\ c \in 0 .. MaxCheckpoint
        BY <2>4, <3>2, MaxRunsAssumption, MaxCheckpointAssumption DEF Ids, Attempts
      <4> HIDE DEF c
      <4>3. /\ row \in AttemptRow /\ row.status = "preparing" /\ row.latest = NoCheckpoint
            /\ row.forkRun = Source /\ row.forkId = c
        <5>1. row = [status |-> "preparing", forkRun |-> Source, forkId |-> c,
                     latest |-> NoCheckpoint]
          BY <4>1 DEF AbsentAttempt
        <5> HIDE DEF row
        <5> QED
          BY <4>2, <5>1, MaxCheckpointAssumption DEF AttemptRow, AttemptStatus, NoCheckpoint
      <4> QED
        BY <3>2, <4>3 DEF c
    <3> QED
      BY <3>1, <3>2
  <2>7. CellIs(attempts', attempts, j, r, row)
    BY <1>6 DEF Prepare, InsertAttempt, CellIs, Source
  <2>8. CellIs(saver', saver, j, r, new)
    BY <1>6 DEF Prepare, Move, CellIs
  <2>9. UNCHANGED <<graphOf, checkpoints, writes, confirmed, confirmedWrites>>
    BY <1>6 DEF Prepare
  <2> HIDE DEF new, row
  <2>10. OnlyRow(saver', saver, j, r, new) /\ OnlyRow(attempts', attempts, j, r, row)
    <3>1. RowsOf(saver, SaverState) /\ RowsOf(attempts, AttemptRow)
      BY DEF CheckpointInv, TablesTyped, RowsOf
    <3>2. OnlyRow(saver', saver, j, r, new)
      BY <2>3, <2>8, <3>1, CellWritten
    <3>3. OnlyRow(attempts', attempts, j, r, row)
      BY <2>6, <2>7, <3>1, CellWritten
    <3> QED
      BY <3>2, <3>3
  <2>11. saver'[j][r] = new /\ attempts'[j][r] = row
         /\ \A s \in Attempts \ {r} : attempts'[j][s] = attempts[j][s] /\ saver'[j][s] = saver[j][s]
    BY <2>10 DEF OnlyRow
  <2>12. ActiveAttempts(j)' = ActiveAttempts(j)
    BY <2>2, <2>6, <2>11 DEF ActiveAttempts
  <2>13. ForkSources(j) # {} => Source # r /\ Source <= Len(runs[j]) /\ Source # NoRun
    BY <1>2, <2>1, <2>4, MaxRunsAssumption DEF JobIsSound, RowsFollowClaims, NoRun, Attempts
  <2>14. /\ row.forkRun # NoRun <=> row.forkId # NoCheckpoint
         /\ row.forkRun <= Len(runs[j])
    BY <1>4, <2>2, <2>4, <2>6, <2>13, MaxCheckpointAssumption
    DEF NoRun, NoCheckpoint, Ids, Attempts
  <2>15. SaverIsInStep(j, r)' /\ ForkIsInStep(j, r)'
    <3>1. stage = "read" => row.forkId # NoCheckpoint
      BY <2>4, <2>6, MaxCheckpointAssumption DEF Ids, NoCheckpoint
    <3>2. stage = "activate" => row.forkId = NoCheckpoint
      BY <2>6
    <3>3. stage \in {"read", "activate"}
      OBVIOUS
    <3> HIDE DEF stage
    <3> QED
      BY <1>2, <1>3, <2>3, <2>6, <2>11, <3>1, <3>2, <3>3 DEF SaverIsInStep, ForkIsInStep
  <2>16. PointerResolves(j, r)'
    <3>1. ForkSources(j) # {} => attempts[j][Source].latest \in checkpoints[j][Source]
                                 /\ graphOf[j][Source] = graphOf[j][r]
      BY <1>2, <2>1, <2>4 DEF JobIsSound, PointerResolves, ForkSources
    <3> QED
      BY <2>6, <2>9, <2>11, <3>1 DEF PointerResolves
  <2>17. ForkIsCurrent(j)'
    <3> SUFFICES /\ \A a \in ActiveAttempts(j) :
                       /\ row.forkId = attempts[j][a].latest
                       /\ row.forkId # NoCheckpoint => row.forkRun = a
                 /\ ActiveAttempts(j) = {} => row.forkId = NoCheckpoint
      BY <1>1, <2>2, <2>11, <2>12 DEF ForkIsCurrent, ActiveAttempts
    <3>1. CASE ForkSources(j) = {}
      BY <2>6, <3>1 DEF ForkSources
    <3>2. CASE ForkSources(j) # {}
      BY <2>4, <2>5, <2>6, <3>2
    <3> QED
      BY <3>1, <3>2
  <2>18. PointerIsCurrent(j)'
    BY <1>2, <2>2, <2>9, <2>11, <2>12 DEF JobIsSound, PointerIsCurrent, ActiveAttempts
  <2>19. WritesAreCurrent(j)'
    BY <1>2, <2>2, <2>9, <2>11, <2>12 DEF JobIsSound, WritesAreCurrent, WritesAt, ActiveAttempts
  <2>20. WritesAreCopied(j)'
    <3>1. stage = "activate" => \A t \in Tasks : <<row.forkId, t>> \notin confirmedWrites[j]
      BY <2>6, MaxCheckpointAssumption DEF CheckpointInv, TablesTyped, Ids, NoCheckpoint
    <3>2. stage # "copy"
      OBVIOUS
    <3> HIDE DEF stage
    <3> QED
      BY <1>1, <2>2, <2>3, <2>9, <2>11, <3>1, <3>2 DEF WritesAreCopied, WritesAt
  <2>21. confirmed' \in [Jobs -> 0 .. MaxCheckpoint]
         /\ \A q \in Jobs \ {j} : confirmed'[q] = confirmed[q]
    BY <2>9 DEF CheckpointInv, TablesTyped
  <2> QED
    BY <1>1, <1>4, <2>1, <2>3, <2>6, <2>7, <2>8, <2>9, <2>14, <2>15, <2>16, <2>17, <2>18,
       <2>19, <2>20, <2>21, JobStepSound
<1> QED
  BY <1>5, <1>6

\* The newest run becomes the recovery point, with what it copied, and every earlier
\* attempt is superseded.
LEMMA ActivateSound ==
  ASSUME StoreInv, CheckpointInv, NEW j \in Jobs, NEW r \in Attempts, Activate(j, r)
  PROVE  CheckpointInv'
<1> DEFINE old == saver[j][r]
           c == attempts[j][r].forkId
<1>1. \A q \in Jobs : Len(runs'[q]) = Len(runs[q])
  BY VarsKeepRuns DEF Activate
<1>2. /\ old \in SaverState /\ SaverIsInStep(j, r) /\ ForkIsInStep(j, r) /\ JobIsSound(j)
      /\ attempts[j][r] \in AttemptRow /\ old.init = "activate"
  BY BeforeStep DEF Activate, CheckpointInv
<1>3. NoPut.stage = "none" /\ NoWrite.stage = "none"
  BY DEF NoPut, NoWrite
<1>4. r <= Len(runs[j]) /\ Len(runs[j]) \in Nat
  <2>1. graphOf[j] \in Seq(GraphVersions)
    BY DEF CheckpointInv, TablesTyped
  <2> QED
    BY <1>2, <2>1, StartedWasClaimed DEF JobIsSound, RowsFollowClaims
<1>5. CASE Stop(j, r) /\ UNCHANGED attempts
  <2>1. TablesKept
    BY <1>5 DEF Activate, TablesKept
  <2>2. StorageGrows(j)
    BY <2>1, StorageKept
  <2> QED
    BY <1>1, <1>2, <1>5, <2>2, StopIsSound
<1>6. CASE ActivateAttempt(j, r, c) /\ Move(j, r, "ready")
  <2> DEFINE new == [old EXCEPT !.init = "ready"]
  <2>1. /\ new \in SaverState /\ new.init = "ready" /\ new.put = NoPut /\ new.write = NoWrite
    BY <1>2 DEF SaverState, SaverIsInStep
  <2>2. CellIs(saver', saver, j, r, new)
    BY <1>6 DEF Move, CellIs
  <2>3. Authorized(j, r) /\ attempts[j][r].status = "preparing"
    BY <1>6 DEF ActivateAttempt, MayActivate
  <2>4. r = Len(runs[j])
    BY <2>3, FencedIsLatest
  <2>5. UNCHANGED <<graphOf, checkpoints, writes, confirmed, confirmedWrites>>
    BY <1>6 DEF Activate
  <2> HIDE DEF new
  <2>6. RowsOf(saver', SaverState) /\ OnlyRow(saver', saver, j, r, new)
    <3>1. RowsOf(saver, SaverState)
      BY DEF CheckpointInv, TablesTyped, RowsOf
    <3> QED
      BY <2>1, <2>2, <3>1, CellWritten
  <2> DEFINE After(s) ==
        IF s = r THEN [attempts[j][s] EXCEPT !.status = "active", !.latest = c]
        ELSE IF attempts[j][s].status = "active"
             THEN [attempts[j][s] EXCEPT !.status = "superseded"]
        ELSE attempts[j][s]
  <2>7. attempts' = [attempts EXCEPT ![j] = [s \in Attempts |-> After(s)]]
    BY <1>6 DEF ActivateAttempt
  <2>8. attempts \in [Jobs -> [Attempts -> AttemptRow]]
    BY DEF CheckpointInv, TablesTyped
  <2>9. ASSUME NEW s \in Attempts
        PROVE  /\ After(s) \in AttemptRow
               /\ After(s).forkRun = attempts[j][s].forkRun
               /\ After(s).forkId = attempts[j][s].forkId
               /\ s # r => After(s).latest = attempts[j][s].latest /\ After(s).status # "active"
               /\ s # r => (After(s).status = "absent" <=> attempts[j][s].status = "absent")
               /\ s = r => After(s).latest = c /\ After(s).status = "active"
    <3>1. attempts[j][s] \in AttemptRow /\ c \in 0 .. MaxCheckpoint
      BY <1>2, <2>8 DEF AttemptRow
    <3> HIDE DEF c
    <3> QED
      BY <3>1 DEF AttemptRow, AttemptStatus
  <2>10. /\ attempts' \in [Jobs -> [Attempts -> AttemptRow]]
         /\ \A q \in Jobs \ {j} : attempts'[q] = attempts[q]
         /\ \A s \in Attempts : attempts'[j][s] = After(s)
    <3> HIDE DEF After
    <3>1. [s \in Attempts |-> After(s)] \in [Attempts -> AttemptRow]
      BY <2>9
    <3> QED
      BY <2>7, <2>8, <3>1
  <2> HIDE DEF After
  <2>11. ASSUME NEW s \in Attempts
         PROVE  /\ attempts'[j][s].forkRun = attempts[j][s].forkRun
                /\ attempts'[j][s].forkId = attempts[j][s].forkId
                /\ s # r => /\ attempts'[j][s].latest = attempts[j][s].latest
                            /\ attempts'[j][s].status # "active"
                            /\ saver'[j][s] = saver[j][s]
                /\ s # r => (attempts'[j][s].status = "absent" <=> attempts[j][s].status = "absent")
                /\ s = r => /\ attempts'[j][s].latest = c /\ attempts'[j][s].status = "active"
                            /\ saver'[j][s] = new
    BY <2>6, <2>9, <2>10 DEF OnlyRow
  <2>12. ActiveAttempts(j)' = {r}
    BY <2>11 DEF ActiveAttempts
  <2>13. TablesTyped'
    BY <2>5, <2>6, <2>10 DEF CheckpointInv, TablesTyped, RowsOf
  <2> HIDE DEF c
  <2>14. RowsFollowClaims(j)'
    BY <1>1, <1>2, <1>4, <2>3, <2>5, <2>11 DEF JobIsSound, RowsFollowClaims, Attempts
  <2>15. NewestIsActive(j)'
    <3> SUFFICES ASSUME NEW s \in Attempts, attempts'[j][s].status \in {"active", "superseded"}
                 PROVE  s <= r
      BY <2>12 DEF NewestIsActive
    <3>1. s = r \/ attempts[j][s].status # "absent"
      BY <2>11
    <3> QED
      BY <1>2, <1>4, <2>4, <3>1 DEF JobIsSound, RowsFollowClaims, Attempts
  <2>16. ASSUME NEW s \in Attempts
         PROVE  SaverIsInStep(j, s)' /\ ForkIsInStep(j, s)' /\ PointerResolves(j, s)'
    <3>1. CASE s = r
      <4>1. SaverIsInStep(j, r)' /\ ForkIsInStep(j, r)'
        BY <1>3, <2>1, <2>5, <2>11 DEF SaverIsInStep, ForkIsInStep
      <4>2. c # NoCheckpoint => c \in checkpoints[j][r]
        BY <1>2 DEF ForkIsInStep, c
      <4>3. PointerResolves(j, r)'
        BY <1>2, <2>5, <2>11, <4>2 DEF JobIsSound, PointerResolves
      <4> QED
        BY <3>1, <4>1, <4>3
    <3>2. CASE s # r
      BY <1>2, <2>5, <2>11, <3>2 DEF JobIsSound, SaverIsInStep, ForkIsInStep, PointerResolves
    <3> QED
      BY <3>1, <3>2
  <2>17. ForkIsCurrent(j)' /\ WritesAreCopied(j)'
    BY <1>1, <2>4, <2>11 DEF ForkIsCurrent, WritesAreCopied
  <2>18. PointerIsCurrent(j)'
    <3>1. c >= confirmed[j]
      <4>1. CASE ActiveAttempts(j) = {}
        BY <1>2, <2>3, <2>4, <4>1, MaxCheckpointAssumption
        DEF JobIsSound, PointerIsCurrent, ForkIsCurrent, c, NoCheckpoint
      <4>2. ASSUME NEW a \in ActiveAttempts(j) PROVE c >= confirmed[j]
        BY <1>2, <2>3, <2>4, <4>2 DEF JobIsSound, PointerIsCurrent, ForkIsCurrent, c
      <4> QED
        BY <4>1, <4>2
    <3> QED
      BY <2>5, <2>11, <2>12, <3>1 DEF PointerIsCurrent
  <2>19. WritesAreStored(j)'
    BY <1>2, <2>5 DEF JobIsSound, WritesAreStored
  <2>20. WritesAreCurrent(j)'
    <3>1. WritesAt(j, c, r)
      BY <1>2, <2>3, <2>4 DEF JobIsSound, WritesAreCopied, c
    <3> QED
      BY <1>3, <2>1, <2>5, <2>11, <2>12, <3>1 DEF WritesAreCurrent, WritesAt
  <2>21. JobIsSound(j)'
    BY <2>14, <2>15, <2>16, <2>17, <2>18, <2>19, <2>20 DEF JobIsSound
  <2>22. ASSUME NEW q \in Jobs, q # j PROVE JobIsSound(q)'
    <3>1. ThreadKept(q) /\ JobIsSound(q)
      BY <1>1, <2>5, <2>6, <2>10, <2>22 DEF ThreadKept, CheckpointInv, OnlyRow
    <3> QED
      BY <3>1, KeptIsSound
  <2> QED
    BY <2>13, <2>21, <2>22 DEF CheckpointInv
<1> QED
  BY <1>5, <1>6 DEF Activate

\* A claim starts a new executor: it has no row yet, and leaves those of earlier runs.
LEMMA ClaimSound ==
  ASSUME StoreInv, CheckpointInv, NEW j \in Jobs, NEW g \in GraphVersions, ClaimWithGraph(j, g)
  PROVE  CheckpointInv'
<1> DEFINE n == Len(runs[j])
           r == n + 1
           new == [IdleSaver EXCEPT !.init = "prepare"]
<1>1. JobIsSound(j) /\ graphOf[j] \in Seq(GraphVersions) /\ runs[j] \in Seq(RunStatus)
  BY DEF CheckpointInv, TablesTyped, StoreInv, TypeOK
<1>2. n \in Nat /\ r \in Attempts /\ Len(graphOf[j]) = n
  BY <1>1, MaxRunsAssumption
  DEF ClaimWithGraph, ClaimJob, Attempts, JobIsSound, RowsFollowClaims
<1>3. Len(runs'[j]) = r /\ \A q \in Jobs \ {j} : Len(runs'[q]) = Len(runs[q])
  <2>1. ClaimJob(j)
    BY DEF ClaimWithGraph
  <2>2. Len(runs'[j]) = Len(runs[j]) + 1
    BY <2>1, ClaimAfter DEF StoreInv
  <2>3. \A q \in Jobs \ {j} : runs'[q] = runs[q]
    BY <2>1 DEF ClaimJob, StoreInv, TypeOK
  <2> QED
    BY <2>2, <2>3
<1>4. UNCHANGED <<attempts, checkpoints, writes, confirmed, confirmedWrites>>
  BY DEF ClaimWithGraph
<1> HIDE DEF r
<1>5. saver[j][r] = IdleSaver /\ attempts[j][r].status = "absent"
  BY <1>1, <1>2 DEF JobIsSound, RowsFollowClaims, r
<1>6. /\ new \in SaverState /\ new.init = "prepare" /\ new.put = NoPut /\ new.write = NoWrite
      /\ NoPut.stage = "none" /\ NoWrite.stage = "none"
  BY MaxCheckpointAssumption DEF IdleSaver, SaverState, NoPut, NoWrite, NoCheckpoint
<1>7. CellIs(saver', saver, j, r, new)
  BY <1>5 DEF ClaimWithGraph, CellIs, r
<1> HIDE DEF new
<1>8. RowsOf(saver', SaverState) /\ OnlyRow(saver', saver, j, r, new)
  <2>1. RowsOf(saver, SaverState)
    BY DEF CheckpointInv, TablesTyped, RowsOf
  <2> QED
    BY <1>2, <1>6, <1>7, <2>1, CellWritten
<1>9. /\ graphOf' \in [Jobs -> Seq(GraphVersions)] /\ Len(graphOf'[j]) = r
      /\ \A i \in 1 .. n : graphOf'[j][i] = graphOf[j][i]
      /\ \A q \in Jobs \ {j} : graphOf'[q] = graphOf[q]
  <2>1. graphOf' = [graphOf EXCEPT ![j] = Append(graphOf[j], g)]
    BY DEF ClaimWithGraph
  <2>2. graphOf \in [Jobs -> Seq(GraphVersions)]
    BY DEF CheckpointInv, TablesTyped
  <2>3. /\ Append(graphOf[j], g) \in Seq(GraphVersions)
        /\ Len(Append(graphOf[j], g)) = n + 1
        /\ \A i \in 1 .. n : Append(graphOf[j], g)[i] = graphOf[j][i]
    BY <1>1, <1>2
  <2> QED
    BY <2>1, <2>2, <2>3 DEF r
<1>10. TablesTyped'
  BY <1>4, <1>8, <1>9 DEF CheckpointInv, TablesTyped, RowsOf
<1>11. saver'[j][r] = new /\ \A s \in Attempts \ {r} : saver'[j][s] = saver[j][s]
  BY <1>8 DEF OnlyRow
<1>12. ActiveAttempts(j)' = ActiveAttempts(j) /\ r \notin ActiveAttempts(j)
  BY <1>4, <1>5 DEF ActiveAttempts
<1>13. RowsFollowClaims(j)'
  <2> SUFFICES ASSUME NEW s \in Attempts
               PROVE  /\ attempts[j][s].status # "absent" => s <= r
                      /\ attempts[j][s].forkRun # NoRun <=> attempts[j][s].forkId # NoCheckpoint
                      /\ attempts[j][s].forkRun <= r
                      /\ attempts[j][s].status = "absent" => attempts[j][s].forkRun = NoRun
                      /\ s > r => saver'[j][s] = IdleSaver
    BY <1>3, <1>4, <1>9 DEF RowsFollowClaims
  <2>1. attempts[j][s].forkRun \in Nat
    BY DEF CheckpointInv, TablesTyped, AttemptRow
  <2> QED
    BY <1>1, <1>2, <1>11, <2>1 DEF JobIsSound, RowsFollowClaims, Attempts, r
<1>14. NewestIsActive(j)' /\ PointerIsCurrent(j)' /\ WritesAreStored(j)'
  BY <1>1, <1>4, <1>12 DEF JobIsSound, NewestIsActive, PointerIsCurrent, WritesAreStored
<1>15. ASSUME NEW s \in Attempts
       PROVE  SaverIsInStep(j, s)' /\ ForkIsInStep(j, s)' /\ PointerResolves(j, s)'
  <2>1. CASE s = r
    <3>1. attempts[j][s].forkId = NoCheckpoint
      BY <1>1, <1>5, <2>1 DEF JobIsSound, RowsFollowClaims
    <3>2. SaverIsInStep(j, s)' /\ ForkIsInStep(j, s)'
      BY <1>4, <1>6, <1>11, <2>1 DEF SaverIsInStep, ForkIsInStep
    <3>3. PointerResolves(j, s)'
      BY <1>1, <1>4, <3>1 DEF JobIsSound, PointerResolves
    <3> QED
      BY <3>2, <3>3
  <2>2. CASE s # r
    <3>1. SaverIsInStep(j, s)' /\ ForkIsInStep(j, s)'
      BY <1>1, <1>4, <1>11, <2>2 DEF JobIsSound, SaverIsInStep, ForkIsInStep
    <3>2. attempts[j][s].forkId # NoCheckpoint =>
            s \in 1 .. n /\ attempts[j][s].forkRun \in 1 .. n
      <4>1. attempts[j][s].forkRun \in Nat
        BY DEF CheckpointInv, TablesTyped, AttemptRow
      <4> QED
        BY <1>1, <1>2, <4>1 DEF JobIsSound, RowsFollowClaims, Attempts, NoRun
    <3> HIDE DEF n
    <3>3. PointerResolves(j, s)'
      BY <1>1, <1>4, <1>9, <3>2 DEF JobIsSound, PointerResolves
    <3> QED
      BY <3>1, <3>3
  <2> QED
    BY <2>1, <2>2
<1>16. ForkIsCurrent(j)' /\ WritesAreCopied(j)'
  BY <1>3, <1>4, <1>5 DEF ForkIsCurrent, WritesAreCopied
<1>17. WritesAreCurrent(j)'
  BY <1>1, <1>4, <1>11, <1>12 DEF JobIsSound, WritesAreCurrent, WritesAt, ActiveAttempts
<1>18. JobIsSound(j)'
  BY <1>13, <1>14, <1>15, <1>16, <1>17 DEF JobIsSound
<1>19. ASSUME NEW q \in Jobs, q # j PROVE JobIsSound(q)'
  <2>1. ThreadKept(q) /\ JobIsSound(q)
    BY <1>3, <1>4, <1>8, <1>9, <1>19 DEF ThreadKept, CheckpointInv, OnlyRow
  <2> QED
    BY <2>1, KeptIsSound
<1> QED
  BY <1>10, <1>18, <1>19 DEF CheckpointInv

-----------------------------------------------------------------------------
(* The invariant                                                           *)

\* The transactions that are not a claim leave the checkpoint tables alone.
LEMMA StoreStepsSound ==
  ASSUME StoreInv, CheckpointInv, NEW j \in Jobs,
         OtherStoreStep(j) \/ \E r \in Attempts : Conclude(j, r)
  PROVE  CheckpointInv'
<1>1. \A q \in Jobs : Len(runs'[q]) = Len(runs[q])
  BY RunsStayLong
<1>2. CASE OtherStoreStep(j)
  <2>1. UNCHANGED checkpointVars
    BY <1>2 DEF OtherStoreStep
  <2>2. TablesTyped'
    BY <2>1 DEF CheckpointInv, TablesTyped, checkpointVars
  <2>3. ASSUME NEW q \in Jobs PROVE JobIsSound(q)'
    <3>1. ThreadKept(q) /\ JobIsSound(q)
      BY <1>1, <2>1 DEF ThreadKept, CheckpointInv, checkpointVars
    <3> QED
      BY <3>1, KeptIsSound
  <2> QED
    BY <2>2, <2>3 DEF CheckpointInv
<1>3. ASSUME NEW r \in Attempts, Conclude(j, r) PROVE CheckpointInv'
  <2>1. saver[j][r].init # "idle" /\ Stop(j, r) /\ TablesKept
    BY <1>3 DEF Conclude, TablesKept
  <2> QED
    BY <1>1, <2>1, StorageKept, StopIsSound
<1> QED
  BY <1>2, <1>3

\* Every step keeps the invariant.
LEMMA CheckpointInvStep ==
  StoreInv /\ CheckpointInv /\ [CheckpointNext]_allVars => CheckpointInv'
<1> SUFFICES ASSUME StoreInv, CheckpointInv, [CheckpointNext]_allVars PROVE CheckpointInv'
  OBVIOUS
<1>1. CASE UNCHANGED allVars
  <2>1. TablesTyped'
    BY <1>1 DEF CheckpointInv, TablesTyped, allVars, checkpointVars
  <2>2. ASSUME NEW q \in Jobs PROVE JobIsSound(q)'
    <3>1. ThreadKept(q) /\ JobIsSound(q)
      BY <1>1 DEF ThreadKept, CheckpointInv, allVars, checkpointVars, vars
    <3> QED
      BY <3>1, KeptIsSound
  <2> QED
    BY <2>1, <2>2 DEF CheckpointInv
<1>2. ASSUME NEW j \in Jobs, NEW r \in Attempts, SaverStep(j, r) PROVE CheckpointInv'
  <2>1. CASE Prepare(j, r)
    BY <2>1, PrepareSound
  <2>2. CASE ReadSource(j, r)
    BY <2>2, ReadSourceSound
  <2>3. CASE CopyWrites(j, r)
    BY <2>3, CopyWritesSound
  <2>4. CASE Activate(j, r)
    BY <2>4, ActivateSound
  <2>5. CASE \/ \E c \in Ids : BeginPut(j, r, c)
             \/ ConfirmPut(j, r)
             \/ \E c \in Ids, t \in Tasks : BeginWrites(j, r, c, t)
    BY <2>5, AuthorizedStepsSound
  <2>6. CASE StoreCheckpoint(j, r) \/ StoreWrites(j, r)
    BY <2>6, StoresSound
  <2>7. CASE AdvancePointer(j, r)
    BY <2>7, AdvancePointerSound
  <2>8. CASE ConfirmWrites(j, r)
    BY <2>8, ConfirmWritesSound
  <2>9. CASE Abort(j, r)
    <3>1. saver[j][r].init # "idle" /\ Stop(j, r) /\ TablesKept /\ UNCHANGED vars
      BY <2>9 DEF Abort, TablesKept
    <3> QED
      BY <3>1, StorageKept, StopIsSound, VarsKeepRuns
  <2> QED
    BY <1>2, <2>1, <2>2, <2>3, <2>4, <2>5, <2>6, <2>7, <2>8, <2>9 DEF SaverStep
<1> QED
  BY <1>1, <1>2, ClaimSound, StoreStepsSound DEF CheckpointNext

\* The invariant holds before anything is saved.
LEMMA CheckpointInvInit == CheckpointInit => CheckpointInv
<1> SUFFICES ASSUME CheckpointInit PROVE CheckpointInv
  OBVIOUS
<1>1. TablesTyped
  <2>1. AbsentAttempt \in AttemptRow
    BY MaxCheckpointAssumption, MaxRunsAssumption
    DEF AbsentAttempt, AttemptRow, AttemptStatus, NoRun, NoCheckpoint
  <2>2. IdleSaver \in SaverState
    BY MaxCheckpointAssumption DEF IdleSaver, SaverState, NoPut, NoWrite, NoCheckpoint
  <2>3. NoCheckpoint \in 0 .. MaxCheckpoint
    BY MaxCheckpointAssumption DEF NoCheckpoint
  <2>4. <<>> \in Seq(GraphVersions)
    OBVIOUS
  <2> QED
    BY <2>1, <2>2, <2>3, <2>4 DEF CheckpointInit, TablesTyped
<1>2. ASSUME NEW j \in Jobs PROVE JobIsSound(j)
  <2>1. /\ runs[j] = <<>> /\ graphOf[j] = <<>>
        /\ confirmed[j] = NoCheckpoint /\ confirmedWrites[j] = {}
    BY DEF CheckpointInit, Init
  <2>2. ASSUME NEW r \in Attempts
        PROVE  /\ attempts[j][r].status = "absent" /\ attempts[j][r].forkRun = NoRun
               /\ attempts[j][r].forkId = NoCheckpoint /\ attempts[j][r].latest = NoCheckpoint
               /\ saver[j][r] = IdleSaver
    BY DEF CheckpointInit, AbsentAttempt
  <2>3. ActiveAttempts(j) = {}
    BY <2>2 DEF ActiveAttempts
  <2>4. RowsFollowClaims(j) /\ NewestIsActive(j)
    BY <2>1, <2>2, <2>3 DEF RowsFollowClaims, NewestIsActive, NoRun
  <2>5. ASSUME NEW r \in Attempts
        PROVE  SaverIsInStep(j, r) /\ ForkIsInStep(j, r) /\ PointerResolves(j, r)
    BY <2>2 DEF SaverIsInStep, ForkIsInStep, PointerResolves, IdleSaver, NoPut, NoWrite
  <2>6. /\ ForkIsCurrent(j) /\ PointerIsCurrent(j) /\ WritesAreStored(j)
        /\ WritesAreCurrent(j) /\ WritesAreCopied(j)
    BY <2>1, <2>2, <2>3
    DEF ForkIsCurrent, PointerIsCurrent, WritesAreStored, WritesAreCurrent, WritesAreCopied
  <2> QED
    BY <2>4, <2>5, <2>6 DEF JobIsSound
<1> QED
  BY <1>1, <1>2 DEF CheckpointInv

\* The tables, the storage threads and the savers of all runs agree, in every state.
THEOREM CheckpointInvariant == CheckpointSpec => [](StoreInv /\ CheckpointInv)
<1>1. CheckpointSpec => []StoreInv
  <2>1. TypeOK /\ OneOwner /\ RunsAreBounded => StoreInv
    BY DEF StoreInv
  <2> QED
    BY <2>1, CheckpointsImplementStore, TypeCorrect, OneOwnerHolds, RunsAreBoundedHolds, PTL
<1> QED
  BY <1>1, CheckpointInvInit, CheckpointInvStep, PTL DEF CheckpointSpec

-----------------------------------------------------------------------------
(* The properties                                                          *)

\* CheckpointsAreConsistent: a job has one recovery point, newer than what it
\* replaced, and every pointer of its attempts leads to a checkpoint that is stored.
THEOREM CheckpointsAreConsistentHolds == CheckpointSpec => []CheckpointsAreConsistent
<1>1. StoreInv /\ CheckpointInv => CheckpointsAreConsistent
  <2> SUFFICES ASSUME StoreInv, CheckpointInv PROVE CheckpointsAreConsistent
    OBVIOUS
  <2>1. ASSUME NEW j \in Jobs, NEW r \in Attempts
        PROVE  /\ attempts[j][r].status # "absent" => r \in DOMAIN runs[j]
               /\ attempts[j][r].forkRun # NoRun <=> attempts[j][r].forkId # NoCheckpoint
    <3>1. RowsFollowClaims(j) /\ runs[j] \in Seq(RunStatus)
      BY DEF CheckpointInv, JobIsSound, StoreInv, TypeOK
    <3> QED
      BY <3>1 DEF RowsFollowClaims, Attempts
  <2>2. CheckpointTypeOK
    BY <2>1 DEF CheckpointInv, TablesTyped, CheckpointTypeOK
  <2>3. OneRecoveryPoint
    BY DEF CheckpointInv, JobIsSound, NewestIsActive, OneRecoveryPoint
  <2>4. PointersResolve
    BY DEF CheckpointInv, JobIsSound, PointerResolves, PointersResolve
  <2> QED
    BY <2>2, <2>3, <2>4 DEF CheckpointsAreConsistent
<1> QED
  BY <1>1, CheckpointInvariant, PTL

\* ConfirmedWorkSurvives: the active attempt points no further back than what a
\* saver was told is saved, by whichever run, and has the pending writes it needs.
THEOREM ConfirmedWorkSurvivesHolds == CheckpointSpec => []ConfirmedWorkSurvives
<1>1. StoreInv /\ CheckpointInv => ConfirmedWorkSurvives
  BY DEF CheckpointInv, JobIsSound, PointerIsCurrent, WritesAreCurrent, WritesAt,
         ConfirmedWorkSurvives
<1> QED
  BY <1>1, CheckpointInvariant, PTL

-----------------------------------------------------------------------------
(* The recovery point                                                      *)

\* The choice from a set with one element.
LEMMA OnlyChoice ==
  ASSUME NEW S, NEW a \in S, \A b \in S : b = a
  PROVE  (CHOOSE b \in S : TRUE) = a
  OBVIOUS

\* At most one attempt is active.
LEMMA OneIsActive ==
  ASSUME CheckpointInv, NEW j \in Jobs, NEW a \in ActiveAttempts(j)
  PROVE  \A b \in ActiveAttempts(j) : b = a
<1>1. NewestIsActive(j)
  BY DEF CheckpointInv, JobIsSound
<1> QED
  BY <1>1 DEF NewestIsActive, ActiveAttempts, Attempts

\* The recovery point is where the active attempt points to.
LEMMA RecoveryPointIs ==
  ASSUME CheckpointInv, NEW j \in Jobs, NEW a \in ActiveAttempts(j)
  PROVE  RecoveryPoint(j) = attempts[j][a].latest
<1>1. (CHOOSE b \in ActiveAttempts(j) : TRUE) = a
  BY OneIsActive, OnlyChoice
<1> QED
  BY <1>1 DEF RecoveryPoint

\* A recovery point is a number of a checkpoint, or none.
LEMMA RecoveryPointType ==
  ASSUME CheckpointInv, NEW j \in Jobs
  PROVE  RecoveryPoint(j) \in Nat
<1>1. CASE ActiveAttempts(j) = {}
  BY <1>1 DEF RecoveryPoint, NoCheckpoint
<1>2. ASSUME NEW a \in ActiveAttempts(j) PROVE RecoveryPoint(j) \in Nat
  <2>1. attempts[j][a] \in AttemptRow
    BY DEF ActiveAttempts, CheckpointInv, TablesTyped
  <2> QED
    BY <2>1, RecoveryPointIs DEF AttemptRow
<1> QED
  BY <1>1, <1>2

\* A step that leaves the rows of a job alone leaves its recovery point there.
LEMMA RowsKeptMoveNothing ==
  ASSUME CheckpointInv, NEW j \in Jobs, attempts'[j] = attempts[j]
  PROVE  MovesUnderLease(j)
<1>1. RecoveryPoint(j)' = RecoveryPoint(j)
  BY DEF RecoveryPoint, ActiveAttempts
<1> QED
  BY <1>1, RecoveryPointType DEF MovesUnderLease

\* Only an executor that passes its fence writes rows, and only those of its job.
LEMMA RowsAreWrittenByRuns ==
  ASSUME CheckpointInv, [CheckpointNext]_allVars, NEW j \in Jobs, attempts'[j] # attempts[j]
  PROVE  \E r \in Attempts : Prepare(j, r) \/ Activate(j, r) \/ AdvancePointer(j, r)
<1>1. PICK q \in Jobs, r \in Attempts : Prepare(q, r) \/ Activate(q, r) \/ AdvancePointer(q, r)
  <2>1. attempts' # attempts
    OBVIOUS
  <2>2. PICK q \in Jobs, r \in Attempts : SaverStep(q, r)
    BY <2>1 DEF CheckpointNext, OtherStoreStep, ClaimWithGraph, Conclude, allVars, checkpointVars
  <2>3. Prepare(q, r) \/ Activate(q, r) \/ AdvancePointer(q, r)
    BY <2>1, <2>2
    DEF SaverStep, ReadSource, CopyWrites, BeginPut, StoreCheckpoint, ConfirmPut, BeginWrites,
        StoreWrites, ConfirmWrites, Abort
  <2> QED
    BY <2>3
<1>2. attempts \in [Jobs -> [Attempts -> AttemptRow]]
  BY DEF CheckpointInv, TablesTyped
<1>3. CASE q # j
  BY <1>1, <1>2, <1>3
  DEF Prepare, InsertAttempt, Activate, ActivateAttempt, AdvancePointer
<1> QED
  BY <1>1, <1>3

\* An active attempt starts at the recovery point it forked from.
LEMMA ActivationKeepsPoint ==
  ASSUME StoreInv, CheckpointInv, NEW j \in Jobs, NEW r \in Attempts,
         ActivateAttempt(j, r, attempts[j][r].forkId)
  PROVE  MovesUnderLease(j)
<1> DEFINE c == attempts[j][r].forkId
<1>1. /\ attempts \in [Jobs -> [Attempts -> AttemptRow]]
      /\ NewestIsActive(j) /\ ForkIsCurrent(j)
  BY DEF CheckpointInv, TablesTyped, JobIsSound
<1>2. Authorized(j, r) /\ attempts[j][r].status = "preparing" /\ r = Len(runs[j])
  BY FencedIsLatest DEF ActivateAttempt, MayActivate
<1>3. \A s \in Attempts :
        attempts'[j][s] = IF s = r THEN [attempts[j][s] EXCEPT !.status = "active", !.latest = c]
                          ELSE IF attempts[j][s].status = "active"
                               THEN [attempts[j][s] EXCEPT !.status = "superseded"]
                               ELSE attempts[j][s]
  BY <1>1 DEF ActivateAttempt
<1>4. attempts'[j][r].status = "active" /\ attempts'[j][r].latest = c
  <2>1. attempts[j][r] \in AttemptRow
    BY <1>1
  <2> QED
    BY <1>3, <2>1 DEF AttemptRow
<1>5. \A s \in Attempts : s # r => attempts'[j][s].status # "active"
  <2> SUFFICES ASSUME NEW s \in Attempts, s # r PROVE attempts'[j][s].status # "active"
    OBVIOUS
  <2>1. attempts[j][s] \in AttemptRow
    BY <1>1
  <2> QED
    BY <1>3, <2>1 DEF AttemptRow
<1>6. RecoveryPoint(j)' = c
  <2>1. ActiveAttempts(j)' = {r}
    BY <1>4, <1>5 DEF ActiveAttempts
  <2>2. (CHOOSE b \in ActiveAttempts(j)' : TRUE) = r
    BY <2>1
  <2> QED
    BY <1>4, <2>1, <2>2 DEF RecoveryPoint
<1>7. RecoveryPoint(j) = c
  <2>1. CASE ActiveAttempts(j) = {}
    BY <1>1, <1>2, <2>1 DEF ForkIsCurrent, RecoveryPoint
  <2>2. ASSUME NEW a \in ActiveAttempts(j) PROVE RecoveryPoint(j) = c
    BY <1>1, <1>2, RecoveryPointIs DEF ForkIsCurrent
  <2> QED
    BY <2>1, <2>2
<1>8. ASSUME NEW s \in Attempts, attempts[j][s].status = "superseded"
      PROVE  attempts'[j][s] = attempts[j][s]
  BY <1>2, <1>3, <1>8
<1> QED
  BY <1>6, <1>7, <1>8, RecoveryPointType DEF MovesUnderLease

\* The pointer of the active attempt moves forward, under its lease.
LEMMA AdvanceMovesForward ==
  ASSUME CheckpointInv, NEW j \in Jobs, NEW r \in Attempts, NEW c \in Nat,
         AdvanceResult(j, r, c) \in {"advanced", "replayed"},
         attempts' = [attempts EXCEPT ![j][r].latest = c]
  PROVE  MovesUnderLease(j)
<1>1. /\ Authorized(j, r) /\ attempts[j][r].status = "active"
      /\ ~(c < attempts[j][r].latest)
  BY DEF AdvanceResult, Authorization, Authorized
<1>2. attempts \in [Jobs -> [Attempts -> AttemptRow]] /\ attempts[j][r] \in AttemptRow
  BY DEF CheckpointInv, TablesTyped
<1>3. /\ attempts'[j][r].status = "active" /\ attempts'[j][r].latest = c
      /\ \A s \in Attempts : s # r => attempts'[j][s] = attempts[j][s]
  BY <1>1, <1>2 DEF AttemptRow
<1>4. ActiveAttempts(j)' = ActiveAttempts(j) /\ r \in ActiveAttempts(j)
  BY <1>1, <1>3 DEF ActiveAttempts
<1>5. RecoveryPoint(j) = attempts[j][r].latest
  BY <1>4, RecoveryPointIs
<1>6. RecoveryPoint(j)' = c
  <2>1. (CHOOSE b \in ActiveAttempts(j) : TRUE) = r
    BY <1>4, OneIsActive, OnlyChoice
  <2> QED
    BY <1>3, <1>4, <2>1 DEF RecoveryPoint
<1>7. RecoveryPoint(j) <= c
  BY <1>1, <1>2, <1>5 DEF AttemptRow
<1> QED
  BY <1>1, <1>3, <1>6, <1>7 DEF MovesUnderLease

\* A row that is only prepared is no recovery point yet.
LEMMA PreparingMovesNothing ==
  ASSUME CheckpointInv, NEW j \in Jobs, NEW r \in Attempts, Prepare(j, r)
  PROVE  MovesUnderLease(j)
<1>1. CASE attempts'[j] = attempts[j]
  BY <1>1, RowsKeptMoveNothing
<1>2. CASE PrepareResult(j, r) = "prepared" /\ InsertAttempt(j, r)
  <2>1. attempts \in [Jobs -> [Attempts -> AttemptRow]]
    BY DEF CheckpointInv, TablesTyped
  <2>2. attempts[j][r].status = "absent"
    BY <1>2 DEF PrepareResult, Authorization, Authorized
  <2>3. /\ attempts'[j][r].status = "preparing"
        /\ \A s \in Attempts : s # r => attempts'[j][s] = attempts[j][s]
    BY <1>2, <2>1 DEF InsertAttempt, AbsentAttempt
  <2>4. ActiveAttempts(j)' = ActiveAttempts(j) /\ r \notin ActiveAttempts(j)
    BY <2>2, <2>3 DEF ActiveAttempts
  <2>5. RecoveryPoint(j)' = RecoveryPoint(j)
    <3>1. CASE ActiveAttempts(j) = {}
      BY <2>4, <3>1 DEF RecoveryPoint
    <3>2. ASSUME NEW a \in ActiveAttempts(j) PROVE RecoveryPoint(j)' = RecoveryPoint(j)
      <4>1. (CHOOSE b \in ActiveAttempts(j) : TRUE) = a
        BY OneIsActive, OnlyChoice
      <4>2. attempts'[j][a] = attempts[j][a]
        BY <2>3, <2>4 DEF ActiveAttempts
      <4>3. RecoveryPoint(j)' = attempts'[j][a].latest
        BY <2>4, <4>1, <3>2 DEF RecoveryPoint
      <4> QED
        BY <4>2, <4>3, <3>2, RecoveryPointIs
    <3> QED
      BY <3>1, <3>2
  <2> QED
    BY <2>2, <2>3, <2>5, RecoveryPointType DEF MovesUnderLease
<1> QED
  BY <1>1, <1>2 DEF Prepare

\* RecoveryPointIsFenced: a late worker cannot move the recovery point of a job; it
\* goes only forward, and only under the lease of the run that then owns it.
THEOREM RecoveryPointIsFencedHolds == CheckpointSpec => RecoveryPointIsFenced
<1>1. StoreInv /\ CheckpointInv /\ [CheckpointNext]_allVars =>
        [\A j \in Jobs : MovesUnderLease(j)]_allVars
  <2> SUFFICES ASSUME StoreInv, CheckpointInv, [CheckpointNext]_allVars, NEW j \in Jobs
               PROVE  MovesUnderLease(j)
    OBVIOUS
  <2>1. CASE attempts'[j] = attempts[j]
    BY <2>1, RowsKeptMoveNothing
  <2>2. ASSUME NEW r \in Attempts, Prepare(j, r) PROVE MovesUnderLease(j)
    BY <2>2, PreparingMovesNothing
  <2>3. ASSUME NEW r \in Attempts, Activate(j, r), attempts'[j] # attempts[j]
        PROVE  MovesUnderLease(j)
    BY <2>3, ActivationKeepsPoint DEF Activate
  <2>4. ASSUME NEW r \in Attempts, AdvancePointer(j, r), attempts'[j] # attempts[j]
        PROVE  MovesUnderLease(j)
    <3>1. saver[j][r].put.id \in Nat
      <4>1. saver[j][r] \in SaverState
        BY BeforeStep
      <4> QED
        BY <4>1 DEF SaverState
    <3> QED
      BY <2>4, <3>1, AdvanceMovesForward DEF AdvancePointer
  <2> QED
    BY <2>1, <2>2, <2>3, <2>4, RowsAreWrittenByRuns
<1> QED
  BY <1>1, CheckpointInvariant, PTL DEF CheckpointSpec, RecoveryPointIsFenced
=============================================================================
