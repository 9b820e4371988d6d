--------------------------- MODULE EffectJournal ---------------------------
(***************************************************************************)
(* External calls of a run (apps/worker, effect-journal.ts) on top of the  *)
(* job store: a model, search or page-extraction call reserves its effect  *)
(* key, asks the provider, and records the outcome, in three awaits.  The  *)
(* provider's effect cannot be rolled back and the provider is not part of *)
(* any transaction; a worker may die or lose its lease between any two.    *)
(***************************************************************************)
EXTENDS JobStore

CONSTANT MaxFaults      \* bound: calls to the database that throw

ASSUME MaxFaultsAssumption == MaxFaults \in Nat
\* SQL null is not one of the two outcomes a call can have.
ASSUME NoneIsNoOutcome == None \notin {"succeeded", "failed"}

VARIABLES
    call,       \* the journalled call of each run under each effect key
    sent,       \* history: requests that reached the provider under each key
    answer,     \* history: what the provider answered under each key
    faults

journalVars == <<call, sent, answer, faults>>
journalledVars == <<vars, journalVars>>

Outcomes == {"succeeded", "failed"}

\* reserve: about to reserve (or never asked); send: reserved; finish: the
\* provider answered; returned: the caller has a result or a provider error;
\* refused: an EffectJournalError or a database error was thrown; dead: the
\* worker process died with a call of the run in flight.
Stages == {"reserve", "send", "finish", "returned", "refused", "dead"}
CallState == [stage : Stages, outcome : Outcomes \cup {None}]
NewCall == [stage |-> "reserve", outcome |-> None]

JournalInit ==
    /\ Init
    /\ call = [j \in Jobs |-> [r \in Attempts |-> [k \in EffectKeys |-> NewCall]]]
    /\ sent = [j \in Jobs |-> [k \in EffectKeys |-> 0]]
    /\ answer = [j \in Jobs |-> [k \in EffectKeys |-> None]]
    /\ faults = 0

-----------------------------------------------------------------------------

Fault == faults < MaxFaults /\ faults' = faults + 1

Enter(j, r, k, stage) == call' = [call EXCEPT ![j][r][k].stage = stage]

\* Mutants: an unsettled key is asked again; a settled one counts as this call's
\* answer; the fence is not looked at.
SendUnsettled(result) ==
    IF result \in {"reserved", "already_reserved", "uncertain"} THEN "send" ELSE "refused"
TakeOldAnswer(result) ==
    IF result = "reserved" THEN "send"
    ELSE IF result = "previously_succeeded" THEN "returned" ELSE "refused"
SendUnfenced(result) ==
    IF result \in {"reserved", "lease_lost", "cancel_requested"} THEN "send" ELSE "refused"

\* Only a fresh reservation lets the call go out.
AfterReservation(result) == IF result = "reserved" THEN "send" ELSE "refused"

\* What a reservation does to the store, with the answer it gives.
Reservation(j, r, k, p, result) ==
    /\ result = ReserveResult(j, r, k, p)
    /\ IF result = "reserved" THEN ReserveRunEffect(j, r, k, p) ELSE UNCHANGED vars

MayAsk == {"reserve", "returned", "refused"}

\* EffectJournalBase.reserve.  A node that is executed again in the same run asks
\* again under the same key.
Reserve(j, r, k, p) ==
    /\ call[j][r][k].stage \in MayAsk
    /\ \E result \in {ReserveResult(j, r, k, p)} :
          /\ Reservation(j, r, k, p, result)
          /\ Enter(j, r, k, AfterReservation(result))
    /\ UNCHANGED <<sent, answer, faults>>

\* The reservation throws, whether or not it was committed.
ReserveThrows(j, r, k, p) ==
    /\ call[j][r][k].stage \in MayAsk
    /\ Fault
    /\ Reservation(j, r, k, p, ReserveResult(j, r, k, p)) \/ UNCHANGED vars
    /\ Enter(j, r, k, "refused")
    /\ UNCHANGED <<sent, answer>>

\* The request reaches the provider and is answered, or reported as failed; an
\* abort may also stop it before it is sent, which is reported as failed too.
Send(j, r, k) ==
    /\ call[j][r][k].stage = "send"
    /\ \/ \E outcome \in Outcomes :
             /\ sent' = [sent EXCEPT ![j][k] = @ + 1]
             /\ answer' = [answer EXCEPT ![j][k] = outcome]
             /\ call' = [call EXCEPT ![j][r][k] = [stage |-> "finish", outcome |-> outcome]]
       \/ /\ call' = [call EXCEPT ![j][r][k] = [stage |-> "finish", outcome |-> "failed"]]
          /\ UNCHANGED <<sent, answer>>
    /\ UNCHANGED <<vars, faults>>

\* Mutant: the answer is handed on although the fence refused to record it.
RecordedOrFenced(result) == result \in {"finished", "replayed", "lease_lost"}
Recorded(result) == result \in {"finished", "replayed"}

\* EffectJournalBase.finish: without a recorded outcome the caller gets nothing.
Finish(j, r, k) ==
    LET outcome == call[j][r][k].outcome
        result == FinishResult(j, r, k, outcome) IN
    /\ call[j][r][k].stage = "finish"
    /\ IF result = "finished" THEN FinishRunEffect(j, r, k, outcome) ELSE UNCHANGED vars
    /\ Enter(j, r, k, IF Recorded(result) THEN "returned" ELSE "refused")
    /\ UNCHANGED <<sent, answer, faults>>

FinishThrows(j, r, k) ==
    /\ call[j][r][k].stage = "finish"
    /\ Fault
    /\ FinishRunEffect(j, r, k, call[j][r][k].outcome) \/ UNCHANGED vars
    /\ Enter(j, r, k, "refused")
    /\ UNCHANGED <<sent, answer>>

\* The worker process of run r dies between two awaits: no call of the run goes
\* any further, and the run renews and concludes nothing.
Crash(j, r) ==
    /\ \E k \in EffectKeys : call[j][r][k].stage \in {"send", "finish"}
    /\ Fault
    /\ call' = [call EXCEPT ![j][r] =
           [k \in EffectKeys |-> [stage |-> "dead", outcome |-> None]]]
    /\ UNCHANGED <<vars, sent, answer>>

Alive(j, r) == \A k \in EffectKeys : call[j][r][k].stage # "dead"

\* The graph awaits its calls one at a time, so what the run does when the graph
\* is over happens with none in flight.
Quiet(j, r) ==
    Alive(j, r) /\ \A k \in EffectKeys : call[j][r][k].stage \notin {"send", "finish"}

StoreStep(j) ==
    /\ \/ JobStep(j)
       \/ \E r \in DOMAIN runs[j] :
             \/ Alive(j, r) /\ HeartbeatClaim(j, r)
             \/ /\ Quiet(j, r)
                /\ \/ CompleteClaim(j, r, FALSE)
                   \/ \E outcome \in {"cancelled", "failed"} : TerminateClaim(j, r, outcome)
                   \/ \E i \in Interrupts : PauseClaim(j, r, i)
    /\ UNCHANGED journalVars

CallStep(j, r, k) ==
    \/ \E p \in Payloads : Reserve(j, r, k, p) \/ ReserveThrows(j, r, k, p)
    \/ Send(j, r, k) \/ Finish(j, r, k) \/ FinishThrows(j, r, k)

JournalNext ==
    \E j \in Jobs :
        \/ StoreStep(j)
        \/ \E r \in DOMAIN runs[j] :
              Crash(j, r) \/ \E k \in EffectKeys : CallStep(j, r, k)

JournalSpec == JournalInit /\ [][JournalNext]_journalledVars

-----------------------------------------------------------------------------
(* Properties                                                              *)

JournalTypeOK ==
    /\ call \in [Jobs -> [Attempts -> [EffectKeys -> CallState]]]
    /\ \A j \in Jobs, r \in Attempts, k \in EffectKeys :
          call[j][r][k].stage \in {"finish", "returned"} => call[j][r][k].outcome # None
    /\ sent \in [Jobs -> [EffectKeys -> Nat]]
    /\ answer \in [Jobs -> [EffectKeys -> Outcomes \cup {None}]]
    /\ faults \in 0 .. MaxFaults

\* ADR 0011: no external request is repeated behind the journal's back.  Under
\* one effect key at most one request ever reaches the provider, across crashes,
\* retries inside a run, pauses and takeovers by other workers.
ProviderAskedOnce ==
    \A j \in Jobs : \A k \in EffectKeys : sent[j][k] <= 1

\* The journal tells the truth: `succeeded' is what the provider answered, and
\* after a request was sent whose outcome was not recorded the row says
\* `reserved' or `uncertain', never `failed' and never absent.
JournalIsTruthful ==
    \A j \in Jobs : \A k \in EffectKeys :
        LET row == runEffects[j][k] IN
        /\ row.status = "succeeded" => answer[j][k] = "succeeded"
        /\ row.status = "failed" => answer[j][k] \in {"failed", None}
        /\ sent[j][k] > 0 => row.status # "absent"

\* The graph never builds on an unrecorded answer: a call that returned to its
\* caller has its outcome in the journal, under its own run, for good.
ReturnedIsRecorded ==
    \A j \in Jobs : \A r \in DOMAIN runs[j] : \A k \in EffectKeys :
        call[j][r][k].stage = "returned" =>
            /\ runEffects[j][k].run = r
            /\ runEffects[j][k].status = call[j][r][k].outcome

\* A run that concludes with nothing in flight knows what it did: the effects it
\* leaves uncertain are those whose reservation or recording was cut short by a
\* crash, by a throwing database call or by the fence.
UncertainNeedsCause ==
    \A j \in Jobs : \A k \in EffectKeys :
        runEffects[j][k].status = "uncertain" =>
            call[j][runEffects[j][k].run][k].stage \in {"send", "finish", "refused", "dead"}

\* Journal, caller and provider never contradict each other: no row tells what did not
\* happen, no caller has what no row tells, and no row is uncertain without a cause.
JournalIsConsistent ==
    JournalTypeOK /\ JournalIsTruthful /\ ReturnedIsRecorded /\ UncertainNeedsCause
=============================================================================
