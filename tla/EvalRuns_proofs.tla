--------------------------- MODULE EvalRuns_proofs ---------------------------
(***************************************************************************)
(* Theorems about evaluation, for any number of runs, policy versions,     *)
(* reviewers, requests and workers and any budget: what is in a suite was  *)
(* reviewed as it stands, a report is whole or absent, content past its    *)
(* retention is refused, and paid work is what was approved, as far as its *)
(* executor compares the two, and within its budget.                       *)
(*                                                                         *)
(* CurationInv is inductive by itself; what the runs rely on of it is      *)
(* SuiteStays, that the dataset of a suite is fixed once.  RunsInv speaks  *)
(* of one request (RequestFits) and of one worker (WorkerFits) at a time,  *)
(* and Kept is what a step must leave alone for the others.                *)
(***************************************************************************)
EXTENDS EvalRuns, FiniteSetTheorems, WellFoundedInduction, TLAPS

-----------------------------------------------------------------------------
(* What holds of the curation                                              *)

CurationTables ==
    /\ now \in 0 .. Horizon
    /\ runs \in [Runs -> RunRow]
    /\ articles \in [Runs -> 1 .. MaxRevision]
    /\ policies \in [Versions -> PolicyRow \cup {None}]
    /\ candidates \in [CandidateIds -> CandidateRow \cup {None}]
    /\ suite \in SuiteRow

\* A stamp counts the runs that have one.
Stamped == {q \in Runs : runs[q].stamp # 0}
StampsCount == \A r \in Runs : runs[r].stamp <= Cardinality(Stamped)

OneActive == \A u, v \in Active : u = v

\* A decision for a candidate has its reviewer.
DecisionsAreSigned ==
    \A c \in CandidateIds :
        candidates[c] # None /\ candidates[c].status \in {"approved", "materialized"} =>
            candidates[c].reviewer # None

SuiteFits ==
    /\ suite.status = "absent" => suite.dataset = {}
    /\ suite.cases \subseteq suite.dataset
    /\ IsFiniteSet(suite.dataset)

\* CasesAreReviewed, of candidates that are there.
CasesAreSound ==
    \A k \in suite.cases :
        /\ candidates[k.candidate] # None
        /\ candidates[k.candidate].status = "materialized"
        /\ candidates[k.candidate].reviewer # None
        /\ candidates[k.candidate].revision = k.content

CurationInv ==
    /\ CurationTables /\ StampsCount /\ OneActive
    /\ DecisionsAreSigned /\ SuiteFits /\ CasesAreSound

-----------------------------------------------------------------------------
(* What holds of the runs                                                  *)

AnyCase == CaseRow \cup Synthetic
TrialRow == [request : Requests, attempt : Nat, case : AnyCase, result : Results]
JobRow ==
    [state : {"none", "waiting", "active", "done", "failed"}, tries : Nat, stalls : Nat,
     holder : Workers \cup {None}]
WorkerRow ==
    [stage : {"idle", "context", "execute", "fail", "commit"}, request : Requests \cup {None},
     token : Nat, release : 0 .. MaxRelease, left : SUBSET AnyCase,
     report : SUBSET [case : AnyCase, result : Results], calls : Nat, cost : Nat, bill : Nat,
     uncertain : BOOLEAN, halted : BOOLEAN, aborted : BOOLEAN]

RunTables ==
    /\ release \in 1 .. MaxRelease
    /\ evalRuns \in [Requests -> EvalRunRow]
    /\ trials \subseteq TrialRow
    /\ authorization \in AuthorizationRow
    /\ outbox \in [Requests -> {"none", "pending", "published"}]
    /\ job \in [Requests -> JobRow]
    /\ worker \in [Workers -> WorkerRow]

Over(row) == row.status \in {"completed", "failed"}
\* The cases a report of the request must speak of.
CasesAsked(q) == IF Target[q] = "article" THEN suite.dataset ELSE Synthetic

\* ReportIsWhole, for one request.
ReportFits(q) ==
    LET row == evalRuns[q] IN
    IF row.status = "completed" \/ row.error = "report"
    THEN /\ {t.case : t \in TrialsOf(q)} = CasesAsked(q)
         /\ Cardinality(TrialsOf(q)) = Cardinality({t.case : t \in TrialsOf(q)})
         /\ \A t \in TrialsOf(q) : t.attempt = row.attempt
         /\ row.status = "completed" <=> \A t \in TrialsOf(q) : t.result = "ok"
    ELSE Target[q] # "inline" => TrialsOf(q) = {}

\* A request, its event and its job are one behind the other.
RequestFits(q) ==
    LET row == evalRuns[q] IN
    /\ outbox[q] # "none" => row.status # "absent" /\ Target[q] # "inline"
    /\ job[q].state # "none" => outbox[q] # "none"
    /\ job[q].state = "done" => Over(row)
    /\ row.lease => row.status = "running"
    /\ ~Over(row) => row.error = "none"
    /\ Target[q] = "inline" => row.status # "queued" /\ ~row.lease /\ row.attempt = 0
    /\ Target[q] = "article" /\ row.status # "absent" => suite.status # "absent"
    /\ Target[q] = "inline" =>
          /\ row.status = "absent" => TrialsOf(q) = {}
          /\ \A t \in TrialsOf(q) : t.attempt = 0 /\ t.case \in Synthetic
          /\ \A t, u \in TrialsOf(q) : t.case = u.case => t = u
    /\ ReportFits(q)

Excess == Max(Costs \cup {Reservation}) - Reservation

\* The budget of an execution.
BudgetFits(me) ==
    /\ me.calls <= MaxCalls
    /\ ~me.uncertain => me.bill = me.cost /\ me.cost <= MaxCost
    /\ me.uncertain => me.bill <= MaxCost + Excess

\* What an execution reports has left the cases it still has, each once.
ReportOnce(me) ==
    /\ \A r \in me.report : r.case \notin me.left
    /\ \A r, s \in me.report : r.case = s.case => r = s

\* A model that was not approved has answered once at most, and that ended the calls.
OneForeignCall(me) ==
    Target[me.request] = "calibration" /\ ~ApprovedModel(me) =>
        me.calls = 0 \/ (me.calls = 1 /\ me.halted)

WorkerFits(w) ==
    LET me == worker[w] IN
    /\ me.stage # "idle" =>
          me.request \in Requests /\ outbox[me.request] # "none"
    /\ me.stage \notin {"execute", "commit"} =>
          me.calls = 0 /\ me.left = {} /\ me.report = {}
    /\ me.stage \in {"execute", "commit"} => Executable(w) /\ OneForeignCall(me)
    /\ me.left \subseteq Synthetic \cup suite.dataset
    /\ ReportOnce(me) /\ BudgetFits(me)

RunsInv == RunTables /\ (\A q \in Requests : RequestFits(q)) /\ \A w \in Workers : WorkerFits(w)

EvalInv == CurationInv /\ RunsInv

-----------------------------------------------------------------------------
(* Maxima of finite sets                                                   *)

\* Max is the largest element: a smallest subset without one cannot exist.
LEMMA MaxOf ==
  ASSUME NEW S \in SUBSET Int, IsFiniteSet(S), S # {}
  PROVE  Max(S) \in S /\ \A y \in S : y <= Max(S)
<1> DEFINE Without == {T \in SUBSET S : T # {} /\ ~(\E x \in T : \A y \in T : x >= y)}
<1>1. Without = {}
  <2> SUFFICES ASSUME Without # {} PROVE FALSE
    OBVIOUS
  <2>1. IsWellFoundedOn(StrictSubsetOrdering(S), FiniteSubsetsOf(S))
    BY FS_StrictSubsetOrderingWellFounded
  <2>2. Without \subseteq FiniteSubsetsOf(S)
    BY FS_Subset DEF FiniteSubsetsOf
  <2>3. PICK T \in Without : \A U \in Without : ~(<<U, T>> \in StrictSubsetOrdering(S))
    <3> HIDE DEF Without
    <3> QED
      BY <2>1, <2>2, WFMin
  <2>4. PICK x \in T : TRUE
    OBVIOUS
  <2>5. CASE T \ {x} = {}
    <3>1. \A y \in T : x >= y
      BY <2>4, <2>5
    <3> QED
      BY <2>3, <2>4, <3>1
  <2>6. CASE T \ {x} # {}
    <3>1. T \ {x} \notin Without
      BY <2>3, <2>4 DEF StrictSubsetOrdering
    <3>2. PICK m \in T \ {x} : \A y \in T \ {x} : m >= y
      BY <2>6, <3>1
    <3>3. m \in T /\ x \in T /\ m \in Int /\ x \in Int /\ \A y \in T : y \in Int
      BY <2>3, <2>4
    <3>4. \A y \in T : (IF m >= x THEN m ELSE x) >= y
      BY <3>2, <3>3
    <3> QED
      BY <2>3, <3>3, <3>4
  <2> QED
    BY <2>5, <2>6
<1>2. \E x \in S : \A y \in S : x >= y
  BY <1>1
<1>3. Max(S) \in S /\ \A y \in S : Max(S) >= y
  BY <1>2 DEF Max
<1> QED
  BY <1>3

LEMMA MaxInInterval ==
  ASSUME NEW n \in Nat, NEW S \in SUBSET (0 .. n), S # {}
  PROVE  Max(S) \in 0 .. n /\ Max(S) \in S /\ \A y \in S : y <= Max(S)
<1>1. IsFiniteSet(0 .. n)
  BY FS_Interval
<1>2. IsFiniteSet(S)
  BY <1>1, FS_Subset
<1>3. S \in SUBSET Int
  OBVIOUS
<1>4. Max(S) \in S /\ \A y \in S : y <= Max(S)
  BY <1>2, <1>3, MaxOf
<1> QED
  BY <1>4

LEMMA RunsAreCounted ==
  Cardinality(Runs) \in Nat
  BY CurationAssumption, FS_CardinalityType

-----------------------------------------------------------------------------
(* The curation                                                            *)

\* What an evaluation run relies on of the suite: its dataset is fixed once.
SuiteStays ==
    /\ suite.dataset \subseteq suite'.dataset
    /\ suite.status # "absent" => suite'.status # "absent" /\ suite'.dataset = suite.dataset

\* What the candidates of a step must keep for the suite.
CandidatesStand ==
    /\ candidates' \in [CandidateIds -> CandidateRow \cup {None}]
    /\ \A c \in CandidateIds : candidates'[c] = candidates[c] \/
          /\ candidates'[c] # None
          /\ candidates'[c].status \in {"approved", "materialized"} => candidates'[c].reviewer # None
          /\ candidates[c] = None \/ candidates[c].status # "materialized"

LEMMA SuiteUntouched ==
  ASSUME CurationInv, suite' = suite, CandidatesStand
  PROVE  DecisionsAreSigned' /\ SuiteFits' /\ CasesAreSound' /\ SuiteStays
<1>1. DecisionsAreSigned'
  BY DEF CurationInv, DecisionsAreSigned, CandidatesStand
<1>2. SuiteFits' /\ SuiteStays
  BY DEF CurationInv, SuiteFits, SuiteStays
<1>3. CasesAreSound'
  <2> SUFFICES ASSUME NEW k \in suite.cases
               PROVE  candidates'[k.candidate] = candidates[k.candidate]
    BY DEF CurationInv, CasesAreSound
  <2>1. k.candidate \in CandidateIds
    BY DEF CurationInv, CurationTables, SuiteRow, CaseRow
  <2> QED
    BY <2>1 DEF CurationInv, CasesAreSound, CandidatesStand
<1> QED
  BY <1>1, <1>2, <1>3

LEMMA CandidatesUntouched ==
  ASSUME CurationInv, candidates' = candidates
  PROVE  CandidatesStand
  BY DEF CurationInv, CurationTables, CandidatesStand

LEMMA TickSound ==
  ASSUME CurationInv, Tick
  PROVE  CurationInv' /\ SuiteStays
<1>1. DecisionsAreSigned' /\ SuiteFits' /\ CasesAreSound' /\ SuiteStays
  BY SuiteUntouched, CandidatesUntouched DEF Tick
<1>2. CurationTables'
  BY CurationAssumption DEF Tick, CurationInv, CurationTables
<1> QED
  BY <1>1, <1>2 DEF CurationInv, StampsCount, Stamped, OneActive, Active, Tick

\* The run takes the next stamp, and there are no more stamps than runs.
LEMMA FinishRunSound ==
  ASSUME CurationInv, NEW r \in Runs, FinishRun(r)
  PROVE  CurationInv' /\ SuiteStays
<1>1. DecisionsAreSigned' /\ SuiteFits' /\ CasesAreSound' /\ SuiteStays
  BY SuiteUntouched, CandidatesUntouched DEF FinishRun
<1> DEFINE stamps == {runs[q].stamp : q \in Runs}
           next == 1 + Max(stamps)
<1>2. stamps \in SUBSET (0 .. Cardinality(Runs)) /\ stamps # {}
  BY DEF CurationInv, CurationTables, RunRow
<1>3. Max(stamps) \in stamps /\ Max(stamps) \in 0 .. Cardinality(Runs)
      /\ \A y \in stamps : y <= Max(stamps)
  BY <1>2, RunsAreCounted, MaxInInterval
<1>4. PICK q \in Runs : Max(stamps) = runs[q].stamp
  BY <1>3
<1>5. next \in Nat /\ next # 0 /\ next <= Cardinality(Stamped) + 1
  <2>1. runs[q].stamp <= Cardinality(Stamped)
    BY DEF CurationInv, StampsCount
  <2>2. IsFiniteSet(Stamped) /\ Cardinality(Stamped) \in Nat
    BY CurationAssumption, FS_Subset, FS_CardinalityType DEF Stamped
  <2> QED
    BY <1>3, <1>4, <2>1, <2>2
<1>6. /\ runs' = [runs EXCEPT ![r].stamp = next] /\ runs[r].stamp = 0
      /\ UNCHANGED <<now, articles, policies, candidates, suite>>
  BY DEF FinishRun
<1>7. /\ \A x \in Runs : runs'[x].stamp = IF x = r THEN next ELSE runs[x].stamp
      /\ \A x \in Runs : runs'[x].committed = runs[x].committed
  <2> HIDE DEF next
  <2> QED
    BY <1>6 DEF CurationInv, CurationTables, RunRow
<1>8. Stamped' = Stamped \cup {r} /\ r \notin Stamped
  <2> HIDE DEF next
  <2> QED
    BY <1>5, <1>6, <1>7 DEF Stamped
<1>9. /\ IsFiniteSet(Stamped) /\ Cardinality(Stamped) \in Nat
      /\ Cardinality(Stamped') = Cardinality(Stamped) + 1
      /\ Cardinality(Stamped') <= Cardinality(Runs)
  <2>1. IsFiniteSet(Stamped) /\ Stamped' \subseteq Runs
    BY <1>8, CurationAssumption, FS_Subset DEF Stamped
  <2> QED
    BY <1>8, <2>1, CurationAssumption, FS_AddElement, FS_CardinalityType, FS_Subset
<1>10. StampsCount'
  <2> HIDE DEF next
  <2> SUFFICES ASSUME NEW x \in Runs PROVE runs'[x].stamp <= Cardinality(Stamped')
    BY DEF StampsCount
  <2>1. runs[x].stamp <= Cardinality(Stamped) /\ runs[x].stamp \in Nat
    BY DEF CurationInv, StampsCount, CurationTables, RunRow
  <2> QED
    BY <1>5, <1>7, <1>9, <2>1
<1>11. runs' \in [Runs -> RunRow]
  <2>1. next \in 0 .. Cardinality(Runs)
    BY <1>5, <1>9, RunsAreCounted
  <2> HIDE DEF next
  <2> QED
    BY <1>6, <2>1 DEF CurationInv, CurationTables, RunRow
<1>12. CurationTables' /\ OneActive'
  BY <1>6, <1>11 DEF CurationInv, CurationTables, OneActive, Active
<1> QED
  BY <1>1, <1>10, <1>12 DEF CurationInv

LEMMA CommitRunSound ==
  ASSUME CurationInv, NEW r \in Runs, CommitRun(r)
  PROVE  CurationInv' /\ SuiteStays
<1>1. DecisionsAreSigned' /\ SuiteFits' /\ CasesAreSound' /\ SuiteStays
  BY SuiteUntouched, CandidatesUntouched DEF CommitRun
<1>2. runs' \in [Runs -> RunRow] /\ \A q \in Runs : runs'[q].stamp = runs[q].stamp
  BY DEF CommitRun, CurationInv, CurationTables, RunRow
<1>3. StampsCount' /\ CurationTables' /\ OneActive'
  <2>1. Stamped' = Stamped
    BY <1>2 DEF Stamped
  <2> QED
    BY <1>2, <2>1 DEF CommitRun, CurationInv, CurationTables, StampsCount, OneActive, Active
<1> QED
  BY <1>1, <1>3 DEF CurationInv

LEMMA EditArticleSound ==
  ASSUME CurationInv, NEW r \in Runs, EditArticle(r)
  PROVE  CurationInv' /\ SuiteStays
<1>1. DecisionsAreSigned' /\ SuiteFits' /\ CasesAreSound' /\ SuiteStays
  BY SuiteUntouched, CandidatesUntouched DEF EditArticle
<1>2. CurationTables'
  BY CurationAssumption DEF EditArticle, CurationInv, CurationTables
<1> QED
  BY <1>1, <1>2 DEF CurationInv, StampsCount, Stamped, OneActive, Active, EditArticle

\* What is in the policies table, of rows that are there.
LEMMA CursorInRange ==
  ASSUME CurationInv, NEW v \in Versions, policies[v] # None
  PROVE  policies[v] \in PolicyRow /\ policies[v].cursor \in 0 .. Cardinality(Runs)
  BY DEF CurationInv, CurationTables, PolicyRow

LEMMA ConfigurePolicySound ==
  ASSUME CurationInv, NEW v \in Versions, ConfigurePolicy(v)
  PROVE  CurationInv' /\ SuiteStays
<1>1. DecisionsAreSigned' /\ SuiteFits' /\ CasesAreSound' /\ SuiteStays
  BY SuiteUntouched, CandidatesUntouched DEF ConfigurePolicy
<1> DEFINE cursors == {0} \cup {policies[a].cursor : a \in Active}
           fresh == [status |-> "active", cursor |-> Max(cursors)]
           off(u) == [policies[u] EXCEPT !.status = "disabled"]
<1>2. Max(cursors) \in 0 .. Cardinality(Runs)
  <2>1. cursors \in SUBSET (0 .. Cardinality(Runs)) /\ cursors # {}
    BY CursorInRange, RunsAreCounted DEF Active
  <2> HIDE DEF cursors
  <2> QED
    BY <2>1, RunsAreCounted, MaxInInterval
<1>3. fresh \in PolicyRow /\ fresh.status = "active"
  <2> HIDE DEF cursors
  <2> QED
    BY <1>2 DEF PolicyRow
<1>4. \A u \in Active : off(u) \in PolicyRow /\ off(u).status = "disabled"
  BY CursorInRange DEF Active, PolicyRow
<1>5. /\ policies' = [u \in Versions |-> IF u = v THEN fresh
                                         ELSE IF u \in Active THEN off(u) ELSE policies[u]]
      /\ UNCHANGED <<now, runs, articles, candidates, suite>>
  BY DEF ConfigurePolicy
<1> HIDE DEF fresh, off
<1>6. policies' \in [Versions -> PolicyRow \cup {None}]
  BY <1>3, <1>4, <1>5 DEF CurationInv, CurationTables
<1>7. \A u \in Active' : u = v
  BY <1>4, <1>5 DEF Active
<1>8. CurationTables' /\ OneActive' /\ StampsCount'
  BY <1>5, <1>6, <1>7 DEF CurationInv, CurationTables, OneActive, StampsCount, Stamped
<1> QED
  BY <1>1, <1>8 DEF CurationInv

LEMMA DisablePolicySound ==
  ASSUME CurationInv, NEW v \in Versions, DisablePolicy(v)
  PROVE  CurationInv' /\ SuiteStays
<1>1. DecisionsAreSigned' /\ SuiteFits' /\ CasesAreSound' /\ SuiteStays
  BY SuiteUntouched, CandidatesUntouched DEF DisablePolicy
<1> DEFINE off == [policies[v] EXCEPT !.status = "disabled"]
<1>2. off \in PolicyRow
  BY CursorInRange DEF DisablePolicy, Active, PolicyRow
<1>3. /\ policies' = [policies EXCEPT ![v] = off]
      /\ UNCHANGED <<now, runs, articles, candidates, suite>>
  BY DEF DisablePolicy
<1>4. off.status = "disabled"
  BY CursorInRange DEF DisablePolicy, Active, PolicyRow
<1> HIDE DEF off
<1>5. policies' \in [Versions -> PolicyRow \cup {None}]
  BY <1>2, <1>3 DEF CurationInv, CurationTables
<1>6. Active' \subseteq Active
  BY <1>3, <1>4 DEF Active, CurationInv, CurationTables
<1>7. CurationTables' /\ OneActive' /\ StampsCount'
  BY <1>3, <1>5, <1>6 DEF CurationInv, CurationTables, OneActive, StampsCount, Stamped
<1> QED
  BY <1>1, <1>7 DEF CurationInv

\* A pointer is a candidate nobody has decided on.
LEMMA PointerFits ==
  ASSUME CurationInv, NEW r \in Runs, NEW v \in Versions, NEW automatic \in BOOLEAN
  PROVE  /\ Pointer(r, v, automatic) \in CandidateRow
         /\ Pointer(r, v, automatic).status = "pending_review"
<1>1. now + Retention[v] \in 1 .. 2 * Horizon /\ articles[r] \in 1 .. MaxRevision
  BY CurationAssumption DEF CurationInv, CurationTables
<1> QED
  BY <1>1 DEF Pointer, CandidateRow

\* A candidate that appears cannot be one of the suite's.
LEMMA SampledStand ==
  ASSUME CurationInv, NEW D \in SUBSET CandidateIds, NEW automatic \in BOOLEAN,
         \A c \in D : candidates[c] = None,
         candidates' = [c \in CandidateIds |->
            IF c \in D THEN Pointer(c[1], c[2], automatic) ELSE candidates[c]]
  PROVE  CandidatesStand
<1>1. \A c \in D : /\ Pointer(c[1], c[2], automatic) \in CandidateRow
                   /\ Pointer(c[1], c[2], automatic).status = "pending_review"
  BY PointerFits DEF CandidateIds
<1>2. None \notin CandidateRow
  BY NoneIsNoRow
<1> QED
  BY <1>1, <1>2 DEF CurationInv, CurationTables, CandidatesStand

LEMMA ScanActivePoliciesSound ==
  ASSUME CurationInv, NEW v \in Versions, ScanActivePolicies(v)
  PROVE  CurationInv' /\ SuiteStays
<1> DEFINE stamps == {runs[r].stamp : r \in Scanned(v)}
           moved == [policies[v] EXCEPT !.cursor = Max(stamps)]
           D == {c \in CandidateIds : c[2] = v /\ c[1] \in Scanned(v) \cap Selects[v]
                                      /\ candidates[c] = None}
<1>1. /\ policies' = [policies EXCEPT ![v] = moved] /\ v \in Active /\ Scanned(v) # {}
      /\ UNCHANGED <<now, runs, articles, suite>>
  BY DEF ScanActivePolicies
<1>2. candidates' = [c \in CandidateIds |->
         IF c \in D THEN Pointer(c[1], c[2], TRUE) ELSE candidates[c]]
  BY DEF ScanActivePolicies
<1>3. CandidatesStand
  <2> HIDE DEF D
  <2>1. D \in SUBSET CandidateIds /\ \A c \in D : candidates[c] = None
    BY DEF D
  <2> QED
    BY <1>2, <2>1, SampledStand
<1>4. DecisionsAreSigned' /\ SuiteFits' /\ CasesAreSound' /\ SuiteStays
  BY <1>1, <1>3, SuiteUntouched
<1>5. Max(stamps) \in 0 .. Cardinality(Runs)
  <2>1. stamps \in SUBSET (0 .. Cardinality(Runs)) /\ stamps # {}
    <3>1. Scanned(v) \subseteq Runs
      BY DEF Scanned, After
    <3>2. \A r \in Runs : runs[r].stamp \in 0 .. Cardinality(Runs)
      BY DEF CurationInv, CurationTables, RunRow
    <3> QED
      BY <1>1, <3>1, <3>2
  <2> HIDE DEF stamps
  <2> QED
    BY <2>1, RunsAreCounted, MaxInInterval
<1>6. moved \in PolicyRow /\ moved.status = policies[v].status
  <2> HIDE DEF stamps
  <2> QED
    BY <1>1, <1>5, CursorInRange DEF Active, PolicyRow
<1> HIDE DEF moved
<1>7. policies' \in [Versions -> PolicyRow \cup {None}]
  BY <1>1, <1>6 DEF CurationInv, CurationTables
<1>8. Active' = Active
  BY <1>1, <1>6, NoneIsNoRow DEF Active, CurationInv, CurationTables
<1>9. CurationTables' /\ OneActive' /\ StampsCount'
  BY <1>1, <1>3, <1>7, <1>8
     DEF CurationInv, CurationTables, CandidatesStand, OneActive, StampsCount, Stamped
<1> QED
  BY <1>4, <1>9 DEF CurationInv

LEMMA SampleCompletedRunSound ==
  ASSUME CurationInv, NEW r \in Runs, NEW v \in Versions, SampleCompletedRun(r, v)
  PROVE  CurationInv' /\ SuiteStays
<1> DEFINE D == {<<r, v>>}
<1>1. /\ candidates' = [candidates EXCEPT ![<<r, v>>] = Pointer(r, v, FALSE)]
      /\ candidates[<<r, v>>] = None /\ <<r, v>> \in CandidateIds
      /\ UNCHANGED <<now, runs, articles, policies, suite>>
  BY DEF SampleCompletedRun, CandidateIds
<1>2. candidates' = [c \in CandidateIds |->
         IF c \in D THEN Pointer(c[1], c[2], FALSE) ELSE candidates[c]]
  <2>1. \A c \in D : c = <<r, v>> /\ c[1] = r /\ c[2] = v
    OBVIOUS
  <2>2. candidates \in [CandidateIds -> CandidateRow \cup {None}]
    BY DEF CurationInv, CurationTables
  <2>3. <<r, v>> \in D
    OBVIOUS
  <2> HIDE DEF D
  <2>4. \A c \in CandidateIds :
           candidates'[c] = IF c \in D THEN Pointer(c[1], c[2], FALSE) ELSE candidates[c]
    BY <1>1, <2>1, <2>2, <2>3
  <2> QED
    BY <1>1, <2>2, <2>4
<1>3. CandidatesStand
  <2>1. D \in SUBSET CandidateIds /\ \A c \in D : candidates[c] = None
    BY <1>1
  <2> HIDE DEF D
  <2> QED
    BY <1>2, <2>1, SampledStand
<1>4. DecisionsAreSigned' /\ SuiteFits' /\ CasesAreSound' /\ SuiteStays
  BY <1>1, <1>3, SuiteUntouched
<1>5. CurationTables' /\ OneActive' /\ StampsCount'
  BY <1>1, <1>3
     DEF CurationInv, CurationTables, CandidatesStand, OneActive, Active, StampsCount, Stamped
<1> QED
  BY <1>4, <1>5 DEF CurationInv

\* A candidate after its status, or also its reviewer, changed.
Moved(c, status) == [c EXCEPT !.status = status]
Decided(c, status, p) == [c EXCEPT !.status = status, !.reviewer = p]

LEMMA CandidateMoved ==
  ASSUME NEW c \in CandidateRow, NEW status \in {"approved", "rejected", "materialized", "expired"}
  PROVE  /\ Moved(c, status) \in CandidateRow /\ Moved(c, status) # None
         /\ Moved(c, status).status = status
         /\ Moved(c, status).reviewer = c.reviewer
         /\ Moved(c, status).revision = c.revision
  BY NoneIsNoRow DEF CandidateRow, Moved

LEMMA CandidateDecided ==
  ASSUME NEW c \in CandidateRow, NEW status \in {"approved", "rejected"}, NEW p \in Reviewers
  PROVE  /\ Decided(c, status, p) \in CandidateRow /\ Decided(c, status, p) # None
         /\ Decided(c, status, p).reviewer # None
  BY NoneIsNoRow, CurationAssumption DEF CandidateRow, Decided

LEMMA ReviewCandidateSound ==
  ASSUME CurationInv, NEW p \in Reviewers, NEW c \in CandidateIds,
         NEW decision \in {"approved", "rejected"}, ReviewCandidate(p, c, decision)
  PROVE  CurationInv' /\ SuiteStays
<1> DEFINE row == IF Due(c) THEN Moved(candidates[c], "expired")
                  ELSE Decided(candidates[c], decision, p)
<1>1. /\ candidates' = [candidates EXCEPT ![c] = row]
      /\ candidates[c] # None /\ candidates[c].status = "pending_review"
      /\ UNCHANGED <<now, runs, articles, policies, suite>>
  BY DEF ReviewCandidate, Moved, Decided
<1>2. candidates[c] \in CandidateRow
  BY <1>1 DEF CurationInv, CurationTables
<1>3. /\ row \in CandidateRow /\ row # None
      /\ row.status \in {"approved", "materialized"} => row.reviewer # None
  BY <1>2, CandidateMoved, CandidateDecided
<1> HIDE DEF row
<1>5. CandidatesStand
  BY <1>1, <1>3 DEF CurationInv, CurationTables, CandidatesStand
<1>6. DecisionsAreSigned' /\ SuiteFits' /\ CasesAreSound' /\ SuiteStays
  BY <1>1, <1>5, SuiteUntouched
<1>7. CurationTables' /\ OneActive' /\ StampsCount'
  BY <1>1, <1>5
     DEF CurationInv, CurationTables, CandidatesStand, OneActive, Active, StampsCount, Stamped
<1> QED
  BY <1>6, <1>7 DEF CurationInv

LEMMA MaterializeSound ==
  ASSUME CurationInv, NEW chosen \in SUBSET CandidateIds, Materialize(chosen)
  PROVE  CurationInv' /\ SuiteStays
<1> DEFINE cases == {CaseOf(c) : c \in chosen}
           used(c) == Moved(candidates[c], "materialized")
<1>1. /\ suite.status = "absent"
      /\ suite' = [status |-> "draft", dataset |-> cases, cases |-> cases]
      /\ candidates' = [c \in CandidateIds |-> IF c \in chosen THEN used(c) ELSE candidates[c]]
      /\ UNCHANGED <<now, runs, articles, policies>>
  BY DEF Materialize, Moved
<1>2. \A c \in chosen : /\ candidates[c] # None /\ candidates[c] \in CandidateRow
                        /\ candidates[c].status = "approved" /\ candidates[c].reviewer # None
                        /\ articles[c[1]] = candidates[c].revision /\ articles[c[1]] \in 1 .. MaxRevision
  BY DEF Materialize, Materializable, IsCurrent, CurationInv, CurationTables, DecisionsAreSigned,
         CandidateIds
<1>3. \A c \in chosen : /\ used(c) \in CandidateRow /\ used(c) # None
                        /\ used(c).status = "materialized" /\ used(c).reviewer # None
                        /\ used(c).revision = articles[c[1]]
  BY <1>2, CandidateMoved
<1>4. \A k \in cases : /\ k \in CaseRow /\ k.candidate \in chosen
                       /\ k.content = articles[k.candidate[1]]
  BY <1>2 DEF CaseOf, CaseRow
<1>5. IsFiniteSet(cases)
  <2>1. IsFiniteSet(CandidateIds)
    BY CurationAssumption, FS_Product DEF CandidateIds
  <2>2. IsFiniteSet(chosen)
    BY <2>1, FS_Subset
  <2> DEFINE f == [c \in chosen |-> CaseOf(c)]
  <2>3. f \in Surjection(chosen, cases)
    BY DEF Surjection
  <2> HIDE DEF cases, f
  <2> QED
    BY <2>2, <2>3, FS_Surjection
<1> HIDE DEF cases, used
<1>6. candidates' \in [CandidateIds -> CandidateRow \cup {None}]
  BY <1>1, <1>3 DEF CurationInv, CurationTables
<1>7. suite' \in SuiteRow
  BY <1>1, <1>4 DEF SuiteRow
<1>8. SuiteFits' /\ SuiteStays
  BY <1>1, <1>5 DEF SuiteFits, SuiteStays, CurationInv
<1>9. CasesAreSound'
  <2> SUFFICES ASSUME NEW k \in cases
               PROVE  /\ candidates'[k.candidate] # None
                      /\ candidates'[k.candidate].status = "materialized"
                      /\ candidates'[k.candidate].reviewer # None
                      /\ candidates'[k.candidate].revision = k.content
    BY <1>1 DEF CasesAreSound
  <2>1. candidates'[k.candidate] = used(k.candidate)
    BY <1>1, <1>4
  <2> QED
    BY <1>3, <1>4, <2>1
<1>10. DecisionsAreSigned'
  BY <1>1, <1>3 DEF CurationInv, DecisionsAreSigned
<1>11. CurationTables' /\ OneActive' /\ StampsCount'
  BY <1>1, <1>6, <1>7
     DEF CurationInv, CurationTables, OneActive, Active, StampsCount, Stamped
<1> QED
  BY <1>8, <1>9, <1>10, <1>11 DEF CurationInv

LEMMA ActivateSound ==
  ASSUME CurationInv, ActivateMaterializedSuite
  PROVE  CurationInv' /\ SuiteStays
<1>1. /\ suite' \in SuiteRow /\ suite'.status = "active" /\ suite.status = "draft"
      /\ suite'.dataset = suite.dataset /\ suite'.cases = suite.cases
      /\ UNCHANGED <<now, runs, articles, policies, candidates>>
  BY DEF ActivateMaterializedSuite, CurationInv, CurationTables, SuiteRow
<1> QED
  BY <1>1 DEF CurationInv, CurationTables, StampsCount, Stamped, OneActive, Active,
              DecisionsAreSigned, SuiteFits, CasesAreSound, SuiteStays

LEMMA ExpireDueSound ==
  ASSUME CurationInv, NEW due \in SUBSET Expirable, NEW referenced, ExpireDue(due, referenced)
  PROVE  CurationInv' /\ SuiteStays
<1> DEFINE gone == {k \in suite.cases : k.candidate \in due}
           over(c) == Moved(candidates[c], "expired")
<1>1. /\ suite' = IF gone = {} THEN suite
                  ELSE [suite EXCEPT !.status = "archived", !.cases = suite.cases \ gone]
      /\ candidates' = [c \in CandidateIds |-> IF c \in due THEN over(c) ELSE candidates[c]]
      /\ UNCHANGED <<now, runs, articles, policies>>
  BY DEF ExpireDue, Moved
<1>2. \A c \in due : c \in CandidateIds /\ candidates[c] \in CandidateRow
  BY DEF Expirable, CurationInv, CurationTables
<1>3. \A c \in due : over(c) \in CandidateRow /\ over(c).status = "expired" /\ over(c) # None
  BY <1>2, CandidateMoved
<1>4. /\ suite' \in SuiteRow /\ suite'.dataset = suite.dataset
      /\ suite'.cases = suite.cases \ gone /\ suite.cases \subseteq suite.dataset
      /\ suite.status = "absent" <=> suite'.status = "absent"
  <2>1. suite \in SuiteRow /\ suite.cases \subseteq suite.dataset
        /\ (suite.status = "absent" => gone = {})
    BY DEF CurationInv, CurationTables, SuiteFits
  <2> HIDE DEF gone
  <2> QED
    BY <1>1, <2>1 DEF SuiteRow
<1>5. candidates' \in [CandidateIds -> CandidateRow \cup {None}] /\ DecisionsAreSigned'
  <2> HIDE DEF over
  <2> QED
    BY <1>1, <1>2, <1>3 DEF CurationInv, CurationTables, DecisionsAreSigned
<1>6. CasesAreSound'
  <2> SUFFICES ASSUME NEW k \in suite.cases, k.candidate \notin due
               PROVE  candidates'[k.candidate] = candidates[k.candidate]
    BY <1>4 DEF CurationInv, CasesAreSound
  <2>1. k.candidate \in CandidateIds
    BY DEF CurationInv, CurationTables, SuiteRow, CaseRow
  <2> QED
    BY <1>1, <2>1
<1>7. SuiteFits' /\ SuiteStays
  BY <1>4 DEF CurationInv, SuiteFits, SuiteStays
<1>8. CurationTables' /\ OneActive' /\ StampsCount'
  BY <1>1, <1>4, <1>5
     DEF CurationInv, CurationTables, OneActive, Active, StampsCount, Stamped
<1> QED
  BY <1>5, <1>6, <1>7, <1>8 DEF CurationInv

LEMMA CurationSound ==
  ASSUME CurationInv, NEW referenced, CurationNext(referenced)
  PROVE  CurationInv' /\ SuiteStays
<1>1. CASE \E r \in Runs : FinishRun(r) \/ CommitRun(r) \/ EditArticle(r)
  BY <1>1, FinishRunSound, CommitRunSound, EditArticleSound
<1>2. CASE \E v \in Versions : ConfigurePolicy(v) \/ DisablePolicy(v) \/ ScanActivePolicies(v)
  BY <1>2, ConfigurePolicySound, DisablePolicySound, ScanActivePoliciesSound
<1>3. CASE \E p \in Reviewers, c \in CandidateIds, decision \in {"approved", "rejected"} :
              ReviewCandidate(p, c, decision)
  BY <1>3, ReviewCandidateSound
<1>4. CASE \E due \in SUBSET Expirable : ExpireDue(due, referenced)
  BY <1>4, ExpireDueSound
<1> QED
  BY <1>1, <1>2, <1>3, <1>4, TickSound, SampleCompletedRunSound, MaterializeSound, ActivateSound
     DEF CurationNext

-----------------------------------------------------------------------------
(* Rows of the evaluation runs                                             *)

AsQueued(row, r) == [row EXCEPT !.status = "queued", !.release = r]
AsStarted(row, r) == [row EXCEPT !.status = "running", !.release = r]
Unleased(row) == [row EXCEPT !.lease = FALSE]
AsFailed(row) == [row EXCEPT !.status = "failed", !.lease = FALSE, !.error = "executor"]

LEMMA RowFields ==
  ASSUME NEW row \in EvalRunRow
  PROVE  DOMAIN row = {"status", "attempt", "lease", "release", "error"}
  BY DEF EvalRunRow

LEMMA JobFields ==
  ASSUME NEW row \in JobRow
  PROVE  DOMAIN row = {"state", "tries", "stalls", "holder"}
  BY DEF JobRow

LEMMA RowQueued ==
  ASSUME NEW row \in EvalRunRow, NEW r \in 0 .. MaxRelease
  PROVE  /\ AsQueued(row, r) \in EvalRunRow /\ AsQueued(row, r).status = "queued"
         /\ AsQueued(row, r).release = r /\ AsQueued(row, r).error = row.error
         /\ AsQueued(row, r).lease = row.lease
<1>1. AsQueued(row, r) \in EvalRunRow
  BY DEF EvalRunRow, Statuses, AsQueued
<1>2. /\ AsQueued(row, r).status = "queued"
      /\ AsQueued(row, r).release = r /\ AsQueued(row, r).error = row.error
      /\ AsQueued(row, r).lease = row.lease
  BY RowFields DEF AsQueued
<1> QED
  BY <1>1, <1>2

LEMMA RowStarted ==
  ASSUME NEW row \in EvalRunRow, NEW r \in 0 .. MaxRelease
  PROVE  /\ AsStarted(row, r) \in EvalRunRow /\ AsStarted(row, r).status = "running"
         /\ AsStarted(row, r).error = row.error /\ AsStarted(row, r).lease = row.lease
         /\ AsStarted(row, r).attempt = row.attempt
<1>1. AsStarted(row, r) \in EvalRunRow
  BY DEF EvalRunRow, Statuses, AsStarted
<1>2. /\ AsStarted(row, r).status = "running"
      /\ AsStarted(row, r).error = row.error /\ AsStarted(row, r).lease = row.lease
      /\ AsStarted(row, r).attempt = row.attempt
  BY RowFields DEF AsStarted
<1> QED
  BY <1>1, <1>2

LEMMA RowUnleased ==
  ASSUME NEW row \in EvalRunRow
  PROVE  /\ Unleased(row) \in EvalRunRow /\ ~Unleased(row).lease
         /\ Unleased(row).status = row.status /\ Unleased(row).error = row.error
         /\ Unleased(row).release = row.release /\ Unleased(row).attempt = row.attempt
<1>1. Unleased(row) \in EvalRunRow
  BY DEF EvalRunRow, Unleased
<1>2. /\ ~Unleased(row).lease
      /\ Unleased(row).status = row.status /\ Unleased(row).error = row.error
      /\ Unleased(row).release = row.release /\ Unleased(row).attempt = row.attempt
  BY RowFields DEF Unleased
<1> QED
  BY <1>1, <1>2

LEMMA RowFailed ==
  ASSUME NEW row \in EvalRunRow
  PROVE  /\ AsFailed(row) \in EvalRunRow /\ AsFailed(row).status = "failed"
         /\ ~AsFailed(row).lease /\ AsFailed(row).error = "executor"
         /\ AsFailed(row).release = row.release
<1>1. AsFailed(row) \in EvalRunRow
  BY DEF EvalRunRow, Statuses, AsFailed
<1>2. /\ AsFailed(row).status = "failed"
      /\ ~AsFailed(row).lease /\ AsFailed(row).error = "executor"
      /\ AsFailed(row).release = row.release
  BY RowFields DEF AsFailed
<1> QED
  BY <1>1, <1>2

LEMMA RowTaken ==
  ASSUME NEW row \in EvalRunRow
  PROVE  /\ Taken(row) \in EvalRunRow /\ Taken(row).status = "running"
         /\ Taken(row).lease /\ Taken(row).error = "none"
         /\ Taken(row).release = row.release
<1>1. Taken(row) \in EvalRunRow
  <2>1. row.attempt + 1 \in Nat
    BY DEF EvalRunRow
  <2> QED
    BY <2>1 DEF EvalRunRow, Statuses, Taken
<1>2. /\ Taken(row).status = "running"
      /\ Taken(row).lease /\ Taken(row).error = "none"
      /\ Taken(row).release = row.release
  BY RowFields DEF Taken
<1> QED
  BY <1>1, <1>2

\* A concluded row says how its trials ended.
LEMMA RowConcluded ==
  ASSUME NEW row \in EvalRunRow, NEW reported
  PROVE  /\ Concluded(row, reported) \in EvalRunRow
         /\ IF \E t \in reported : t.result = "error"
            THEN Concluded(row, reported).status = "failed"
                 /\ Concluded(row, reported).error = "report"
            ELSE Concluded(row, reported).status = "completed"
                 /\ Concluded(row, reported).error = "none"
         /\ ~Concluded(row, reported).lease
         /\ Concluded(row, reported).attempt = row.attempt
         /\ Concluded(row, reported).release = row.release
<1> DEFINE failed == \E t \in reported : t.result = "error"
<1>1. Concluded(row, reported) =
        [row EXCEPT !.status = IF failed THEN "failed" ELSE "completed",
                    !.lease = FALSE, !.error = IF failed THEN "report" ELSE "none"]
  BY DEF Concluded
<1> HIDE DEF failed
<1>2. CASE failed
  <2> DEFINE new == [row EXCEPT !.status = "failed", !.lease = FALSE, !.error = "report"]
  <2>1. Concluded(row, reported) = new
    BY <1>1, <1>2
  <2>2. new \in EvalRunRow
    BY DEF EvalRunRow, Statuses
  <2>3. new.status = "failed" /\ new.error = "report" /\ ~new.lease
        /\ new.attempt = row.attempt /\ new.release = row.release
    BY RowFields
  <2> HIDE DEF new
  <2> QED
    BY <1>2, <2>1, <2>2, <2>3 DEF failed
<1>3. CASE ~failed
  <2> DEFINE new == [row EXCEPT !.status = "completed", !.lease = FALSE, !.error = "none"]
  <2>1. Concluded(row, reported) = new
    BY <1>1, <1>3
  <2>2. new \in EvalRunRow
    BY DEF EvalRunRow, Statuses
  <2>3. new.status = "completed" /\ new.error = "none" /\ ~new.lease
        /\ new.attempt = row.attempt /\ new.release = row.release
    BY RowFields
  <2> HIDE DEF new
  <2> QED
    BY <1>3, <2>1, <2>2, <2>3 DEF failed
<1> QED
  BY <1>2, <1>3

-----------------------------------------------------------------------------
(* Jobs                                                                    *)

LEMMA JobEnded ==
  ASSUME NEW row \in JobRow, NEW end
  PROVE  /\ Ended(row, end) \in JobRow
         /\ IF end = "done" THEN Ended(row, end).state = "done"
            ELSE Ended(row, end).state \in {"waiting", "failed"}
<1> DEFINE state == IF end = "done" THEN "done"
                    ELSE IF row.tries + 1 < MaxDeliveries THEN "waiting" ELSE "failed"
<1>1. Ended(row, end) = [row EXCEPT !.state = state, !.tries = row.tries + 1, !.holder = None]
  BY DEF Ended
<1>2. /\ state \in {"done", "waiting", "failed"}
      /\ IF end = "done" THEN state = "done" ELSE state \in {"waiting", "failed"}
  OBVIOUS
<1> HIDE DEF state
<1>3. Ended(row, end) \in JobRow
  <2>1. row.tries + 1 \in Nat /\ state \in {"none", "waiting", "active", "done", "failed"}
    BY <1>2 DEF JobRow
  <2> QED
    BY <1>1, <2>1 DEF JobRow
<1>4. Ended(row, end).state = state
  BY <1>1, JobFields
<1> QED
  BY <1>2, <1>3, <1>4

LEMMA JobStalled ==
  ASSUME NEW row \in JobRow
  PROVE  Stalled(row) \in JobRow /\ Stalled(row).state \in {"waiting", "failed"}
<1> DEFINE state == IF row.stalls = 0 THEN "waiting" ELSE "failed"
       waiting == [row EXCEPT !.state = "waiting", !.stalls = 1, !.holder = None]
       broken == [row EXCEPT !.state = "failed", !.stalls = 1, !.holder = None]
<1>1. Stalled(row) = IF state = "waiting" THEN waiting ELSE broken
  BY DEF Stalled
<1>2. waiting \in JobRow /\ broken \in JobRow
  BY DEF JobRow
<1>3. waiting.state = "waiting" /\ broken.state = "failed"
  BY JobFields
<1> HIDE DEF state, waiting, broken
<1> QED
  BY <1>1, <1>2, <1>3

-----------------------------------------------------------------------------
(* What a step leaves alone                                                *)

\* What a step keeps of requests, approvals and suite for those who rely on them.
Kept ==
    /\ \A q \in Requests : outbox[q] # "none" =>
          outbox'[q] # "none" /\ evalRuns'[q].release = evalRuns[q].release
    /\ authorization.status = "enqueued" => authorization' = authorization
    /\ SuiteStays

\* A job is there for an event, and done when its run is over.
JobFollows(q) ==
    /\ job[q].state # "none" => outbox[q] # "none"
    /\ job[q].state = "done" => Over(evalRuns[q])

LEMMA RequestStays ==
  ASSUME EvalInv, Kept, NEW q \in Requests, evalRuns'[q] = evalRuns[q],
         TrialsOf(q)' = TrialsOf(q), outbox'[q] # "none" => outbox[q] # "none", JobFollows(q)'
  PROVE  RequestFits(q)'
<1>1. RequestFits(q)
  BY DEF EvalInv, RunsInv
<1>2. Target[q] = "article" /\ evalRuns[q].status # "absent" =>
         suite'.status # "absent" /\ suite'.dataset = suite.dataset
  BY <1>1 DEF RequestFits, Kept, SuiteStays
<1>3. evalRuns[q].status = "completed" \/ evalRuns[q].error = "report" =>
         evalRuns[q].status # "absent"
  BY <1>1 DEF RequestFits, Over
<1>4. ReportFits(q)'
  <2>1. CASE evalRuns[q].status = "completed" \/ evalRuns[q].error = "report"
    <3>1. CasesAsked(q)' = CasesAsked(q)
      BY <1>2, <1>3, <2>1 DEF CasesAsked, Synthetic
    <3> QED
      BY <1>1, <2>1, <3>1 DEF RequestFits, ReportFits
  <2>2. CASE ~(evalRuns[q].status = "completed" \/ evalRuns[q].error = "report")
    BY <1>1, <2>2 DEF RequestFits, ReportFits
  <2> QED
    BY <2>1, <2>2
<1> QED
  BY <1>1, <1>2, <1>4 DEF RequestFits, JobFollows, Over

\* A run that is not concluded keeps its trials, or has none.
LEMMA ReportWaits ==
  ASSUME EvalInv, NEW q \in Requests, TrialsOf(q)' = TrialsOf(q),
         evalRuns[q].status # "completed" /\ evalRuns[q].error # "report",
         evalRuns'[q].status # "completed" /\ evalRuns'[q].error # "report"
  PROVE  ReportFits(q)'
  BY DEF EvalInv, RunsInv, RequestFits, ReportFits

LEMMA WorkerStays ==
  ASSUME EvalInv, Kept, NEW w \in Workers, worker'[w] = worker[w]
  PROVE  WorkerFits(w)'
<1> DEFINE me == worker[w]
<1>1. WorkerFits(w)
  BY DEF EvalInv, RunsInv
<1>2. me.stage # "idle" => me.request \in Requests /\ outbox'[me.request] # "none"
         /\ evalRuns'[me.request].release = evalRuns[me.request].release
  BY <1>1 DEF WorkerFits, Kept
<1>3. me.stage \in {"execute", "commit"} => Executable(w)' /\ OneForeignCall(me)'
  BY <1>1, <1>2 DEF WorkerFits, Executable, SameExecution, SamePlan, OneForeignCall, ApprovedModel,
                    Kept
<1>4. me.left \subseteq Synthetic \cup suite'.dataset
  BY <1>1 DEF WorkerFits, Kept, SuiteStays
<1> QED
  BY <1>1, <1>2, <1>3, <1>4 DEF WorkerFits, OneForeignCall, ApprovedModel, Synthetic, ReportOnce,
                               BudgetFits, Excess

\* The same for an execution that only changes what is private to it.
LEMMA ExecutionStays ==
  ASSUME EvalInv, Kept, NEW w \in Workers, worker[w].stage # "idle",
         worker'[w].request = worker[w].request, worker'[w].release = worker[w].release,
         worker'[w].stage \in {"execute", "commit"} => worker[w].stage \in {"execute", "commit"},
         worker'[w].stage \notin {"execute", "commit"} =>
            worker'[w].calls = 0 /\ worker'[w].left = {} /\ worker'[w].report = {},
         worker'[w].stage \in {"execute", "commit"} => OneForeignCall(worker'[w]),
         worker'[w].left \subseteq worker[w].left,
         ReportOnce(worker'[w]), BudgetFits(worker'[w])
  PROVE  WorkerFits(w)'
<1> DEFINE me == worker[w]
<1>1. WorkerFits(w)
  BY DEF EvalInv, RunsInv
<1>2. me.request \in Requests /\ outbox'[me.request] # "none"
         /\ evalRuns'[me.request].release = evalRuns[me.request].release
  BY <1>1 DEF WorkerFits, Kept
<1>3. worker'[w].stage \in {"execute", "commit"} => Executable(w)' /\ OneForeignCall(worker[w])'
  BY <1>1, <1>2 DEF WorkerFits, Executable, SameExecution, SamePlan, OneForeignCall, ApprovedModel,
                    Kept
<1>4. worker'[w].left \subseteq Synthetic \cup suite'.dataset
  BY <1>1 DEF WorkerFits, Kept, SuiteStays
<1> QED
  BY <1>2, <1>3, <1>4 DEF WorkerFits, OneForeignCall, ApprovedModel, Synthetic, ReportOnce,
                          BudgetFits, Excess

LEMMA IdleFits ==
  /\ Idle \in WorkerRow /\ Idle.stage = "idle" /\ Idle.left = {} /\ Idle.report = {}
  /\ Idle.calls = 0 /\ ReportOnce(Idle) /\ BudgetFits(Idle)
<1>1. MaxRelease \in Nat /\ MaxCalls \in Nat /\ MaxCost \in Nat
  BY RunsAssumption
<1>2. Idle \in WorkerRow
  BY <1>1 DEF Idle, WorkerRow
<1> QED
  BY <1>1, <1>2 DEF Idle, ReportOnce, BudgetFits

LEMMA IdleStays ==
  ASSUME NEW w \in Workers, worker'[w] = Idle
  PROVE  WorkerFits(w)'
  BY IdleFits DEF WorkerFits, ReportOnce, BudgetFits, Excess, Synthetic

\* A step that leaves requests and workers alone.
LEMMA RunsUntouched ==
  ASSUME EvalInv, Kept, RunTables', UNCHANGED <<evalRuns, trials, outbox, job, worker>>
  PROVE  RunsInv'
<1>1. ASSUME NEW q \in Requests PROVE RequestFits(q)'
  <2>1. TrialsOf(q)' = TrialsOf(q)
    BY DEF TrialsOf
  <2>2. JobFollows(q)'
    BY DEF EvalInv, RunsInv, RequestFits, JobFollows, Over
  <2> QED
    BY <2>1, <2>2, RequestStays
<1>2. \A w \in Workers : WorkerFits(w)'
  BY WorkerStays
<1> QED
  BY <1>1, <1>2 DEF RunsInv

LEMMA RequestsStay ==
  ASSUME EvalInv, Kept, NEW D,
         \A x \in Requests \ D : /\ evalRuns'[x] = evalRuns[x] /\ TrialsOf(x)' = TrialsOf(x)
                                 /\ outbox'[x] = outbox[x] /\ job'[x].state = job[x].state
  PROVE  \A x \in Requests \ D : RequestFits(x)'
<1> SUFFICES ASSUME NEW x \in Requests \ D PROVE RequestFits(x)'
  OBVIOUS
<1>1. JobFollows(x)'
  BY DEF EvalInv, RunsInv, RequestFits, JobFollows, Over
<1> QED
  BY <1>1, RequestStays

LEMMA WorkersStay ==
  ASSUME EvalInv, Kept, NEW D, \A w \in Workers \ D : worker'[w] = worker[w]
  PROVE  \A w \in Workers \ D : WorkerFits(w)'
  BY WorkerStays

LEMMA CurationStays ==
  ASSUME CurationInv, UNCHANGED curationVars
  PROVE  CurationInv' /\ SuiteStays
<1>1. SuiteStays
  BY DEF curationVars, SuiteStays
<1> QED
  BY <1>1 DEF curationVars, CurationInv, CurationTables, StampsCount, Stamped, OneActive, Active,
              DecisionsAreSigned, SuiteFits, CasesAreSound

LEMMA NotEnqueuedKept ==
  ASSUME EvalInv, UNCHANGED <<curationVars, outbox>>,
         \A q \in Requests : evalRuns'[q].release = evalRuns[q].release,
         authorization.status = "enqueued" => authorization' = authorization
  PROVE  Kept
  BY CurationStays DEF EvalInv, Kept

-----------------------------------------------------------------------------
(* Requests                                                                *)

LEMMA DeploySound ==
  ASSUME EvalInv, Deploy
  PROVE  RunsInv'
<1>1. Kept
  BY NotEnqueuedKept DEF Deploy
<1>2. RunTables'
  BY RunsAssumption DEF Deploy, EvalInv, RunsInv, RunTables
<1> QED
  BY <1>1, <1>2, RunsUntouched DEF Deploy

LEMMA RegisterCalibrationSound ==
  ASSUME EvalInv, RegisterCalibration
  PROVE  RunsInv'
<1>1. Kept
  BY NotEnqueuedKept DEF RegisterCalibration
<1>2. RunTables'
  <2>1. authorization' \in AuthorizationRow
    BY RunsAssumption DEF RegisterCalibration, AuthorizationRow, EvalInv, RunsInv, RunTables
  <2> QED
    BY <2>1 DEF RegisterCalibration, EvalInv, RunsInv, RunTables
<1> QED
  BY <1>1, <1>2, RunsUntouched DEF RegisterCalibration

LEMMA ApproveCalibrationSound ==
  ASSUME EvalInv, ApproveCalibration
  PROVE  RunsInv'
<1>1. Kept
  BY NotEnqueuedKept DEF ApproveCalibration
<1>2. RunTables'
  <2>1. authorization' \in AuthorizationRow
    BY DEF ApproveCalibration, AuthorizationRow, EvalInv, RunsInv, RunTables
  <2> QED
    BY <2>1 DEF ApproveCalibration, EvalInv, RunsInv, RunTables
<1> QED
  BY <1>1, <1>2, RunsUntouched DEF ApproveCalibration

\* A run is queued where there was no row, so nobody relies on it yet.
LEMMA QueuedSound ==
  ASSUME EvalInv, NEW q \in Requests, NEW r \in 0 .. MaxRelease,
         Target[q] # "inline", Target[q] = "article" => suite.status # "absent",
         evalRuns[q].status = "absent",
         evalRuns' = [evalRuns EXCEPT ![q] = AsQueued(evalRuns[q], r)],
         outbox' = [outbox EXCEPT ![q] = "pending"],
         UNCHANGED <<curationVars, release, trials, job, worker>>,
         authorization' \in AuthorizationRow,
         authorization.status = "enqueued" => authorization' = authorization
  PROVE  RunsInv'
<1> DEFINE row == AsQueued(evalRuns[q], r)
<1>1. RunTables /\ RequestFits(q) /\ evalRuns[q] \in EvalRunRow
  BY DEF EvalInv, RunsInv, RunTables
<1>2. /\ row \in EvalRunRow /\ row.status = "queued" /\ row.error = evalRuns[q].error
      /\ row.lease = evalRuns[q].lease
  BY <1>1, RowQueued
<1> HIDE DEF row
<1>3. outbox[q] = "none" /\ job[q].state = "none" /\ ~evalRuns[q].lease
      /\ evalRuns[q].error = "none"
  BY <1>1 DEF RequestFits, Over
<1>4. /\ evalRuns' \in [Requests -> EvalRunRow] /\ evalRuns'[q] = row
      /\ outbox' \in [Requests -> {"none", "pending", "published"}] /\ outbox'[q] = "pending"
      /\ \A x \in Requests \ {q} : evalRuns'[x] = evalRuns[x] /\ outbox'[x] = outbox[x]
      /\ \A x \in Requests : TrialsOf(x)' = TrialsOf(x)
  BY <1>1, <1>2 DEF row, RunTables, TrialsOf
<1>5. Kept
  <2>1. SuiteStays
    BY CurationStays DEF EvalInv
  <2>2. \A x \in Requests : outbox[x] # "none" =>
           outbox'[x] # "none" /\ evalRuns'[x].release = evalRuns[x].release
    BY <1>3, <1>4
  <2> QED
    BY <2>1, <2>2 DEF Kept
<1>6. RunTables'
  BY <1>1, <1>4 DEF RunTables
<1>7. RequestFits(q)'
  <2>1. ReportFits(q)'
    BY <1>2, <1>3, <1>4, ReportWaits
  <2> QED
    BY <1>2, <1>3, <1>4, <2>1 DEF RequestFits, Over, curationVars
<1>8. \A x \in Requests \ {q} : RequestFits(x)'
  BY <1>4, <1>5, RequestsStay
<1>9. \A w \in Workers : WorkerFits(w)'
  BY <1>5, WorkerStays
<1> QED
  BY <1>6, <1>7, <1>8, <1>9 DEF RunsInv

LEMMA EnqueueRunSound ==
  ASSUME EvalInv, NEW q \in Requests, EnqueueRun(q)
  PROVE  RunsInv'
<1>1. /\ evalRuns' = [evalRuns EXCEPT ![q] = AsQueued(evalRuns[q], release)]
      /\ evalRuns[q].status = "absent" /\ outbox' = [outbox EXCEPT ![q] = "pending"]
      /\ UNCHANGED <<curationVars, release, trials, authorization, job, worker>>
      /\ Target[q] # "inline" /\ (Target[q] = "article" => suite.status # "absent")
  BY DEF EnqueueRun, Queued, AsQueued
<1>2. release \in 0 .. MaxRelease /\ authorization \in AuthorizationRow
  BY RunsAssumption DEF EvalInv, RunsInv, RunTables
<1> QED
  BY <1>1, <1>2, QueuedSound

LEMMA EnqueueCalibrationSound ==
  ASSUME EvalInv, NEW q \in Requests, EnqueueCalibration(q)
  PROVE  RunsInv'
<1>1. /\ evalRuns' = [evalRuns EXCEPT ![q] = AsQueued(evalRuns[q], authorization.release)]
      /\ evalRuns[q].status = "absent" /\ outbox' = [outbox EXCEPT ![q] = "pending"]
      /\ UNCHANGED <<curationVars, release, trials, job, worker>>
      /\ Target[q] = "calibration" /\ authorization.status = "approved"
      /\ authorization' = [authorization EXCEPT !.status = "enqueued"]
  BY DEF EnqueueCalibration, AsQueued
<1>2. authorization \in AuthorizationRow
  BY DEF EvalInv, RunsInv, RunTables
<1>3. authorization.release \in 0 .. MaxRelease /\ authorization' \in AuthorizationRow
  BY <1>1, <1>2 DEF AuthorizationRow
<1> QED
  BY <1>1, <1>3, QueuedSound

\* The command line's own run has neither event nor worker.
LEMMA InlineIsAlone ==
  ASSUME EvalInv, NEW q \in Requests, Target[q] = "inline"
  PROVE  outbox[q] = "none" /\ job[q].state = "none"
  BY DEF EvalInv, RunsInv, RequestFits

LEMMA InlineKept ==
  ASSUME EvalInv, NEW q \in Requests, Target[q] = "inline",
         \A x \in Requests \ {q} : evalRuns'[x] = evalRuns[x],
         UNCHANGED <<curationVars, authorization, outbox>>
  PROVE  Kept
<1>1. SuiteStays
  BY CurationStays DEF EvalInv
<1> QED
  BY <1>1, InlineIsAlone DEF Kept

LEMMA StartRunSound ==
  ASSUME EvalInv, NEW q \in Requests, StartRun(q)
  PROVE  RunsInv'
<1> DEFINE row == AsStarted(evalRuns[q], release)
<1>1. /\ Target[q] = "inline" /\ evalRuns[q].status = "absent"
      /\ evalRuns' = [evalRuns EXCEPT ![q] = row]
      /\ UNCHANGED <<curationVars, release, trials, authorization, outbox, job, worker>>
  BY DEF StartRun, AsStarted
<1>2. RunTables /\ RequestFits(q) /\ evalRuns[q] \in EvalRunRow /\ release \in 0 .. MaxRelease
  BY RunsAssumption DEF EvalInv, RunsInv, RunTables
<1>3. /\ row \in EvalRunRow /\ row.status = "running" /\ row.error = evalRuns[q].error
      /\ row.lease = evalRuns[q].lease /\ row.attempt = evalRuns[q].attempt
  BY <1>2, RowStarted
<1> HIDE DEF row
<1>4. evalRuns[q].error = "none" /\ ~evalRuns[q].lease /\ evalRuns[q].attempt = 0
      /\ TrialsOf(q) = {}
  BY <1>1, <1>2 DEF RequestFits, Over
<1>5. /\ evalRuns' \in [Requests -> EvalRunRow] /\ evalRuns'[q] = row
      /\ \A x \in Requests \ {q} : evalRuns'[x] = evalRuns[x]
      /\ \A x \in Requests : TrialsOf(x)' = TrialsOf(x)
  BY <1>1, <1>2, <1>3 DEF RunTables, TrialsOf
<1>6. Kept
  BY <1>1, <1>5, InlineKept
<1>7. RunTables'
  BY <1>1, <1>2, <1>5 DEF RunTables
<1>8. RequestFits(q)'
  <2>1. ReportFits(q)'
    BY <1>1, <1>3, <1>4, <1>5, ReportWaits
  <2> QED
    BY <1>1, <1>2, <1>3, <1>4, <1>5, <2>1 DEF RequestFits, Over
<1>9. \A x \in Requests \ {q} : RequestFits(x)'
  BY <1>1, <1>5, <1>6, RequestsStay
<1>10. \A w \in Workers : WorkerFits(w)'
  BY <1>1, <1>6, WorkerStays
<1> QED
  BY <1>7, <1>8, <1>9, <1>10 DEF RunsInv

LEMMA RecordTrialSound ==
  ASSUME EvalInv, NEW q \in Requests, NEW k \in Synthetic, NEW result \in Results,
         RecordTrial(q, k, result)
  PROVE  RunsInv'
<1> DEFINE t == [request |-> q, attempt |-> 0, case |-> k, result |-> result]
<1>1. /\ Target[q] = "inline" /\ evalRuns[q].status = "running"
      /\ trials' = trials \cup {t} /\ \A u \in TrialsOf(q) : u.case # k
      /\ UNCHANGED <<curationVars, release, evalRuns, authorization, outbox, job, worker>>
  BY DEF RecordTrial
<1>2. RunTables /\ RequestFits(q)
  BY DEF EvalInv, RunsInv
<1>3. t \in TrialRow /\ t.request = q /\ t.attempt = 0 /\ t.case = k
  BY DEF TrialRow, AnyCase
<1> HIDE DEF t
<1>4. /\ TrialsOf(q)' = TrialsOf(q) \cup {t}
      /\ \A x \in Requests \ {q} : TrialsOf(x)' = TrialsOf(x)
  BY <1>1, <1>3 DEF TrialsOf
<1>5. Kept
  BY <1>1, InlineKept
<1>6. RunTables'
  BY <1>1, <1>2, <1>3 DEF RunTables
<1>7. RequestFits(q)'
  <2>1. ReportFits(q)'
    BY <1>1, <1>2 DEF RequestFits, ReportFits, Over
  <2>2. /\ \A u \in TrialsOf(q)' : u.attempt = 0 /\ u.case \in Synthetic
        /\ \A u, v \in TrialsOf(q)' : u.case = v.case => u = v
    BY <1>1, <1>2, <1>3, <1>4 DEF RequestFits
  <2> QED
    BY <1>1, <1>2, <2>1, <2>2 DEF RequestFits, Over, Synthetic
<1>8. \A x \in Requests \ {q} : RequestFits(x)'
  BY <1>1, <1>4, <1>5, RequestsStay
<1>9. \A w \in Workers : WorkerFits(w)'
  BY <1>1, <1>5, WorkerStays
<1> QED
  BY <1>6, <1>7, <1>8, <1>9 DEF RunsInv

LEMMA SyntheticIsCounted ==
  IsFiniteSet(Synthetic) /\ Cardinality(Synthetic) = CaseCount
<1> DEFINE case(n) == [candidate |-> None, content |-> n]
           f == [n \in 1 .. CaseCount |-> case(n)]
<1>1. CaseCount \in Nat
  BY RunsAssumption
<1>2. IsFiniteSet(1 .. CaseCount) /\ Cardinality(1 .. CaseCount) = CaseCount
  BY <1>1, FS_Interval
<1>3. \A m, n \in 1 .. CaseCount : case(m) = case(n) => m = n
  <2> SUFFICES ASSUME NEW m \in 1 .. CaseCount, NEW n \in 1 .. CaseCount, case(m) = case(n)
               PROVE  m = n
    OBVIOUS
  <2>1. case(m).content = m /\ case(n).content = n
    OBVIOUS
  <2> QED
    BY <2>1
<1>4. f \in Surjection(1 .. CaseCount, Synthetic)
  BY DEF Surjection, Synthetic
<1>5. f \in Injection(1 .. CaseCount, Synthetic)
  <2> HIDE DEF case
  <2>1. \A a, b \in 1 .. CaseCount : f[a] = f[b] => a = b
    BY <1>3
  <2>2. f \in [1 .. CaseCount -> Synthetic]
    BY <1>4 DEF Surjection
  <2> HIDE DEF f
  <2> QED
    BY <2>1, <2>2 DEF Injection, IsInjective
<1> HIDE DEF f
<1> QED
  BY <1>2, <1>4, <1>5, FS_Surjection

\* As many trials as cases, each of another case: every case has its trial.
LEMMA FinishInlineRunSound ==
  ASSUME EvalInv, NEW q \in Requests, FinishInlineRun(q)
  PROVE  RunsInv'
<1> DEFINE mine == TrialsOf(q)
           row == Concluded(evalRuns[q], mine)
<1>1. /\ Target[q] = "inline" /\ evalRuns[q].status = "running"
      /\ Cardinality(mine) = CaseCount
      /\ evalRuns' = [evalRuns EXCEPT ![q] = row]
      /\ UNCHANGED <<curationVars, release, trials, authorization, outbox, job, worker>>
  BY DEF FinishInlineRun
<1>2. RunTables /\ RequestFits(q) /\ evalRuns[q] \in EvalRunRow
  BY DEF EvalInv, RunsInv, RunTables
<1>3. /\ row \in EvalRunRow
      /\ IF \E t \in mine : t.result = "error"
         THEN row.status = "failed" /\ row.error = "report"
         ELSE row.status = "completed" /\ row.error = "none"
      /\ ~row.lease /\ row.attempt = evalRuns[q].attempt
  BY <1>2, RowConcluded
<1>4. /\ \A t \in mine : t.attempt = 0 /\ t.case \in Synthetic /\ t.result \in Results
      /\ \A t, u \in mine : t.case = u.case => t = u
      /\ evalRuns[q].attempt = 0
  BY <1>1, <1>2 DEF RequestFits, RunTables, TrialRow, TrialsOf
<1>5. {t.case : t \in mine} = Synthetic /\ Cardinality(mine) = Cardinality({t.case : t \in mine})
  <2> DEFINE f == [t \in mine |-> t.case]
  <2> HIDE DEF mine
  <2>1. f \in Injection(mine, Synthetic)
    BY <1>4 DEF Injection, IsInjective
  <2>2. f \in Surjection(mine, Synthetic)
    <3> HIDE DEF f
    <3> QED
      BY <1>1, <2>1, SyntheticIsCounted, FS_Injection
  <2>3. {t.case : t \in mine} = Synthetic
    BY <1>4, <2>2 DEF Surjection
  <2> QED
    BY <1>1, <2>3, SyntheticIsCounted
<1>6. /\ evalRuns' \in [Requests -> EvalRunRow] /\ evalRuns'[q] = row
      /\ \A x \in Requests \ {q} : evalRuns'[x] = evalRuns[x]
      /\ \A x \in Requests : TrialsOf(x)' = TrialsOf(x)
  <2> HIDE DEF row
  <2> QED
    BY <1>1, <1>2, <1>3 DEF RunTables, TrialsOf
<1> HIDE DEF row, mine
<1>7. Kept
  BY <1>1, <1>6, InlineKept
<1>8. RunTables'
  BY <1>1, <1>2, <1>6 DEF RunTables
<1>9. ReportFits(q)'
  <2>1. TrialsOf(q)' = mine /\ CasesAsked(q)' = Synthetic
    BY <1>1, <1>6 DEF mine, CasesAsked, Synthetic
  <2>2. row.status = "completed" <=> \A t \in mine : t.result = "ok"
    BY <1>3, <1>4 DEF Results
  <2>3. row.status = "completed" \/ row.error = "report"
    BY <1>3
  <2> QED
    BY <1>3, <1>4, <1>5, <1>6, <2>1, <2>2, <2>3 DEF ReportFits
<1>10. RequestFits(q)'
  <2>1. TrialsOf(q)' = mine /\ Synthetic' = Synthetic
    BY <1>6 DEF mine, Synthetic
  <2>2. row.status \in {"completed", "failed"}
    BY <1>3
  <2>3. outbox'[q] = "none" /\ job'[q].state = "none"
    BY <1>1, InlineIsAlone
  <2> QED
    BY <1>1, <1>3, <1>4, <1>6, <1>9, <2>1, <2>2, <2>3 DEF RequestFits, Over
<1>11. \A x \in Requests \ {q} : RequestFits(x)'
  BY <1>1, <1>6, <1>7, RequestsStay
<1>12. \A w \in Workers : WorkerFits(w)'
  BY <1>1, <1>7, WorkerStays
<1> QED
  BY <1>8, <1>10, <1>11, <1>12 DEF RunsInv

-----------------------------------------------------------------------------
(* Delivery                                                                *)

\* A step of the queue and the workers that touches no row.
LEMMA QueueStep ==
  ASSUME EvalInv, UNCHANGED <<curationVars, release, evalRuns, trials, authorization, outbox>>,
         job' \in [Requests -> JobRow], \A q \in Requests : JobFollows(q)',
         worker' \in [Workers -> WorkerRow], \A w \in Workers : WorkerFits(w)'
  PROVE  RunsInv'
<1>1. Kept
  BY NotEnqueuedKept
<1>2. RunTables'
  BY DEF EvalInv, RunsInv, RunTables
<1>3. ASSUME NEW q \in Requests PROVE RequestFits(q)'
  <2>1. TrialsOf(q)' = TrialsOf(q)
    BY DEF TrialsOf
  <2> QED
    BY <1>1, <2>1, RequestStays
<1> QED
  BY <1>2, <1>3 DEF RunsInv

LEMMA JobsFollow ==
  ASSUME EvalInv, NEW q \in Requests
  PROVE  JobFollows(q)
  BY DEF EvalInv, RunsInv, RequestFits, JobFollows, Over

\* The worker of a delivery has a request with an event.
LEMMA DeliveredRequest ==
  ASSUME EvalInv, NEW w \in Workers, worker[w].stage # "idle"
  PROVE  /\ worker[w].request \in Requests /\ outbox[worker[w].request] # "none"
         /\ Target[worker[w].request] # "inline"
         /\ evalRuns[worker[w].request].status # "absent"
         /\ RequestFits(worker[w].request)
         /\ evalRuns[worker[w].request] \in EvalRunRow
  BY DEF EvalInv, RunsInv, RunTables, WorkerFits, RequestFits

\* What a worker's return makes of its job and of itself.
LEMMA Returned ==
  ASSUME EvalInv, NEW w \in Workers, worker[w].stage # "idle", NEW end, Return(w, end)
  PROVE  /\ job' \in [Requests -> JobRow]
         /\ \A q \in Requests : job'[q].state # job[q].state =>
               /\ q = worker[w].request
               /\ IF end = "done" THEN job'[q].state = "done"
                  ELSE job'[q].state \in {"waiting", "failed"}
         /\ worker' \in [Workers -> WorkerRow] /\ worker'[w] = Idle
         /\ \A v \in Workers \ {w} : worker'[v] = worker[v]
<1> DEFINE q == worker[w].request
           row == Ended(job[q], end)
<1>1. job \in [Requests -> JobRow] /\ worker \in [Workers -> WorkerRow] /\ q \in Requests
  BY DeliveredRequest DEF EvalInv, RunsInv, RunTables
<1>2. worker' = [worker EXCEPT ![w] = Idle]
      /\ job' = IF job[q].holder = w THEN [job EXCEPT ![q] = row] ELSE job
  BY DEF Return
<1>3. /\ row \in JobRow
      /\ IF end = "done" THEN row.state = "done" ELSE row.state \in {"waiting", "failed"}
  BY <1>1, JobEnded
<1> HIDE DEF row, q
<1>4. worker' \in [Workers -> WorkerRow] /\ worker'[w] = Idle
      /\ \A v \in Workers \ {w} : worker'[v] = worker[v]
  BY <1>1, <1>2, IdleFits
<1>5. job' \in [Requests -> JobRow]
  BY <1>1, <1>2, <1>3
<1>6. \A x \in Requests : job'[x].state # job[x].state =>
         x = q /\ job'[x].state = row.state
  BY <1>1, <1>2
<1> QED
  BY <1>3, <1>4, <1>5, <1>6 DEF q

\* A delivery that ends without a verdict is tried again or given up.
LEMMA RetrySound ==
  ASSUME EvalInv, NEW w \in Workers, worker[w].stage # "idle", Return(w, "retry"),
         UNCHANGED <<curationVars, release, evalRuns, trials, authorization, outbox>>
  PROVE  RunsInv'
<1>1. /\ job' \in [Requests -> JobRow]
      /\ \A q \in Requests : job'[q].state # job[q].state =>
            q = worker[w].request /\ job'[q].state \in {"waiting", "failed"}
      /\ worker' \in [Workers -> WorkerRow] /\ worker'[w] = Idle
      /\ \A v \in Workers \ {w} : worker'[v] = worker[v]
  BY Returned
<1>2. ASSUME NEW q \in Requests PROVE JobFollows(q)'
  <2>1. CASE job'[q].state = job[q].state
    BY <2>1, JobsFollow DEF JobFollows, Over
  <2>2. CASE job'[q].state # job[q].state
    BY <1>1, <2>2, DeliveredRequest DEF JobFollows
  <2> QED
    BY <2>1, <2>2
<1>3. Kept
  BY NotEnqueuedKept
<1>4. \A v \in Workers : WorkerFits(v)'
  <2>1. WorkerFits(w)'
    BY <1>1, IdleStays
  <2>2. \A v \in Workers \ {w} : WorkerFits(v)'
    BY <1>1, <1>3, WorkersStay
  <2> QED
    BY <2>1, <2>2
<1> QED
  BY <1>1, <1>2, <1>4, QueueStep

\* A step that is private to a worker.
LEMMA WorkerStep ==
  ASSUME EvalInv, NEW w \in Workers, NEW me \in WorkerRow, worker' = [worker EXCEPT ![w] = me],
         UNCHANGED <<curationVars, release, evalRuns, trials, authorization, outbox, job>>,
         WorkerFits(w)'
  PROVE  RunsInv'
<1>1. worker' \in [Workers -> WorkerRow] /\ \A v \in Workers \ {w} : worker'[v] = worker[v]
  BY DEF EvalInv, RunsInv, RunTables
<1>2. Kept
  BY NotEnqueuedKept
<1>3. \A v \in Workers \ {w} : WorkerFits(v)'
  BY <1>1, <1>2, WorkersStay
<1>4. \A q \in Requests : JobFollows(q)'
  BY JobsFollow DEF JobFollows, Over
<1>5. job' \in [Requests -> JobRow] /\ \A v \in Workers : WorkerFits(v)'
  BY <1>3 DEF EvalInv, RunsInv, RunTables
<1> QED
  BY <1>1, <1>4, <1>5, QueueStep

LEMMA DispatchSound ==
  ASSUME EvalInv, NEW q \in Requests, Dispatch(q)
  PROVE  RunsInv'
<1> DEFINE state == IF job[q].state = "none" THEN "waiting" ELSE job[q].state
           row == [job[q] EXCEPT !.state = state]
<1>1. /\ outbox[q] = "pending" /\ job' = [job EXCEPT ![q] = row]
      /\ outbox' = [outbox EXCEPT ![q] = "published"] \/ outbox' = outbox
      /\ UNCHANGED <<curationVars, release, evalRuns, trials, authorization, worker>>
  BY DEF Dispatch
<1>2. RunTables /\ job[q] \in JobRow
  BY DEF EvalInv, RunsInv, RunTables
<1>3. row \in JobRow /\ row.state = IF job[q].state = "none" THEN "waiting" ELSE job[q].state
  <2>1. state \in {"none", "waiting", "active", "done", "failed"}
    BY <1>2 DEF JobRow
  <2> HIDE DEF state
  <2>2. row \in JobRow
    BY <1>2, <2>1 DEF JobRow
  <2>3. row.state = state
    BY <1>2, JobFields
  <2> QED
    BY <2>2, <2>3 DEF state
<1> HIDE DEF row
<1>4. /\ job' \in [Requests -> JobRow] /\ job'[q] = row
      /\ \A x \in Requests \ {q} : job'[x] = job[x] /\ outbox'[x] = outbox[x]
      /\ outbox' \in [Requests -> {"none", "pending", "published"}] /\ outbox'[q] # "none"
  BY <1>1, <1>2, <1>3 DEF RunTables
<1>5. \A x \in Requests : TrialsOf(x)' = TrialsOf(x)
  BY <1>1 DEF TrialsOf
<1>6. Kept
  <2>1. SuiteStays
    BY <1>1, CurationStays DEF EvalInv
  <2>2. \A x \in Requests : outbox[x] # "none" => outbox'[x] # "none"
    BY <1>4
  <2> QED
    BY <1>1, <2>1, <2>2 DEF Kept
<1>7. RequestFits(q)'
  <2>1. JobFollows(q)'
    BY <1>1, <1>3, <1>4, JobsFollow DEF JobFollows, Over
  <2> QED
    BY <1>1, <1>5, <1>6, <2>1, RequestStays
<1>8. \A x \in Requests \ {q} : RequestFits(x)'
  BY <1>1, <1>4, <1>5, <1>6, RequestsStay
<1>9. \A w \in Workers : WorkerFits(w)'
  BY <1>1, <1>6, WorkerStays
<1>10. RunTables'
  BY <1>1, <1>2, <1>4 DEF RunTables
<1> QED
  BY <1>7, <1>8, <1>9, <1>10 DEF RunsInv

\* Only one job changes, and not to done unless its run is over.
LEMMA JobStep ==
  ASSUME EvalInv, NEW q \in Requests, NEW row \in JobRow, job' = [job EXCEPT ![q] = row],
         outbox[q] # "none", row.state = "done" => Over(evalRuns[q]),
         UNCHANGED <<curationVars, release, evalRuns, trials, authorization, outbox>>,
         worker' \in [Workers -> WorkerRow], \A w \in Workers : WorkerFits(w)'
  PROVE  RunsInv'
<1>1. job' \in [Requests -> JobRow] /\ job'[q] = row
      /\ \A x \in Requests \ {q} : job'[x] = job[x]
  BY DEF EvalInv, RunsInv, RunTables
<1>2. ASSUME NEW x \in Requests PROVE JobFollows(x)'
  BY <1>1, JobsFollow DEF JobFollows, Over
<1> QED
  BY <1>1, <1>2, QueueStep

LEMMA StallSound ==
  ASSUME EvalInv, NEW q \in Requests, Stall(q)
  PROVE  RunsInv'
<1>1. /\ job[q].state = "active" /\ job' = [job EXCEPT ![q] = Stalled(job[q])]
      /\ UNCHANGED <<curationVars, release, evalRuns, trials, authorization, outbox, worker>>
  BY DEF Stall
<1>2. job[q] \in JobRow /\ worker \in [Workers -> WorkerRow] /\ outbox[q] # "none"
  BY <1>1, JobsFollow DEF EvalInv, RunsInv, RunTables, JobFollows
<1>3. Stalled(job[q]) \in JobRow /\ Stalled(job[q]).state # "done"
  BY <1>2, JobStalled
<1>4. \A w \in Workers : WorkerFits(w)'
  <2>1. Kept
    BY <1>1, NotEnqueuedKept
  <2> QED
    BY <1>1, <2>1, WorkerStays
<1> QED
  BY <1>1, <1>2, <1>3, <1>4, JobStep

LEMMA CrashSound ==
  ASSUME EvalInv, NEW w \in Workers, Crash(w)
  PROVE  RunsInv'
<1> DEFINE q == worker[w].request
           row == IF job[q].holder = w THEN Stalled(job[q]) ELSE job[q]
<1>1. /\ worker[w].stage # "idle" /\ worker' = [worker EXCEPT ![w] = Idle]
      /\ job' = [job EXCEPT ![q] = row]
      /\ UNCHANGED <<curationVars, release, evalRuns, trials, authorization, outbox>>
  BY DEF Crash
<1>2. /\ q \in Requests /\ outbox[q] # "none" /\ job[q] \in JobRow
      /\ worker \in [Workers -> WorkerRow]
  BY <1>1, DeliveredRequest DEF EvalInv, RunsInv, RunTables
<1>3. row \in JobRow /\ (row.state = "done" => Over(evalRuns[q]))
  <2>1. Stalled(job[q]) \in JobRow /\ Stalled(job[q]).state # "done"
    BY <1>2, JobStalled
  <2> QED
    BY <1>2, <2>1, JobsFollow DEF JobFollows
<1>4. worker' \in [Workers -> WorkerRow] /\ worker'[w] = Idle
      /\ \A v \in Workers \ {w} : worker'[v] = worker[v]
  BY <1>1, <1>2, IdleFits
<1> HIDE DEF row, q
<1>5. \A v \in Workers : WorkerFits(v)'
  <2>1. Kept
    BY <1>1, NotEnqueuedKept
  <2>2. \A v \in Workers \ {w} : WorkerFits(v)'
    BY <1>4, <2>1, WorkersStay
  <2> QED
    BY <1>4, <2>2, IdleStays
<1> QED
  BY <1>1, <1>2, <1>3, <1>4, <1>5, JobStep

-----------------------------------------------------------------------------
(* Claim and lease                                                         *)

\* A row moves that is neither concluded nor about to be, and keeps its release.
LEMMA RowMoves ==
  ASSUME EvalInv, NEW q \in Requests, NEW row \in EvalRunRow,
         evalRuns' = [evalRuns EXCEPT ![q] = row],
         evalRuns[q].status \in {"queued", "running"}, Target[q] # "inline",
         row.release = evalRuns[q].release,
         row.lease => row.status = "running",
         \/ row.status = "running" /\ row.error = "none"
         \/ row.status = "failed" /\ row.error = "executor",
         UNCHANGED <<curationVars, release, trials, authorization, outbox>>,
         job' \in [Requests -> JobRow], \A x \in Requests : JobFollows(x)',
         worker' \in [Workers -> WorkerRow]
  PROVE  /\ Kept /\ RunTables' /\ \A x \in Requests : RequestFits(x)'
<1>1. RunTables /\ RequestFits(q)
  BY DEF EvalInv, RunsInv
<1>2. /\ evalRuns' \in [Requests -> EvalRunRow] /\ evalRuns'[q] = row
      /\ \A x \in Requests \ {q} : evalRuns'[x] = evalRuns[x]
      /\ \A x \in Requests : TrialsOf(x)' = TrialsOf(x)
  BY <1>1 DEF RunTables, TrialsOf
<1>3. Kept
  <2>1. \A x \in Requests : evalRuns'[x].release = evalRuns[x].release
    BY <1>2
  <2> QED
    BY <2>1, NotEnqueuedKept
<1>4. RunTables'
  BY <1>1, <1>2 DEF RunTables
<1>5. evalRuns[q].error = "none" /\ evalRuns[q].status # "completed"
  BY <1>1 DEF RequestFits, Over
<1>6. ReportFits(q)'
  BY <1>2, <1>5, ReportWaits
<1>7. RequestFits(q)'
  BY <1>1, <1>2, <1>6 DEF RequestFits, JobFollows, Over, curationVars
<1>8. ASSUME NEW x \in Requests \ {q} PROVE RequestFits(x)'
  BY <1>2, <1>3, RequestStays
<1> QED
  BY <1>3, <1>4, <1>7, <1>8

Delivered(q, token, r) ==
    [Idle EXCEPT !.stage = "context", !.request = q, !.token = token, !.release = r]
NewDelivery(me, q) ==
    /\ me \in WorkerRow /\ me.stage = "context" /\ me.request = q
    /\ me.calls = 0 /\ me.left = {} /\ me.report = {} /\ me.bill = 0 /\ me.cost = 0
    /\ me.uncertain = FALSE

LEMMA DeliveredFits ==
  ASSUME NEW q \in Requests, NEW token \in Nat, NEW r \in 0 .. MaxRelease
  PROVE  NewDelivery(Delivered(q, token, r), q)
  BY DEF Delivered, Idle, WorkerRow, NewDelivery

LEMMA ClaimSound ==
  ASSUME EvalInv, NEW w \in Workers, NEW q \in Requests, Claim(w, q)
  PROVE  RunsInv'
<1> DEFINE row == Taken(evalRuns[q])
           busy == [job[q] EXCEPT !.state = "active", !.holder = w]
           me == Delivered(q, evalRuns[q].attempt + 1, release)
<1>1. /\ job[q].state = "waiting" /\ Claimable(evalRuns[q])
      /\ job' = [job EXCEPT ![q] = busy] /\ evalRuns' = [evalRuns EXCEPT ![q] = row]
      /\ worker' = [worker EXCEPT ![w] = me]
      /\ UNCHANGED <<curationVars, release, trials, authorization, outbox>>
  BY DEF Claim, Delivered
<1>2. /\ RunTables /\ evalRuns[q] \in EvalRunRow /\ job[q] \in JobRow
      /\ release \in 0 .. MaxRelease /\ evalRuns[q].attempt + 1 \in Nat
  BY RunsAssumption DEF EvalInv, RunsInv, RunTables, EvalRunRow
<1>3. outbox[q] # "none" /\ Target[q] # "inline"
  BY <1>1, JobsFollow DEF JobFollows, EvalInv, RunsInv, RequestFits
<1>4. /\ row \in EvalRunRow /\ row.status = "running" /\ row.error = "none"
      /\ row.release = evalRuns[q].release
  BY <1>2, RowTaken
<1>5. busy \in JobRow /\ busy.state = "active"
  BY <1>2 DEF JobRow
<1>6. /\ me \in WorkerRow /\ me.stage = "context" /\ me.request = q
      /\ me.calls = 0 /\ me.left = {} /\ me.report = {} /\ me.bill = 0 /\ me.cost = 0
      /\ me.uncertain = FALSE
  <2>1. NewDelivery(me, q)
    BY <1>2, DeliveredFits
  <2> HIDE DEF me
  <2> QED
    BY <2>1 DEF NewDelivery
<1> HIDE DEF row, busy, me
<1>7. /\ job' \in [Requests -> JobRow] /\ job'[q] = busy
      /\ worker' \in [Workers -> WorkerRow] /\ worker'[w] = me
      /\ \A v \in Workers \ {w} : worker'[v] = worker[v]
      /\ \A x \in Requests \ {q} : job'[x] = job[x] /\ evalRuns'[x] = evalRuns[x]
  BY <1>1, <1>2, <1>5, <1>6 DEF RunTables
<1>8. ASSUME NEW x \in Requests PROVE JobFollows(x)'
  <2>1. CASE x = q
    BY <1>1, <1>3, <1>5, <1>7, <2>1 DEF JobFollows
  <2>2. CASE x # q
    BY <1>1, <1>7, <2>2, JobsFollow DEF JobFollows, Over
  <2> QED
    BY <2>1, <2>2
<1>9. Kept /\ RunTables' /\ \A x \in Requests : RequestFits(x)'
  <2>1. evalRuns[q].status \in {"queued", "running"}
    BY <1>1 DEF Claimable
  <2> QED
    BY <1>1, <1>3, <1>4, <1>7, <1>8, <2>1, RowMoves
<1>10. WorkerFits(w)'
  <2>1. MaxCalls \in Nat /\ MaxCost \in Nat
    BY RunsAssumption
  <2> QED
    BY <1>1, <1>3, <1>6, <1>7, <2>1 DEF WorkerFits, ReportOnce, BudgetFits
<1>11. \A v \in Workers \ {w} : WorkerFits(v)'
  BY <1>7, <1>9, WorkersStay
<1> QED
  BY <1>9, <1>10, <1>11 DEF RunsInv

LEMMA ClaimNothingSound ==
  ASSUME EvalInv, NEW w \in Workers, NEW q \in Requests, ClaimNothing(w, q)
  PROVE  RunsInv'
<1> DEFINE end == IF evalRuns[q].status = "running" THEN "retry" ELSE "done"
           row == Ended(job[q], end)
<1>1. /\ job[q].state = "waiting" /\ ~Claimable(evalRuns[q])
      /\ job' = [job EXCEPT ![q] = row]
      /\ UNCHANGED <<curationVars, release, evalRuns, trials, authorization, outbox, worker>>
  BY DEF ClaimNothing
<1>2. /\ job[q] \in JobRow /\ evalRuns[q] \in EvalRunRow /\ worker \in [Workers -> WorkerRow]
      /\ outbox[q] # "none" /\ evalRuns[q].status # "absent"
  BY <1>1, JobsFollow DEF EvalInv, RunsInv, RunTables, JobFollows, RequestFits
<1>3. /\ row \in JobRow
      /\ IF end = "done" THEN row.state = "done" ELSE row.state \in {"waiting", "failed"}
  BY <1>2, JobEnded
<1>4. row.state = "done" => Over(evalRuns[q])
  <2>1. row.state = "done" => evalRuns[q].status # "running"
    BY <1>3
  <2>2. evalRuns[q].status \in Statuses
    BY <1>2 DEF EvalRunRow
  <2> QED
    BY <1>1, <1>2, <2>1, <2>2 DEF Claimable, Over, Statuses
<1> HIDE DEF row
<1>5. \A v \in Workers : WorkerFits(v)'
  <2>1. Kept
    BY <1>1, NotEnqueuedKept
  <2> QED
    BY <1>1, <2>1, WorkerStays
<1> QED
  BY <1>1, <1>2, <1>3, <1>4, <1>5, JobStep

LEMMA LapseLeaseSound ==
  ASSUME EvalInv, NEW q \in Requests, LapseLease(q)
  PROVE  RunsInv'
<1> DEFINE row == Unleased(evalRuns[q])
<1>1. /\ evalRuns[q].lease /\ evalRuns' = [evalRuns EXCEPT ![q] = row]
      /\ UNCHANGED <<curationVars, release, trials, authorization, outbox, job, worker>>
  BY DEF LapseLease, Unleased
<1>2. RunTables /\ RequestFits(q) /\ evalRuns[q] \in EvalRunRow
  BY DEF EvalInv, RunsInv, RunTables
<1>3. evalRuns[q].status = "running" /\ evalRuns[q].error = "none" /\ Target[q] # "inline"
  BY <1>1, <1>2 DEF RequestFits, Over
<1>4. /\ row \in EvalRunRow /\ ~row.lease /\ row.status = "running" /\ row.error = "none"
      /\ row.release = evalRuns[q].release
  BY <1>2, <1>3, RowUnleased
<1> HIDE DEF row
<1>5. \A x \in Requests : evalRuns'[x].status = evalRuns[x].status
  BY <1>1, <1>2, <1>3, <1>4 DEF RunTables
<1>6. \A x \in Requests : JobFollows(x)'
  BY <1>1, <1>5, JobsFollow DEF JobFollows, Over
<1>7. Kept /\ RunTables' /\ \A x \in Requests : RequestFits(x)'
  BY <1>1, <1>2, <1>3, <1>4, <1>6, RowMoves DEF RunTables
<1>8. \A v \in Workers : WorkerFits(v)'
  BY <1>1, <1>7, WorkerStays
<1> QED
  BY <1>7, <1>8 DEF RunsInv

-----------------------------------------------------------------------------
(* The execution                                                           *)

LEMMA WorkerFields ==
  ASSUME NEW me \in WorkerRow
  PROVE  DOMAIN me = {"stage", "request", "token", "release", "left", "report", "calls",
                      "cost", "bill", "uncertain", "halted", "aborted"}
  BY DEF WorkerRow

\* The fields of a worker that a change of its stage, or of its abort, leaves alone.
SameWork(m, me) ==
    /\ me.request = m.request /\ me.release = m.release
    /\ me.report = m.report /\ me.calls = m.calls /\ me.cost = m.cost /\ me.bill = m.bill
    /\ me.uncertain = m.uncertain /\ me.halted = m.halted

LEMMA SameWorkFits ==
  ASSUME NEW m, NEW me, SameWork(m, me), BudgetFits(m)
  PROVE  BudgetFits(me)
  BY DEF SameWork, BudgetFits

LEMMA SameWorkCalls ==
  ASSUME NEW m, NEW me, SameWork(m, me), OneForeignCall(m)
  PROVE  OneForeignCall(me)
  BY DEF SameWork, OneForeignCall, ApprovedModel

AtStage(m, stage) == [m EXCEPT !.stage = stage]
Aborted(m) == [m EXCEPT !.aborted = TRUE]
Loaded(m, left) == [m EXCEPT !.stage = "execute", !.left = left]

LEMMA StageFits ==
  ASSUME NEW m \in WorkerRow, NEW stage \in {"idle", "context", "execute", "fail", "commit"}
  PROVE  /\ AtStage(m, stage) \in WorkerRow /\ AtStage(m, stage).stage = stage
         /\ AtStage(m, stage).left = m.left /\ SameWork(m, AtStage(m, stage))
<1>1. AtStage(m, stage) \in WorkerRow
  BY DEF WorkerRow, AtStage
<1>2. /\ AtStage(m, stage).stage = stage
      /\ AtStage(m, stage).left = m.left /\ SameWork(m, AtStage(m, stage))
  BY WorkerFields DEF AtStage, SameWork
<1> QED
  BY <1>1, <1>2

LEMMA AbortFits ==
  ASSUME NEW m \in WorkerRow
  PROVE  /\ Aborted(m) \in WorkerRow /\ Aborted(m).stage = m.stage
         /\ Aborted(m).left = m.left /\ SameWork(m, Aborted(m))
<1>1. Aborted(m) \in WorkerRow
  BY DEF WorkerRow, Aborted
<1>2. Aborted(m).stage = m.stage /\ Aborted(m).left = m.left /\ SameWork(m, Aborted(m))
  BY WorkerFields DEF Aborted, SameWork
<1> QED
  BY <1>1, <1>2

LEMMA LoadFits ==
  ASSUME NEW m \in WorkerRow, NEW left \in SUBSET AnyCase
  PROVE  /\ Loaded(m, left) \in WorkerRow /\ Loaded(m, left).stage = "execute"
         /\ Loaded(m, left).left = left /\ SameWork(m, Loaded(m, left))
<1>1. Loaded(m, left) \in WorkerRow
  BY DEF WorkerRow, Loaded
<1>2. /\ Loaded(m, left).stage = "execute"
      /\ Loaded(m, left).left = left /\ SameWork(m, Loaded(m, left))
  BY WorkerFields DEF Loaded, SameWork
<1> QED
  BY <1>1, <1>2

LEMMA WorkerIs ==
  ASSUME EvalInv, NEW w \in Workers
  PROVE  /\ worker[w] \in WorkerRow /\ WorkerFits(w)
         /\ ReportOnce(worker[w]) /\ BudgetFits(worker[w])
  BY DEF EvalInv, RunsInv, RunTables, WorkerFits

LEMMA HeartbeatSound ==
  ASSUME EvalInv, NEW w \in Workers, HeartbeatFindsLoss(w)
  PROVE  RunsInv'
<1> DEFINE me == Aborted(worker[w])
<1>1. /\ worker[w].stage \in {"context", "execute"} /\ worker' = [worker EXCEPT ![w] = me]
      /\ UNCHANGED <<curationVars, release, evalRuns, trials, authorization, outbox, job>>
  BY DEF HeartbeatFindsLoss, Aborted
<1>2. /\ me \in WorkerRow /\ me.stage = worker[w].stage
      /\ me.left = worker[w].left /\ SameWork(worker[w], me)
  BY WorkerIs, AbortFits
<1>3. worker \in [Workers -> WorkerRow]
  BY DEF EvalInv, RunsInv, RunTables
<1> HIDE DEF me
<1>4. worker'[w] = me
  BY <1>1, <1>3
<1>5. BudgetFits(me) /\ ReportOnce(me)
  BY <1>2, WorkerIs, SameWorkFits DEF SameWork, ReportOnce
<1>6. Kept
  BY <1>1, NotEnqueuedKept
<1>7. WorkerFits(w)'
  <2>1. me.stage \in {"execute", "commit"} => OneForeignCall(me)
    BY <1>2, WorkerIs, SameWorkCalls DEF WorkerFits
  <2> QED
    BY <1>1, <1>2, <1>4, <1>5, <1>6, <2>1, WorkerIs, ExecutionStays DEF WorkerFits, SameWork
<1> QED
  BY <1>1, <1>2, <1>7, WorkerStep

\* What the suite holds is what it was made of.
LEMMA CasesAreCases ==
  ASSUME EvalInv
  PROVE  suite.cases \subseteq suite.dataset /\ suite.dataset \subseteq CaseRow
  BY DEF EvalInv, CurationInv, CurationTables, SuiteFits, SuiteRow

LEMMA LoadContextSound ==
  ASSUME EvalInv, NEW w \in Workers, LoadContext(w)
  PROVE  RunsInv'
<1> DEFINE q == worker[w].request
           left == Cases(q)
<1>1. /\ worker[w].stage = "context"
      /\ UNCHANGED <<curationVars, release, evalRuns, trials, authorization, outbox>>
  BY DEF LoadContext
<1>2. worker[w] \in WorkerRow /\ WorkerFits(w) /\ ReportOnce(worker[w]) /\ BudgetFits(worker[w])
      /\ worker \in [Workers -> WorkerRow]
  BY WorkerIs DEF EvalInv, RunsInv, RunTables
<1>3. worker[w].calls = 0 /\ worker[w].left = {} /\ worker[w].report = {}
  BY <1>1, <1>2 DEF WorkerFits
<1>4. Kept
  BY <1>1, NotEnqueuedKept
<1>5. CASE ~Holds(w)
  <2>1. Return(w, "retry")
    BY <1>5 DEF LoadContext
  <2> QED
    BY <1>1, <2>1, RetrySound
<1>6. CASE Holds(w) /\ Valid(q) /\ Executable(w)
  <2> DEFINE me == Loaded(worker[w], left)
  <2>1. worker' = [worker EXCEPT ![w] = me] /\ job' = job
    BY <1>6 DEF LoadContext, Loaded
  <2>2. left \in SUBSET AnyCase /\ left \subseteq Synthetic \cup suite.dataset
    BY CasesAreCases DEF Cases, AnyCase
  <2>3. /\ me \in WorkerRow /\ me.stage = "execute" /\ me.left = left /\ SameWork(worker[w], me)
    BY <1>2, <2>2, LoadFits
  <2> HIDE DEF me, left
  <2>4. worker'[w] = me
    BY <1>2, <2>1
  <2>5. BudgetFits(me) /\ ReportOnce(me)
    BY <1>2, <1>3, <2>3, SameWorkFits DEF SameWork, ReportOnce
  <2>6. q \in Requests /\ outbox'[q] # "none"
    BY <1>1, DeliveredRequest
  <2>7. Executable(w)'
    BY <1>1, <1>6, <2>3, <2>4 DEF Executable, SameExecution, SamePlan, SameWork
  <2>8. WorkerFits(w)'
    <3>1. worker'[w].left \subseteq Synthetic' \cup suite'.dataset
      BY <1>1, <2>2, <2>3, <2>4 DEF curationVars, Synthetic
    <3>2. ReportOnce(worker'[w]) /\ BudgetFits(worker'[w]) /\ worker'[w].stage = "execute"
          /\ worker'[w].request = q /\ worker'[w].calls = 0
      BY <1>3, <2>3, <2>4, <2>5 DEF SameWork
    <3> HIDE DEF q
    <3> QED
      BY <2>6, <2>7, <3>1, <3>2 DEF WorkerFits, OneForeignCall, ReportOnce, BudgetFits, Excess
  <2> QED
    BY <1>1, <2>1, <2>3, <2>8, WorkerStep
<1>7. CASE Holds(w) /\ ~(Valid(q) /\ Executable(w))
  <2> DEFINE me == AtStage(worker[w], "fail")
  <2>1. worker' = [worker EXCEPT ![w] = me] /\ job' = job
    BY <1>7 DEF LoadContext, AtStage
  <2>2. /\ me \in WorkerRow /\ me.stage = "fail" /\ me.left = worker[w].left
        /\ SameWork(worker[w], me)
    BY <1>2, StageFits
  <2> HIDE DEF me
  <2>3. worker'[w] = me
    BY <1>2, <2>1
  <2>4. BudgetFits(me) /\ ReportOnce(me)
    BY <1>2, <1>3, <2>2, SameWorkFits DEF SameWork, ReportOnce
  <2>5. WorkerFits(w)'
    BY <1>1, <1>3, <1>4, <2>2, <2>3, <2>4, ExecutionStays DEF SameWork
  <2> QED
    BY <1>1, <2>1, <2>2, <2>5, WorkerStep
<1> QED
  BY <1>5, <1>6, <1>7

-----------------------------------------------------------------------------
(* One trial                                                               *)

\* Nothing of the execution but its budget is touched.
SameCases(m, n) ==
    /\ n.stage = m.stage /\ n.request = m.request /\ n.release = m.release
    /\ n.left = m.left /\ n.report = m.report

\* What a trial of case k may make of execution m.
TrialOutcome(m, me, k) ==
    /\ me \in WorkerRow /\ me.stage = m.stage /\ me.request = m.request
    /\ me.release = m.release /\ me.left = m.left \ {k}
    /\ ReportOnce(me) /\ BudgetFits(me)

LEMMA RecordedFits ==
  ASSUME NEW m \in WorkerRow, NEW n \in WorkerRow, SameCases(m, n), NEW k \in m.left,
         NEW result \in Results, ReportOnce(m), BudgetFits(n)
  PROVE  TrialOutcome(m, Recorded(n, k, result), k)
<1> DEFINE entry == [case |-> k, result |-> result]
           me == Recorded(n, k, result)
<1>1. me = [n EXCEPT !.left = n.left \ {k}, !.report = n.report \cup {entry}]
  BY DEF Recorded
<1>2. n.left \in SUBSET AnyCase /\ n.report \in SUBSET [case : AnyCase, result : Results]
      /\ k \in n.left
  BY DEF WorkerRow, SameCases
<1>3. entry \in [case : AnyCase, result : Results] /\ entry.case = k
  BY <1>2
<1> HIDE DEF entry, me
<1>4. /\ n.left \ {k} \in SUBSET AnyCase
      /\ n.report \cup {entry} \in SUBSET [case : AnyCase, result : Results]
  BY <1>2, <1>3
<1>5. me \in WorkerRow
  BY <1>1, <1>4 DEF WorkerRow
<1>6. /\ me.left = n.left \ {k} /\ me.report = n.report \cup {entry}
      /\ me.stage = n.stage /\ me.request = n.request /\ me.release = n.release
      /\ me.calls = n.calls /\ me.cost = n.cost /\ me.bill = n.bill
      /\ me.uncertain = n.uncertain
  BY <1>1, WorkerFields
<1>7. BudgetFits(me)
  BY <1>6 DEF BudgetFits
<1>8. ReportOnce(me)
  BY <1>2, <1>3, <1>6 DEF ReportOnce, SameCases
<1> QED
  BY <1>5, <1>6, <1>7, <1>8 DEF TrialOutcome, SameCases, me

\* The most a call can cost beyond what was reserved for it.
LEMMA ExcessBounds ==
  /\ Excess \in Nat /\ Reservation \in Nat /\ MaxCost \in Nat /\ MaxCalls \in Nat
  /\ \A c \in Costs : c \in Nat /\ c <= Reservation + Excess
<1> DEFINE S == Costs \cup {Reservation}
<1>1. S \in SUBSET Nat /\ Reservation \in S /\ IsFiniteSet(S)
  BY RunsAssumption, FS_AddElement
<1>2. S \in SUBSET Int /\ S # {}
  BY <1>1
<1>3. \A c \in Costs : c \in S
  OBVIOUS
<1>4. Excess = Max(S) - Reservation
  BY DEF Excess
<1> HIDE DEF S
<1>5. Max(S) \in S /\ \A c \in S : c <= Max(S)
  BY <1>1, <1>2, MaxOf
<1>6. Reservation \in Nat /\ MaxCost \in Nat /\ MaxCalls \in Nat
  BY RunsAssumption
<1>7. Max(S) \in Nat /\ Reservation <= Max(S) /\ \A c \in Costs : c \in Nat /\ c <= Max(S)
  BY <1>1, <1>3, <1>5
<1> QED
  BY <1>4, <1>6, <1>7

\* A call may be made, so what is billed is known and leaves room for a reservation.
LEMMA RoomForACall ==
  ASSUME NEW m \in WorkerRow, BudgetFits(m), MayReserve(m)
  PROVE  /\ m.calls \in Nat /\ m.cost \in Nat /\ m.bill \in Nat
         /\ m.calls + 1 <= MaxCalls /\ m.bill = m.cost /\ m.cost + Reservation <= MaxCost
  BY ExcessBounds DEF WorkerRow, BudgetFits, MayReserve

LEMMA UnmeteredFits ==
  ASSUME NEW m \in WorkerRow, BudgetFits(m), MayReserve(m), NEW charge \in Costs
  PROVE  /\ Unmetered(m, charge) \in WorkerRow /\ SameCases(m, Unmetered(m, charge))
         /\ BudgetFits(Unmetered(m, charge))
<1> DEFINE n == Unmetered(m, charge)
           calls == m.calls + 1
           bill == m.bill + charge
<1>1. n = [m EXCEPT !.calls = calls, !.bill = bill, !.uncertain = TRUE, !.halted = TRUE]
  BY DEF Unmetered
<1>2. calls \in Nat /\ bill \in Nat /\ calls <= MaxCalls /\ bill <= MaxCost + Excess
  BY RoomForACall, ExcessBounds
<1> HIDE DEF n, calls, bill
<1>3. n \in WorkerRow
  BY <1>1, <1>2 DEF WorkerRow
<1>4. SameCases(m, n) /\ n.calls = calls /\ n.bill = bill /\ n.uncertain = TRUE
  BY <1>1, WorkerFields DEF SameCases
<1>5. BudgetFits(n)
  BY <1>2, <1>4 DEF BudgetFits
<1> QED
  BY <1>3, <1>4, <1>5 DEF n

LEMMA SettledFits ==
  ASSUME NEW m \in WorkerRow, BudgetFits(m), MayReserve(m), NEW cost \in Costs
  PROVE  /\ Settled(m, cost) \in WorkerRow /\ SameCases(m, Settled(m, cost))
         /\ BudgetFits(Settled(m, cost))
<1> DEFINE n == Settled(m, cost)
           calls == m.calls + 1
           spent == m.cost + cost
           bill == m.bill + cost
           unsure == m.uncertain \/ Overdrawn(m, cost)
           stop == m.halted \/ Overdrawn(m, cost)
<1>1. n = [m EXCEPT !.calls = calls, !.cost = spent, !.bill = bill,
                    !.uncertain = unsure, !.halted = stop]
  BY DEF Settled
<1>2. /\ calls \in Nat /\ spent \in Nat /\ bill \in Nat
      /\ calls <= MaxCalls /\ bill <= MaxCost + Excess /\ bill = spent
  BY RoomForACall, ExcessBounds
<1>3. unsure \in BOOLEAN /\ stop \in BOOLEAN
  OBVIOUS
<1>4. ~unsure => spent <= MaxCost
  BY RoomForACall, ExcessBounds DEF Overdrawn
<1> HIDE DEF n, calls, spent, bill, unsure, stop
<1>5. n \in WorkerRow
  BY <1>1, <1>2, <1>3 DEF WorkerRow
<1>6. SameCases(m, n) /\ n.calls = calls /\ n.bill = bill /\ n.cost = spent
      /\ n.uncertain = unsure
  BY <1>1, WorkerFields DEF SameCases
<1>7. BudgetFits(n)
  BY <1>2, <1>4, <1>6 DEF BudgetFits
<1> QED
  BY <1>5, <1>6, <1>7 DEF n

HaltedNow(m) == [m EXCEPT !.halted = TRUE]

LEMMA HaltedFits ==
  ASSUME NEW m \in WorkerRow, BudgetFits(m)
  PROVE  /\ HaltedNow(m) \in WorkerRow /\ SameCases(m, HaltedNow(m)) /\ BudgetFits(HaltedNow(m))
<1>1. HaltedNow(m) \in WorkerRow
  BY DEF WorkerRow, HaltedNow
<1>2. /\ SameCases(m, HaltedNow(m)) /\ HaltedNow(m).calls = m.calls
      /\ HaltedNow(m).cost = m.cost /\ HaltedNow(m).bill = m.bill
      /\ HaltedNow(m).uncertain = m.uncertain
  BY WorkerFields DEF SameCases, HaltedNow
<1> QED
  BY <1>1, <1>2 DEF BudgetFits

\* However a call ends, what was billed for it stays within the budget.
LEMMA CalledFits ==
  ASSUME NEW m \in WorkerRow, BudgetFits(m), ReportOnce(m), NEW k \in m.left,
         NEW me \in Called(m, k)
  PROVE  TrialOutcome(m, me, k)
<1>1. "ok" \in Results /\ "error" \in Results
  BY DEF Results
<1>2. SameCases(m, m)
  BY DEF SameCases
<1>3. CASE ~MayReserve(m)
  <2>1. me = Recorded(m, k, "error")
    BY <1>3 DEF Called
  <2> QED
    BY <1>1, <1>2, <2>1, RecordedFits
<1>4. CASE MayReserve(m)
  <2>1. \/ \E charge \in Costs : me = Recorded(Unmetered(m, charge), k, "error")
        \/ \E cost \in Costs, result \in Results : me = Recorded(Settled(m, cost), k, result)
        \/ \E cost \in Costs : me = Recorded(HaltedNow(Settled(m, cost)), k, "error")
    BY <1>4 DEF Called, HaltedNow
  <2>2. CASE \E charge \in Costs : me = Recorded(Unmetered(m, charge), k, "error")
    <3>1. PICK charge \in Costs : me = Recorded(Unmetered(m, charge), k, "error")
      BY <2>2
    <3>2. /\ Unmetered(m, charge) \in WorkerRow /\ SameCases(m, Unmetered(m, charge))
          /\ BudgetFits(Unmetered(m, charge))
      BY <1>4, UnmeteredFits
    <3> QED
      BY <1>1, <3>1, <3>2, RecordedFits
  <2>3. CASE \E cost \in Costs, result \in Results : me = Recorded(Settled(m, cost), k, result)
    <3>1. PICK cost \in Costs, result \in Results : me = Recorded(Settled(m, cost), k, result)
      BY <2>3
    <3>2. /\ Settled(m, cost) \in WorkerRow /\ SameCases(m, Settled(m, cost))
          /\ BudgetFits(Settled(m, cost))
      BY <1>4, SettledFits
    <3> QED
      BY <3>1, <3>2, RecordedFits
  <2>4. CASE \E cost \in Costs : me = Recorded(HaltedNow(Settled(m, cost)), k, "error")
    <3>1. PICK cost \in Costs : me = Recorded(HaltedNow(Settled(m, cost)), k, "error")
      BY <2>4
    <3> DEFINE n == Settled(m, cost)
    <3>2. n \in WorkerRow /\ SameCases(m, n) /\ BudgetFits(n)
      BY <1>4, SettledFits
    <3> HIDE DEF n
    <3>3. HaltedNow(n) \in WorkerRow /\ SameCases(n, HaltedNow(n)) /\ BudgetFits(HaltedNow(n))
      BY <3>2, HaltedFits
    <3>4. SameCases(m, HaltedNow(n))
      BY <3>2, <3>3 DEF SameCases
    <3>5. TrialOutcome(m, Recorded(HaltedNow(n), k, "error"), k)
      BY <1>1, <3>3, <3>4, RecordedFits
    <3> QED
      BY <3>1, <3>5 DEF n
  <2> QED
    BY <2>1, <2>2, <2>3, <2>4
<1> QED
  BY <1>3, <1>4

LEMMA JudgedFits ==
  ASSUME NEW m \in WorkerRow, BudgetFits(m), ReportOnce(m), NEW k \in m.left,
         NEW target \in {"article", "calibration", "component"}, NEW me \in Judged(m, target, k)
  PROVE  TrialOutcome(m, me, k)
<1>1. SameCases(m, m) /\ "error" \in Results
  BY DEF SameCases, Results
<1>2. CASE target = "component"
  <2>1. PICK result \in Results : me = Recorded(m, k, result)
    BY <1>2 DEF Judged
  <2> QED
    BY <1>1, <2>1, RecordedFits
<1>3. CASE target = "calibration"
  <2>1. me \in Calibrated(m, k)
    BY <1>3 DEF Judged
  <2>2. CASE m.halted
    <3>1. me = Recorded(m, k, "error")
      BY <2>1, <2>2 DEF Calibrated
    <3> QED
      BY <1>1, <3>1, RecordedFits
  <2>3. CASE ~m.halted
    <3>1. me \in Called(m, k)
      BY <2>1, <2>3 DEF Calibrated
    <3> QED
      BY <3>1, CalledFits
  <2> QED
    BY <2>2, <2>3
<1>4. CASE target = "article"
  <2>1. me \in Called(m, k)
    BY <1>4 DEF Judged
  <2> QED
    BY <2>1, CalledFits
<1> QED
  BY <1>2, <1>3, <1>4

\* A trial makes one call at most.
LEMMA RecordedCalls ==
  ASSUME NEW n \in WorkerRow, NEW k, NEW result
  PROVE  /\ Recorded(n, k, result).calls = n.calls
         /\ Recorded(n, k, result).halted = n.halted
  BY WorkerFields DEF Recorded

LEMMA CalledOnce ==
  ASSUME NEW m \in WorkerRow, NEW k, BudgetFits(m), NEW me \in Called(m, k)
  PROVE  me.calls \in {m.calls, m.calls + 1}
<1>1. CASE ~MayReserve(m)
  BY <1>1, RecordedCalls DEF Called
<1>2. CASE MayReserve(m)
  <2>1. /\ \A charge \in Costs : Unmetered(m, charge).calls = m.calls + 1
        /\ \A cost \in Costs : Settled(m, cost).calls = m.calls + 1
    BY WorkerFields DEF Unmetered, Settled
  <2>2. /\ \A charge \in Costs : Unmetered(m, charge) \in WorkerRow
        /\ \A cost \in Costs : /\ Settled(m, cost) \in WorkerRow
                               /\ BudgetFits(Settled(m, cost))
    BY <1>2, UnmeteredFits, SettledFits
  <2>3. \A cost \in Costs : /\ HaltedNow(Settled(m, cost)) \in WorkerRow
                            /\ HaltedNow(Settled(m, cost)).calls = m.calls + 1
    <3> SUFFICES ASSUME NEW cost \in Costs
                 PROVE  /\ HaltedNow(Settled(m, cost)) \in WorkerRow
                        /\ HaltedNow(Settled(m, cost)).calls = m.calls + 1
      OBVIOUS
    <3> DEFINE n == Settled(m, cost)
    <3>1. n \in WorkerRow /\ BudgetFits(n) /\ n.calls = m.calls + 1
      BY <2>1, <2>2
    <3> HIDE DEF n
    <3>2. HaltedNow(n).calls = n.calls
      BY <3>1, WorkerFields DEF HaltedNow
    <3>3. HaltedNow(n) \in WorkerRow
      BY <3>1, HaltedFits
    <3> QED
      BY <3>1, <3>2, <3>3 DEF n
  <2>4. \/ \E charge \in Costs : me = Recorded(Unmetered(m, charge), k, "error")
        \/ \E cost \in Costs, result \in Results : me = Recorded(Settled(m, cost), k, result)
        \/ \E cost \in Costs : me = Recorded(HaltedNow(Settled(m, cost)), k, "error")
    BY <1>2 DEF Called, HaltedNow
  <2> QED
    BY <2>1, <2>2, <2>3, <2>4, RecordedCalls
<1> QED
  BY <1>1, <1>2

\* The first answer of a model that was not approved is the last.
LEMMA ForeignCallHalts ==
  ASSUME NEW m \in WorkerRow, NEW k \in m.left, BudgetFits(m), OneForeignCall(m),
         NEW target, target = Target[m.request], NEW me \in Judged(m, target, k),
         me.request = m.request, me.release = m.release
  PROVE  OneForeignCall(me)
<1> SUFFICES ASSUME target = "calibration", ~ApprovedModel(m)
             PROVE  me.calls = 0 \/ (me.calls = 1 /\ me.halted)
  BY DEF OneForeignCall, ApprovedModel
<1>1. me \in Calibrated(m, k)
  BY DEF Judged
<1>2. m.calls = 0 \/ (m.calls = 1 /\ m.halted)
  BY DEF OneForeignCall
<1>3. CASE m.halted
  <2>1. me = Recorded(m, k, "error")
    BY <1>1, <1>3 DEF Calibrated
  <2> QED
    BY <1>2, <1>3, <2>1, RecordedCalls
<1>4. CASE ~m.halted
  <2>1. me \in Called(m, k) /\ (me.calls = m.calls \/ me.halted)
    BY <1>1, <1>4 DEF Calibrated
  <2> QED
    BY <1>2, <1>4, <2>1, CalledOnce
<1> QED
  BY <1>3, <1>4

\* The case a trial judged is the only one it took.
LEMMA TrialIs ==
  ASSUME EvalInv, NEW w \in Workers, Trial(w)
  PROVE  \E me \in WorkerRow, k \in worker[w].left :
            /\ worker' = [worker EXCEPT ![w] = me]
            /\ TrialOutcome(worker[w], me, k) /\ OneForeignCall(me)
<1> DEFINE target == Target[worker[w].request]
<1>1. PICK k \in worker[w].left :
         \E me \in Judged(worker[w], target, k) : worker' = [worker EXCEPT ![w] = me]
  BY DEF Trial
<1>2. PICK me \in Judged(worker[w], target, k) : worker' = [worker EXCEPT ![w] = me]
  BY <1>1
<1>3. target \in {"article", "calibration", "component"}
  <2>1. worker[w].stage # "idle"
    BY DEF Trial
  <2> QED
    BY <2>1, DeliveredRequest, RunsAssumption
<1>4. target = Target[worker[w].request] /\ worker[w].stage = "execute"
  BY DEF Trial
<1> HIDE DEF target
<1>5. TrialOutcome(worker[w], me, k)
  BY <1>2, <1>3, WorkerIs, JudgedFits
<1>6. OneForeignCall(worker[w])
  BY <1>4, WorkerIs DEF WorkerFits
<1>7. OneForeignCall(me)
  BY <1>2, <1>4, <1>5, <1>6, WorkerIs, ForeignCallHalts DEF TrialOutcome
<1> QED
  BY <1>2, <1>5, <1>7 DEF TrialOutcome

LEMMA TrialSound ==
  ASSUME EvalInv, NEW w \in Workers, Trial(w)
  PROVE  RunsInv'
<1>1. PICK me \in WorkerRow, k \in worker[w].left :
         /\ worker' = [worker EXCEPT ![w] = me]
         /\ TrialOutcome(worker[w], me, k) /\ OneForeignCall(me)
  BY TrialIs
<1>2. /\ worker[w].stage = "execute"
      /\ UNCHANGED <<curationVars, release, evalRuns, trials, authorization, outbox, job>>
  BY DEF Trial
<1>3. worker'[w] = me
  BY <1>1 DEF EvalInv, RunsInv, RunTables
<1>4. Kept
  BY <1>2, NotEnqueuedKept
<1>5. WorkerFits(w)'
  BY <1>1, <1>2, <1>3, <1>4, ExecutionStays DEF TrialOutcome
<1> QED
  BY <1>1, <1>2, <1>5, WorkerStep

LEMMA EndExecutionSound ==
  ASSUME EvalInv, NEW w \in Workers, EndExecution(w)
  PROVE  RunsInv'
<1>1. /\ worker[w].stage = "execute"
      /\ UNCHANGED <<curationVars, release, evalRuns, trials, authorization, outbox>>
  BY DEF EndExecution
<1>2. CASE worker[w].aborted
  <2>1. Return(w, "retry")
    BY <1>2 DEF EndExecution
  <2> QED
    BY <1>1, <2>1, RetrySound
<1>3. CASE ~worker[w].aborted
  <2> DEFINE me == AtStage(worker[w], "commit")
  <2>1. worker' = [worker EXCEPT ![w] = me] /\ job' = job
    BY <1>3 DEF EndExecution, AtStage
  <2>2. /\ me \in WorkerRow /\ me.stage = "commit" /\ me.left = worker[w].left
        /\ SameWork(worker[w], me)
    BY WorkerIs, StageFits
  <2> HIDE DEF me
  <2>3. worker'[w] = me
    BY <2>1 DEF EvalInv, RunsInv, RunTables
  <2>4. BudgetFits(me) /\ ReportOnce(me)
    BY <2>2, WorkerIs, SameWorkFits DEF SameWork, ReportOnce
  <2>5. Kept
    BY <1>1, NotEnqueuedKept
  <2>6. WorkerFits(w)'
    <3>1. OneForeignCall(me)
      BY <1>1, <2>2, WorkerIs, SameWorkCalls DEF WorkerFits
    <3> QED
      BY <1>1, <2>2, <2>3, <2>4, <2>5, <3>1, ExecutionStays DEF SameWork
  <2> QED
    BY <1>1, <2>1, <2>2, <2>6, WorkerStep
<1> QED
  BY <1>2, <1>3

-----------------------------------------------------------------------------
(* The end of an execution                                                 *)

\* A worker that holds the lease of a run ends it, and its delivery is done.
LEMMA VerdictFollows ==
  ASSUME EvalInv, NEW w \in Workers, worker[w].stage # "idle", Return(w, "done"),
         UNCHANGED outbox,
         \A x \in Requests \ {worker[w].request} : evalRuns'[x] = evalRuns[x],
         Over(evalRuns'[worker[w].request])
  PROVE  \A q \in Requests : JobFollows(q)'
<1> SUFFICES ASSUME NEW q \in Requests PROVE JobFollows(q)'
  OBVIOUS
<1>1. outbox[worker[w].request] # "none"
  BY DeliveredRequest
<1>2. CASE q = worker[w].request
  BY <1>1, <1>2 DEF JobFollows, Over
<1>3. CASE q # worker[w].request
  <2>1. job'[q].state = job[q].state
    BY <1>3, Returned
  <2> QED
    BY <1>3, <2>1, JobsFollow DEF JobFollows, Over
<1> QED
  BY <1>2, <1>3

LEMMA WorkersReturn ==
  ASSUME EvalInv, Kept, NEW w \in Workers, worker'[w] = Idle,
         \A v \in Workers \ {w} : worker'[v] = worker[v]
  PROVE  \A v \in Workers : WorkerFits(v)'
<1>1. WorkerFits(w)'
  BY IdleStays
<1>2. \A v \in Workers \ {w} : WorkerFits(v)'
  BY WorkersStay
<1> QED
  BY <1>1, <1>2

LEMMA FailClaimSound ==
  ASSUME EvalInv, NEW w \in Workers, FailClaim(w)
  PROVE  RunsInv'
<1> DEFINE q == worker[w].request
           row == AsFailed(evalRuns[q])
<1>1. /\ worker[w].stage = "fail"
      /\ UNCHANGED <<curationVars, release, trials, authorization, outbox>>
  BY DEF FailClaim
<1>2. CASE ~Holds(w)
  <2>1. Return(w, "retry") /\ evalRuns' = evalRuns
    BY <1>2 DEF FailClaim
  <2> QED
    BY <1>1, <2>1, RetrySound
<1>3. CASE Holds(w)
  <2>1. Return(w, "done") /\ evalRuns' = [evalRuns EXCEPT ![q] = row]
    BY <1>3 DEF FailClaim, AsFailed
  <2>2. /\ q \in Requests /\ Target[q] # "inline" /\ evalRuns[q] \in EvalRunRow
        /\ evalRuns \in [Requests -> EvalRunRow]
    BY <1>1, DeliveredRequest DEF EvalInv, RunsInv, RunTables
  <2>3. evalRuns[q].status \in {"queued", "running"}
    BY <1>3 DEF Holds
  <2>4. /\ row \in EvalRunRow /\ row.status = "failed" /\ ~row.lease /\ row.error = "executor"
        /\ row.release = evalRuns[q].release
    BY <2>2, RowFailed
  <2> HIDE DEF row
  <2>5. Over(evalRuns'[q]) /\ \A x \in Requests \ {q} : evalRuns'[x] = evalRuns[x]
    BY <2>1, <2>2, <2>4 DEF Over
  <2>6. \A x \in Requests : JobFollows(x)'
    BY <1>1, <2>1, <2>5, VerdictFollows
  <2>7. /\ job' \in [Requests -> JobRow] /\ worker' \in [Workers -> WorkerRow]
        /\ worker'[w] = Idle /\ \A v \in Workers \ {w} : worker'[v] = worker[v]
    BY <1>1, <2>1, Returned
  <2>8. Kept /\ RunTables' /\ \A x \in Requests : RequestFits(x)'
    BY <1>1, <2>1, <2>2, <2>3, <2>4, <2>6, <2>7, RowMoves
  <2>9. \A v \in Workers : WorkerFits(v)'
    BY <2>7, <2>8, WorkersReturn
  <2> QED
    BY <2>8, <2>9 DEF RunsInv
<1> QED
  BY <1>2, <1>3

LEMMA CallFailsSound ==
  ASSUME EvalInv, NEW w \in Workers, CallFails(w)
  PROVE  RunsInv'
<1>1. worker[w].stage # "idle" /\ Return(w, "retry")
      /\ UNCHANGED <<curationVars, release, evalRuns, trials, authorization, outbox>>
  BY DEF CallFails
<1> QED
  BY <1>1, RetrySound

\* The trials a report becomes.
TrialOf(w, r) ==
    [request |-> worker[w].request, attempt |-> worker[w].token, case |-> r.case,
     result |-> r.result]
TrialsReported(w) == {TrialOf(w, r) : r \in worker[w].report}

\* Each case of the report has one trial, of the attempt that holds the lease.
LEMMA ReportedOnce ==
  ASSUME EvalInv, NEW w \in Workers, worker[w].stage = "commit",
         Complete(worker[w].request, worker[w].report)
  PROVE  LET q == worker[w].request IN
         /\ TrialsReported(w) \subseteq TrialRow
         /\ \A t \in TrialsReported(w) : t.request = q /\ t.attempt = worker[w].token
                                         /\ t.result \in Results /\ t.case \in Cases(q)
         /\ {t.case : t \in TrialsReported(w)} = CasesAsked(q)
         /\ Cardinality(TrialsReported(w)) = Cardinality({t.case : t \in TrialsReported(w)})
<1> DEFINE q == worker[w].request
           mine == TrialsReported(w)
<1>1. /\ worker[w] \in WorkerRow /\ ReportOnce(worker[w]) /\ q \in Requests
  BY WorkerIs, DeliveredRequest
<1>2. \A r \in worker[w].report : r.case \in AnyCase /\ r.result \in Results
      /\ TrialOf(w, r) \in TrialRow
  <2>1. worker[w].report \subseteq [case : AnyCase, result : Results] /\ worker[w].token \in Nat
    BY <1>1 DEF WorkerRow
  <2> QED
    BY <1>1, <2>1 DEF TrialOf, TrialRow
<1>3. \A r \in worker[w].report :
         /\ TrialOf(w, r).request = q /\ TrialOf(w, r).attempt = worker[w].token
         /\ TrialOf(w, r).case = r.case /\ TrialOf(w, r).result = r.result
  BY DEF TrialOf
<1>4. {r.case : r \in worker[w].report} = Cases(q) /\ Valid(q)
  BY DEF Complete
<1>5. Cases(q) = CasesAsked(q) /\ IsFiniteSet(Cases(q))
  <2>1. CASE Target[q] = "article"
    <3>1. suite.cases = suite.dataset /\ IsFiniteSet(suite.dataset)
      BY <1>4, <2>1 DEF Valid, Governed, EvalInv, CurationInv, SuiteFits
    <3> QED
      BY <2>1, <3>1 DEF Cases, CasesAsked
  <2>2. CASE Target[q] # "article"
    BY <2>2, SyntheticIsCounted DEF Cases, CasesAsked
  <2> QED
    BY <2>1, <2>2
<1>6. {t.case : t \in mine} = Cases(q)
  BY <1>3, <1>4 DEF TrialsReported
<1>7. \A t, u \in mine : t.case = u.case => t = u
  <2> SUFFICES ASSUME NEW r \in worker[w].report, NEW s \in worker[w].report,
                      TrialOf(w, r).case = TrialOf(w, s).case
               PROVE  TrialOf(w, r) = TrialOf(w, s)
    BY DEF TrialsReported
  <2>1. r = s
    BY <1>1, <1>3 DEF ReportOnce
  <2> QED
    BY <2>1
<1>8. /\ mine \subseteq TrialRow
      /\ \A t \in mine : t.request = q /\ t.attempt = worker[w].token /\ t.result \in Results
                         /\ t.case \in Cases(q)
  BY <1>2, <1>3, <1>4 DEF TrialsReported
<1>9. Cardinality(mine) = Cardinality(Cases(q))
  <2> DEFINE f == [t \in mine |-> t.case]
  <2> HIDE DEF mine, q
  <2>1. f \in Surjection(mine, Cases(q))
    BY <1>6 DEF Surjection
  <2>2. f \in Injection(mine, Cases(q))
    <3>1. f \in [mine -> Cases(q)]
      BY <2>1 DEF Surjection
    <3>2. \A t, u \in mine : f[t] = f[u] => t = u
      BY <1>7
    <3> HIDE DEF f
    <3> QED
      BY <3>1, <3>2 DEF Injection, IsInjective
  <2> HIDE DEF f
  <2> QED
    BY <1>5, <2>1, <2>2, FS_Injection
<1> QED
  BY <1>5, <1>6, <1>8, <1>9

LEMMA CommitReportSound ==
  ASSUME EvalInv, NEW w \in Workers, CommitReport(w)
  PROVE  RunsInv'
<1>1. /\ worker[w].stage = "commit"
      /\ UNCHANGED <<curationVars, release, authorization, outbox>>
  BY DEF CommitReport
<1>q. PICK q \in Requests : worker[w].request = q
  BY <1>1, DeliveredRequest
<1> DEFINE mine == TrialsReported(w)
           row == Concluded(evalRuns[q], mine)
<1>2. CASE ~(Holds(w) /\ Complete(q, worker[w].report))
  <2>1. Return(w, "retry") /\ UNCHANGED <<trials, evalRuns>>
    BY <1>2, <1>q DEF CommitReport
  <2> QED
    BY <1>1, <2>1, RetrySound
<1>3. CASE Holds(w) /\ Complete(q, worker[w].report)
  <2>1. /\ trials' = trials \cup mine /\ evalRuns' = [evalRuns EXCEPT ![q] = row]
        /\ Return(w, "done")
    BY <1>3, <1>q DEF CommitReport, TrialsReported, TrialOf
  <2>2. /\ q \in Requests /\ Target[q] # "inline" /\ evalRuns[q] \in EvalRunRow
        /\ RequestFits(q) /\ evalRuns[q].status # "absent" /\ RunTables
    BY <1>1, <1>q, DeliveredRequest DEF EvalInv, RunsInv
  <2>3. /\ mine \subseteq TrialRow
        /\ \A t \in mine : t.request = q /\ t.attempt = worker[w].token /\ t.result \in Results
        /\ {t.case : t \in mine} = CasesAsked(q)
        /\ Cardinality(mine) = Cardinality({t.case : t \in mine})
    BY <1>1, <1>3, <1>q, ReportedOnce
  <2>4. /\ row \in EvalRunRow
        /\ IF \E t \in mine : t.result = "error"
           THEN row.status = "failed" /\ row.error = "report"
           ELSE row.status = "completed" /\ row.error = "none"
        /\ ~row.lease /\ row.attempt = evalRuns[q].attempt
        /\ row.release = evalRuns[q].release
    BY <2>2, RowConcluded
  <2>5. evalRuns[q].status = "running" /\ evalRuns[q].attempt = worker[w].token
        /\ evalRuns[q].error = "none" /\ TrialsOf(q) = {}
    BY <1>3, <1>q, <2>2 DEF Holds, RequestFits, ReportFits, Over
  <2> HIDE DEF row, mine
  <2>6. /\ evalRuns' \in [Requests -> EvalRunRow] /\ evalRuns'[q] = row
        /\ \A x \in Requests \ {q} : evalRuns'[x] = evalRuns[x]
    BY <2>1, <2>2, <2>4 DEF RunTables
  <2>7. TrialsOf(q)' = mine /\ \A x \in Requests \ {q} : TrialsOf(x)' = TrialsOf(x)
    <3>1. TrialsOf(q)' = TrialsOf(q) \cup mine
      BY <2>1, <2>3 DEF TrialsOf
    <3>2. \A x \in Requests \ {q} : TrialsOf(x)' = TrialsOf(x)
      BY <2>1, <2>3 DEF TrialsOf
    <3> QED
      BY <2>5, <3>1, <3>2
  <2>8. row.status \in {"completed", "failed"} /\ (row.status = "completed" \/ row.error = "report")
    BY <2>4
  <2>9. Over(evalRuns'[q])
    BY <2>6, <2>8 DEF Over
  <2>10. \A x \in Requests : JobFollows(x)'
    BY <1>1, <1>q, <2>1, <2>6, <2>9, VerdictFollows
  <2>11. /\ job' \in [Requests -> JobRow] /\ worker' \in [Workers -> WorkerRow]
         /\ worker'[w] = Idle /\ \A v \in Workers \ {w} : worker'[v] = worker[v]
    BY <1>1, <2>1, Returned
  <2>12. Kept
    <3>1. \A x \in Requests : evalRuns'[x].release = evalRuns[x].release
      BY <2>4, <2>6
    <3> QED
      BY <1>1, <3>1, NotEnqueuedKept
  <2>13. RunTables'
    BY <1>1, <2>1, <2>2, <2>3, <2>6, <2>11 DEF RunTables
  <2>14. RequestFits(q)'
    <3>1. CasesAsked(q)' = CasesAsked(q)
      BY <1>1 DEF curationVars, CasesAsked, Synthetic
    <3>2. row.status = "completed" <=> \A t \in mine : t.result = "ok"
      BY <2>3, <2>4 DEF Results
    <3>3. ReportFits(q)'
      BY <2>3, <2>4, <2>5, <2>6, <2>7, <2>8, <3>1, <3>2 DEF ReportFits
    <3>4. JobFollows(q)' /\ outbox' = outbox /\ suite' = suite
      BY <1>1, <2>2, <2>10 DEF curationVars
    <3> QED
      BY <2>2, <2>4, <2>6, <2>8, <2>9, <3>3, <3>4 DEF RequestFits, JobFollows, Over
  <2>15. ASSUME NEW x \in Requests \ {q} PROVE RequestFits(x)'
    BY <1>1, <2>6, <2>7, <2>10, <2>12, RequestStays
  <2>16. \A v \in Workers : WorkerFits(v)'
    BY <2>11, <2>12, WorkersReturn
  <2> QED
    BY <2>13, <2>14, <2>15, <2>16 DEF RunsInv
<1> QED
  BY <1>2, <1>3

-----------------------------------------------------------------------------
(* The invariant                                                           *)

LEMMA CurationInitSound ==
  ASSUME CurationInit
  PROVE  CurationInv
<1>1. CurationTables
  <2>1. Horizon \in Nat /\ MaxRevision \in Nat /\ MaxRevision >= 1
    BY CurationAssumption
  <2>2. runs \in [Runs -> RunRow]
    BY RunsAreCounted DEF CurationInit, RunRow
  <2>3. suite \in SuiteRow
    BY DEF CurationInit, SuiteRow
  <2> QED
    BY <2>1, <2>2, <2>3 DEF CurationInit, CurationTables
<1>2. StampsCount
  <2>1. Stamped = {}
    BY DEF CurationInit, Stamped
  <2> QED
    BY <2>1, FS_EmptySet DEF CurationInit, StampsCount
<1>3. OneActive
  BY DEF CurationInit, OneActive, Active
<1>4. DecisionsAreSigned /\ SuiteFits /\ CasesAreSound
  BY FS_EmptySet DEF CurationInit, DecisionsAreSigned, SuiteFits, CasesAreSound
<1> QED
  BY <1>1, <1>2, <1>3, <1>4 DEF CurationInv

LEMMA RunsInitSound ==
  ASSUME Init
  PROVE  RunsInv
<1>1. RunTables
  <2>1. MaxRelease \in Nat /\ MaxRelease >= 1
    BY RunsAssumption
  <2>2. evalRuns \in [Requests -> EvalRunRow]
    BY <2>1 DEF Init, EvalRunRow, Statuses
  <2>3. job \in [Requests -> JobRow]
    BY DEF Init, JobRow
  <2>4. authorization \in AuthorizationRow
    BY <2>1 DEF Init, AuthorizationRow
  <2>5. worker \in [Workers -> WorkerRow]
    BY IdleFits DEF Init
  <2> QED
    BY <2>1, <2>2, <2>3, <2>4, <2>5 DEF Init, RunTables
<1>2. ASSUME NEW q \in Requests PROVE RequestFits(q)
  <2>1. /\ evalRuns[q] = [status |-> "absent", attempt |-> 0, lease |-> FALSE,
                          release |-> 0, error |-> "none"]
        /\ outbox[q] = "none" /\ job[q].state = "none" /\ TrialsOf(q) = {}
    BY DEF Init, TrialsOf
  <2> QED
    BY <2>1 DEF RequestFits, ReportFits, Over
<1>3. \A w \in Workers : WorkerFits(w)
  BY IdleFits DEF Init, WorkerFits
<1> QED
  BY <1>1, <1>2, <1>3 DEF RunsInv

LEMMA EvalStep ==
  ASSUME EvalInv, [Next]_vars
  PROVE  EvalInv'
<1>1. CASE CurationNext(Referenced) /\ UNCHANGED runVars
  <2>1. CurationInv' /\ SuiteStays
    BY <1>1, CurationSound DEF EvalInv
  <2>2. Kept
    BY <1>1, <2>1 DEF Kept, runVars
  <2>3. RunTables'
    <3>1. UNCHANGED <<release, evalRuns, trials, authorization, outbox, job, worker>>
      BY <1>1 DEF runVars
    <3> QED
      BY <3>1 DEF EvalInv, RunsInv, RunTables
  <2>4. RunsInv'
    BY <1>1, <2>2, <2>3, RunsUntouched DEF runVars
  <2> QED
    BY <2>1, <2>4 DEF EvalInv
<1>2. CASE Deploy \/ RegisterCalibration \/ ApproveCalibration
  <2>1. UNCHANGED curationVars
    BY <1>2 DEF Deploy, RegisterCalibration, ApproveCalibration
  <2> QED
    BY <1>2, <2>1, CurationStays, DeploySound, RegisterCalibrationSound, ApproveCalibrationSound
       DEF EvalInv
<1>3. ASSUME NEW q \in Requests,
             EnqueueRun(q) \/ EnqueueCalibration(q) \/ StartRun(q) \/ FinishInlineRun(q)
      PROVE  EvalInv'
  <2>1. UNCHANGED curationVars
    BY <1>3 DEF EnqueueRun, EnqueueCalibration, StartRun, FinishInlineRun
  <2> QED
    BY <1>3, <2>1, CurationStays, EnqueueRunSound, EnqueueCalibrationSound, StartRunSound,
       FinishInlineRunSound DEF EvalInv
<1>4. ASSUME NEW q \in Requests, NEW k \in Synthetic, NEW result \in Results,
             RecordTrial(q, k, result)
      PROVE  EvalInv'
  <2>1. UNCHANGED curationVars
    BY <1>4 DEF RecordTrial
  <2> QED
    BY <1>4, <2>1, CurationStays, RecordTrialSound DEF EvalInv
<1>5. ASSUME NEW q \in Requests, Dispatch(q) \/ Stall(q) \/ LapseLease(q)
      PROVE  EvalInv'
  <2>1. UNCHANGED curationVars
    BY <1>5 DEF Dispatch, Stall, LapseLease
  <2> QED
    BY <1>5, <2>1, CurationStays, DispatchSound, StallSound, LapseLeaseSound DEF EvalInv
<1>6. ASSUME NEW q \in Requests, NEW w \in Workers, Claim(w, q) \/ ClaimNothing(w, q)
      PROVE  EvalInv'
  <2>1. UNCHANGED curationVars
    BY <1>6 DEF Claim, ClaimNothing
  <2> QED
    BY <1>6, <2>1, CurationStays, ClaimSound, ClaimNothingSound DEF EvalInv
<1>7. ASSUME NEW w \in Workers,
             HeartbeatFindsLoss(w) \/ LoadContext(w) \/ Trial(w) \/ EndExecution(w)
      PROVE  EvalInv'
  <2>1. UNCHANGED curationVars
    BY <1>7 DEF HeartbeatFindsLoss, LoadContext, Trial, EndExecution
  <2> QED
    BY <1>7, <2>1, CurationStays, HeartbeatSound, LoadContextSound, TrialSound, EndExecutionSound
       DEF EvalInv
<1>8. ASSUME NEW w \in Workers, CommitReport(w) \/ FailClaim(w) \/ CallFails(w) \/ Crash(w)
      PROVE  EvalInv'
  <2>1. UNCHANGED curationVars
    BY <1>8 DEF CommitReport, FailClaim, CallFails, Crash
  <2> QED
    BY <1>8, <2>1, CurationStays, CommitReportSound, FailClaimSound, CallFailsSound, CrashSound
       DEF EvalInv
<1>9. CASE UNCHANGED vars
  <2>1. UNCHANGED <<curationVars, release, evalRuns, trials, authorization, outbox, job, worker>>
    BY <1>9 DEF vars, runVars
  <2>2. CurationInv' /\ Kept
    BY <2>1, CurationStays, NotEnqueuedKept DEF EvalInv
  <2>3. RunTables'
    BY <2>1 DEF EvalInv, RunsInv, RunTables
  <2> QED
    BY <2>1, <2>2, <2>3, RunsUntouched DEF EvalInv
<1> QED
  BY <1>1, <1>2, <1>3, <1>4, <1>5, <1>6, <1>7, <1>8, <1>9 DEF Next

\* Candidates, suite, requests, trials, deliveries and budgets fit together in every
\* state, however author, sampler, reviewers, retention, crashes, stalled deliveries and
\* lapsed leases interleave (eval-sampling.ts, eval-materialization.ts, evals.ts).
THEOREM EvalInvariant == Spec => []EvalInv
<1>1. Init => EvalInv
  <2>1. Init => CurationInit
    BY DEF Init
  <2> QED
    BY <2>1, CurationInitSound, RunsInitSound DEF EvalInv
<1>2. EvalInv /\ [Next]_vars => EvalInv'
  BY EvalStep
<1> QED
  BY <1>1, <1>2, PTL DEF Spec

-----------------------------------------------------------------------------
(* What it means                                                           *)

LEMMA AtMostOneActive ==
  ASSUME CurationInv
  PROVE  Cardinality(Active) <= 1
<1>1. \A u, v \in Active : u = v
  BY DEF CurationInv, OneActive
<1>2. CASE Active = {}
  BY <1>2, FS_EmptySet
<1>3. CASE Active # {}
  <2>1. PICK v \in Active : TRUE
    BY <1>3
  <2>2. Active = {v}
    BY <1>1, <2>1
  <2> QED
    BY <2>2, FS_Singleton
<1> QED
  BY <1>2, <1>3

\* The tables keep their types and one sampling policy is active at most; a concluded
\* run has one trial for every case of its suite, of the attempt that held the lease,
\* and one that has not concluded has none; what the queue takes for done is over.
THEOREM EvalIsConsistentHolds == Spec => []EvalIsConsistent
<1>1. EvalInv => EvalIsConsistent
  <2> SUFFICES ASSUME EvalInv PROVE EvalIsConsistent
    OBVIOUS
  <2>1. EvalTypeOK
    <3>1. CurationTypeOK
      BY AtMostOneActive DEF EvalInv, CurationInv, CurationTables, CurationTypeOK
    <3>2. \A w \in Workers : worker[w].left \subseteq Synthetic \cup suite.dataset
      BY DEF EvalInv, RunsInv, WorkerFits
    <3> QED
      BY <3>1, <3>2 DEF EvalTypeOK, EvalInv, RunsInv, RunTables
  <2>2. ReportIsWhole
    <3>1. \A q \in Requests : ReportFits(q)
      BY DEF EvalInv, RunsInv, RequestFits
    <3> QED
      BY <3>1 DEF ReportIsWhole, ReportFits, CasesAsked
  <2>3. AcknowledgedIsOver
    BY DEF EvalInv, RunsInv, RequestFits, Over, AcknowledgedIsOver
  <2> QED
    BY <2>1, <2>2, <2>3 DEF EvalIsConsistent
<1> QED
  BY <1>1, EvalInvariant, PTL

\* What is in the suite is what a reviewer approved: the text at the revision that was
\* sampled, of a candidate that still counts as materialized.
THEOREM CasesAreReviewedHolds == Spec => []CasesAreReviewed
<1>1. EvalInv => CasesAreReviewed
  BY DEF EvalInv, CurationInv, CasesAreSound, CasesAreReviewed
<1> QED
  BY <1>1, EvalInvariant, PTL

\* Calls about an article are paid for only by the release that was asked for, those of a
\* calibration only when its run and its plan were approved, with one call at most of a
\* model that was not (memory-calibration-queue-executor.ts); an execution's bill stays
\* within its budget but for the excess of one call, after which there is no other.
THEOREM PaidWorkIsAuthorizedHolds == Spec => []PaidWorkIsAuthorized
<1>1. EvalInv => PaidWorkIsAuthorized
  <2> SUFFICES ASSUME EvalInv, NEW w \in Workers
               PROVE  /\ worker[w].calls > 0 =>
                            Executable(w) /\ (Target[worker[w].request] = "calibration" =>
                               ApprovedModel(worker[w]) \/ worker[w].calls = 1)
                      /\ worker[w].calls <= MaxCalls
                      /\ worker[w].bill <= MaxCost + (IF worker[w].uncertain THEN Excess ELSE 0)
    BY DEF PaidWorkIsAuthorized, PaidIsWhatWasApproved, BillWithinBudget, Executable,
           SameExecution, SamePlan, Excess
  <2>1. WorkerFits(w) /\ worker[w] \in WorkerRow
    BY WorkerIs
  <2>2. worker[w].calls > 0 =>
            Executable(w) /\ (Target[worker[w].request] = "calibration" =>
               ApprovedModel(worker[w]) \/ worker[w].calls = 1)
    BY <2>1 DEF WorkerFits, OneForeignCall
  <2>3. worker[w].calls <= MaxCalls
    BY <2>1 DEF WorkerFits, BudgetFits
  <2>4. worker[w].bill <= MaxCost + (IF worker[w].uncertain THEN Excess ELSE 0)
    <3>1. CASE worker[w].uncertain
      BY <2>1, <3>1 DEF WorkerFits, BudgetFits
    <3>2. CASE ~worker[w].uncertain
      BY <2>1, <3>2, ExcessBounds DEF WorkerFits, BudgetFits
    <3> QED
      BY <3>1, <3>2
  <2> QED
    BY <2>2, <2>3, <2>4
<1> QED
  BY <1>1, EvalInvariant, PTL

-----------------------------------------------------------------------------
(* Content past its retention                                              *)

\* A step that hands out no case, and records none.
HandsOutNothing ==
    /\ trials' = trials
    /\ \A w \in Workers : worker'[w].left \subseteq worker[w].left

\* What a step must not do with content past its retention.
Refused ==
    /\ \A t \in trials' \ trials : t.case.candidate # None => ~Due(t.case.candidate)
    /\ \A w \in Workers : \A k \in worker'[w].left \ worker[w].left :
         k.candidate # None => ~Due(k.candidate)

\* The cases of a valid suite all stand; a synthetic case has no candidate.
LEMMA ValidCasesStand ==
  ASSUME NEW q, Valid(q), NEW k \in Cases(q)
  PROVE  k.candidate # None => ~Due(k.candidate)
<1>1. CASE Target[q] = "article"
  BY <1>1 DEF Valid, Governed, Cases
<1>2. CASE Target[q] # "article"
  BY <1>2 DEF Cases, Synthetic
<1> QED
  BY <1>1, <1>2

LEMMA ReturnHandsOutNothing ==
  ASSUME EvalInv, NEW w \in Workers, worker[w].stage # "idle", NEW end, Return(w, end)
  PROVE  \A v \in Workers : worker'[v].left \subseteq worker[v].left
  BY Returned, IdleFits

LEMMA TrialsStayRefused ==
  ASSUME HandsOutNothing
  PROVE  Refused
  BY DEF HandsOutNothing, Refused

LEMMA WorkersAreRows ==
  ASSUME EvalInv
  PROVE  worker \in [Workers -> WorkerRow]
  BY DEF EvalInv, RunsInv, RunTables

LEMMA CommitReportRefuses ==
  ASSUME EvalInv, NEW w \in Workers, CommitReport(w)
  PROVE  Refused
<1>1. worker[w].stage = "commit"
  BY DEF CommitReport
<1>2. \A v \in Workers : worker'[v].left \subseteq worker[v].left
  <2>1. Return(w, "done") \/ Return(w, "retry")
    BY DEF CommitReport
  <2> QED
    BY <1>1, <2>1, ReturnHandsOutNothing
<1>3. CASE Holds(w) /\ Complete(worker[w].request, worker[w].report)
  <2>1. trials' = trials \cup TrialsReported(w)
    BY <1>3 DEF CommitReport, TrialsReported, TrialOf
  <2>2. \A t \in TrialsReported(w) : t.case \in Cases(worker[w].request)
    BY <1>1, <1>3, ReportedOnce
  <2>3. Valid(worker[w].request)
    BY <1>3 DEF Complete
  <2>4. \A t \in TrialsReported(w) : t.case.candidate # None => ~Due(t.case.candidate)
    BY <2>2, <2>3, ValidCasesStand
  <2> QED
    BY <1>2, <2>1, <2>4 DEF Refused
<1>4. CASE ~(Holds(w) /\ Complete(worker[w].request, worker[w].report))
  <2>1. trials' = trials
    BY <1>4 DEF CommitReport
  <2> QED
    BY <1>2, <2>1 DEF Refused
<1> QED
  BY <1>3, <1>4

LEMMA LoadContextRefuses ==
  ASSUME EvalInv, NEW w \in Workers, LoadContext(w)
  PROVE  Refused
<1>1. worker[w].stage = "context" /\ trials' = trials
  BY DEF LoadContext
<1>2. worker \in [Workers -> WorkerRow]
  BY WorkersAreRows
<1>3. CASE ~Holds(w)
  <2>1. Return(w, "retry")
    BY <1>3 DEF LoadContext
  <2> QED
    BY <1>1, <2>1, ReturnHandsOutNothing DEF Refused
<1>4. CASE Holds(w) /\ Valid(worker[w].request) /\ Executable(w)
  <2> DEFINE me == Loaded(worker[w], Cases(worker[w].request))
  <2>1. worker' = [worker EXCEPT ![w] = me]
    BY <1>4 DEF LoadContext, Loaded
  <2>2. me.left = Cases(worker[w].request)
    BY <1>2, WorkerFields DEF Loaded
  <2> HIDE DEF me
  <2>3. worker'[w].left = Cases(worker[w].request) /\ \A v \in Workers \ {w} : worker'[v] = worker[v]
    BY <1>2, <2>1, <2>2
  <2>4. \A k \in worker'[w].left : k.candidate # None => ~Due(k.candidate)
    BY <1>4, <2>3, ValidCasesStand
  <2> QED
    BY <1>1, <2>3, <2>4 DEF Refused
<1>5. CASE Holds(w) /\ ~(Valid(worker[w].request) /\ Executable(w))
  <2> DEFINE me == AtStage(worker[w], "fail")
  <2>1. worker' = [worker EXCEPT ![w] = me]
    BY <1>5 DEF LoadContext, AtStage
  <2>2. me.left = worker[w].left
    BY <1>2, StageFits
  <2> HIDE DEF me
  <2>3. \A v \in Workers : worker'[v].left \subseteq worker[v].left
    BY <1>2, <2>1, <2>2
  <2> QED
    BY <1>1, <2>3 DEF Refused
<1> QED
  BY <1>3, <1>4, <1>5

LEMMA ExecutionRefuses ==
  ASSUME EvalInv, NEW w \in Workers,
         \/ HeartbeatFindsLoss(w) \/ Trial(w) \/ EndExecution(w)
         \/ FailClaim(w) \/ CallFails(w) \/ Crash(w)
  PROVE  HandsOutNothing
<1>1. worker \in [Workers -> WorkerRow] /\ worker[w] \in WorkerRow
  BY WorkersAreRows
<1>2. CASE HeartbeatFindsLoss(w)
  <2>1. trials' = trials /\ worker' = [worker EXCEPT ![w] = Aborted(worker[w])]
    BY <1>2 DEF HeartbeatFindsLoss, Aborted
  <2>2. Aborted(worker[w]).left = worker[w].left
    BY <1>1, AbortFits
  <2> QED
    BY <1>1, <2>1, <2>2 DEF HandsOutNothing
<1>3. CASE Trial(w)
  <2>1. PICK me \in WorkerRow, k \in worker[w].left :
           worker' = [worker EXCEPT ![w] = me] /\ TrialOutcome(worker[w], me, k)
    BY <1>3, TrialIs
  <2>2. me.left \subseteq worker[w].left /\ trials' = trials
    BY <1>3, <2>1 DEF Trial, TrialOutcome
  <2> QED
    BY <1>1, <2>1, <2>2 DEF HandsOutNothing
<1>4. CASE EndExecution(w)
  <2>1. trials' = trials /\ worker[w].stage # "idle"
        /\ (Return(w, "retry") \/ worker' = [worker EXCEPT ![w] = AtStage(worker[w], "commit")])
    BY <1>4 DEF EndExecution, AtStage
  <2>2. AtStage(worker[w], "commit").left = worker[w].left
    BY <1>1, StageFits
  <2>3. CASE Return(w, "retry")
    BY <2>1, <2>3, ReturnHandsOutNothing DEF HandsOutNothing
  <2>4. CASE worker' = [worker EXCEPT ![w] = AtStage(worker[w], "commit")]
    BY <1>1, <2>1, <2>2, <2>4 DEF HandsOutNothing
  <2> QED
    BY <2>1, <2>3, <2>4
<1>5. CASE FailClaim(w) \/ CallFails(w)
  <2>1. trials' = trials /\ worker[w].stage # "idle" /\ \E end : Return(w, end)
    BY <1>5 DEF FailClaim, CallFails
  <2> QED
    BY <2>1, ReturnHandsOutNothing DEF HandsOutNothing
<1>6. CASE Crash(w)
  <2>1. trials' = trials /\ worker' = [worker EXCEPT ![w] = Idle]
    BY <1>6 DEF Crash
  <2> QED
    BY <1>1, <2>1, IdleFits DEF HandsOutNothing
<1> QED
  BY <1>2, <1>3, <1>4, <1>5, <1>6

\* A case past its retention is neither handed to an execution nor kept in a report,
\* even when it fell due while its run was queued or running (loadValidatedCases).
THEOREM ExpiredContentIsRefusedHolds == Spec => ExpiredContentIsRefused
<1>1. EvalInv /\ [Next]_vars => [Refused]_vars
  <2> SUFFICES ASSUME EvalInv, Next PROVE Refused
    OBVIOUS
  <2>1. CASE UNCHANGED <<trials, worker>>
    BY <2>1, TrialsStayRefused DEF HandsOutNothing
  <2>2. ASSUME NEW q \in Requests, NEW k \in Synthetic, NEW result \in Results,
               RecordTrial(q, k, result)
        PROVE  Refused
    BY <2>2 DEF RecordTrial, Synthetic, Refused
  <2>3. ASSUME NEW q \in Requests, NEW w \in Workers, Claim(w, q)
        PROVE  Refused
    <3>1. trials' = trials
          /\ worker' = [worker EXCEPT ![w] = Delivered(q, evalRuns[q].attempt + 1, release)]
      BY <2>3 DEF Claim, Delivered
    <3>2. Delivered(q, evalRuns[q].attempt + 1, release).left = {}
      BY DEF Delivered, Idle
    <3> QED
      BY <3>1, <3>2, WorkersAreRows, TrialsStayRefused DEF HandsOutNothing
  <2>4. ASSUME NEW w \in Workers,
               \/ HeartbeatFindsLoss(w) \/ Trial(w) \/ EndExecution(w)
               \/ FailClaim(w) \/ CallFails(w) \/ Crash(w)
        PROVE  Refused
    BY <2>4, ExecutionRefuses, TrialsStayRefused
  <2>5. CASE CurationNext(Referenced) /\ UNCHANGED runVars
    BY <2>1, <2>5 DEF runVars
  <2>6. CASE Deploy \/ RegisterCalibration \/ ApproveCalibration
    BY <2>1, <2>6 DEF Deploy, RegisterCalibration, ApproveCalibration
  <2>7. ASSUME NEW q \in Requests,
               \/ EnqueueRun(q) \/ EnqueueCalibration(q) \/ StartRun(q) \/ FinishInlineRun(q)
               \/ Dispatch(q) \/ Stall(q) \/ LapseLease(q) \/ \E w \in Workers : ClaimNothing(w, q)
        PROVE  Refused
    BY <2>1, <2>7 DEF EnqueueRun, EnqueueCalibration, StartRun, FinishInlineRun, Dispatch, Stall,
                      LapseLease, ClaimNothing
  <2> QED
    BY <2>2, <2>3, <2>4, <2>5, <2>6, <2>7, CommitReportRefuses, LoadContextRefuses DEF Next
<1> QED
  BY <1>1, EvalInvariant, PTL DEF Spec, ExpiredContentIsRefused, Refused
=============================================================================
