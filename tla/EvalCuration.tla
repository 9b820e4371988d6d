---------------------------- MODULE EvalCuration ----------------------------
(***************************************************************************)
(* How finished articles become evaluation cases (packages/db,             *)
(* eval-sampling.ts, eval-candidates.ts, eval-materialization.ts;          *)
(* apps/eval, live-sampler.ts).  A sampler follows the completed runs of a *)
(* workspace under the active version of its policy and leaves pointers to *)
(* their articles; a reviewer approves a pointer, the owner copies approved*)
(* articles into a draft suite and activates it, and everything a candidate*)
(* gave rise to ends with its retention.  The author goes on editing.      *)
(* Every repository call is one transaction.  EvalRuns adds what is done   *)
(* with a suite.                                                           *)
(***************************************************************************)
EXTENDS Integers, FiniteSets, FiniteSetsExt, TLC

CONSTANTS
    Runs,        \* writing runs that will complete, one article each
    Versions,    \* versions of the workspace's sampling policy
    Selects,     \* the runs whose bucket lies under the rate of a version
    Retention,   \* retentionDays of a version
    Reviewers,   \* editors and owners of the workspace
    None,
    SourceBatch, \* sourceBatchSize of a scan
    Horizon,     \* bound: the last instant
    MaxRevision  \* bound: revisions of an article

ASSUME CurationAssumption ==
    /\ IsFiniteSet(Runs) /\ IsFiniteSet(Versions)
    /\ {SourceBatch, Horizon, MaxRevision} \subseteq Nat \ {0}
    /\ None \notin Reviewers
    /\ Selects \in [Versions -> SUBSET Runs] /\ Retention \in [Versions -> 1 .. Horizon]

VARIABLES
    now,
    runs,        \* the run's finished_at, and whether its transaction has committed
    articles,    \* the revision of each article
    policies,    \* eval_sampling_policies, by version
    candidates,  \* eval_candidates, one per run and sampler version
    suite        \* the suite the owner builds, with the cases that remain in it

curationVars == <<now, runs, articles, policies, candidates, suite>>

CandidateIds == Runs \X Versions
RunRow == [stamp : 0 .. Cardinality(Runs), committed : BOOLEAN]
PolicyRow == [status : {"active", "disabled"}, cursor : 0 .. Cardinality(Runs)]
CandidateRow ==
    [status : {"pending_review", "approved", "rejected", "materialized", "expired"},
     revision : 1 .. MaxRevision, until : 1 .. 2 * Horizon, reviewer : Reviewers \cup {None},
     automatic : BOOLEAN]
\* SQL null is neither a policy nor a candidate.
ASSUME NoneIsNoRow == None \notin PolicyRow \cup CandidateRow

\* A case copies the article; the fingerprint of a suite stands for its dataset.
CaseRow == [candidate : CandidateIds, content : 1 .. MaxRevision]
SuiteRow ==
    [status : {"absent", "draft", "active", "archived"},
     dataset : SUBSET CaseRow, cases : SUBSET CaseRow]

CurationInit ==
    /\ now = 0
    /\ runs = [r \in Runs |-> [stamp |-> 0, committed |-> FALSE]]
    /\ articles = [r \in Runs |-> 1]
    /\ policies = [v \in Versions |-> None]
    /\ candidates = [c \in CandidateIds |-> None]
    /\ suite = [status |-> "absent", dataset |-> {}, cases |-> {}]

-----------------------------------------------------------------------------
(* The writing side, as the sampler sees it.                               *)

Tick ==
    /\ now < Horizon
    /\ now' = now + 1
    /\ UNCHANGED <<runs, articles, policies, candidates, suite>>

\* finished_at is taken inside the transaction that completes the run ...
FinishRun(r) ==
    /\ runs[r].stamp = 0
    /\ runs' = [runs EXCEPT ![r].stamp = 1 + Max({runs[q].stamp : q \in Runs})]
    /\ UNCHANGED <<now, articles, policies, candidates, suite>>

\* ... and a scanner sees it when that transaction commits.
CommitRun(r) ==
    /\ runs[r].stamp # 0 /\ ~runs[r].committed
    /\ runs' = [runs EXCEPT ![r].committed = TRUE]
    /\ UNCHANGED <<now, articles, policies, candidates, suite>>

\* The author saves the article, or restores a version of it: mutateCurrent.
EditArticle(r) ==
    /\ runs[r].committed
    /\ articles[r] < MaxRevision
    /\ articles' = [articles EXCEPT ![r] = @ + 1]
    /\ UNCHANGED <<now, runs, policies, candidates, suite>>

-----------------------------------------------------------------------------
(* The policy and its scanner.                                             *)

Active == {v \in Versions : policies[v] # None /\ policies[v].status = "active"}

\* Mutant: the version that was active stays active.
ConfigureAlongside(v) ==
    /\ policies[v] = None
    /\ policies' = [policies EXCEPT ![v] = [status |-> "active", cursor |-> 0]]
    /\ UNCHANGED <<now, runs, articles, candidates, suite>>

\* A version is configured once; configuring it again changes nothing or throws.
\* It takes the place, and the cursor, of the version that was active.
ConfigurePolicy(v) ==
    /\ policies[v] = None
    /\ policies' = [u \in Versions |->
         IF u = v THEN [status |-> "active",
                        cursor |-> Max({0} \cup {policies[a].cursor : a \in Active})]
         ELSE IF u \in Active THEN [policies[u] EXCEPT !.status = "disabled"]
         ELSE policies[u]]
    /\ UNCHANGED <<now, runs, articles, candidates, suite>>

DisablePolicy(v) ==
    /\ v \in Active
    /\ policies' = [policies EXCEPT ![v].status = "disabled"]
    /\ UNCHANGED <<now, runs, articles, candidates, suite>>

\* What a sampled run leaves: a pointer to the revision the sampler saw.
Pointer(r, v, automatic) ==
    [status |-> "pending_review", revision |-> articles[r],
     until |-> now + Retention[v], reviewer |-> None, automatic |-> automatic]

\* The completed runs after the cursor, in the order (finished_at, id).
After(v) == {r \in Runs : runs[r].committed /\ runs[r].stamp > policies[v].cursor}
Scanned(v) == {r \in After(v) : Cardinality({q \in After(v) : runs[q].stamp < runs[r].stamp})
                                    < SourceBatch}
\* An existing candidate that is not the one the policy would have made.
Collides(r, v) ==
    /\ candidates[<<r, v>>] # None
    /\ ~candidates[<<r, v>>].automatic \/ candidates[<<r, v>>].revision # articles[r]

\* scanActivePolicies is one transaction: one collision undoes the whole scan.
ScanActivePolicies(v) ==
    /\ v \in Active
    /\ \A r \in Scanned(v) \cap Selects[v] : ~Collides(r, v)
    /\ Scanned(v) # {}
    /\ candidates' = [c \in CandidateIds |->
         IF c[2] = v /\ c[1] \in Scanned(v) \cap Selects[v] /\ candidates[c] = None
         THEN Pointer(c[1], v, TRUE) ELSE candidates[c]]
    /\ policies' = [policies EXCEPT ![v].cursor = Max({runs[r].stamp : r \in Scanned(v)})]
    /\ UNCHANGED <<now, runs, articles, suite>>

\* A service samples one run with the consent of the user.
SampleCompletedRun(r, v) ==
    /\ runs[r].committed
    /\ r \in Selects[v]
    /\ candidates[<<r, v>>] = None
    /\ candidates' = [candidates EXCEPT ![<<r, v>>] = Pointer(r, v, FALSE)]
    /\ UNCHANGED <<now, runs, articles, policies, suite>>

-----------------------------------------------------------------------------
(* Review, materialization and activation.                                 *)

Due(c) == candidates[c].until <= now

\* A decision on a candidate past its retention expires it instead.
ReviewCandidate(p, c, decision) ==
    /\ candidates[c] # None
    /\ candidates[c].status = "pending_review"
    /\ candidates' = [candidates EXCEPT ![c] =
         IF Due(c) THEN [@ EXCEPT !.status = "expired"]
         ELSE [@ EXCEPT !.status = decision, !.reviewer = p]]
    /\ UNCHANGED <<now, runs, articles, policies, suite>>

\* Mutant: the candidate names an article, whatever it says now.
IsAnyRevision(c) == candidates[c].revision \in 1 .. articles[c[1]]

\* The candidate still points at what the article says.
IsCurrent(c) == articles[c[1]] = candidates[c].revision
Materializable(c) ==
    /\ candidates[c] # None
    /\ candidates[c].status = "approved"
    /\ ~Due(c)
    /\ IsCurrent(c)

\* Only here is the text of an article read and copied.
CaseOf(c) == [candidate |-> c, content |-> articles[c[1]]]

\* materializeApprovedCandidates, by an owner: all the candidates of a command, or none.
Materialize(chosen) ==
    /\ suite.status = "absent"
    /\ chosen # {} /\ \A c \in chosen : Materializable(c)
    /\ LET cases == {CaseOf(c) : c \in chosen} IN
       suite' = [status |-> "draft", dataset |-> cases, cases |-> cases]
    /\ candidates' = [c \in CandidateIds |->
         IF c \in chosen THEN [candidates[c] EXCEPT !.status = "materialized"] ELSE candidates[c]]
    /\ UNCHANGED <<now, runs, articles, policies>>

\* Mutant: the status of a candidate stands for its retention.
GovernedByStatus ==
    /\ suite.cases # {} /\ suite.cases = suite.dataset
    /\ \A k \in suite.cases : candidates[k.candidate].status = "materialized"

\* The cases are those of the suite's fingerprint and every candidate still stands.
Governed ==
    /\ suite.cases # {} /\ suite.cases = suite.dataset
    /\ \A k \in suite.cases :
         candidates[k.candidate].status = "materialized" /\ ~Due(k.candidate)

ActivateMaterializedSuite ==
    /\ suite.status = "draft"
    /\ Governed
    /\ suite' = [suite EXCEPT !.status = "active"]
    /\ UNCHANGED <<now, runs, articles, policies, candidates>>

-----------------------------------------------------------------------------
(* Retention.                                                              *)

Expirable == {c \in CandidateIds :
    /\ candidates[c] # None
    /\ candidates[c].status \in {"pending_review", "approved", "materialized"}
    /\ Due(c)}

\* expireDue, on a batch of due candidates: the suite of a materialized one is
\* archived and its case deleted.  A trial keeps its case (ON DELETE RESTRICT):
\* the transaction fails when `referenced` names a case to delete.
ExpireDue(due, referenced) ==
    /\ due # {} /\ due \subseteq Expirable
    /\ LET gone == {k \in suite.cases : k.candidate \in due} IN
       /\ gone \cap referenced = {}
       /\ suite' = IF gone = {} THEN suite
                   ELSE [suite EXCEPT !.status = "archived", !.cases = @ \ gone]
    /\ candidates' = [c \in CandidateIds |->
         IF c \in due THEN [candidates[c] EXCEPT !.status = "expired"] ELSE candidates[c]]
    /\ UNCHANGED <<now, runs, articles, policies>>

-----------------------------------------------------------------------------
CurationNext(referenced) ==
    \/ Tick
    \/ \E r \in Runs : FinishRun(r) \/ CommitRun(r) \/ EditArticle(r)
    \/ \E v \in Versions : ConfigurePolicy(v) \/ DisablePolicy(v) \/ ScanActivePolicies(v)
    \/ \E r \in Runs, v \in Versions : SampleCompletedRun(r, v)
    \/ \E p \in Reviewers, c \in CandidateIds, decision \in {"approved", "rejected"} :
         ReviewCandidate(p, c, decision)
    \/ \E chosen \in SUBSET CandidateIds : Materialize(chosen)
    \/ ActivateMaterializedSuite
    \/ \E due \in SUBSET Expirable : ExpireDue(due, referenced)

CurationTypeOK ==
    /\ now \in 0 .. Horizon
    /\ runs \in [Runs -> RunRow]
    /\ articles \in [Runs -> 1 .. MaxRevision]
    /\ policies \in [Versions -> PolicyRow \cup {None}]
    /\ candidates \in [CandidateIds -> CandidateRow \cup {None}]
    /\ suite \in SuiteRow
    /\ Cardinality(Active) <= 1
=============================================================================
