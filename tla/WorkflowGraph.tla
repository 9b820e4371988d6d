--------------------------- MODULE WorkflowGraph ---------------------------
(***************************************************************************)
(* The writing graph of packages/workflow-runtime: ten nodes, the edges    *)
(* between them, the interrupt at outline_review, and the retry policy, as *)
(* one executor after another drives it from the checkpoints it finds.     *)
(*                                                                         *)
(* Every call of a node to a model goes through the effect journal under a *)
(* key built from the node's effectScope.  A key that has a row in the     *)
(* journal is never sent again: asking under it throws, and the node takes *)
(* that for a failure of its service.  One step is one execution of a node *)
(* that ends with its state update; an execution that is cut short (crash, *)
(* abort, lost lease) leaves only what it entered in the journal.          *)
(***************************************************************************)
EXTENDS Naturals, Sequences, FiniteSets

CONSTANTS
    MaxChapters,    \* chapters of an outline (6 in schemas.ts)
    Interventions,  \* values of interventionOnOutline
    MaxRevisions,   \* bound: times the user asks for another outline
    MaxMishaps,     \* bound: calls in trouble and executions cut short, together
    MaxCrashes,     \* bound: executions cut short
    CrashChapters   \* bound: an execution is cut short in articles up to this long

ASSUME GraphAssumption ==
    /\ MaxChapters \in Nat \ {0}
    /\ Interventions \in SUBSET BOOLEAN
    /\ {MaxRevisions, MaxMishaps, MaxCrashes, CrashChapters} \subseteq Nat

VARIABLES
    state,      \* WorkflowState, with the node to execute next
    stored,     \* the newest checkpoint in storage
    journal,    \* effect keys that have a row in run_effects
    replies,    \* job_commands: the user's answer to each interrupt, in order
    trouble,    \* history: calls that failed or returned nothing usable
    crashes     \* history: executions cut short

graphVars == <<state, stored, journal, replies, trouble, crashes>>

-----------------------------------------------------------------------------
(* State                                                                   *)

Nodes == {"plan", "outline_review", "revise_outline", "initialize_chapters",
          "coverage", "write", "light_review", "next_chapter", "full_review",
          "export", "end"}
Phases == {"plan", "outline_review", "revise_outline", "write", "review", "export",
           "completed", "failed"}
Verdicts == {"pending", "passed", "failed"}

\* Text is told apart by the write attempt that produced it, 0 for none; lightOf
\* and fullOf are history: the text the last light and full verdict was about.
ChapterState ==
    [text : Nat, covered : BOOLEAN, coverageAttempts : Nat, writeAttempts : Nat,
     attemptInPass : Nat, lightAttempts : Nat, lightRewrites : Nat, fullRewrites : Nat,
     light : Verdicts, needsRewrite : BOOLEAN, review : Verdicts, lightOf : Nat, fullOf : Nat]

\* createChapterState
NewChapterState ==
    [text |-> 0, covered |-> FALSE, coverageAttempts |-> 0, writeAttempts |-> 0,
     attemptInPass |-> 0, lightAttempts |-> 0, lightRewrites |-> 0, fullRewrites |-> 0,
     light |-> "pending", needsRewrite |-> FALSE, review |-> "pending",
     lightOf |-> 0, fullOf |-> 0]

\* outline: its number of chapters; failure: its stage; chapters are counted from 1.
WorkflowState ==
    [node : Nodes, phase : Phases, intervention : BOOLEAN, outline : 0 .. MaxChapters,
     outlineAttempts : Nat, revisions : Nat, revisionAttempts : Nat,
     action : {"none", "confirm", "revise"}, chapters : Seq(ChapterState), current : Nat,
     round : Nat, fullAttempts : Nat,
     warnings : SUBSET ((1 .. MaxChapters) \X {"light", "full"}),
     failure : {"none", "plan", "outline_review", "coverage", "write", "review"}]

\* createWorkflowState
NewState(intervention) ==
    [node |-> "plan", phase |-> "plan", intervention |-> intervention, outline |-> 0,
     outlineAttempts |-> 0, revisions |-> 0, revisionAttempts |-> 0, action |-> "none",
     chapters |-> <<>>, current |-> 1, round |-> 0, fullAttempts |-> 0,
     warnings |-> {}, failure |-> "none"]

GraphInit ==
    /\ state \in {NewState(intervention) : intervention \in Interventions}
    /\ stored = state
    /\ journal = {}
    /\ replies = <<>>
    /\ trouble = 0 /\ crashes = 0

InRange(s) == s.current <= Len(s.chapters)
Current == state.chapters[state.current]

\* replaceChapter of the current chapter
WithChapter(c) == [state EXCEPT !.chapters[state.current] = c]

\* Mutant: the phase says failed, and nothing says why.
FailedSilently(s, stage) == [s EXCEPT !.phase = "failed"]

\* failedUpdate
Failed(s, stage) == [s EXCEPT !.phase = "failed", !.failure = stage]

-----------------------------------------------------------------------------
(* Policy                                                                  *)

\* Mutant: one more attempt.
RetryTwice(attempts) == attempts < 3

\* componentInconclusiveDecision and writerInconclusiveDecision: once more.
Retry(attempts) == attempts < 2

\* fullReviewDecision
FullReviewDecision(failed, round) ==
    IF failed = {} THEN "export"
    ELSE IF round >= 2 THEN "export_with_warnings" ELSE "rewrite"

-----------------------------------------------------------------------------
(* Edges                                                                   *)

EdgeAfterPlan(s) ==
    IF s.outline = 0 THEN "plan"
    ELSE IF s.intervention THEN "outline_review" ELSE "initialize_chapters"

EdgeAfterReview(s) ==
    IF s.action = "revise" THEN "revise_outline" ELSE "initialize_chapters"

\* Mutant: a revised outline is taken as approved.
ReviseOnce(s) == IF s.phase = "revise_outline" THEN "revise_outline" ELSE "initialize_chapters"
EdgeAfterRevise(s) == IF s.phase = "revise_outline" THEN "revise_outline" ELSE "outline_review"

\* Mutant: chapters that passed are written again.
CoverageIgnoresVerdict(s) ==
    IF ~InRange(s) THEN "full_review"
    ELSE IF ~s.chapters[s.current].covered THEN "coverage" ELSE "write"

EdgeAfterCoverage(s) ==
    IF ~InRange(s) THEN "full_review"
    ELSE IF s.chapters[s.current].review = "passed" THEN "next_chapter"
    ELSE IF ~s.chapters[s.current].covered THEN "coverage" ELSE "write"

EdgeAfterWrite(s) ==
    IF s.chapters[s.current].attemptInPass > 0 THEN "write" ELSE "light_review"

\* Mutant: an inconclusive light review is taken for a verdict.
LightReviewOnce(s) == IF s.chapters[s.current].needsRewrite THEN "write" ELSE "next_chapter"

EdgeAfterLight(s) ==
    LET c == s.chapters[s.current] IN
    IF c.needsRewrite THEN "write"
    ELSE IF c.light = "pending" THEN "light_review" ELSE "next_chapter"

EdgeAfterNext(s) == IF InRange(s) THEN "coverage" ELSE "full_review"

EdgeAfterFull(s) ==
    CASE s.phase = "review" -> "full_review"
      [] s.phase = "write"  -> "coverage"
      [] OTHER              -> "export"

\* The update is committed and its conditional edge taken.
Commit(s, next) ==
    /\ state' = [s EXCEPT !.node = IF s.phase = "failed" THEN "end" ELSE next]
    /\ UNCHANGED <<stored, crashes>>

-----------------------------------------------------------------------------
(* Calls                                                                   *)

\* The result of a service call, out of `usable' or "throws" or, if the service
\* can say so itself, "unusable".
Ask(key, result) ==
    IF key \in journal THEN result = "throws" /\ UNCHANGED <<journal, trouble>>
    ELSE /\ journal' = journal \cup {key}
         /\ IF result \in {"throws", "unusable"}
            THEN trouble + crashes < MaxMishaps /\ trouble' = trouble + 1
            ELSE UNCHANGED trouble

\* The effectScope of each node, as the effect key of its model request.
PlanKey(n) == <<"plan", n>>
ReviseKey(n) == <<"outline-revise", n>>
CoverageKey(n) == <<"coverage", state.current, n>>
WriteKey(n) == <<"write", state.current, n>>
LightKey(n) == <<"review", state.current, n>>
FullKey(n) == <<"full-review", n>>

-----------------------------------------------------------------------------
(* Nodes                                                                   *)

Plan ==
    LET n == state.outlineAttempts + 1
        s == [state EXCEPT !.outlineAttempts = n] IN
    /\ state.node = "plan"
    /\ \/ \E outline \in 1 .. MaxChapters :
             /\ Ask(PlanKey(n), "usable")
             /\ LET t == [s EXCEPT !.phase = "plan", !.outline = outline] IN
                Commit(t, EdgeAfterPlan(t))
       \/ \E result \in {"throws", "unusable"} :
             /\ Ask(PlanKey(n), result)
             /\ LET t == [s EXCEPT !.outline = 0] IN
                Commit(IF Retry(n) THEN t ELSE Failed(s, "plan"), EdgeAfterPlan(t))
    /\ UNCHANGED replies

\* The interrupt ended the execution that reached outline_review, with its
\* checkpoint stored.  The user answers, and may edit the outline.
Unanswered(s) == s.node = "outline_review" /\ Len(replies) = s.revisions

Reply(action, outline) ==
    /\ Unanswered(state) /\ stored = state
    /\ action = "revise" => state.revisions < MaxRevisions
    /\ replies' = Append(replies, [action |-> action, outline |-> outline])
    /\ UNCHANGED <<state, stored, journal, trouble, crashes>>

\* outline_review resumed with the reply to its interrupt.
OutlineReview ==
    /\ state.node = "outline_review" /\ ~Unanswered(state)
    /\ LET reply == replies[state.revisions + 1]
           s == [state EXCEPT !.phase = IF reply.action = "revise" THEN "revise_outline"
                                        ELSE "outline_review",
                              !.outline = reply.outline, !.action = reply.action] IN
       Commit(s, EdgeAfterReview(s))
    /\ UNCHANGED <<journal, replies, trouble>>

ReviseOutline ==
    LET n == state.revisionAttempts + 1
        s == [state EXCEPT !.revisionAttempts = n] IN
    /\ state.node = "revise_outline"
    /\ \/ \E outline \in 1 .. MaxChapters :
             /\ Ask(ReviseKey(n), "usable")
             /\ LET t == [s EXCEPT !.phase = "outline_review", !.outline = outline,
                                   !.revisions = @ + 1, !.revisionAttempts = 0,
                                   !.action = "none"] IN
                Commit(t, EdgeAfterRevise(t))
       \/ \E result \in {"throws", "unusable"} :
             /\ Ask(ReviseKey(n), result)
             /\ Commit(IF Retry(n) THEN s ELSE Failed(s, "outline_review"), EdgeAfterRevise(s))
    /\ UNCHANGED replies

InitializeChapters ==
    /\ state.node = "initialize_chapters"
    /\ Commit([state EXCEPT !.phase = "write", !.action = "none", !.current = 1,
                            !.chapters = [i \in 1 .. state.outline |-> NewChapterState]],
              "coverage")
    /\ UNCHANGED <<journal, replies, trouble>>

NeedsCoverage(s) ==
    InRange(s) /\ s.chapters[s.current].review # "passed" /\ ~s.chapters[s.current].covered

\* Mutant: the retry forgets that it is one.
CoverageUncounted(c) == c
CoverageTried(c) == [c EXCEPT !.coverageAttempts = @ + 1]

Coverage ==
    LET n == Current.coverageAttempts + 1
        s == WithChapter(CoverageTried(Current)) IN
    /\ state.node = "coverage"
    /\ \/ /\ ~NeedsCoverage(state)
          /\ Commit([state EXCEPT !.phase = "write"], EdgeAfterCoverage(state))
          /\ UNCHANGED <<journal, trouble>>
       \/ /\ NeedsCoverage(state)
          /\ \/ /\ Ask(CoverageKey(n), "usable")
                /\ Commit(WithChapter([CoverageTried(Current) EXCEPT !.covered = TRUE]), "write")
             \/ \E result \in {"throws", "unusable"} :
                   /\ Ask(CoverageKey(n), result)
                   /\ Commit(IF Retry(n) THEN s ELSE Failed(s, "coverage"), EdgeAfterCoverage(s))
    /\ UNCHANGED replies

\* An unusable result may be of a kind that is not worth a second attempt.
Write ==
    LET n == Current.writeAttempts + 1
        inPass == Current.attemptInPass + 1
        c == [Current EXCEPT !.writeAttempts = n, !.attemptInPass = inPass]
        s == WithChapter(c) IN
    /\ state.node = "write"
    /\ \/ /\ Ask(WriteKey(n), "usable")
          /\ LET t == WithChapter([c EXCEPT !.text = n, !.attemptInPass = 0,
                                            !.lightAttempts = 0, !.light = "pending",
                                            !.needsRewrite = FALSE]) IN
             Commit(t, EdgeAfterWrite(t))
       \/ \E result \in {"throws", "unusable"}, retryable \in BOOLEAN :
             /\ Ask(WriteKey(n), result)
             /\ result = "throws" => retryable
             /\ Commit(IF retryable /\ Retry(inPass) THEN s ELSE Failed(s, "write"),
                       EdgeAfterWrite(s))
    /\ UNCHANGED replies

\* A verdict of light_review: the first `failed' sends the chapter back, the
\* second one becomes a warning.
LightVerdict(c, verdict) ==
    IF verdict = "failed" /\ c.lightRewrites < 1
    THEN WithChapter([c EXCEPT !.light = "failed", !.lightOf = c.text, !.attemptInPass = 0,
                               !.lightRewrites = @ + 1, !.needsRewrite = TRUE])
    ELSE [WithChapter([c EXCEPT !.light = verdict, !.lightOf = c.text, !.needsRewrite = FALSE])
             EXCEPT !.warnings = IF verdict = "failed" THEN @ \cup {<<state.current, "light">>}
                                 ELSE @]

\* A chapter over its word budget is refused without a call.
LightReview ==
    LET n == Current.lightAttempts + 1
        c == [Current EXCEPT !.lightAttempts = n]
        s == WithChapter(c) IN
    /\ state.node = "light_review"
    /\ \/ \E verdict \in {"passed", "failed"} :
             /\ \/ Ask(LightKey(n), "usable")
                \/ verdict = "failed" /\ UNCHANGED <<journal, trouble>>
             /\ LET t == LightVerdict(c, verdict) IN Commit(t, EdgeAfterLight(t))
       \/ \E result \in {"throws", "unusable"} :
             /\ Ask(LightKey(n), result)
             /\ Commit(IF Retry(n) THEN s ELSE Failed(s, "review"), EdgeAfterLight(s))
    /\ UNCHANGED replies

NextChapter ==
    LET s == [state EXCEPT !.current = @ + 1] IN
    /\ state.node = "next_chapter"
    /\ Commit(s, EdgeAfterNext(s))
    /\ UNCHANGED <<journal, replies, trouble>>

SentBack(c) ==
    [c EXCEPT !.light = "pending", !.lightAttempts = 0, !.attemptInPass = 0,
              !.fullRewrites = @ + 1, !.needsRewrite = TRUE]

\* Mutant: the round ends without a warning.
NoWarnings(failed) == {}
FullWarnings(failed) == {<<i, "full">> : i \in failed}

\* The verdicts of full_review: export, one more round for the chapters that
\* failed, or export with warnings.
FullVerdict(failed) ==
    LET round == state.round + 1
        decision == FullReviewDecision(failed, round)
        judged == [i \in DOMAIN state.chapters |->
            [state.chapters[i] EXCEPT !.fullOf = state.chapters[i].text,
                                      !.review = IF i \in failed THEN "failed" ELSE "passed"]]
        s == [state EXCEPT !.round = round, !.fullAttempts = 0] IN
    CASE decision = "export" ->
            [s EXCEPT !.phase = "export", !.chapters = judged]
      [] decision = "export_with_warnings" ->
            [s EXCEPT !.phase = "export", !.chapters = judged,
                      !.warnings = @ \cup FullWarnings(failed)]
      [] decision = "rewrite" ->
            [s EXCEPT !.phase = "write", !.current = 1,
                      !.chapters = [i \in DOMAIN judged |->
                          IF i \in failed THEN SentBack(judged[i]) ELSE judged[i]]]

\* An article over its word budget is refused as a whole without a call.
FullReview ==
    LET n == state.fullAttempts + 1
        s == [state EXCEPT !.phase = "review", !.fullAttempts = n] IN
    /\ state.node = "full_review"
    /\ \/ \E failed \in SUBSET (DOMAIN state.chapters) :
             /\ \/ Ask(FullKey(n), "usable")
                \/ failed = DOMAIN state.chapters /\ UNCHANGED <<journal, trouble>>
             /\ Commit(FullVerdict(failed), EdgeAfterFull(FullVerdict(failed)))
       \/ \E result \in {"throws", "unusable"} :
             /\ Ask(FullKey(n), result)
             /\ Commit(IF Retry(n) THEN s ELSE Failed(s, "review"), EdgeAfterFull(s))
    /\ UNCHANGED replies

Export ==
    /\ state.node = "export"
    /\ Commit([state EXCEPT !.phase = "completed"], "end")
    /\ UNCHANGED <<journal, replies, trouble>>

NodeStep ==
    \/ Plan \/ OutlineReview \/ ReviseOutline \/ InitializeChapters \/ Coverage
    \/ Write \/ LightReview \/ NextChapter \/ FullReview \/ Export

-----------------------------------------------------------------------------
(* Checkpoints                                                             *)

MayBeCutShort ==
    /\ crashes < MaxCrashes /\ trouble + crashes < MaxMishaps
    /\ state.outline <= CrashChapters

\* PostgresSaver.put: checkpoints are written while the graph runs on.  Bound: not
\* when nothing will read them, no crash being left and no interrupt reached.
PutCheckpoint ==
    /\ stored # state
    /\ MayBeCutShort \/ Unanswered(state)
    /\ stored' = state
    /\ UNCHANGED <<state, journal, replies, trouble, crashes>>

\* The model request the next node would make.
NextKey ==
    CASE state.node = "plan"           -> {PlanKey(state.outlineAttempts + 1)}
      [] state.node = "revise_outline" -> {ReviseKey(state.revisionAttempts + 1)}
      [] state.node = "coverage" /\ NeedsCoverage(state)
                                       -> {CoverageKey(Current.coverageAttempts + 1)}
      [] state.node = "write"          -> {WriteKey(Current.writeAttempts + 1)}
      [] state.node = "light_review"   -> {LightKey(Current.lightAttempts + 1)}
      [] state.node = "full_review"    -> {FullKey(state.fullAttempts + 1)}
      [] OTHER                         -> {}

\* The execution is cut short, before or after it has entered its request in the
\* journal; the next one replays from the newest checkpoint.
CutShort ==
    /\ ~Unanswered(state) \/ stored # state
    /\ MayBeCutShort
    /\ crashes' = crashes + 1
    /\ state' = stored
    /\ journal' \in {journal, journal \cup NextKey}
    /\ UNCHANGED <<stored, replies, trouble>>

-----------------------------------------------------------------------------
(* Specification                                                           *)

GraphNext ==
    \/ NodeStep
    \/ \E action \in {"confirm", "revise"}, outline \in 1 .. MaxChapters : Reply(action, outline)
    \/ PutCheckpoint
    \/ CutShort

GraphSpec == GraphInit /\ [][GraphNext]_graphVars

\* A graph that runs executes its next node.  Nobody has to answer an interrupt.
FairGraphSpec == GraphSpec /\ WF_graphVars(NodeStep)

-----------------------------------------------------------------------------
(* Properties                                                              *)

\* WorkflowStateSchema, with its refinements: a state that failed says where, and
\* only such a state does.
GraphTypeOK ==
    /\ {state, stored} \subseteq WorkflowState
    /\ \A s \in {state, stored} :
          /\ s.phase = "failed" <=> s.failure # "none"
          /\ s.chapters # <<>> => s.current \in 1 .. Len(s.chapters) + 1
    /\ replies \in Seq([action : {"confirm", "revise"}, outline : 1 .. MaxChapters])
    /\ trouble + crashes \in 0 .. MaxMishaps /\ crashes \in 0 .. MaxCrashes

\* What is exported has been judged, and as it stands: each chapter has a text,
\* and its last light review and the last full review were about that text.
ExportedIsJudged ==
    state.phase \in {"export", "completed"} =>
        \A i \in DOMAIN state.chapters :
            LET c == state.chapters[i] IN
            /\ c.text > 0
            /\ c.light # "pending" /\ c.lightOf = c.text
            /\ c.review # "pending" /\ c.fullOf = c.text

\* A chapter that passed the full review is not written again, in the rounds that
\* other chapters still need.
AcceptedTextIsKept ==
    [][~CutShort =>
        \A i \in DOMAIN state.chapters :
            state.chapters[i].review = "passed" =>
                state'.chapters[i].text = state.chapters[i].text]_graphVars

\* An article that is completed with a chapter some review still refuses says so,
\* and the chapter had its second chance.
FailuresAreDeclared ==
    state.phase = "completed" =>
        \A i \in DOMAIN state.chapters :
            LET c == state.chapters[i] IN
            /\ c.light = "failed" => c.lightRewrites = 1 /\ <<i, "light">> \in state.warnings
            /\ c.review = "failed" => state.round = 2 /\ <<i, "full">> \in state.warnings

\* The policy bounds the work on a chapter, whatever the reviews say: two write
\* attempts for the first text and for every time it is sent back, and it is sent
\* back once by each kind of review.
EffortIsBounded ==
    /\ state.round <= 2
    /\ \A i \in DOMAIN state.chapters :
          LET c == state.chapters[i] IN
          /\ c.lightRewrites <= 1 /\ c.fullRewrites <= 1
          /\ c.writeAttempts <= 2 * (1 + c.lightRewrites + c.fullRewrites)

\* With intervention, chapters are those of the outline the user confirmed last.
OutlineIsApproved ==
    state.intervention /\ state.chapters # <<>> =>
        /\ replies # <<>>
        /\ LET reply == replies[Len(replies)] IN
           reply.action = "confirm" /\ reply.outline = Len(state.chapters)

\* The state keeps the promises of its columns, whichever nodes were cut short or
\* interrupted: what failed is declared, the outline is the confirmed one, and the
\* retries of every chapter stay within the policy.
GraphIsConsistent == GraphTypeOK /\ FailuresAreDeclared /\ OutlineIsApproved /\ EffortIsBounded

\* The graph always comes to its end or to a question to the user: the cycles of
\* its edges are all bounded.
GraphConcludes == []<>(state.node = "end" \/ Unanswered(state))

\* A review that is never in trouble does not fail the job: graph.ts says that a
\* second refusal becomes a warning.
QualityDoesNotFail == state.failure = "review" => trouble > 0 \/ crashes > 0

\* A planner that is never in trouble serves every revision: graph.ts says that
\* the new outline goes back to the user.
RevisionsAreServed == state.failure = "outline_review" => trouble > 0 \/ crashes > 0
=============================================================================
