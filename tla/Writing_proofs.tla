--------------------------- MODULE Writing_proofs ---------------------------
(***************************************************************************)
(* Theorems about how an article is written.                               *)
(*                                                                         *)
(* The workflow graph, for any number of chapters, mishaps and crashes:    *)
(* every chapter is where the pass over the article says it is, what is    *)
(* exported was judged as it stands, and accepted text is kept.  The heart *)
(* of the invariant is ChapterIsInStep, which says of each chapter, by its *)
(* place before or after the one in hand, which reviews its text has had.  *)
(*                                                                         *)
(* The writing of one chapter, for any tools, limits and budgets and any   *)
(* number of attempts, failures and takeovers: the conversation is one the *)
(* model's protocol allows, the budget is the chapter's, what is cited was *)
(* found, and only an execution that was cut short makes the journal       *)
(* refuse its successor.                                                   *)
(***************************************************************************)
EXTENDS ToolLoop, WorkflowGraph, FiniteSetTheorems, SequenceTheorems, TLAPS

-----------------------------------------------------------------------------
(* The workflow graph.                                                     *)

\* A text that passed its light review, or was refused twice and says so.
Written(s, c, i) ==
    /\ c.text > 0 /\ ~c.needsRewrite
    /\ c.light # "pending" /\ c.lightOf = c.text
    /\ c.light = "failed" => c.lightRewrites = 1 /\ <<i, "light">> \in s.warnings

\* Not written yet, or sent back.
AwaitsText(c) == (c.text = 0 \/ c.needsRewrite) /\ c.review # "passed"

\* A new text that no review has looked at.
Drafted(c) == c.text > 0 /\ ~c.needsRewrite /\ c.light = "pending" /\ c.review # "passed"

\* The chapter has been through this pass over the article, or need not be.
Behind(s, c, i) ==
    i < s.current \/ (i = s.current /\ s.node = "next_chapter") \/ c.review = "passed"

ChapterIsInStep(s, c, i) ==
    IF Behind(s, c, i) THEN Written(s, c, i)
    ELSE IF i = s.current /\ s.node = "light_review" THEN Drafted(c) ELSE AwaitsText(c)

\* A pass costs two write attempts; each kind of review opens one more pass.
EffortIsCounted(s, c) ==
    /\ c.lightRewrites <= 1 /\ c.fullRewrites <= 1 /\ c.fullRewrites <= s.round
    /\ c.attemptInPass <= 2 /\ (s.node # "end" => c.attemptInPass <= 1)
    /\ IF c.text = 0 \/ c.needsRewrite
       THEN c.writeAttempts <= 2 * (c.lightRewrites + c.fullRewrites) + c.attemptInPass
       ELSE c.writeAttempts <= 2 * (1 + c.lightRewrites + c.fullRewrites)

\* The verdict of the last full review is about the chapter as it stands.
Judged(s, c, i) ==
    /\ c.review # "pending" /\ c.fullOf = c.text
    /\ c.review = "failed" => s.round = 2 /\ <<i, "full">> \in s.warnings

ChaptersAreSound(s) ==
    \A i \in DOMAIN s.chapters :
        /\ EffortIsCounted(s, s.chapters[i])
        /\ s.phase # "failed" => ChapterIsInStep(s, s.chapters[i], i)
        /\ s.phase \in {"export", "completed"} => Judged(s, s.chapters[i], i)

\* What the node to execute says of the rest of the state.
NodeIsInStep(s) ==
    /\ s.phase = "failed" => s.node = "end"
    /\ s.phase = "completed" => s.node = "end"
    /\ s.phase = "export" => s.node = "export"
    /\ s.node = "end" => s.phase \in {"failed", "completed"}
    /\ s.phase = "failed" <=> s.failure # "none"
    /\ s.round <= 2
    /\ s.phase \notin {"export", "completed", "failed"} => s.round <= 1
    /\ s.node \in {"plan", "outline_review", "revise_outline", "initialize_chapters"} =>
          s.chapters = <<>>
    /\ s.node \in {"outline_review", "revise_outline", "initialize_chapters"} => s.outline > 0
    /\ s.chapters # <<>> => s.current \in 1 .. Len(s.chapters) + 1 /\ Len(s.chapters) = s.outline
    /\ s.node \in {"coverage", "write", "light_review", "next_chapter"} =>
          s.current \in 1 .. Len(s.chapters)
    /\ s.node \in {"write", "light_review"} => s.chapters[s.current].review # "passed"
    /\ s.node \in {"full_review", "export"} \/ s.phase = "completed" =>
          s.chapters # <<>> /\ s.current = Len(s.chapters) + 1
    /\ s.node = "export" => s.phase = "export"

\* The replies a state has seen, and the one it may be about to see.
RepliesAreInStep(s, rs) ==
    /\ ~s.intervention => s.node \notin {"outline_review", "revise_outline"}
    /\ s.intervention /\ s.node = "plan" => rs = <<>> /\ s.revisions = 0
    /\ s.intervention /\ s.node = "outline_review" =>
          Len(rs) \in {s.revisions, s.revisions + 1}
    /\ s.intervention /\ s.node = "revise_outline" => Len(rs) = s.revisions + 1
    /\ s.intervention /\ (s.chapters # <<>> \/ s.node = "initialize_chapters") =>
          /\ rs # <<>>
          /\ rs[Len(rs)].action = "confirm"
          /\ rs[Len(rs)].outline = s.outline

StateIsSound(s, rs) ==
    s \in WorkflowState /\ NodeIsInStep(s) /\ ChaptersAreSound(s) /\ RepliesAreInStep(s, rs)

Replies == [action : {"confirm", "revise"}, outline : 1 .. MaxChapters]

GraphInv ==
    /\ StateIsSound(state, replies) /\ StateIsSound(stored, replies)
    /\ replies \in Seq(Replies)
    /\ trouble \in Nat /\ crashes \in Nat
    /\ trouble + crashes <= MaxMishaps /\ crashes <= MaxCrashes

-----------------------------------------------------------------------------
(* Fields                                                                  *)

LEMMA HasIntervention ==
  ASSUME NEW s \in WorkflowState
  PROVE  "intervention" \in DOMAIN s
  BY DEF WorkflowState

\* What a commit leaves as the node's update made it.
SameBut(s, t) ==
    /\ t.phase = s.phase /\ t.intervention = s.intervention /\ t.outline = s.outline
    /\ t.revisions = s.revisions /\ t.chapters = s.chapters /\ t.current = s.current
    /\ t.round = s.round /\ t.warnings = s.warnings /\ t.failure = s.failure

LEMMA Committed ==
  ASSUME NEW s \in WorkflowState, s.phase # "failed", NEW next \in Nodes, Commit(s, next)
  PROVE  state' \in WorkflowState /\ state'.node = next /\ SameBut(s, state')
<1>1. state' = [s EXCEPT !.node = next]
  BY DEF Commit
<1>2. state' \in WorkflowState /\ state'.node = next
  BY <1>1 DEF WorkflowState
<1>3. SameBut(s, state')
  BY <1>1 DEF WorkflowState, SameBut
<1> QED
  BY <1>2, <1>3

LEMMA CommittedFailure ==
  ASSUME NEW s \in WorkflowState, NEW stage, NEW next, Commit(Failed(s, stage), next)
  PROVE  state' = [Failed(s, stage) EXCEPT !.node = "end"]
  BY DEF Commit, Failed, WorkflowState

-----------------------------------------------------------------------------
(* One chapter moves on                                                    *)

\* State t is s with chapter c for the current one, at another node and perhaps with
\* more warnings.
ChapterMoved(s, t, c, node) ==
    /\ t \in WorkflowState /\ t.node = node
    /\ t.phase \notin {"failed", "export", "completed"}
    /\ t.intervention = s.intervention /\ t.outline = s.outline
    /\ t.revisions = s.revisions /\ t.current = s.current /\ t.round = s.round
    /\ t.failure = s.failure /\ s.warnings \subseteq t.warnings
    /\ Len(t.chapters) = Len(s.chapters) /\ t.chapters[s.current] = c
    /\ \A i \in 1 .. Len(s.chapters) : i # s.current => t.chapters[i] = s.chapters[i]

\* A chapter put in place of the current one.
LEMMA ChapterPut ==
  ASSUME state \in WorkflowState, state.current \in 1 .. Len(state.chapters),
         state.phase \notin {"failed", "export", "completed"}, NEW c \in ChapterState, NEW node \in Nodes,
         NEW w \in SUBSET ((1 .. MaxChapters) \X {"light", "full"}), state.warnings \subseteq w
  PROVE  /\ ChapterMoved(state, WithChapter(c), c, state.node)
         /\ ChapterMoved(state, [WithChapter(c) EXCEPT !.node = node], c, node)
         /\ ChapterMoved(state, [[WithChapter(c) EXCEPT !.warnings = w] EXCEPT !.node = node],
                         c, node)
         /\ WithChapter(c) \in WorkflowState
         /\ WithChapter(c).phase = state.phase /\ WithChapter(c).current = state.current
         /\ Len(WithChapter(c).chapters) = Len(state.chapters)
         /\ WithChapter(c).chapters[state.current] = c
<1> DEFINE new == [state.chapters EXCEPT ![state.current] = c]
<1>1. new \in Seq(ChapterState) /\ Len(new) = Len(state.chapters) /\ new[state.current] = c
      /\ \A i \in 1 .. Len(state.chapters) : i # state.current => new[i] = state.chapters[i]
  BY DEF WorkflowState
<1>2. WithChapter(c) = [state EXCEPT !.chapters = new]
  BY DEF WithChapter, WorkflowState
<1> HIDE DEF new
<1> QED
  BY <1>1, <1>2 DEF ChapterMoved, WorkflowState

\* What is written stays written, and counted, while other chapters move.
LEMMA OthersStay ==
  ASSUME NEW s, NEW t, NEW c, NEW node, ChaptersAreSound(s), s.phase # "failed",
         s.phase \notin {"export", "completed"}, s.node # "end",
         ChapterMoved(s, t, c, node), node # "end", NEW i \in 1 .. Len(s.chapters), i # s.current
  PROVE  EffortIsCounted(t, t.chapters[i]) /\ ChapterIsInStep(t, t.chapters[i], i)
<1>1. EffortIsCounted(s, s.chapters[i]) /\ ChapterIsInStep(s, s.chapters[i], i)
  BY DEF ChaptersAreSound
<1> QED
  BY <1>1 DEF ChapterMoved, EffortIsCounted, ChapterIsInStep, Behind, Written, AwaitsText, Drafted

\* The chapter in hand moves on to a node of its own loop.
LEMMA ChapterStep ==
  ASSUME NEW rs, NEW s, StateIsSound(s, rs), s.node \in {"coverage", "write", "light_review"},
         NEW node \in {"coverage", "write", "light_review", "next_chapter"},
         NEW t, NEW c, ChapterMoved(s, t, c, node),
         node \in {"write", "light_review"} => c.review # "passed",
         EffortIsCounted(t, c), ChapterIsInStep(t, c, s.current)
  PROVE  StateIsSound(t, rs)
<1>1. s.phase \notin {"failed", "export", "completed"} /\ s.current \in 1 .. Len(s.chapters)
      /\ s.chapters # <<>>
  BY DEF StateIsSound, NodeIsInStep, WorkflowState
<1>2. NodeIsInStep(t)
  BY <1>1 DEF StateIsSound, NodeIsInStep, ChapterMoved, WorkflowState
<1>3. ChaptersAreSound(t)
  <2> SUFFICES ASSUME NEW i \in DOMAIN t.chapters
               PROVE  EffortIsCounted(t, t.chapters[i]) /\ ChapterIsInStep(t, t.chapters[i], i)
    BY <1>1 DEF ChaptersAreSound, ChapterMoved
  <2>1. i \in 1 .. Len(s.chapters)
    BY DEF ChapterMoved, WorkflowState
  <2>2. CASE i = s.current
    BY <2>2 DEF ChapterMoved
  <2>3. CASE i # s.current
    BY <1>1, <2>1, <2>3, OthersStay DEF StateIsSound
  <2> QED
    BY <2>2, <2>3
<1>4. RepliesAreInStep(t, rs)
  BY <1>1 DEF StateIsSound, RepliesAreInStep, ChapterMoved, WorkflowState
<1> QED
  BY <1>2, <1>3, <1>4 DEF StateIsSound, ChapterMoved

\* A state that fails has nothing left to promise but its bounds.
LEMMA StateFails ==
  ASSUME NEW rs, NEW u \in WorkflowState,
         NEW stage \in {"plan", "outline_review", "coverage", "write", "review"},
         u.round <= 2,
         u.chapters # <<>> => u.current \in 1 .. Len(u.chapters) + 1 /\ Len(u.chapters) = u.outline,
         \A i \in DOMAIN u.chapters : EffortIsCounted([u EXCEPT !.node = "end"], u.chapters[i]),
         u.intervention /\ u.chapters # <<>> =>
            rs # <<>> /\ rs[Len(rs)].action = "confirm" /\ rs[Len(rs)].outline = u.outline
  PROVE  StateIsSound([Failed(u, stage) EXCEPT !.node = "end"], rs)
<1> DEFINE t == [Failed(u, stage) EXCEPT !.node = "end"]
<1>1. /\ t \in WorkflowState /\ t.node = "end" /\ t.phase = "failed" /\ t.failure = stage
      /\ t.round = u.round /\ t.chapters = u.chapters /\ t.current = u.current
      /\ t.outline = u.outline /\ t.intervention = u.intervention
  BY DEF Failed, WorkflowState, Nodes, Phases
<1>2. NodeIsInStep(t)
  BY <1>1 DEF NodeIsInStep
<1>3. ChaptersAreSound(t)
  BY <1>1 DEF ChaptersAreSound, EffortIsCounted, WorkflowState
<1>4. RepliesAreInStep(t, rs)
  BY <1>1 DEF RepliesAreInStep
<1> QED
  BY <1>1, <1>2, <1>3, <1>4 DEF StateIsSound

\* There is no chapter yet.
LEMMA EarlyFails ==
  ASSUME NEW rs, NEW u \in WorkflowState, u.chapters = <<>>, u.round <= 2,
         NEW stage \in {"plan", "outline_review"}
  PROVE  StateIsSound([Failed(u, stage) EXCEPT !.node = "end"], rs)
<1>1. \A i \in DOMAIN u.chapters : EffortIsCounted([u EXCEPT !.node = "end"], u.chapters[i])
  OBVIOUS
<1>2. stage \in {"plan", "outline_review", "coverage", "write", "review"}
  OBVIOUS
<1> QED
  BY <1>1, <1>2, StateFails, Zenon

\* The chapter in hand fails.
LEMMA ChapterFails ==
  ASSUME NEW rs, NEW s, StateIsSound(s, rs), s.node \in {"coverage", "write", "light_review"},
         NEW u, NEW c, ChapterMoved(s, u, c, s.node),
         NEW stage \in {"coverage", "write", "review"},
         EffortIsCounted([u EXCEPT !.node = "end"], c)
  PROVE  StateIsSound([Failed(u, stage) EXCEPT !.node = "end"], rs)
<1>1. s.phase \notin {"failed", "export", "completed"} /\ s.current \in 1 .. Len(s.chapters)
      /\ s.chapters # <<>>
  BY DEF StateIsSound, NodeIsInStep, WorkflowState
<1>2. \A i \in DOMAIN u.chapters : EffortIsCounted([u EXCEPT !.node = "end"], u.chapters[i])
  <2> SUFFICES ASSUME NEW i \in DOMAIN u.chapters
               PROVE  EffortIsCounted([u EXCEPT !.node = "end"], u.chapters[i])
    OBVIOUS
  <2>1. i \in 1 .. Len(s.chapters)
    BY DEF ChapterMoved, WorkflowState
  <2>2. CASE i = s.current
    BY <2>2 DEF ChapterMoved
  <2>3. CASE i # s.current
    <3>1. EffortIsCounted(u, u.chapters[i])
      BY <1>1, <2>1, <2>3, OthersStay DEF StateIsSound
    <3> QED
      BY <3>1 DEF EffortIsCounted, ChapterMoved, WorkflowState
  <2> QED
    BY <2>2, <2>3
<1>3. /\ u \in WorkflowState /\ u.round <= 2
      /\ u.chapters # <<>> => u.current \in 1 .. Len(u.chapters) + 1 /\ Len(u.chapters) = u.outline
  BY <1>1 DEF StateIsSound, NodeIsInStep, ChapterMoved
<1>4. u.intervention /\ u.chapters # <<>> =>
         rs # <<>> /\ rs[Len(rs)].action = "confirm" /\ rs[Len(rs)].outline = u.outline
  BY <1>1 DEF StateIsSound, RepliesAreInStep, ChapterMoved
<1>5. stage \in {"plan", "outline_review", "coverage", "write", "review"}
  OBVIOUS
<1> QED
  BY <1>2, <1>3, <1>4, <1>5, StateFails, Zenon

-----------------------------------------------------------------------------
(* The nodes                                                               *)

\* An outline is a number of chapters, and never none.
LEMMA OutlineIsNumber ==
  ASSUME NEW outline \in 1 .. MaxChapters
  PROVE  outline \in 0 .. MaxChapters /\ outline # 0 /\ outline > 0 /\ outline \in Nat
  BY GraphAssumption

LEMMA PlanSound ==
  ASSUME StateIsSound(state, replies), Plan
  PROVE  StateIsSound(state', replies)
<1> DEFINE n == state.outlineAttempts + 1
           s == [state EXCEPT !.outlineAttempts = n]
<1>1. state.node = "plan" /\ state.chapters = <<>> /\ state.phase \notin {"failed", "export", "completed"}
      /\ state \in WorkflowState /\ n \in Nat
  <2>1. state.node = "plan"
    BY DEF Plan
  <2> QED
    BY <2>1 DEF StateIsSound, NodeIsInStep, WorkflowState
<1>s. /\ s \in WorkflowState /\ s.chapters = <<>> /\ s.phase = state.phase /\ s.node = "plan"
      /\ s.round = state.round /\ s.intervention = state.intervention
      /\ s.revisions = state.revisions /\ s.failure = state.failure
  BY <1>1 DEF WorkflowState
<1> HIDE DEF s, n
<1>2. CASE \E outline \in 1 .. MaxChapters :
             LET t == [s EXCEPT !.phase = "plan", !.outline = outline] IN
             Commit(t, EdgeAfterPlan(t))
  <2>1. PICK outline \in 1 .. MaxChapters :
             LET t == [s EXCEPT !.phase = "plan", !.outline = outline] IN
             Commit(t, EdgeAfterPlan(t))
    BY <1>2
  <2> DEFINE t == [s EXCEPT !.phase = "plan", !.outline = outline]
  <2>2. outline \in 0 .. MaxChapters /\ outline # 0 /\ outline > 0
    BY OutlineIsNumber
  <2>3. /\ t \in WorkflowState /\ t.chapters = <<>> /\ t.phase = "plan" /\ t.outline = outline
        /\ t.round = state.round /\ t.intervention = state.intervention
        /\ t.revisions = state.revisions /\ t.failure = state.failure
    BY <1>s, <2>2 DEF WorkflowState, Phases
  <2>4. state' = [t EXCEPT !.node = IF t.phase = "failed" THEN "end" ELSE EdgeAfterPlan(t)]
    BY <2>1 DEF Commit
  <2> HIDE DEF t
  <2>5. EdgeAfterPlan(t) = IF state.intervention THEN "outline_review" ELSE "initialize_chapters"
    <3>1. t.outline # 0 /\ t.intervention = state.intervention
      BY <2>2, <2>3
    <3> QED
      BY <3>1, Zenon DEF EdgeAfterPlan
  <2>6. /\ state' \in WorkflowState /\ state'.chapters = <<>> /\ state'.phase = "plan"
        /\ state'.outline > 0 /\ state'.round = state.round
        /\ state'.intervention = state.intervention
        /\ state'.revisions = state.revisions /\ state'.failure = state.failure
        /\ state'.node = IF state.intervention THEN "outline_review" ELSE "initialize_chapters"
    BY <2>2, <2>3, <2>4, <2>5 DEF WorkflowState, Nodes
  <2> QED
    BY <1>1, <2>6 DEF StateIsSound, NodeIsInStep, RepliesAreInStep, ChaptersAreSound
<1>3. CASE LET t == [s EXCEPT !.outline = 0] IN
           Commit(IF Retry(n) THEN t ELSE Failed(s, "plan"), EdgeAfterPlan(t))
  <2>1. CASE Retry(n)
    <3> DEFINE t == [s EXCEPT !.outline = 0]
    <3>1. /\ t \in WorkflowState /\ t.chapters = <<>> /\ t.phase = state.phase /\ t.outline = 0
          /\ t.round = state.round /\ t.intervention = state.intervention
          /\ t.revisions = state.revisions /\ t.failure = state.failure
      BY <1>s, GraphAssumption DEF WorkflowState
    <3>a. Commit(t, EdgeAfterPlan(t))
      BY <1>3, <2>1
    <3> HIDE DEF t
    <3>b. EdgeAfterPlan(t) = "plan" /\ t.phase # "failed"
      BY <1>1, <3>1 DEF EdgeAfterPlan
    <3>2. state' = [t EXCEPT !.node = "plan"]
      BY <3>a, <3>b DEF Commit
    <3>3. /\ state' \in WorkflowState /\ state'.chapters = <<>> /\ state'.phase = state.phase
          /\ state'.round = state.round /\ state'.intervention = state.intervention
          /\ state'.revisions = state.revisions /\ state'.failure = state.failure
          /\ state'.node = "plan"
      BY <3>1, <3>2 DEF WorkflowState, Nodes
    <3> QED
      BY <1>1, <3>3 DEF StateIsSound, NodeIsInStep, RepliesAreInStep, ChaptersAreSound
  <2>2. CASE ~Retry(n)
    <3>1. state' = [Failed(s, "plan") EXCEPT !.node = "end"]
      BY <1>1, <1>s, <1>3, <2>2 DEF Commit, Failed, WorkflowState
    <3>2. s.round <= 2
      BY <1>1, <1>s DEF StateIsSound, NodeIsInStep
    <3> QED
      BY <1>s, <3>1, <3>2, EarlyFails
  <2> QED
    BY <2>1, <2>2
<1> QED
  BY <1>2, <1>3 DEF Plan, s, n

LEMMA OutlineReviewSound ==
  ASSUME StateIsSound(state, replies), replies \in Seq(Replies), OutlineReview
  PROVE  StateIsSound(state', replies)
<1>1. state.node = "outline_review" /\ ~Unanswered(state)
  BY DEF OutlineReview
<1>2. /\ state \in WorkflowState /\ state.chapters = <<>> /\ state.round \in 0 .. 1
      /\ state.phase \notin {"failed", "export", "completed"} /\ state.failure = "none"
      /\ state.intervention /\ Len(replies) = state.revisions + 1
  BY <1>1 DEF StateIsSound, NodeIsInStep, RepliesAreInStep, Unanswered, WorkflowState
<1> DEFINE reply == replies[state.revisions + 1]
           s == [state EXCEPT !.phase = IF reply.action = "revise" THEN "revise_outline"
                                        ELSE "outline_review",
                              !.outline = reply.outline, !.action = reply.action]
           next == IF reply.action = "revise" THEN "revise_outline" ELSE "initialize_chapters"
<1>3. /\ reply \in Replies /\ reply = replies[Len(replies)] /\ replies # <<>>
      /\ Len(replies) = state.revisions + 1
  BY <1>2 DEF WorkflowState
<1>4. /\ reply.action \in {"confirm", "revise"} /\ reply.outline \in 0 .. MaxChapters
      /\ reply.outline > 0 /\ reply.outline \in Nat
  BY <1>3, OutlineIsNumber DEF Replies
<1>5. Commit(s, EdgeAfterReview(s))
  BY DEF OutlineReview
<1> HIDE DEF reply
<1>6. /\ s \in WorkflowState /\ s.chapters = <<>> /\ s.round = state.round
      /\ s.phase \in {"revise_outline", "outline_review"} /\ s.outline = reply.outline
      /\ s.failure = "none" /\ s.action = reply.action /\ s.revisions = state.revisions
  BY <1>2, <1>4 DEF WorkflowState, Phases
<1>7. s.intervention = state.intervention
  BY <1>2, HasIntervention
<1> HIDE DEF s
<1>8. EdgeAfterReview(s) = next /\ next \in Nodes
  BY <1>6 DEF EdgeAfterReview, Nodes
<1> HIDE DEF next
<1>9. state' \in WorkflowState /\ state'.node = next /\ SameBut(s, state')
  BY <1>5, <1>6, <1>8, Committed
<1>10. next = IF reply.action = "revise" THEN "revise_outline" ELSE "initialize_chapters"
  BY DEF next
<1>11. NodeIsInStep(state')
  BY <1>2, <1>4, <1>6, <1>9, <1>10 DEF NodeIsInStep, SameBut
<1>12. RepliesAreInStep(state', replies)
  BY <1>2, <1>3, <1>4, <1>6, <1>7, <1>9, <1>10 DEF RepliesAreInStep, SameBut
<1>13. ChaptersAreSound(state')
  BY <1>6, <1>9 DEF ChaptersAreSound, SameBut
<1> QED
  BY <1>9, <1>11, <1>12, <1>13 DEF StateIsSound

\* The update of a revised outline.
Revised(s, outline) ==
    [s EXCEPT !.phase = "outline_review", !.outline = outline,
              !.revisions = @ + 1, !.revisionAttempts = 0, !.action = "none"]

LEMMA OutlineRevised ==
  ASSUME NEW s \in WorkflowState, NEW outline \in Nat, outline \in 0 .. MaxChapters
  PROVE  LET t == Revised(s, outline) IN
         /\ t \in WorkflowState /\ t.chapters = s.chapters /\ t.phase = "outline_review"
         /\ t.outline = outline /\ t.round = s.round
         /\ t.revisions = s.revisions + 1 /\ t.failure = s.failure
         /\ t.intervention = s.intervention
<1> DEFINE r == [s EXCEPT !.phase = "outline_review", !.outline = outline]
           q == [r EXCEPT !.revisions = s.revisions + 1]
           p == [q EXCEPT !.revisionAttempts = 0]
           t == [p EXCEPT !.action = "none"]
<1>1. Revised(s, outline) = t
  BY DEF Revised
<1>2. /\ r \in WorkflowState /\ r.chapters = s.chapters /\ r.phase = "outline_review"
      /\ r.outline = outline /\ r.round = s.round /\ r.intervention = s.intervention
      /\ r.failure = s.failure
  BY DEF WorkflowState, Phases
<1>3. s.revisions + 1 \in Nat
  BY DEF WorkflowState
<1> HIDE DEF r
<1>4. /\ q \in WorkflowState /\ q.chapters = s.chapters /\ q.phase = "outline_review"
      /\ q.outline = outline /\ q.round = s.round /\ q.intervention = s.intervention
      /\ q.revisions = s.revisions + 1 /\ q.failure = s.failure
  BY <1>2, <1>3 DEF WorkflowState
<1> HIDE DEF q
<1>5. /\ p \in WorkflowState /\ p.chapters = s.chapters /\ p.phase = "outline_review"
      /\ p.outline = outline /\ p.round = s.round /\ p.intervention = s.intervention
      /\ p.revisions = s.revisions + 1 /\ p.failure = s.failure
  BY <1>4 DEF WorkflowState
<1> HIDE DEF p
<1>6. /\ t \in WorkflowState /\ t.chapters = s.chapters /\ t.phase = "outline_review"
      /\ t.outline = outline /\ t.round = s.round /\ t.intervention = s.intervention
      /\ t.revisions = s.revisions + 1 /\ t.failure = s.failure
  BY <1>5 DEF WorkflowState
<1> HIDE DEF t
<1> QED
  BY <1>1, <1>6

LEMMA ReviseOutlineSound ==
  ASSUME StateIsSound(state, replies), ReviseOutline
  PROVE  StateIsSound(state', replies)
<1> DEFINE n == state.revisionAttempts + 1
           s == [state EXCEPT !.revisionAttempts = n]
<1>1. state.node = "revise_outline"
  BY DEF ReviseOutline
<1>2. /\ state \in WorkflowState /\ state.chapters = <<>> /\ state.round \in 0 .. 1
      /\ state.phase \notin {"failed", "export", "completed"} /\ state.failure = "none"
      /\ state.intervention /\ Len(replies) = state.revisions + 1 /\ n \in Nat
      /\ state.outline > 0
  BY <1>1 DEF StateIsSound, NodeIsInStep, RepliesAreInStep, WorkflowState
<1>3. /\ s \in WorkflowState /\ s.chapters = <<>> /\ s.phase = state.phase
      /\ s.node = "revise_outline" /\ s.round = state.round /\ s.revisions = state.revisions
      /\ s.failure = "none" /\ s.outline = state.outline
      /\ s.intervention = state.intervention
  BY <1>1, <1>2 DEF WorkflowState
<1>4. CASE \E outline \in 1 .. MaxChapters :
             Commit(Revised(s, outline), EdgeAfterRevise(Revised(s, outline)))
  <2>1. PICK outline \in 1 .. MaxChapters :
             Commit(Revised(s, outline), EdgeAfterRevise(Revised(s, outline)))
    BY <1>4
  <2> DEFINE t == Revised(s, outline)
  <2> HIDE DEF s, n
  <2>2. outline \in 0 .. MaxChapters /\ outline > 0 /\ outline \in Nat
    BY OutlineIsNumber
  <2>3. /\ t \in WorkflowState /\ t.chapters = s.chapters /\ t.phase = "outline_review"
        /\ t.outline = outline /\ t.round = s.round
        /\ t.revisions = s.revisions + 1 /\ t.failure = s.failure
        /\ t.intervention = s.intervention
    BY <1>3, <2>2, OutlineRevised
  <2>4. Commit(t, EdgeAfterRevise(t))
    BY <2>1
  <2> HIDE DEF t
  <2>5. EdgeAfterRevise(t) = "outline_review" /\ "outline_review" \in Nodes
    BY <2>3 DEF EdgeAfterRevise, Nodes
  <2>6. state' \in WorkflowState /\ state'.node = "outline_review" /\ SameBut(t, state')
    BY <2>3, <2>4, <2>5, Committed
  <2> QED
    BY <1>2, <1>3, <2>2, <2>3, <2>6
    DEF StateIsSound, NodeIsInStep, RepliesAreInStep, ChaptersAreSound, SameBut
<1>5. CASE Commit(IF Retry(n) THEN s ELSE Failed(s, "outline_review"), EdgeAfterRevise(s))
  <2>1. CASE Retry(n)
    <3>1. EdgeAfterRevise(s) \in {"revise_outline", "outline_review"} \cap Nodes
      BY DEF EdgeAfterRevise, Nodes
    <3>2. Commit(s, EdgeAfterRevise(s))
      BY <1>5, <2>1
    <3> HIDE DEF s, n
    <3>3. /\ state' \in WorkflowState /\ state'.node \in {"revise_outline", "outline_review"}
          /\ SameBut(s, state')
      BY <1>2, <1>3, <3>1, <3>2, Committed
    <3> QED
      BY <1>2, <1>3, <3>3
      DEF StateIsSound, NodeIsInStep, RepliesAreInStep, ChaptersAreSound, SameBut
  <2>2. CASE ~Retry(n)
    <3> HIDE DEF s, n
    <3>1. state' = [Failed(s, "outline_review") EXCEPT !.node = "end"]
      BY <1>3, <1>5, <2>2, CommittedFailure
    <3>2. s.round <= 2
      BY <1>2, <1>3 DEF WorkflowState
    <3> QED
      BY <1>3, <3>1, <3>2, EarlyFails
  <2> QED
    BY <2>1, <2>2
<1> QED
  BY <1>4, <1>5 DEF ReviseOutline, Revised

LEMMA InitializeChaptersSound ==
  ASSUME StateIsSound(state, replies), InitializeChapters
  PROVE  StateIsSound(state', replies)
<1> DEFINE new == [i \in 1 .. state.outline |-> NewChapterState]
           s == [state EXCEPT !.phase = "write", !.action = "none", !.current = 1,
                              !.chapters = new]
<1>1. state.node = "initialize_chapters" /\ Commit(s, "coverage")
  BY DEF InitializeChapters
<1>2. /\ state \in WorkflowState /\ state.round \in 0 .. 1 /\ state.failure = "none"
      /\ state.outline \in Nat /\ state.outline > 0 /\ state.chapters = <<>>
  BY <1>1, GraphAssumption DEF StateIsSound, NodeIsInStep, WorkflowState
<1>3. NewChapterState \in ChapterState
  BY DEF NewChapterState, ChapterState, Verdicts
<1>4. /\ new \in Seq(ChapterState) /\ Len(new) = state.outline /\ new # <<>>
      /\ \A i \in DOMAIN new : new[i] = NewChapterState
  BY <1>2, <1>3
<1> HIDE DEF new
<1>5. /\ s \in WorkflowState /\ s.phase = "write" /\ s.current = 1 /\ s.chapters = new
      /\ s.round = state.round /\ s.failure = "none" /\ s.outline = state.outline
      /\ s.intervention = state.intervention
  BY <1>2, <1>4 DEF WorkflowState, Phases
<1> HIDE DEF s
<1>6. "coverage" \in Nodes
  BY DEF Nodes
<1>7. /\ state' \in WorkflowState /\ state'.phase = "write" /\ state'.current = 1
      /\ state'.chapters = new /\ state'.round = state.round /\ state'.failure = "none"
      /\ state'.outline = state.outline /\ state'.intervention = state.intervention
      /\ state'.node = "coverage" /\ state'.chapters # <<>>
      /\ Len(state'.chapters) = state'.outline
  BY <1>1, <1>4, <1>5, <1>6, Committed DEF SameBut
<1>8. NodeIsInStep(state')
  <2>1. state'.current \in 1 .. state'.outline /\ state'.current \in 1 .. state'.outline + 1
    BY <1>2, <1>7
  <2> QED
    BY <1>2, <1>7, <2>1 DEF NodeIsInStep
<1>9. ChaptersAreSound(state')
  <2> SUFFICES ASSUME NEW i \in DOMAIN new
               PROVE  /\ EffortIsCounted(state', NewChapterState)
                      /\ ChapterIsInStep(state', NewChapterState, i)
    BY <1>4, <1>7 DEF ChaptersAreSound
  <2>1. i >= 1 /\ i \in Nat
    BY <1>4
  <2>2. EffortIsCounted(state', NewChapterState)
    BY <1>2, <1>7 DEF EffortIsCounted, NewChapterState, WorkflowState
  <2>3. ChapterIsInStep(state', NewChapterState, i)
    BY <1>7, <2>1 DEF ChapterIsInStep, Behind, AwaitsText, NewChapterState
  <2> QED
    BY <2>2, <2>3
<1>10. RepliesAreInStep(state', replies)
  <2>1. CASE state.intervention
    <3>1. replies # <<>> /\ replies[Len(replies)].action = "confirm"
          /\ replies[Len(replies)].outline = state.outline
      BY <1>1, <2>1 DEF StateIsSound, RepliesAreInStep
    <3> QED
      BY <1>7, <3>1 DEF RepliesAreInStep
  <2>2. CASE ~state.intervention
    BY <1>7, <2>2 DEF RepliesAreInStep
  <2> QED
    BY <2>1, <2>2
<1> QED
  BY <1>7, <1>8, <1>9, <1>10 DEF StateIsSound

-----------------------------------------------------------------------------
(* The loop of a chapter                                                   *)

\* What the nodes of the loop find.
LEMMA InTheLoop ==
  ASSUME StateIsSound(state, replies),
         state.node \in {"coverage", "write", "light_review", "next_chapter"}
  PROVE  /\ state \in WorkflowState /\ state.phase \notin {"failed", "export", "completed"}
         /\ state.current \in 1 .. Len(state.chapters) /\ state.chapters \in Seq(ChapterState)
         /\ Current \in ChapterState /\ state.round \in 0 .. 1 /\ state.failure = "none"
         /\ EffortIsCounted(state, Current) /\ ChapterIsInStep(state, Current, state.current)
         /\ state.node \in {"write", "light_review"} => Current.review # "passed"
<1>1. /\ state \in WorkflowState /\ state.phase \notin {"failed", "export", "completed"}
      /\ state.current \in 1 .. Len(state.chapters) /\ state.chapters \in Seq(ChapterState)
      /\ state.round \in 0 .. 1 /\ state.failure = "none"
      /\ state.node \in {"write", "light_review"} =>
            state.chapters[state.current].review # "passed"
  BY DEF StateIsSound, NodeIsInStep, WorkflowState
<1>2. state.chapters[state.current] \in ChapterState
  BY <1>1
<1>3. /\ EffortIsCounted(state, state.chapters[state.current])
      /\ ChapterIsInStep(state, state.chapters[state.current], state.current)
  BY <1>1 DEF StateIsSound, ChaptersAreSound
<1> QED
  BY <1>1, <1>2, <1>3 DEF Current

LEMMA ChapterFields ==
  ASSUME NEW c \in ChapterState
  PROVE  DOMAIN c = {"text", "covered", "coverageAttempts", "writeAttempts", "attemptInPass",
                     "lightAttempts", "lightRewrites", "fullRewrites", "light", "needsRewrite",
                     "review", "lightOf", "fullOf"}
  BY DEF ChapterState

\* The fields of a chapter that its soundness is about.
SameChapter(c, d) ==
    /\ d.text = c.text /\ d.attemptInPass = c.attemptInPass
    /\ d.writeAttempts = c.writeAttempts /\ d.lightRewrites = c.lightRewrites
    /\ d.fullRewrites = c.fullRewrites /\ d.light = c.light
    /\ d.needsRewrite = c.needsRewrite /\ d.review = c.review /\ d.lightOf = c.lightOf

\* A node of the loop commits the chapter it worked on.
LEMMA ChapterCommitted ==
  ASSUME StateIsSound(state, replies), state.node \in {"coverage", "write", "light_review"},
         NEW c \in ChapterState, NEW next \in Nodes, Commit(WithChapter(c), next)
  PROVE  ChapterMoved(state, state', c, next)
<1>1. /\ state \in WorkflowState /\ state.phase \notin {"failed", "export", "completed"}
      /\ state.current \in 1 .. Len(state.chapters) /\ state.warnings \subseteq state.warnings
      /\ state.warnings \in SUBSET ((1 .. MaxChapters) \X {"light", "full"})
  BY InTheLoop DEF WorkflowState
<1>2. ChapterMoved(state, [WithChapter(c) EXCEPT !.node = next], c, next)
      /\ WithChapter(c).phase = state.phase
  BY <1>1, ChapterPut
<1>3. state' = [WithChapter(c) EXCEPT !.node = next]
  BY <1>1, <1>2 DEF Commit
<1> QED
  BY <1>2, <1>3

\* The text of a chapter that passed the full review stays.
PassedStay ==
    \A i \in DOMAIN state.chapters :
        state.chapters[i].review = "passed" => state'.chapters[i].text = state.chapters[i].text

LEMMA MovedKeepsText ==
  ASSUME state \in WorkflowState, NEW t, NEW c, NEW node, ChapterMoved(state, t, c, node),
         state'.chapters = t.chapters, Current.review = "passed" => c.text = Current.text
  PROVE  PassedStay
<1> SUFFICES ASSUME NEW i \in DOMAIN state.chapters, state.chapters[i].review = "passed"
             PROVE  t.chapters[i].text = state.chapters[i].text
  BY DEF PassedStay
<1>1. i \in 1 .. Len(state.chapters)
  BY DEF WorkflowState
<1> QED
  BY <1>1 DEF ChapterMoved, Current

\* A node of the loop fails with the chapter it worked on.
LEMMA ChapterCommitsFailure ==
  ASSUME StateIsSound(state, replies), state.node \in {"coverage", "write", "light_review"},
         NEW c \in ChapterState, NEW stage \in {"coverage", "write", "review"}, NEW next,
         Commit(Failed(WithChapter(c), stage), next),
         EffortIsCounted([round |-> state.round, node |-> "end"], c),
         Current.review = "passed" => c.text = Current.text
  PROVE  StateIsSound(state', replies) /\ PassedStay
<1>1. /\ state \in WorkflowState /\ state.phase \notin {"failed", "export", "completed"}
      /\ state.current \in 1 .. Len(state.chapters) /\ state.warnings \subseteq state.warnings
      /\ state.warnings \in SUBSET ((1 .. MaxChapters) \X {"light", "full"})
      /\ state.node \in Nodes
  BY InTheLoop DEF WorkflowState
<1> DEFINE u == WithChapter(c)
<1>2. ChapterMoved(state, u, c, state.node) /\ u \in WorkflowState
  BY <1>1, ChapterPut
<1>3. Commit(Failed(u, stage), next)
  OBVIOUS
<1> HIDE DEF u
<1>4. state' = [Failed(u, stage) EXCEPT !.node = "end"]
  BY <1>2, <1>3, CommittedFailure
<1>5. [u EXCEPT !.node = "end"].round = state.round /\ [u EXCEPT !.node = "end"].node = "end"
  BY <1>2 DEF WorkflowState, ChapterMoved
<1>6. EffortIsCounted([u EXCEPT !.node = "end"], c)
  BY <1>5 DEF EffortIsCounted
<1>7. StateIsSound(state', replies)
  BY <1>2, <1>4, <1>6, ChapterFails
<1>8. state'.chapters = u.chapters
  BY <1>2, <1>4 DEF Failed, WorkflowState
<1> QED
  BY <1>1, <1>2, <1>7, <1>8, MovedKeepsText

LEMMA CoverageFields ==
  ASSUME NEW c \in ChapterState
  PROVE  LET d == CoverageTried(c)
             e == [d EXCEPT !.covered = TRUE] IN
         d \in ChapterState /\ SameChapter(c, d) /\ e \in ChapterState /\ SameChapter(c, e)
<1> DEFINE d == CoverageTried(c)
           e == [d EXCEPT !.covered = TRUE]
<1>1. d \in ChapterState
  BY DEF ChapterState, CoverageTried
<1>2. SameChapter(c, d)
  BY ChapterFields DEF SameChapter, CoverageTried
<1> HIDE DEF d
<1>3. e \in ChapterState
  BY <1>1 DEF ChapterState
<1>4. SameChapter(d, e)
  BY <1>1, ChapterFields DEF SameChapter
<1> HIDE DEF e
<1> QED
  BY <1>1, <1>2, <1>3, <1>4 DEF SameChapter, d, e

LEMMA CoverageSound ==
  ASSUME StateIsSound(state, replies), Coverage
  PROVE  StateIsSound(state', replies) /\ PassedStay
<1> DEFINE d == CoverageTried(Current)
           e == [d EXCEPT !.covered = TRUE]
<1>1. state.node = "coverage"
  BY DEF Coverage
<1>2. /\ state \in WorkflowState /\ state.phase \notin {"failed", "export", "completed"}
      /\ state.current \in 1 .. Len(state.chapters) /\ state.chapters \in Seq(ChapterState)
      /\ Current \in ChapterState /\ state.round \in 0 .. 1
      /\ EffortIsCounted(state, Current) /\ ChapterIsInStep(state, Current, state.current)
  BY <1>1, InTheLoop
<1>3. d \in ChapterState /\ SameChapter(Current, d) /\ e \in ChapterState /\ SameChapter(Current, e)
  BY <1>2, CoverageFields
<1> HIDE DEF d, e
<1>4. CASE ~NeedsCoverage(state) /\ Commit([state EXCEPT !.phase = "write"], EdgeAfterCoverage(state))
  <2> DEFINE s == [state EXCEPT !.phase = "write"]
             next == EdgeAfterCoverage(state)
  <2>1. s \in WorkflowState /\ s.phase = "write" /\ s.chapters = state.chapters
        /\ s.intervention = state.intervention /\ s.outline = state.outline
        /\ s.revisions = state.revisions /\ s.current = state.current /\ s.round = state.round
        /\ s.failure = state.failure /\ s.warnings = state.warnings
    BY <1>2 DEF WorkflowState, Phases
  <2>2. InRange(state)
    BY <1>2 DEF InRange
  <2>3. next = (IF Current.review = "passed" THEN "next_chapter" ELSE "write")
    BY <1>4, <2>2 DEF EdgeAfterCoverage, NeedsCoverage, Current
  <2>4. next \in Nodes /\ next \in {"write", "next_chapter"}
    BY <2>3 DEF Nodes
  <2>5. Commit(s, next)
    BY <1>4
  <2> HIDE DEF s, next
  <2>6. state' \in WorkflowState /\ state'.node = next /\ SameBut(s, state')
    BY <2>1, <2>4, <2>5, Committed
  <2>7. ChapterMoved(state, state', Current, next)
    BY <1>2, <2>1, <2>6 DEF ChapterMoved, SameBut, Current
  <2>8. EffortIsCounted(state', Current)
    BY <1>1, <1>2, <2>4, <2>7 DEF EffortIsCounted, ChapterMoved
  <2>9. ChapterIsInStep(state', Current, state.current)
    BY <1>1, <1>2, <2>3, <2>7 DEF ChapterIsInStep, ChapterMoved, Behind, Written
  <2>10. StateIsSound(state', replies)
    BY <1>1, <2>3, <2>4, <2>7, <2>8, <2>9, ChapterStep
  <2> QED
    BY <1>2, <2>7, <2>10, MovedKeepsText
<1>5. CASE NeedsCoverage(state) /\ Commit(WithChapter(e), "write")
  <2>1. ChapterMoved(state, state', e, "write")
    BY <1>1, <1>3, <1>5, ChapterCommitted DEF Nodes
  <2>2. Current.review # "passed"
    BY <1>5 DEF NeedsCoverage, Current
  <2>3. EffortIsCounted(state', e) /\ ChapterIsInStep(state', e, state.current)
    BY <1>1, <1>2, <1>3, <2>1, <2>2
    DEF EffortIsCounted, ChapterIsInStep, Behind, AwaitsText, ChapterMoved, SameChapter
  <2>4. StateIsSound(state', replies)
    BY <1>1, <1>3, <2>1, <2>2, <2>3, ChapterStep DEF SameChapter
  <2> QED
    BY <1>2, <2>1, <2>2, <2>4, MovedKeepsText
<1>6. CASE /\ NeedsCoverage(state)
           /\ Commit(IF Retry(Current.coverageAttempts + 1) THEN WithChapter(d)
                     ELSE Failed(WithChapter(d), "coverage"), EdgeAfterCoverage(WithChapter(d)))
  <2>1. Current.review # "passed"
    BY <1>6 DEF NeedsCoverage, Current
  <2>2. CASE Retry(Current.coverageAttempts + 1)
    <3> DEFINE next == EdgeAfterCoverage(WithChapter(d))
    <3>1. next \in {"coverage", "write"} /\ next \in Nodes
      <4>1. WithChapter(d).current = state.current
            /\ Len(WithChapter(d).chapters) = Len(state.chapters)
            /\ WithChapter(d).chapters[state.current] = d
        BY <1>2, <1>3, ChapterPut DEF WorkflowState
      <4>2. d.review # "passed"
        BY <1>3, <2>1 DEF SameChapter
      <4> QED
        BY <1>2, <4>1, <4>2 DEF EdgeAfterCoverage, InRange, Nodes
    <3>2. Commit(WithChapter(d), next)
      BY <1>6, <2>2
    <3> HIDE DEF next
    <3>3. ChapterMoved(state, state', d, next)
      BY <1>1, <1>3, <3>1, <3>2, ChapterCommitted
    <3>4. EffortIsCounted(state', d) /\ ChapterIsInStep(state', d, state.current)
      BY <1>1, <1>2, <1>3, <2>1, <3>1, <3>3
      DEF EffortIsCounted, ChapterIsInStep, Behind, AwaitsText, ChapterMoved, SameChapter
    <3>5. StateIsSound(state', replies)
      BY <1>1, <1>3, <2>1, <3>1, <3>3, <3>4, ChapterStep DEF SameChapter
    <3> QED
      BY <1>2, <2>1, <3>3, <3>5, MovedKeepsText
  <2>3. CASE ~Retry(Current.coverageAttempts + 1)
    <3>1. Commit(Failed(WithChapter(d), "coverage"), EdgeAfterCoverage(WithChapter(d)))
      BY <1>6, <2>3
    <3>2. EffortIsCounted([round |-> state.round, node |-> "end"], d)
      BY <1>1, <1>2, <1>3 DEF EffortIsCounted, SameChapter
    <3> QED
      BY <1>1, <1>3, <2>1, <3>1, <3>2, ChapterCommitsFailure
  <2> QED
    BY <2>2, <2>3
<1> QED
  BY <1>4, <1>5, <1>6 DEF Coverage, d, e

\* What a write attempt makes of its chapter, before its result and with a text.
Attempted(c) == [c EXCEPT !.writeAttempts = c.writeAttempts + 1, !.attemptInPass = c.attemptInPass + 1]
Texted(c) == [Attempted(c) EXCEPT !.text = c.writeAttempts + 1, !.attemptInPass = 0,
                              !.lightAttempts = 0, !.light = "pending", !.needsRewrite = FALSE]

LEMMA WriteFields ==
  ASSUME NEW c \in ChapterState
  PROVE  /\ Attempted(c) \in ChapterState
         /\ Attempted(c).text = c.text /\ Attempted(c).writeAttempts = c.writeAttempts + 1
         /\ Attempted(c).attemptInPass = c.attemptInPass + 1
         /\ Attempted(c).lightRewrites = c.lightRewrites /\ Attempted(c).fullRewrites = c.fullRewrites
         /\ Attempted(c).needsRewrite = c.needsRewrite /\ Attempted(c).review = c.review
         /\ Texted(c) \in ChapterState
         /\ Texted(c).text = c.writeAttempts + 1
         /\ Texted(c).writeAttempts = c.writeAttempts + 1 /\ Texted(c).attemptInPass = 0
         /\ Texted(c).lightRewrites = c.lightRewrites /\ Texted(c).fullRewrites = c.fullRewrites
         /\ Texted(c).light = "pending" /\ ~Texted(c).needsRewrite /\ Texted(c).review = c.review
<1>1. c.writeAttempts + 1 \in Nat /\ c.attemptInPass + 1 \in Nat
  BY DEF ChapterState
<1>2. Attempted(c) \in ChapterState
  BY <1>1 DEF ChapterState, Attempted
<1>3. /\ Attempted(c).text = c.text /\ Attempted(c).writeAttempts = c.writeAttempts + 1
      /\ Attempted(c).attemptInPass = c.attemptInPass + 1
      /\ Attempted(c).lightRewrites = c.lightRewrites /\ Attempted(c).fullRewrites = c.fullRewrites
      /\ Attempted(c).needsRewrite = c.needsRewrite /\ Attempted(c).review = c.review
  BY ChapterFields DEF Attempted
<1>4. Texted(c) \in ChapterState
  BY <1>1, <1>2 DEF ChapterState, Verdicts, Texted
<1>5. /\ Texted(c).text = c.writeAttempts + 1
      /\ Texted(c).writeAttempts = Attempted(c).writeAttempts /\ Texted(c).attemptInPass = 0
      /\ Texted(c).lightRewrites = Attempted(c).lightRewrites
      /\ Texted(c).fullRewrites = Attempted(c).fullRewrites
      /\ Texted(c).light = "pending" /\ Texted(c).needsRewrite = FALSE
      /\ Texted(c).review = Attempted(c).review
  BY <1>2, ChapterFields DEF Texted
<1> QED
  BY <1>2, <1>3, <1>4, <1>5

LEMMA WriteSound ==
  ASSUME StateIsSound(state, replies), Write
  PROVE  StateIsSound(state', replies) /\ PassedStay
<1> DEFINE d == Attempted(Current)
           e == Texted(Current)
<1>1. state.node = "write"
  BY DEF Write
<1>2. /\ state \in WorkflowState /\ state.phase \notin {"failed", "export", "completed"}
      /\ state.current \in 1 .. Len(state.chapters) /\ state.chapters \in Seq(ChapterState)
      /\ Current \in ChapterState /\ state.round \in 0 .. 1
      /\ EffortIsCounted(state, Current) /\ ChapterIsInStep(state, Current, state.current)
      /\ Current.review # "passed"
  BY <1>1, InTheLoop
<1>3. /\ d \in ChapterState /\ d.text = Current.text
      /\ d.writeAttempts = Current.writeAttempts + 1 /\ d.attemptInPass = Current.attemptInPass + 1
      /\ d.lightRewrites = Current.lightRewrites /\ d.fullRewrites = Current.fullRewrites
      /\ d.needsRewrite = Current.needsRewrite /\ d.review = Current.review
  BY <1>2, WriteFields
<1>4. /\ e \in ChapterState /\ e.text = Current.writeAttempts + 1
      /\ e.writeAttempts = Current.writeAttempts + 1 /\ e.attemptInPass = 0
      /\ e.lightRewrites = Current.lightRewrites /\ e.fullRewrites = Current.fullRewrites
      /\ e.light = "pending" /\ ~e.needsRewrite /\ e.review = Current.review
  BY <1>2, WriteFields
<1>5. AwaitsText(Current)
  BY <1>1, <1>2 DEF ChapterIsInStep, Behind, WorkflowState
<1>6. /\ Current.writeAttempts \in Nat /\ Current.attemptInPass \in Nat
      /\ Current.lightRewrites \in Nat /\ Current.fullRewrites \in Nat
      /\ Current.attemptInPass <= 1
      /\ Current.writeAttempts <=
            2 * (Current.lightRewrites + Current.fullRewrites) + Current.attemptInPass
      /\ Current.lightRewrites <= 1 /\ Current.fullRewrites <= 1
      /\ Current.fullRewrites <= state.round
  BY <1>1, <1>2, <1>5 DEF EffortIsCounted, AwaitsText, ChapterState
<1> HIDE DEF d, e
<1>7. WithChapter(d).chapters[state.current] = d /\ WithChapter(d).current = state.current
      /\ WithChapter(e).chapters[state.current] = e /\ WithChapter(e).current = state.current
  BY <1>2, <1>3, <1>4, ChapterPut DEF WorkflowState
<1>8. CASE Commit(WithChapter(e), EdgeAfterWrite(WithChapter(e)))
  <2>1. EdgeAfterWrite(WithChapter(e)) = "light_review" /\ "light_review" \in Nodes
    BY <1>4, <1>7 DEF EdgeAfterWrite, Nodes
  <2>2. ChapterMoved(state, state', e, "light_review")
    BY <1>1, <1>4, <1>8, <2>1, ChapterCommitted
  <2>3. EffortIsCounted(state', e)
    <3>1. e.text # 0 /\ e.writeAttempts <= 2 * (1 + e.lightRewrites + e.fullRewrites)
      BY <1>4, <1>6
    <3>2. state'.round = state.round /\ state'.node = "light_review"
      BY <2>2 DEF ChapterMoved
    <3>3. e.lightRewrites <= 1 /\ e.fullRewrites <= 1 /\ e.fullRewrites <= state.round
          /\ e.attemptInPass <= 1 /\ e.attemptInPass <= 2
      BY <1>4, <1>6
    <3> QED
      BY <1>4, <3>1, <3>2, <3>3 DEF EffortIsCounted
  <2>4. ChapterIsInStep(state', e, state.current)
    BY <1>2, <1>4, <1>6, <2>2 DEF ChapterIsInStep, Behind, Drafted, ChapterMoved
  <2>5. StateIsSound(state', replies)
    BY <1>1, <1>2, <1>4, <2>2, <2>3, <2>4, ChapterStep
  <2> QED
    BY <1>2, <2>2, <2>5, MovedKeepsText
<1>9. CASE Commit(WithChapter(d), EdgeAfterWrite(WithChapter(d)))
           /\ Retry(Current.attemptInPass + 1)
  <2>1. EdgeAfterWrite(WithChapter(d)) = "write" /\ "write" \in Nodes
    BY <1>3, <1>6, <1>7 DEF EdgeAfterWrite, Nodes
  <2>2. ChapterMoved(state, state', d, "write")
    BY <1>1, <1>3, <1>9, <2>1, ChapterCommitted
  <2>3. EffortIsCounted(state', d)
    BY <1>2, <1>3, <1>5, <1>6, <1>9, <2>2 DEF EffortIsCounted, ChapterMoved, AwaitsText, Retry
  <2>4. ChapterIsInStep(state', d, state.current)
    BY <1>2, <1>3, <1>5, <2>2 DEF ChapterIsInStep, Behind, AwaitsText, ChapterMoved
  <2>5. StateIsSound(state', replies)
    BY <1>1, <1>2, <1>3, <2>2, <2>3, <2>4, ChapterStep
  <2> QED
    BY <1>2, <2>2, <2>5, MovedKeepsText
<1>10. CASE Commit(Failed(WithChapter(d), "write"), EdgeAfterWrite(WithChapter(d)))
  <2>1. EffortIsCounted([round |-> state.round, node |-> "end"], d)
    BY <1>3, <1>5, <1>6 DEF EffortIsCounted, AwaitsText
  <2> QED
    BY <1>1, <1>2, <1>3, <1>10, <2>1, ChapterCommitsFailure
<1> QED
  <2>1. CASE Commit(WithChapter(Texted(Current)), EdgeAfterWrite(WithChapter(Texted(Current))))
    BY <1>8, <2>1 DEF e
  <2>2. CASE \E retryable \in BOOLEAN :
               Commit(IF retryable /\ Retry(Current.attemptInPass + 1) THEN WithChapter(Attempted(Current))
                      ELSE Failed(WithChapter(Attempted(Current)), "write"),
                      EdgeAfterWrite(WithChapter(Attempted(Current))))
    BY <1>9, <1>10, <2>2 DEF d
  <2> QED
    BY <2>1, <2>2 DEF Write, Attempted, Texted

LEMMA NextChapterSound ==
  ASSUME StateIsSound(state, replies), NextChapter
  PROVE  StateIsSound(state', replies) /\ PassedStay
<1> DEFINE s == [state EXCEPT !.current = @ + 1]
           next == EdgeAfterNext(s)
<1>1. state.node = "next_chapter" /\ Commit(s, next)
  BY DEF NextChapter
<1>2. /\ state \in WorkflowState /\ state.phase \notin {"failed", "export", "completed"}
      /\ state.current \in 1 .. Len(state.chapters) /\ state.chapters \in Seq(ChapterState)
      /\ state.round \in 0 .. 1 /\ state.failure = "none"
  BY <1>1, InTheLoop
<1>3. /\ s \in WorkflowState /\ s.phase = state.phase /\ s.chapters = state.chapters
      /\ s.outline = state.outline /\ s.revisions = state.revisions
      /\ s.current = state.current + 1 /\ s.round = state.round /\ s.failure = state.failure
      /\ s.warnings = state.warnings /\ s.intervention = state.intervention
  BY <1>2 DEF WorkflowState
<1> HIDE DEF s
<1>4. next = (IF state.current + 1 <= Len(state.chapters) THEN "coverage" ELSE "full_review")
  BY <1>3 DEF EdgeAfterNext, InRange
<1>5. next \in Nodes
  BY <1>4 DEF Nodes
<1> HIDE DEF next
<1>6. state' \in WorkflowState /\ state'.node = next /\ SameBut(s, state')
  BY <1>1, <1>2, <1>3, <1>5, Committed
<1>7. /\ state'.phase = state.phase /\ state'.chapters = state.chapters
      /\ state'.outline = state.outline /\ state'.revisions = state.revisions
      /\ state'.current = state.current + 1 /\ state'.round = state.round
      /\ state'.failure = state.failure /\ state'.warnings = state.warnings
      /\ state'.intervention = state.intervention
  BY <1>3, <1>6 DEF SameBut
<1>8. state.chapters # <<>> /\ Len(state.chapters) \in Nat /\ Len(state.chapters) = state.outline
  BY <1>2 DEF StateIsSound, NodeIsInStep
<1>9. NodeIsInStep(state')
  BY <1>2, <1>4, <1>6, <1>7, <1>8 DEF NodeIsInStep
<1>10. ChaptersAreSound(state')
  <2> SUFFICES ASSUME NEW i \in DOMAIN state.chapters
               PROVE  /\ EffortIsCounted(state', state.chapters[i])
                      /\ ChapterIsInStep(state', state.chapters[i], i)
    BY <1>2, <1>7 DEF ChaptersAreSound
  <2>1. i \in Nat /\ EffortIsCounted(state, state.chapters[i])
        /\ ChapterIsInStep(state, state.chapters[i], i)
    BY <1>2 DEF StateIsSound, ChaptersAreSound
  <2>2. EffortIsCounted(state', state.chapters[i])
    BY <1>1, <1>4, <1>6, <1>7, <2>1 DEF EffortIsCounted
  <2>3. ChapterIsInStep(state', state.chapters[i], i)
    BY <1>1, <1>2, <1>4, <1>6, <1>7, <2>1 DEF ChapterIsInStep, Behind, Written
  <2> QED
    BY <2>2, <2>3
<1>11. RepliesAreInStep(state', replies)
  BY <1>1, <1>4, <1>6, <1>7, <1>8 DEF StateIsSound, RepliesAreInStep
<1> QED
  BY <1>6, <1>7, <1>9, <1>10, <1>11 DEF StateIsSound, PassedStay

\* A chapter at its light review: asked, sent back, and done with.
Reviewed(c) == [c EXCEPT !.lightAttempts = c.lightAttempts + 1]
Refused(c) == [Reviewed(c) EXCEPT !.light = "failed", !.lightOf = Reviewed(c).text,
                                  !.attemptInPass = 0, !.lightRewrites = @ + 1,
                                  !.needsRewrite = TRUE]
Settled(c, verdict) == [Reviewed(c) EXCEPT !.light = verdict, !.lightOf = Reviewed(c).text,
                                           !.needsRewrite = FALSE]

LEMMA LightFields ==
  ASSUME NEW c \in ChapterState, NEW verdict \in {"passed", "failed"}
  PROVE  /\ Reviewed(c) \in ChapterState /\ SameChapter(c, Reviewed(c))
         /\ Refused(c) \in ChapterState
         /\ Refused(c).text = c.text /\ Refused(c).writeAttempts = c.writeAttempts
         /\ Refused(c).attemptInPass = 0 /\ Refused(c).lightRewrites = c.lightRewrites + 1
         /\ Refused(c).fullRewrites = c.fullRewrites /\ Refused(c).needsRewrite
         /\ Refused(c).review = c.review
         /\ Settled(c, verdict) \in ChapterState
         /\ Settled(c, verdict).text = c.text
         /\ Settled(c, verdict).writeAttempts = c.writeAttempts
         /\ Settled(c, verdict).attemptInPass = c.attemptInPass
         /\ Settled(c, verdict).lightRewrites = c.lightRewrites
         /\ Settled(c, verdict).fullRewrites = c.fullRewrites
         /\ Settled(c, verdict).light = verdict /\ Settled(c, verdict).lightOf = c.text
         /\ ~Settled(c, verdict).needsRewrite /\ Settled(c, verdict).review = c.review
<1>1. c.lightAttempts + 1 \in Nat /\ c.lightRewrites + 1 \in Nat /\ c.text \in Nat
  BY DEF ChapterState
<1>2. Reviewed(c) \in ChapterState
  BY <1>1 DEF ChapterState, Reviewed
<1>3. SameChapter(c, Reviewed(c))
  BY ChapterFields DEF Reviewed, SameChapter
<1>4. /\ Reviewed(c).text = c.text /\ Reviewed(c).writeAttempts = c.writeAttempts
      /\ Reviewed(c).attemptInPass = c.attemptInPass
      /\ Reviewed(c).lightRewrites = c.lightRewrites
      /\ Reviewed(c).fullRewrites = c.fullRewrites /\ Reviewed(c).review = c.review
  BY <1>3 DEF SameChapter
<1>5. Refused(c) \in ChapterState
  BY <1>1, <1>2, <1>4 DEF ChapterState, Verdicts, Refused
<1>6. /\ Refused(c).text = c.text /\ Refused(c).writeAttempts = c.writeAttempts
      /\ Refused(c).attemptInPass = 0 /\ Refused(c).lightRewrites = c.lightRewrites + 1
      /\ Refused(c).fullRewrites = c.fullRewrites /\ Refused(c).needsRewrite = TRUE
      /\ Refused(c).review = c.review
  BY <1>2, <1>4, ChapterFields DEF Refused
<1>7. Settled(c, verdict) \in ChapterState
  BY <1>1, <1>2, <1>4 DEF ChapterState, Verdicts, Settled
<1>8. /\ Settled(c, verdict).text = c.text
      /\ Settled(c, verdict).writeAttempts = c.writeAttempts
      /\ Settled(c, verdict).attemptInPass = c.attemptInPass
      /\ Settled(c, verdict).lightRewrites = c.lightRewrites
      /\ Settled(c, verdict).fullRewrites = c.fullRewrites
      /\ Settled(c, verdict).light = verdict /\ Settled(c, verdict).lightOf = c.text
      /\ Settled(c, verdict).needsRewrite = FALSE /\ Settled(c, verdict).review = c.review
  BY <1>2, <1>4, ChapterFields DEF Settled
<1> QED
  BY <1>2, <1>3, <1>5, <1>6, <1>7, <1>8

\* The warnings after a verdict that settles the chapter.
Warned(verdict) ==
    IF verdict = "failed" THEN state.warnings \cup {<<state.current, "light">>} ELSE state.warnings

LEMMA LightReviewSound ==
  ASSUME StateIsSound(state, replies), LightReview
  PROVE  StateIsSound(state', replies) /\ PassedStay
<1> DEFINE c == Reviewed(Current)
<1>1. state.node = "light_review"
  BY DEF LightReview
<1>2. /\ state \in WorkflowState /\ state.phase \notin {"failed", "export", "completed"}
      /\ state.current \in 1 .. Len(state.chapters) /\ state.chapters \in Seq(ChapterState)
      /\ Current \in ChapterState /\ state.round \in 0 .. 1
      /\ EffortIsCounted(state, Current) /\ ChapterIsInStep(state, Current, state.current)
      /\ Current.review # "passed"
  BY <1>1, InTheLoop
<1>3. c \in ChapterState /\ SameChapter(Current, c)
  BY <1>2, LightFields
<1>4. Drafted(Current)
  BY <1>1, <1>2 DEF ChapterIsInStep, Behind, WorkflowState
<1>5. /\ Current.writeAttempts \in Nat /\ Current.attemptInPass \in Nat /\ Current.text \in Nat
      /\ Current.lightRewrites \in Nat /\ Current.fullRewrites \in Nat
      /\ Current.text > 0 /\ Current.attemptInPass <= 1
      /\ Current.writeAttempts <= 2 * (1 + Current.lightRewrites + Current.fullRewrites)
      /\ Current.lightRewrites <= 1 /\ Current.fullRewrites <= 1
      /\ Current.fullRewrites <= state.round
  BY <1>1, <1>2, <1>4 DEF EffortIsCounted, Drafted, ChapterState
<1>6. ASSUME NEW verdict \in {"passed", "failed"},
             Commit(LightVerdict(c, verdict), EdgeAfterLight(LightVerdict(c, verdict)))
      PROVE  StateIsSound(state', replies) /\ PassedStay
  <2>1. CASE verdict = "failed" /\ c.lightRewrites < 1
    <3> DEFINE d == Refused(Current)
    <3>1. LightVerdict(c, verdict) = WithChapter(d)
      BY <2>1 DEF LightVerdict, Refused
    <3>2. /\ d \in ChapterState /\ d.text = Current.text
          /\ d.writeAttempts = Current.writeAttempts /\ d.attemptInPass = 0
          /\ d.lightRewrites = Current.lightRewrites + 1
          /\ d.fullRewrites = Current.fullRewrites /\ d.needsRewrite
          /\ d.review = Current.review
      BY <1>2, LightFields
    <3> HIDE DEF d
    <3>3. WithChapter(d).chapters[state.current] = d /\ WithChapter(d).current = state.current
      BY <1>2, <3>2, ChapterPut DEF WorkflowState
    <3>4. EdgeAfterLight(WithChapter(d)) = "write" /\ "write" \in Nodes
      BY <3>2, <3>3 DEF EdgeAfterLight, Nodes
    <3>5. Commit(WithChapter(d), "write")
      BY <1>6, <3>1, <3>4
    <3>6. ChapterMoved(state, state', d, "write")
      BY <1>1, <3>2, <3>4, <3>5, ChapterCommitted
    <3>7. EffortIsCounted(state', d)
      <4>1. state'.round = state.round /\ state'.node = "write"
        BY <3>6 DEF ChapterMoved
      <4>2. /\ d.writeAttempts <= 2 * (d.lightRewrites + d.fullRewrites) + d.attemptInPass
            /\ d.lightRewrites <= 1
        BY <1>3, <1>5, <2>1, <3>2 DEF SameChapter
      <4>3. d.fullRewrites <= 1 /\ d.fullRewrites <= state.round
            /\ d.attemptInPass <= 1 /\ d.attemptInPass <= 2
        BY <1>5, <3>2
      <4> QED
        BY <3>2, <4>1, <4>2, <4>3 DEF EffortIsCounted
    <3>8. ChapterIsInStep(state', d, state.current)
      BY <1>2, <3>2, <3>6 DEF ChapterIsInStep, Behind, AwaitsText, ChapterMoved
    <3>9. StateIsSound(state', replies)
      BY <1>1, <1>2, <3>2, <3>6, <3>7, <3>8, ChapterStep
    <3> QED
      BY <1>2, <3>6, <3>9, MovedKeepsText
  <2>2. CASE ~(verdict = "failed" /\ c.lightRewrites < 1)
    <3> DEFINE d == Settled(Current, verdict)
               w == Warned(verdict)
               u == [WithChapter(d) EXCEPT !.warnings = w]
    <3>1. LightVerdict(c, verdict) = u
      <4>1. WithChapter(d).warnings = state.warnings
        BY <1>2 DEF WithChapter, WorkflowState
      <4> QED
        BY <2>2, <4>1 DEF LightVerdict, Settled, Warned
    <3>2. /\ d \in ChapterState /\ d.text = Current.text
          /\ d.writeAttempts = Current.writeAttempts /\ d.attemptInPass = Current.attemptInPass
          /\ d.lightRewrites = Current.lightRewrites /\ d.fullRewrites = Current.fullRewrites
          /\ d.light = verdict /\ d.lightOf = Current.text
          /\ ~d.needsRewrite /\ d.review = Current.review
      BY <1>2, LightFields
    <3>3. /\ w \in SUBSET ((1 .. MaxChapters) \X {"light", "full"}) /\ state.warnings \subseteq w
          /\ verdict = "failed" => <<state.current, "light">> \in w
      <4>1. state.current \in 1 .. MaxChapters
        BY <1>2, GraphAssumption DEF StateIsSound, NodeIsInStep, WorkflowState
      <4> QED
        BY <1>2, <4>1 DEF Warned, WorkflowState
    <3> HIDE DEF d, w
    <3>4. /\ ChapterMoved(state, [u EXCEPT !.node = "next_chapter"], d, "next_chapter")
          /\ WithChapter(d) \in WorkflowState /\ WithChapter(d).phase = state.phase
          /\ WithChapter(d).chapters[state.current] = d /\ WithChapter(d).current = state.current
      BY <1>2, <3>2, <3>3, ChapterPut DEF Nodes
    <3>5. u.phase = state.phase /\ u.chapters[state.current] = d /\ u.current = state.current
      BY <3>4 DEF WorkflowState
    <3>6. [u EXCEPT !.node = "next_chapter"].warnings = w
      BY <3>4 DEF WorkflowState
    <3> HIDE DEF u
    <3>7. EdgeAfterLight(u) = "next_chapter"
      BY <3>2, <3>5 DEF EdgeAfterLight
    <3>8. state' = [u EXCEPT !.node = "next_chapter"]
      BY <1>2, <1>6, <3>1, <3>5, <3>7 DEF Commit
    <3>9. ChapterMoved(state, state', d, "next_chapter") /\ state'.warnings = w
      BY <3>4, <3>6, <3>8
    <3>10. EffortIsCounted(state', d)
      <4>1. state'.round = state.round /\ state'.node = "next_chapter"
        BY <3>9 DEF ChapterMoved
      <4>2. d.text # 0 /\ d.writeAttempts <= 2 * (1 + d.lightRewrites + d.fullRewrites)
        BY <1>5, <3>2
      <4>3. d.lightRewrites <= 1 /\ d.fullRewrites <= 1 /\ d.fullRewrites <= state.round
            /\ d.attemptInPass <= 1 /\ d.attemptInPass <= 2
        BY <1>5, <3>2
      <4> QED
        BY <3>2, <4>1, <4>2, <4>3 DEF EffortIsCounted
    <3>11. ChapterIsInStep(state', d, state.current)
      <4>1. state'.current = state.current /\ state'.node = "next_chapter"
        BY <3>9 DEF ChapterMoved
      <4>2. d.light = "failed" => d.lightRewrites = 1
        BY <1>3, <1>5, <2>2, <3>2 DEF SameChapter
      <4>3. Written(state', d, state.current)
        BY <1>5, <3>2, <3>3, <3>9, <4>2 DEF Written
      <4> QED
        BY <4>1, <4>3 DEF ChapterIsInStep, Behind
    <3>12. StateIsSound(state', replies)
      BY <1>1, <1>2, <3>9, <3>10, <3>11, ChapterStep
    <3> QED
      BY <1>2, <3>9, <3>12, MovedKeepsText
  <2> QED
    BY <2>1, <2>2
<1>7. CASE Commit(IF Retry(Current.lightAttempts + 1) THEN WithChapter(c)
                  ELSE Failed(WithChapter(c), "review"), EdgeAfterLight(WithChapter(c)))
  <2> HIDE DEF c
  <2>1. CASE Retry(Current.lightAttempts + 1)
    <3>1. WithChapter(c).chapters[state.current] = c /\ WithChapter(c).current = state.current
      BY <1>2, <1>3, ChapterPut DEF WorkflowState
    <3>2. ~c.needsRewrite /\ c.light = "pending" /\ c.text > 0 /\ c.review # "passed"
      BY <1>3, <1>4 DEF Drafted, SameChapter
    <3>3. EdgeAfterLight(WithChapter(c)) = "light_review" /\ "light_review" \in Nodes
      BY <3>1, <3>2 DEF EdgeAfterLight, Nodes
    <3>4. Commit(WithChapter(c), "light_review")
      BY <1>7, <2>1, <3>3
    <3>5. ChapterMoved(state, state', c, "light_review")
      BY <1>1, <1>3, <3>3, <3>4, ChapterCommitted
    <3>6. EffortIsCounted(state', c)
      BY <1>1, <1>2, <1>3, <3>5 DEF EffortIsCounted, ChapterMoved, SameChapter
    <3>7. ChapterIsInStep(state', c, state.current)
      BY <1>2, <3>2, <3>5 DEF ChapterIsInStep, Behind, Drafted, ChapterMoved
    <3>8. StateIsSound(state', replies)
      BY <1>1, <3>2, <3>5, <3>6, <3>7, ChapterStep
    <3> QED
      BY <1>2, <3>5, <3>8, MovedKeepsText
  <2>2. CASE ~Retry(Current.lightAttempts + 1)
    <3>1. Commit(Failed(WithChapter(c), "review"), EdgeAfterLight(WithChapter(c)))
      BY <1>7, <2>2
    <3>2. EffortIsCounted([round |-> state.round, node |-> "end"], c)
      BY <1>1, <1>2, <1>3 DEF EffortIsCounted, SameChapter
    <3> QED
      BY <1>1, <1>2, <1>3, <3>1, <3>2, ChapterCommitsFailure
  <2> QED
    BY <2>1, <2>2
<1> QED
  BY <1>6, <1>7 DEF LightReview, Reviewed

-----------------------------------------------------------------------------
(* The whole article                                                       *)

\* What full_review and export find: every chapter is written.
LEMMA AllWritten ==
  ASSUME StateIsSound(state, replies), state.node \in {"full_review", "export"}
  PROVE  /\ state \in WorkflowState /\ state.chapters \in Seq(ChapterState)
         /\ state.chapters # <<>> /\ state.current = Len(state.chapters) + 1
         /\ Len(state.chapters) = state.outline /\ state.phase \notin {"failed", "completed"}
         /\ state.failure = "none"
         /\ \A i \in DOMAIN state.chapters :
               /\ i \in 1 .. MaxChapters /\ state.chapters[i] \in ChapterState
               /\ EffortIsCounted(state, state.chapters[i])
               /\ Written(state, state.chapters[i], i)
<1>1. /\ state \in WorkflowState /\ state.chapters \in Seq(ChapterState)
      /\ state.chapters # <<>> /\ state.current = Len(state.chapters) + 1
      /\ Len(state.chapters) = state.outline /\ state.phase \notin {"failed", "completed"}
      /\ state.failure = "none" /\ state.outline \in 0 .. MaxChapters
  BY DEF StateIsSound, NodeIsInStep, WorkflowState
<1>2. ASSUME NEW i \in DOMAIN state.chapters
      PROVE  /\ i \in 1 .. MaxChapters /\ state.chapters[i] \in ChapterState
             /\ EffortIsCounted(state, state.chapters[i])
             /\ Written(state, state.chapters[i], i)
  <2>1. i \in 1 .. Len(state.chapters) /\ i \in 1 .. MaxChapters
    BY <1>1, GraphAssumption
  <2>2. ChapterIsInStep(state, state.chapters[i], i) /\ EffortIsCounted(state, state.chapters[i])
    BY <1>1 DEF StateIsSound, ChaptersAreSound
  <2> QED
    BY <1>1, <2>1, <2>2 DEF ChapterIsInStep, Behind
<1> QED
  BY <1>1, <1>2

\* A chapter with its verdict of the full review, and one that is sent back.
Verdict(c, failed, i) ==
    [c EXCEPT !.fullOf = c.text, !.review = IF i \in failed THEN "failed" ELSE "passed"]

LEMMA VerdictFields ==
  ASSUME NEW c \in ChapterState, NEW failed, NEW i
  PROVE  LET d == Verdict(c, failed, i) IN
         /\ d \in ChapterState /\ SentBack(d) \in ChapterState
         /\ d.text = c.text /\ d.attemptInPass = c.attemptInPass
         /\ d.writeAttempts = c.writeAttempts /\ d.lightRewrites = c.lightRewrites
         /\ d.fullRewrites = c.fullRewrites /\ d.light = c.light
         /\ d.needsRewrite = c.needsRewrite /\ d.lightOf = c.lightOf /\ d.fullOf = c.text
         /\ d.review = IF i \in failed THEN "failed" ELSE "passed"
         /\ SentBack(d).text = c.text /\ SentBack(d).attemptInPass = 0
         /\ SentBack(d).writeAttempts = c.writeAttempts
         /\ SentBack(d).lightRewrites = c.lightRewrites
         /\ SentBack(d).fullRewrites = c.fullRewrites + 1
         /\ SentBack(d).needsRewrite
         /\ SentBack(d).review = IF i \in failed THEN "failed" ELSE "passed"
<1> DEFINE d == Verdict(c, failed, i)
           v == IF i \in failed THEN "failed" ELSE "passed"
<1>1. v \in {"failed", "passed"} /\ d = [c EXCEPT !.fullOf = c.text, !.review = v]
  BY DEF Verdict
<1>2. c.text \in Nat
  BY DEF ChapterState
<1> HIDE DEF v, d
<1>3. d \in ChapterState
  BY <1>1, <1>2 DEF ChapterState, Verdicts
<1>4. /\ d.text = c.text /\ d.attemptInPass = c.attemptInPass
      /\ d.writeAttempts = c.writeAttempts /\ d.lightRewrites = c.lightRewrites
      /\ d.fullRewrites = c.fullRewrites /\ d.light = c.light
      /\ d.needsRewrite = c.needsRewrite /\ d.lightOf = c.lightOf /\ d.fullOf = c.text
      /\ d.review = v
  BY <1>1, ChapterFields
<1>5. d.fullRewrites + 1 \in Nat
  BY <1>3 DEF ChapterState
<1>6. SentBack(d) \in ChapterState
  BY <1>3, <1>5 DEF ChapterState, Verdicts, SentBack
<1>7. /\ SentBack(d).text = d.text /\ SentBack(d).attemptInPass = 0
      /\ SentBack(d).writeAttempts = d.writeAttempts
      /\ SentBack(d).lightRewrites = d.lightRewrites
      /\ SentBack(d).fullRewrites = d.fullRewrites + 1
      /\ SentBack(d).needsRewrite = TRUE /\ SentBack(d).review = d.review
  BY <1>3, ChapterFields DEF SentBack
<1> QED
  BY <1>3, <1>4, <1>6, <1>7 DEF v, d

\* The state after a full review, by what it decides.
LEMMA FullVerdictFields ==
  ASSUME state \in WorkflowState, state.round \in 0 .. 1, state.failure = "none",
         NEW failed \in SUBSET (DOMAIN state.chapters),
         \A i \in DOMAIN state.chapters :
            i \in 1 .. MaxChapters /\ state.chapters[i] \in ChapterState
  PROVE  LET t == FullVerdict(failed) IN
         /\ t \in WorkflowState /\ t.outline = state.outline /\ t.failure = "none"
         /\ t.intervention = state.intervention /\ t.revisions = state.revisions
         /\ t.round = state.round + 1 /\ state.warnings \subseteq t.warnings
         /\ DOMAIN t.chapters = DOMAIN state.chapters
         /\ Len(t.chapters) = Len(state.chapters)
         /\ \/ /\ t.phase = "export" /\ t.current = state.current
               /\ \A i \in DOMAIN state.chapters :
                     t.chapters[i] = Verdict(state.chapters[i], failed, i)
               /\ \A i \in failed : t.round = 2 /\ <<i, "full">> \in t.warnings
            \/ /\ t.phase = "write" /\ t.current = 1 /\ t.round = 1
               /\ \A i \in DOMAIN state.chapters :
                     t.chapters[i] = IF i \in failed
                                     THEN SentBack(Verdict(state.chapters[i], failed, i))
                                     ELSE Verdict(state.chapters[i], failed, i)
<1> DEFINE round == state.round + 1
           judged == [i \in DOMAIN state.chapters |-> Verdict(state.chapters[i], failed, i)]
           back == [i \in DOMAIN judged |-> IF i \in failed THEN SentBack(judged[i]) ELSE judged[i]]
           s == [state EXCEPT !.round = round, !.fullAttempts = 0]
           decision == FullReviewDecision(failed, round)
           warned == state.warnings \cup FullWarnings(failed)
<1>1. /\ state.chapters \in Seq(ChapterState) /\ DOMAIN state.chapters = 1 .. Len(state.chapters)
      /\ Len(state.chapters) \in Nat
  BY DEF WorkflowState
<1>2. \A i \in DOMAIN state.chapters :
         /\ Verdict(state.chapters[i], failed, i) \in ChapterState
         /\ SentBack(Verdict(state.chapters[i], failed, i)) \in ChapterState
  BY VerdictFields
<1>3. /\ judged \in Seq(ChapterState) /\ DOMAIN judged = DOMAIN state.chapters
      /\ Len(judged) = Len(state.chapters)
      /\ \A i \in DOMAIN state.chapters : judged[i] = Verdict(state.chapters[i], failed, i)
  BY <1>1, <1>2
<1>4. /\ back \in Seq(ChapterState) /\ DOMAIN back = DOMAIN state.chapters
      /\ Len(back) = Len(state.chapters)
      /\ \A i \in DOMAIN state.chapters :
            back[i] = IF i \in failed THEN SentBack(Verdict(state.chapters[i], failed, i))
                      ELSE Verdict(state.chapters[i], failed, i)
  <2> HIDE DEF judged
  <2> QED
    BY <1>1, <1>2, <1>3
<1>5. warned \in SUBSET ((1 .. MaxChapters) \X {"light", "full"})
      /\ \A i \in failed : <<i, "full">> \in warned
  BY DEF FullWarnings, WorkflowState
<1>6. round \in Nat /\ round \in 1 .. 2
  OBVIOUS
<1>7. FullVerdict(failed) =
        CASE decision = "export" -> [s EXCEPT !.phase = "export", !.chapters = judged]
          [] decision = "export_with_warnings" ->
                [s EXCEPT !.phase = "export", !.chapters = judged,
                          !.warnings = @ \cup FullWarnings(failed)]
          [] decision = "rewrite" ->
                [s EXCEPT !.phase = "write", !.current = 1, !.chapters = back]
  BY DEF FullVerdict, Verdict
<1>8. \/ decision = "export" /\ failed = {}
      \/ decision = "export_with_warnings" /\ round = 2
      \/ decision = "rewrite" /\ round = 1
  BY <1>6 DEF FullReviewDecision
<1> HIDE DEF round, judged, back, warned
<1>9. /\ s \in WorkflowState /\ s.outline = state.outline /\ s.failure = "none"
      /\ s.intervention = state.intervention /\ s.revisions = state.revisions
      /\ s.round = round /\ s.warnings = state.warnings /\ s.current = state.current
      /\ s.chapters = state.chapters
  BY <1>6 DEF WorkflowState
<1> HIDE DEF s
<1>10. CASE decision = "export" /\ failed = {}
  <2> DEFINE t == [s EXCEPT !.phase = "export", !.chapters = judged]
  <2>1. FullVerdict(failed) = t
    BY <1>7, <1>10
  <2>2. /\ t \in WorkflowState /\ t.outline = state.outline /\ t.failure = "none"
        /\ t.intervention = state.intervention /\ t.revisions = state.revisions
        /\ t.round = round /\ t.warnings = state.warnings /\ t.current = state.current
        /\ t.chapters = judged /\ t.phase = "export"
    BY <1>3, <1>9 DEF WorkflowState, Phases
  <2> HIDE DEF t
  <2> QED
    BY <1>3, <1>10, <2>1, <2>2 DEF round
<1>11. CASE decision = "export_with_warnings" /\ round = 2
  <2> DEFINE r == [s EXCEPT !.phase = "export", !.chapters = judged]
             t == [r EXCEPT !.warnings = warned]
  <2>1. FullVerdict(failed) = t
    BY <1>7, <1>9, <1>11 DEF warned
  <2>2. /\ r \in WorkflowState /\ r.outline = state.outline /\ r.failure = "none"
        /\ r.intervention = state.intervention /\ r.revisions = state.revisions
        /\ r.round = round /\ r.current = state.current
        /\ r.chapters = judged /\ r.phase = "export"
    BY <1>3, <1>9 DEF WorkflowState, Phases
  <2> HIDE DEF r
  <2>3. /\ t \in WorkflowState /\ t.outline = state.outline /\ t.failure = "none"
        /\ t.intervention = state.intervention /\ t.revisions = state.revisions
        /\ t.round = round /\ t.warnings = warned /\ t.current = state.current
        /\ t.chapters = judged /\ t.phase = "export"
    BY <1>5, <2>2 DEF WorkflowState
  <2>4. state.warnings \subseteq warned
    BY DEF warned
  <2> HIDE DEF t
  <2> QED
    BY <1>3, <1>5, <1>11, <2>1, <2>3, <2>4 DEF round
<1>12. CASE decision = "rewrite" /\ round = 1
  <2> DEFINE r == [s EXCEPT !.phase = "write", !.current = 1]
             t == [r EXCEPT !.chapters = back]
  <2>1. FullVerdict(failed) = t
    BY <1>7, <1>12
  <2>2. /\ r \in WorkflowState /\ r.outline = state.outline /\ r.failure = "none"
        /\ r.intervention = state.intervention /\ r.revisions = state.revisions
        /\ r.round = round /\ r.current = 1 /\ r.warnings = state.warnings /\ r.phase = "write"
    BY <1>9 DEF WorkflowState, Phases
  <2> HIDE DEF r
  <2>3. /\ t \in WorkflowState /\ t.outline = state.outline /\ t.failure = "none"
        /\ t.intervention = state.intervention /\ t.revisions = state.revisions
        /\ t.round = round /\ t.warnings = state.warnings /\ t.current = 1
        /\ t.chapters = back /\ t.phase = "write"
    BY <1>4, <2>2 DEF WorkflowState
  <2> HIDE DEF t
  <2> QED
    BY <1>4, <1>12, <2>1, <2>3 DEF round
<1> QED
  BY <1>8, <1>10, <1>11, <1>12

\* One chapter in the full review.
LEMMA VerdictSound ==
  ASSUME NEW s, NEW t, NEW c \in ChapterState, NEW i, NEW failed,
         s.round \in 0 .. 1, t.round = s.round + 1, s.warnings \subseteq t.warnings,
         s.node # "end", t.node # "end", Written(s, c, i), EffortIsCounted(s, c)
  PROVE  LET d == Verdict(c, failed, i) IN
         /\ EffortIsCounted(t, d) /\ Written(t, d, i)
         /\ d.fullOf = d.text /\ d.review # "pending"
         /\ d.review = "failed" => i \in failed
         /\ i \notin failed => d.review = "passed"
         /\ i \in failed /\ t.round = 1 => EffortIsCounted(t, SentBack(d)) /\ AwaitsText(SentBack(d))
<1> DEFINE d == Verdict(c, failed, i)
           b == SentBack(d)
<1>1. /\ d.text = c.text /\ d.attemptInPass = c.attemptInPass
      /\ d.writeAttempts = c.writeAttempts /\ d.lightRewrites = c.lightRewrites
      /\ d.fullRewrites = c.fullRewrites /\ d.light = c.light
      /\ d.needsRewrite = c.needsRewrite /\ d.lightOf = c.lightOf /\ d.fullOf = c.text
      /\ d.review = IF i \in failed THEN "failed" ELSE "passed"
      /\ b.text = c.text /\ b.attemptInPass = 0 /\ b.writeAttempts = c.writeAttempts
      /\ b.lightRewrites = c.lightRewrites /\ b.fullRewrites = c.fullRewrites + 1
      /\ b.needsRewrite /\ b.review = IF i \in failed THEN "failed" ELSE "passed"
  BY VerdictFields
<1> HIDE DEF b, d
<1>2. /\ c.writeAttempts \in Nat /\ c.attemptInPass \in Nat /\ c.text \in Nat
      /\ c.lightRewrites \in Nat /\ c.fullRewrites \in Nat
      /\ c.text > 0 /\ c.attemptInPass <= 1
      /\ c.writeAttempts <= 2 * (1 + c.lightRewrites + c.fullRewrites)
      /\ c.lightRewrites <= 1 /\ c.fullRewrites <= 1 /\ c.fullRewrites <= s.round
  BY DEF EffortIsCounted, Written, ChapterState
<1>3. Written(t, d, i)
  BY <1>1 DEF Written
<1>4. EffortIsCounted(t, d)
  BY <1>1, <1>2, <1>3 DEF EffortIsCounted, Written
<1>5. ASSUME i \in failed, t.round = 1
      PROVE  EffortIsCounted(t, b) /\ AwaitsText(b)
  <2>1. b.fullRewrites <= 1 /\ b.fullRewrites <= t.round
    BY <1>1, <1>2, <1>5
  <2>2. b.writeAttempts <= 2 * (b.lightRewrites + b.fullRewrites) + b.attemptInPass
    BY <1>1, <1>2
  <2>3. b.lightRewrites <= 1 /\ b.attemptInPass <= 1 /\ b.attemptInPass <= 2
    BY <1>1, <1>2
  <2>4. EffortIsCounted(t, b)
    BY <1>1, <2>1, <2>2, <2>3 DEF EffortIsCounted
  <2>5. b.review # "passed" /\ b.needsRewrite
    BY <1>1, <1>5
  <2> QED
    BY <2>4, <2>5 DEF AwaitsText
<1> QED
  BY <1>1, <1>3, <1>4, <1>5 DEF b, d

LEMMA FullReviewSound ==
  ASSUME StateIsSound(state, replies), FullReview
  PROVE  StateIsSound(state', replies) /\ PassedStay
<1>1. state.node = "full_review"
  BY DEF FullReview
<1>2. /\ state \in WorkflowState /\ state.chapters \in Seq(ChapterState)
      /\ state.chapters # <<>> /\ state.current = Len(state.chapters) + 1
      /\ Len(state.chapters) = state.outline /\ state.phase \notin {"failed", "export", "completed"}
      /\ state.failure = "none" /\ state.round \in 0 .. 1
      /\ \A i \in DOMAIN state.chapters :
            /\ i \in 1 .. MaxChapters /\ state.chapters[i] \in ChapterState
            /\ EffortIsCounted(state, state.chapters[i])
            /\ Written(state, state.chapters[i], i)
  <2>1. state.phase # "export" /\ state.round \in Nat
    BY <1>1 DEF StateIsSound, NodeIsInStep, WorkflowState
  <2> QED
    BY <1>1, <2>1, AllWritten DEF StateIsSound, NodeIsInStep
<1>3. ASSUME NEW t \in WorkflowState, t.chapters = state.chapters, t.round = state.round,
             t.current = state.current, t.outline = state.outline,
             t.intervention = state.intervention, t.warnings = state.warnings,
             t.failure = "none", t.phase = "review", NEW next, next = "full_review",
             Commit(t, next)
      PROVE  StateIsSound(state', replies)
  <2>1. next \in Nodes
    BY <1>3 DEF Nodes
  <2>2. state' \in WorkflowState /\ state'.node = "full_review" /\ SameBut(t, state')
    BY <1>3, <2>1, Committed
  <2>3. NodeIsInStep(state')
    BY <1>2, <1>3, <2>2 DEF NodeIsInStep, SameBut
  <2>4. ChaptersAreSound(state')
    <3> SUFFICES ASSUME NEW i \in DOMAIN state.chapters
                 PROVE  /\ EffortIsCounted(state', state.chapters[i])
                        /\ ChapterIsInStep(state', state.chapters[i], i)
      BY <1>3, <2>2 DEF ChaptersAreSound, SameBut
    <3>1. EffortIsCounted(state', state.chapters[i])
      BY <1>1, <1>2, <1>3, <2>2 DEF EffortIsCounted, SameBut
    <3>2. i < state'.current
      BY <1>2, <1>3, <2>2 DEF SameBut
    <3>3. Written(state', state.chapters[i], i)
      BY <1>2, <1>3, <2>2 DEF Written, SameBut
    <3> QED
      BY <3>1, <3>2, <3>3 DEF ChapterIsInStep, Behind
  <2>5. RepliesAreInStep(state', replies)
    BY <1>1, <1>2, <1>3, <2>2 DEF StateIsSound, RepliesAreInStep, SameBut
  <2> QED
    BY <2>2, <2>3, <2>4, <2>5 DEF StateIsSound
<1>4. ASSUME NEW failed \in SUBSET (DOMAIN state.chapters),
             Commit(FullVerdict(failed), EdgeAfterFull(FullVerdict(failed)))
      PROVE  StateIsSound(state', replies) /\ PassedStay
  <2> DEFINE t == FullVerdict(failed)
             V(i) == Verdict(state.chapters[i], failed, i)
             next == IF t.phase = "export" THEN "export" ELSE "coverage"
  <2>1. /\ t \in WorkflowState /\ t.outline = state.outline /\ t.failure = "none"
        /\ t.intervention = state.intervention /\ t.revisions = state.revisions
        /\ t.round = state.round + 1 /\ state.warnings \subseteq t.warnings
        /\ DOMAIN t.chapters = DOMAIN state.chapters
        /\ Len(t.chapters) = Len(state.chapters)
        /\ \/ /\ t.phase = "export" /\ t.current = state.current
              /\ \A i \in DOMAIN state.chapters : t.chapters[i] = V(i)
              /\ \A i \in failed : t.round = 2 /\ <<i, "full">> \in t.warnings
           \/ /\ t.phase = "write" /\ t.current = 1 /\ t.round = 1
              /\ \A i \in DOMAIN state.chapters :
                    t.chapters[i] = IF i \in failed THEN SentBack(V(i)) ELSE V(i)
    BY <1>2, FullVerdictFields
  <2>2. Commit(t, EdgeAfterFull(t))
    BY <1>4
  <2> HIDE DEF t
  <2>3. EdgeAfterFull(t) = next /\ next \in Nodes /\ t.phase # "failed"
    BY <2>1 DEF EdgeAfterFull, Nodes
  <2>4. state' \in WorkflowState /\ state'.node = next /\ SameBut(t, state')
    BY <2>1, <2>2, <2>3, Committed
  <2>5. /\ state'.chapters # <<>> /\ Len(state'.chapters) = Len(state.chapters)
        /\ Len(state.chapters) \in Nat /\ Len(state.chapters) > 0
        /\ DOMAIN state'.chapters = DOMAIN state.chapters
    BY <1>2, <2>1, <2>4 DEF SameBut
  <2>6. RepliesAreInStep(state', replies)
    BY <1>1, <1>2, <2>1, <2>4, <2>5 DEF StateIsSound, RepliesAreInStep, SameBut
  <2>7. ASSUME NEW i \in DOMAIN state.chapters
        PROVE  /\ EffortIsCounted(state', V(i)) /\ Written(state', V(i), i)
               /\ V(i).fullOf = V(i).text /\ V(i).review # "pending"
               /\ V(i).review = "failed" => i \in failed
               /\ i \notin failed => V(i).review = "passed"
               /\ i \in failed /\ state'.round = 1 =>
                     EffortIsCounted(state', SentBack(V(i))) /\ AwaitsText(SentBack(V(i)))
    <3>1. /\ state'.round = state.round + 1 /\ state.warnings \subseteq state'.warnings
          /\ state.node # "end" /\ state'.node # "end"
      BY <1>1, <2>1, <2>4 DEF SameBut
    <3>2. state.chapters[i] \in ChapterState /\ EffortIsCounted(state, state.chapters[i])
          /\ Written(state, state.chapters[i], i)
      BY <1>2
    <3> QED
      BY <1>2, <3>1, <3>2, VerdictSound
  <2>8. \A i \in DOMAIN state.chapters :
           /\ V(i).text = state.chapters[i].text /\ SentBack(V(i)).text = state.chapters[i].text
    BY <1>2, VerdictFields
  <2> HIDE DEF V
  <2>9. CASE /\ t.phase = "export" /\ t.current = state.current
             /\ \A i \in DOMAIN state.chapters : t.chapters[i] = V(i)
             /\ \A i \in failed : t.round = 2 /\ <<i, "full">> \in t.warnings
    <3>1. NodeIsInStep(state')
      BY <1>2, <2>1, <2>4, <2>5, <2>9 DEF NodeIsInStep, SameBut
    <3>2. ChaptersAreSound(state')
      <4> SUFFICES ASSUME NEW i \in DOMAIN state.chapters
                   PROVE  /\ EffortIsCounted(state', V(i)) /\ ChapterIsInStep(state', V(i), i)
                          /\ Judged(state', V(i), i)
        BY <2>4, <2>5, <2>9 DEF ChaptersAreSound, SameBut
      <4>1. ChapterIsInStep(state', V(i), i)
        <5>1. i < state'.current
          BY <1>2, <2>4, <2>9 DEF SameBut
        <5> QED
          BY <2>7, <5>1 DEF ChapterIsInStep, Behind
      <4>2. Judged(state', V(i), i)
        BY <2>4, <2>7, <2>9 DEF Judged, SameBut
      <4> QED
        BY <2>7, <4>1, <4>2
    <3>3. PassedStay
      BY <2>4, <2>8, <2>9 DEF PassedStay, SameBut
    <3> QED
      BY <2>4, <2>6, <3>1, <3>2, <3>3 DEF StateIsSound
  <2>10. CASE /\ t.phase = "write" /\ t.current = 1 /\ t.round = 1
              /\ \A i \in DOMAIN state.chapters :
                    t.chapters[i] = IF i \in failed THEN SentBack(V(i)) ELSE V(i)
    <3>1. /\ state'.phase = "write" /\ state'.current = 1 /\ state'.round = 1
          /\ state'.node = "coverage" /\ state'.failure = "none"
          /\ Len(state'.chapters) = state'.outline
          /\ \A i \in DOMAIN state.chapters :
                state'.chapters[i] = IF i \in failed THEN SentBack(V(i)) ELSE V(i)
      BY <1>2, <2>1, <2>4, <2>5, <2>10 DEF SameBut
    <3>2. NodeIsInStep(state')
      <4>1. 1 \in 1 .. Len(state'.chapters) /\ 1 \in 1 .. Len(state'.chapters) + 1
        BY <2>5
      <4> QED
        BY <2>5, <3>1, <4>1 DEF NodeIsInStep
    <3>3. ChaptersAreSound(state')
      <4> SUFFICES ASSUME NEW i \in DOMAIN state.chapters
                   PROVE  /\ EffortIsCounted(state', state'.chapters[i])
                          /\ ChapterIsInStep(state', state'.chapters[i], i)
        BY <2>5, <3>1 DEF ChaptersAreSound
      <4>1. CASE i \in failed
        <5>1. ~(i < state'.current)
          BY <1>2, <3>1
        <5> QED
          BY <2>7, <3>1, <4>1, <5>1 DEF ChapterIsInStep, Behind, AwaitsText
      <4>2. CASE i \notin failed
        BY <2>7, <3>1, <4>2 DEF ChapterIsInStep, Behind
      <4> QED
        BY <4>1, <4>2
    <3>4. PassedStay
      BY <2>8, <3>1 DEF PassedStay
    <3> QED
      BY <2>4, <2>6, <3>2, <3>3, <3>4 DEF StateIsSound
  <2> QED
    BY <2>1, <2>9, <2>10
<1> DEFINE s == [state EXCEPT !.phase = "review", !.fullAttempts = @ + 1]
<1>5. /\ s \in WorkflowState /\ s.chapters = state.chapters /\ s.round = state.round
      /\ s.current = state.current /\ s.outline = state.outline
      /\ s.intervention = state.intervention /\ s.warnings = state.warnings
      /\ s.failure = "none" /\ s.phase = "review"
  <2>1. "intervention" \in DOMAIN state
    BY <1>2, HasIntervention
  <2>2. s.intervention = state.intervention
    BY <2>1
  <2>3. /\ s \in WorkflowState /\ s.chapters = state.chapters /\ s.round = state.round
        /\ s.current = state.current /\ s.outline = state.outline
        /\ s.warnings = state.warnings /\ s.failure = "none" /\ s.phase = "review"
    <3> DEFINE r == [state EXCEPT !.phase = "review"]
    <3>1. s = [r EXCEPT !.fullAttempts = state.fullAttempts + 1] /\ state.fullAttempts + 1 \in Nat
      BY <1>2 DEF WorkflowState
    <3>2. /\ r \in WorkflowState /\ r.chapters = state.chapters /\ r.round = state.round
          /\ r.current = state.current /\ r.outline = state.outline
          /\ r.warnings = state.warnings /\ r.failure = "none" /\ r.phase = "review"
      BY <1>2 DEF WorkflowState, Phases
    <3> HIDE DEF r, s
    <3> QED
      BY <3>1, <3>2 DEF WorkflowState
  <2> QED
    BY <2>2, <2>3
<1>6. CASE Commit(IF Retry(state.fullAttempts + 1) THEN s ELSE Failed(s, "review"), EdgeAfterFull(s))
  <2> HIDE DEF s
  <2>1. CASE Retry(state.fullAttempts + 1)
    <3>1. EdgeAfterFull(s) = "full_review"
      BY <1>5 DEF EdgeAfterFull
    <3>2. Commit(s, "full_review")
      BY <1>6, <2>1, <3>1
    <3>3. StateIsSound(state', replies)
      BY <1>3, <1>5, <3>2
    <3>4. state'.chapters = state.chapters
      BY <1>5, <3>2, Committed DEF Nodes, SameBut
    <3> QED
      BY <3>3, <3>4 DEF PassedStay
  <2>2. CASE ~Retry(state.fullAttempts + 1)
    <3>1. Commit(Failed(s, "review"), EdgeAfterFull(s))
      BY <1>6, <2>2
    <3>2. state' = [Failed(s, "review") EXCEPT !.node = "end"]
      BY <1>5, <3>1, CommittedFailure
    <3>3. s.round <= 2
      BY <1>2, <1>5
    <3>4. s.chapters # <<>> =>
             s.current \in 1 .. Len(s.chapters) + 1 /\ Len(s.chapters) = s.outline
      BY <1>2, <1>5
    <3>5. \A i \in DOMAIN s.chapters :
             EffortIsCounted([s EXCEPT !.node = "end"], s.chapters[i])
      <4> SUFFICES ASSUME NEW i \in DOMAIN state.chapters
                   PROVE  EffortIsCounted([s EXCEPT !.node = "end"], state.chapters[i])
        BY <1>5
      <4>1. [s EXCEPT !.node = "end"].round = state.round
            /\ [s EXCEPT !.node = "end"].node = "end"
        BY <1>5 DEF WorkflowState
      <4> QED
        BY <1>2, <4>1 DEF EffortIsCounted
    <3>6. s.intervention /\ s.chapters # <<>> =>
             replies # <<>> /\ replies[Len(replies)].action = "confirm"
             /\ replies[Len(replies)].outline = s.outline
      BY <1>2, <1>5 DEF StateIsSound, RepliesAreInStep
    <3>7. StateIsSound(state', replies)
      BY <1>5, <3>2, <3>3, <3>4, <3>5, <3>6, StateFails
    <3>8. state'.chapters = state.chapters
      BY <1>5, <3>2 DEF Failed, WorkflowState
    <3> QED
      BY <3>7, <3>8 DEF PassedStay
  <2> QED
    BY <2>1, <2>2
<1> QED
  <2>1. s = [state EXCEPT !.phase = "review", !.fullAttempts = state.fullAttempts + 1]
    BY <1>2 DEF WorkflowState
  <2> HIDE DEF s
  <2>2. CASE \E failed \in SUBSET (DOMAIN state.chapters) :
               Commit(FullVerdict(failed), EdgeAfterFull(FullVerdict(failed)))
    BY <1>4, <2>2
  <2>3. CASE Commit(IF Retry(state.fullAttempts + 1) THEN s ELSE Failed(s, "review"),
                    EdgeAfterFull(s))
    BY <1>6, <2>3
  <2> QED
    BY <2>1, <2>2, <2>3 DEF FullReview

LEMMA ExportSound ==
  ASSUME StateIsSound(state, replies), Export
  PROVE  StateIsSound(state', replies) /\ PassedStay
<1> DEFINE s == [state EXCEPT !.phase = "completed"]
<1>1. state.node = "export" /\ Commit(s, "end")
  BY DEF Export
<1>2. /\ state \in WorkflowState /\ state.chapters \in Seq(ChapterState)
      /\ state.chapters # <<>> /\ state.current = Len(state.chapters) + 1
      /\ Len(state.chapters) = state.outline /\ state.phase = "export" /\ state.failure = "none"
      /\ \A i \in DOMAIN state.chapters :
            /\ EffortIsCounted(state, state.chapters[i])
            /\ Written(state, state.chapters[i], i)
  <2>1. state.phase = "export"
    BY <1>1 DEF StateIsSound, NodeIsInStep
  <2> QED
    BY <1>1, <2>1, AllWritten
<1>3. /\ s \in WorkflowState /\ s.phase = "completed" /\ s.chapters = state.chapters
      /\ s.current = state.current /\ s.round = state.round /\ s.warnings = state.warnings
      /\ s.outline = state.outline /\ s.failure = "none"
      /\ s.intervention = state.intervention
  BY <1>2 DEF WorkflowState, Phases
<1> HIDE DEF s
<1>4. "end" \in Nodes
  BY DEF Nodes
<1>5. state' \in WorkflowState /\ state'.node = "end" /\ SameBut(s, state')
  BY <1>1, <1>3, <1>4, Committed
<1>6. /\ state'.phase = "completed" /\ state'.chapters = state.chapters
      /\ state'.current = state.current /\ state'.round = state.round
      /\ state'.warnings = state.warnings /\ state'.outline = state.outline
      /\ state'.failure = "none" /\ state'.intervention = state.intervention
  BY <1>3, <1>5 DEF SameBut
<1>7. NodeIsInStep(state')
  BY <1>2, <1>5, <1>6 DEF StateIsSound, NodeIsInStep
<1>8. ChaptersAreSound(state')
  <2> SUFFICES ASSUME NEW i \in DOMAIN state.chapters
               PROVE  /\ EffortIsCounted(state', state.chapters[i])
                      /\ ChapterIsInStep(state', state.chapters[i], i)
                      /\ Judged(state', state.chapters[i], i)
    BY <1>6 DEF ChaptersAreSound
  <2>1. EffortIsCounted(state', state.chapters[i])
    <3>1. EffortIsCounted(state, state.chapters[i]) /\ state.chapters[i].attemptInPass \in Nat
      <4>1. state.chapters[i] \in ChapterState
        BY <1>2
      <4> QED
        BY <1>2, <4>1 DEF ChapterState
    <3> QED
      BY <1>1, <1>5, <1>6, <3>1 DEF EffortIsCounted
  <2>2. ChapterIsInStep(state', state.chapters[i], i)
    BY <1>2, <1>6 DEF ChapterIsInStep, Behind, Written
  <2>3. Judged(state', state.chapters[i], i)
    BY <1>2, <1>6 DEF StateIsSound, ChaptersAreSound, Judged
  <2> QED
    BY <2>1, <2>2, <2>3
<1>9. RepliesAreInStep(state', replies)
  BY <1>1, <1>2, <1>5, <1>6 DEF StateIsSound, RepliesAreInStep
<1> QED
  BY <1>5, <1>6, <1>7, <1>8, <1>9 DEF StateIsSound, PassedStay

\* Any step of a node.
LEMMA NodeStepSound ==
  ASSUME StateIsSound(state, replies), replies \in Seq(Replies), NodeStep
  PROVE  StateIsSound(state', replies) /\ PassedStay
<1>1. CASE Plan \/ OutlineReview \/ ReviseOutline \/ InitializeChapters
  <2>1. state.chapters = <<>>
    <3>1. state.node \in {"plan", "outline_review", "revise_outline", "initialize_chapters"}
      BY <1>1 DEF Plan, OutlineReview, ReviseOutline, InitializeChapters
    <3> QED
      BY <3>1 DEF StateIsSound, NodeIsInStep
  <2>2. PassedStay
    BY <2>1 DEF PassedStay
  <2> QED
    BY <1>1, <2>2, PlanSound, OutlineReviewSound, ReviseOutlineSound, InitializeChaptersSound
<1> QED
  BY <1>1, CoverageSound, WriteSound, LightReviewSound, NextChapterSound, FullReviewSound,
     ExportSound DEF NodeStep

-----------------------------------------------------------------------------
(* The invariant                                                           *)

\* A reply arrives where it is awaited.
LEMMA ReplySound ==
  ASSUME StateIsSound(state, replies), replies \in Seq(Replies), stored = state,
         NEW action \in {"confirm", "revise"}, NEW outline \in 1 .. MaxChapters,
         Reply(action, outline)
  PROVE  StateIsSound(state, replies') /\ replies' \in Seq(Replies)
<1>1. [action |-> action, outline |-> outline] \in Replies
  BY DEF Replies
<1>2. /\ replies' = Append(replies, [action |-> action, outline |-> outline])
      /\ state.node = "outline_review" /\ Len(replies) = state.revisions
  BY DEF Reply, Unanswered
<1>3. replies' \in Seq(Replies) /\ Len(replies') = state.revisions + 1
  BY <1>1, <1>2
<1>4. state.chapters = <<>>
  BY <1>2 DEF StateIsSound, NodeIsInStep
<1>5. RepliesAreInStep(state, replies')
  BY <1>2, <1>3, <1>4 DEF StateIsSound, RepliesAreInStep
<1> QED
  BY <1>3, <1>5 DEF StateIsSound

LEMMA AskCounts ==
  ASSUME NEW key, NEW result, Ask(key, result), trouble \in Nat, crashes \in Nat,
         trouble + crashes <= MaxMishaps
  PROVE  trouble' \in Nat /\ trouble' + crashes <= MaxMishaps
  BY GraphAssumption DEF Ask

\* A node's step counts the trouble of its call and keeps the rest of its bounds.
LEMMA NodeStepCounts ==
  ASSUME NodeStep, trouble \in Nat, crashes \in Nat, trouble + crashes <= MaxMishaps
  PROVE  /\ trouble' \in Nat /\ trouble' + crashes <= MaxMishaps
         /\ crashes' = crashes /\ stored' = stored /\ replies' = replies
<1>1. trouble' = trouble \/ \E key, result : Ask(key, result)
  <2>1. CASE Plan
    BY <2>1 DEF Plan
  <2>2. CASE OutlineReview \/ InitializeChapters \/ NextChapter \/ Export
    BY <2>2 DEF OutlineReview, InitializeChapters, NextChapter, Export
  <2>3. CASE ReviseOutline
    BY <2>3 DEF ReviseOutline
  <2>4. CASE Coverage
    BY <2>4 DEF Coverage
  <2>5. CASE Write
    BY <2>5 DEF Write
  <2>6. CASE LightReview
    BY <2>6 DEF LightReview
  <2>7. CASE FullReview
    BY <2>7 DEF FullReview
  <2> QED
    BY <2>1, <2>2, <2>3, <2>4, <2>5, <2>6, <2>7 DEF NodeStep
<1>2. trouble' \in Nat /\ trouble' + crashes <= MaxMishaps
  BY <1>1, AskCounts
<1>3. replies' = replies /\ \E s, next : Commit(s, next)
  <2>1. CASE Plan
    BY <2>1 DEF Plan
  <2>2. CASE OutlineReview \/ InitializeChapters \/ NextChapter \/ Export
    BY <2>2 DEF OutlineReview, InitializeChapters, NextChapter, Export
  <2>3. CASE ReviseOutline
    BY <2>3 DEF ReviseOutline
  <2>4. CASE Coverage
    BY <2>4 DEF Coverage
  <2>5. CASE Write
    BY <2>5 DEF Write
  <2>6. CASE LightReview
    BY <2>6 DEF LightReview
  <2>7. CASE FullReview
    BY <2>7 DEF FullReview
  <2> QED
    BY <2>1, <2>2, <2>3, <2>4, <2>5, <2>6, <2>7 DEF NodeStep
<1>4. crashes' = crashes /\ stored' = stored
  BY <1>3 DEF Commit
<1> QED
  BY <1>2, <1>3, <1>4

LEMMA GraphInitSound ==
  ASSUME GraphInit
  PROVE  GraphInv
<1>1. PICK intervention \in Interventions : state = NewState(intervention)
  BY DEF GraphInit
<1>2. intervention \in BOOLEAN /\ 0 \in 0 .. MaxChapters
  BY GraphAssumption
<1>3. state \in WorkflowState /\ state.chapters = <<>> /\ state.node = "plan"
      /\ state.phase = "plan" /\ state.failure = "none" /\ state.round = 0
      /\ state.revisions = 0
  BY <1>1, <1>2 DEF NewState, WorkflowState, Nodes, Phases
<1>4. replies = <<>> /\ stored = state /\ trouble = 0 /\ crashes = 0
  BY DEF GraphInit
<1>5. StateIsSound(state, replies)
  BY <1>3, <1>4 DEF StateIsSound, NodeIsInStep, ChaptersAreSound, RepliesAreInStep
<1> QED
  BY <1>4, <1>5, GraphAssumption DEF GraphInv

LEMMA GraphNextSound ==
  ASSUME GraphInv, [GraphNext]_graphVars
  PROVE  GraphInv'
<1>1. CASE NodeStep
  <2>1. StateIsSound(state', replies)
    BY <1>1, NodeStepSound DEF GraphInv
  <2>2. /\ trouble' \in Nat /\ trouble' + crashes <= MaxMishaps
        /\ crashes' = crashes /\ stored' = stored /\ replies' = replies
    BY <1>1, NodeStepCounts DEF GraphInv
  <2> QED
    BY <2>1, <2>2 DEF GraphInv
<1>2. CASE \E action \in {"confirm", "revise"}, outline \in 1 .. MaxChapters :
              Reply(action, outline)
  <2>1. UNCHANGED <<state, stored, trouble, crashes>> /\ stored = state
    BY <1>2 DEF Reply
  <2>2. StateIsSound(state, replies') /\ replies' \in Seq(Replies)
    BY <1>2, <2>1, ReplySound DEF GraphInv
  <2> QED
    BY <2>1, <2>2 DEF GraphInv
<1>3. CASE PutCheckpoint
  BY <1>3 DEF PutCheckpoint, GraphInv
<1>4. CASE CutShort
  <2>1. /\ state' = stored /\ stored' = stored /\ replies' = replies /\ trouble' = trouble
        /\ crashes' = crashes + 1 /\ crashes < MaxCrashes /\ trouble + crashes < MaxMishaps
    BY <1>4 DEF CutShort, MayBeCutShort
  <2> QED
    BY <2>1, GraphAssumption DEF GraphInv
<1>5. CASE UNCHANGED graphVars
  BY <1>5 DEF graphVars, GraphInv
<1> QED
  BY <1>1, <1>2, <1>3, <1>4, <1>5 DEF GraphNext

\* Whatever the models answer, wherever the process is cut short and however the author
\* replies, the state held and the checkpoint stored are those of a workflow in step: each
\* chapter is where the pass over the article says, and its attempts are counted (graph.ts).
THEOREM GraphInvariant == GraphSpec => []GraphInv
<1>1. GraphInit => GraphInv
  BY GraphInitSound
<1>2. GraphInv /\ [GraphNext]_graphVars => GraphInv'
  BY GraphNextSound
<1> QED
  BY <1>1, <1>2, PTL DEF GraphSpec

\* What the invariant says of a state, in the words of the columns and policies.
LEMMA SoundIsConsistent ==
  ASSUME GraphInv
  PROVE  GraphIsConsistent
<1>1. GraphTypeOK
  <2>1. ASSUME NEW s, StateIsSound(s, replies)
        PROVE  /\ s \in WorkflowState
               /\ s.phase = "failed" <=> s.failure # "none"
               /\ s.chapters # <<>> => s.current \in 1 .. Len(s.chapters) + 1
    BY <2>1 DEF StateIsSound, NodeIsInStep
  <2>2. trouble + crashes \in 0 .. MaxMishaps /\ crashes \in 0 .. MaxCrashes
    BY GraphAssumption DEF GraphInv
  <2> QED
    BY <2>1, <2>2 DEF GraphInv, GraphTypeOK, Replies
<1>2. FailuresAreDeclared
  <2> SUFFICES ASSUME state.phase = "completed", NEW i \in DOMAIN state.chapters
               PROVE  LET c == state.chapters[i] IN
                      /\ c.light = "failed" => c.lightRewrites = 1 /\ <<i, "light">> \in state.warnings
                      /\ c.review = "failed" => state.round = 2 /\ <<i, "full">> \in state.warnings
    BY DEF FailuresAreDeclared
  <2>1. Judged(state, state.chapters[i], i) /\ ChapterIsInStep(state, state.chapters[i], i)
    BY DEF GraphInv, StateIsSound, ChaptersAreSound
  <2>2. i < state.current
    BY DEF GraphInv, StateIsSound, NodeIsInStep, WorkflowState
  <2> QED
    BY <2>1, <2>2 DEF Judged, ChapterIsInStep, Behind, Written
<1>3. OutlineIsApproved
  BY DEF GraphInv, StateIsSound, RepliesAreInStep, NodeIsInStep, OutlineIsApproved
<1>4. EffortIsBounded
  <2>1. state.round <= 2
    BY DEF GraphInv, StateIsSound, NodeIsInStep
  <2>2. ASSUME NEW i \in DOMAIN state.chapters
        PROVE  LET c == state.chapters[i] IN
               /\ c.lightRewrites <= 1 /\ c.fullRewrites <= 1
               /\ c.writeAttempts <= 2 * (1 + c.lightRewrites + c.fullRewrites)
    <3>1. EffortIsCounted(state, state.chapters[i]) /\ state.chapters[i] \in ChapterState
      BY DEF GraphInv, StateIsSound, ChaptersAreSound, WorkflowState
    <3> QED
      BY <3>1 DEF EffortIsCounted, ChapterState
  <2> QED
    BY <2>1, <2>2 DEF EffortIsBounded
<1> QED
  BY <1>1, <1>2, <1>3, <1>4 DEF GraphIsConsistent

LEMMA SoundIsJudged ==
  ASSUME GraphInv
  PROVE  ExportedIsJudged
<1> SUFFICES ASSUME state.phase \in {"export", "completed"}, NEW i \in DOMAIN state.chapters
             PROVE  LET c == state.chapters[i] IN
                    /\ c.text > 0
                    /\ c.light # "pending" /\ c.lightOf = c.text
                    /\ c.review # "pending" /\ c.fullOf = c.text
  BY DEF ExportedIsJudged
<1>1. Judged(state, state.chapters[i], i) /\ ChapterIsInStep(state, state.chapters[i], i)
  BY DEF GraphInv, StateIsSound, ChaptersAreSound
<1>2. i < state.current
  <2>1. state.current = Len(state.chapters) + 1 /\ state.chapters \in Seq(ChapterState)
    BY DEF GraphInv, StateIsSound, NodeIsInStep, WorkflowState
  <2> QED
    BY <2>1
<1> QED
  BY <1>1, <1>2 DEF Judged, ChapterIsInStep, Behind, Written

\* A completed workflow declares every review that ended in failure, chapters are written
\* only from an outline the author confirmed, and rewrites and attempts stay within the
\* limits of policy.ts.
THEOREM GraphIsConsistentHolds == GraphSpec => []GraphIsConsistent
  BY GraphInvariant, SoundIsConsistent, PTL

\* What is exported has been reviewed as it stands: the light review looked at this very
\* text, and the full review too (fullReview and exportArticle in graph.ts).
THEOREM ExportedIsJudgedHolds == GraphSpec => []ExportedIsJudged
  BY GraphInvariant, SoundIsJudged, PTL

\* No step of a node, reply or stored checkpoint changes the text of a chapter that passed
\* its full review; only a restart from an older checkpoint goes back.
THEOREM AcceptedTextIsKeptHolds == GraphSpec => AcceptedTextIsKept
<1>1. GraphInv /\ [GraphNext]_graphVars =>
         [~CutShort => \A i \in DOMAIN state.chapters :
             state.chapters[i].review = "passed" =>
                state'.chapters[i].text = state.chapters[i].text]_graphVars
  <2> SUFFICES ASSUME GraphInv, GraphNext, ~CutShort
               PROVE  PassedStay
    BY DEF PassedStay
  <2>1. CASE NodeStep
    BY <2>1, NodeStepSound DEF GraphInv
  <2>2. CASE UNCHANGED state
    BY <2>2 DEF PassedStay
  <2> QED
    BY <2>1, <2>2 DEF GraphNext, Reply, PutCheckpoint
<1> QED
  BY <1>1, GraphInvariant, PTL DEF GraphSpec, AcceptedTextIsKept

-----------------------------------------------------------------------------
(* The writing of one chapter.                                             *)

\* A search that found sources is recorded before its distillation, and the calls
\* that wait for a result have usable ids.
LoopIsInStep ==
    Running =>
        /\ loop.distilling => loop.todo # <<>> /\ ToolKey("search") \in recorded
        /\ \A n \in DOMAIN loop.todo : loop.todo[n].id \in CallIds
        /\ IsFiniteSet(loop.seen)

\* No handler runs uncounted, and a tool is counted before the call is answered.
UsageIsWithin(c) ==
    /\ \A t \in Tools : c.spent[t] <= c.usage.calls[t] /\ c.usage.calls[t] <= Limits[t]
    /\ Total(c.usage.calls) <= c.usage.total /\ Total(c.usage.calls) <= MaxTotalCalls

LoopIsWithin ==
    Running =>
        /\ \A t \in Tools : /\ chapter.spent[t] + loop.executed[t] <= loop.usage.calls[t]
                            /\ loop.usage.calls[t] <= Limits[t]
        /\ Total(loop.usage.calls) <= loop.usage.total + IF loop.distilling THEN 1 ELSE 0
        /\ Total(loop.usage.calls) <= MaxTotalCalls

\* The requests the loop in progress has made so far.
MadeByLoop(key) ==
    IF key.kind = "model" THEN key.at <= loop.requests
    ELSE \/ key.at <= loop.usage.total
         \/ loop.distilling /\ key.kind = "search" /\ key.at = loop.usage.total + 1

\* A row of the journal belongs to an attempt that is over, to one that an execution
\* was cut short in, or to a request of the loop in progress.
KeysAreExplained ==
    \A key \in asked :
        \/ key.attempt <= chapter.attempts
        \/ key.attempt \in cut
        \/ Running /\ key.attempt = Attempt /\ MadeByLoop(key)

SavedTextIsRecorded == saved.text # None => saved.text \in recorded

LoopInv ==
    /\ LoopTypeOK /\ ResultsAnswerCalls /\ RoundsAreBounded /\ LoopIsInStep
    /\ UsageIsWithin(chapter) /\ UsageIsWithin(saved) /\ LoopIsWithin
    /\ EvidenceIsRecorded /\ SavedTextIsRecorded
    /\ KeysAreExplained /\ RefusalsAreExplained

-----------------------------------------------------------------------------
(* The records of the loop                                                 *)

\* What answering the next call leaves and what it changes.
AnsweredFrom(new, l, kind, key) ==
    /\ new.requests = l.requests /\ new.rounds = l.rounds /\ new.seen = l.seen
    /\ new.calls = l.calls /\ new.executed = l.executed
    /\ new.usage.total = l.usage.total + 1 /\ new.usage.calls = l.usage.calls
    /\ new.todo = Tail(l.todo) /\ new.distilling = FALSE
    /\ new.results = Append(l.results, [id |-> Head(l.todo).id, kind |-> kind, key |-> key])

\* The loop once its first waiting call is answered.
LEMMA AnsweredIs ==
  ASSUME NEW l \in Loop, l.todo # <<>>, Head(l.todo).id \in CallIds,
         NEW kind \in {"sourced", "plain", "error"}, NEW key \in Key \cup {None}
  PROVE  Answered(l, kind, key) \in Loop /\ AnsweredFrom(Answered(l, kind, key), l, kind, key)
<1> DEFINE result == [id |-> Head(l.todo).id, kind |-> kind, key |-> key]
           new == [requests |-> l.requests, rounds |-> l.rounds,
                   usage |-> [total |-> l.usage.total + 1, calls |-> l.usage.calls],
                   seen |-> l.seen, calls |-> l.calls, todo |-> Tail(l.todo),
                   results |-> Append(l.results, result), distilling |-> FALSE,
                   executed |-> l.executed]
<1>1. Answered(l, kind, key) = new
  <2>1. l = [requests |-> l.requests, rounds |-> l.rounds,
             usage |-> l.usage, seen |-> l.seen, calls |-> l.calls, todo |-> l.todo,
             results |-> l.results, distilling |-> l.distilling, executed |-> l.executed]
    BY DEF Loop
  <2>2. [l.usage EXCEPT !.total = l.usage.total + 1] =
            [total |-> l.usage.total + 1, calls |-> l.usage.calls]
    BY DEF Loop, Usage
  <2>3. Answered(l, kind, key) =
            [l EXCEPT !.usage = [l.usage EXCEPT !.total = l.usage.total + 1],
                      !.todo = Tail(l.todo), !.distilling = FALSE,
                      !.results = Append(l.results, result)]
    BY DEF Answered
  <2> QED
    BY <2>1, <2>2, <2>3
<1>2. /\ l.usage.total + 1 \in Nat /\ l.usage.calls \in [Tools -> Nat]
      /\ l.todo \in Seq(Call) /\ l.results \in Seq(Result)
  BY DEF Loop, Usage
<1>3. Tail(l.todo) \in Seq(Call) /\ Append(l.results, result) \in Seq(Result)
  <2>1. result \in Result
    BY DEF Result
  <2> QED
    BY <1>2, <2>1
<1> HIDE DEF result
<1>4. new \in Loop
  BY <1>2, <1>3 DEF Loop, Usage
<1> QED
  BY <1>1, <1>4 DEF AnsweredFrom, result

\* The loop as the dispatch of a call leaves it, before the call is answered.
SameConversation(l) ==
    /\ l.requests = loop.requests /\ l.rounds = loop.rounds /\ l.seen = loop.seen
    /\ l.calls = loop.calls /\ l.todo = loop.todo /\ l.results = loop.results
    /\ l.usage.total = loop.usage.total /\ l.distilling = loop.distilling

Dispatched(l) ==
    /\ l \in Loop /\ SameConversation(l)
    /\ \A t \in Tools : /\ chapter.spent[t] + l.executed[t] <= l.usage.calls[t]
                        /\ l.usage.calls[t] <= Limits[t]
    /\ Total(l.usage.calls) <= l.usage.total + 1
    /\ Total(l.usage.calls) <= MaxTotalCalls

\* Adding one to a tool's count adds one to the total.
LEMMA TotalCounts ==
  ASSUME NEW f \in [Tools -> Nat], NEW t \in Tools
  PROVE  Total([f EXCEPT ![t] = @ + 1]) = Total(f) + 1 /\ Total(f) \in Nat
<1>1. Tools \subseteq {"search", "extract_webpage", "generate_diagram"}
  BY LoopAssumption DEF Tools
<1>2. \A u \in Tools : f[u] \in Nat
  OBVIOUS
<1>3. CASE t = "search"
  BY <1>1, <1>2, <1>3 DEF Total, Of
<1>4. CASE t = "extract_webpage"
  BY <1>1, <1>2, <1>4 DEF Total, Of
<1>5. CASE t = "generate_diagram"
  BY <1>1, <1>2, <1>5 DEF Total, Of
<1> QED
  BY <1>1, <1>3, <1>4, <1>5

\* The calls of all tools are a natural number.
LEMMA TotalIsNat ==
  ASSUME NEW f \in [Tools -> Nat]
  PROVE  Total(f) \in Nat
  BY DEF Total, Of

\* More of some tool is never less in total.
LEMMA TotalGrows ==
  ASSUME NEW f \in [Tools -> Nat], NEW g \in [Tools -> Nat], \A t \in Tools : f[t] <= g[t]
  PROVE  Total(f) <= Total(g)
<1>1. ASSUME NEW name PROVE Of(f, name) \in Nat /\ Of(g, name) \in Nat /\ Of(f, name) <= Of(g, name)
  BY DEF Of
<1> QED
  BY <1>1 DEF Total

\* With a call waiting there is a next one to dispatch, a call of the conversation.
LEMMA Waiting ==
  ASSUME LoopInv, Running, loop.todo # <<>>
  PROVE  /\ loop \in Loop /\ Dispatched(loop)
         /\ Due \in Call /\ Due.id \in CallIds
<1>1. loop \in Loop /\ loop.todo \in Seq(Call) /\ loop.usage.calls \in [Tools -> Nat]
  BY DEF LoopInv, LoopTypeOK, Loop, Usage
<1>2. 1 \in DOMAIN loop.todo /\ Due = loop.todo[1]
  BY <1>1 DEF Due
<1>3. Due \in Call /\ Due.id \in CallIds
  BY <1>1, <1>2 DEF LoopInv, LoopIsInStep
<1>4. Total(loop.usage.calls) \in Nat /\ loop.usage.total \in Nat
  BY <1>1, TotalIsNat DEF Loop, Usage
<1> QED
  BY <1>1, <1>3, <1>4 DEF LoopInv, LoopIsWithin, Dispatched, SameConversation

\* Counting a call leaves the conversation as it is.
LEMMA CountedIs ==
  ASSUME LoopInv, NEW name, Dispatch(name)
  PROVE  Dispatched(Counted) /\ Dispatched(Executing)
<1> DEFINE calls == [loop.usage.calls EXCEPT ![name] = @ + 1]
           executed == [loop.executed EXCEPT ![name] = @ + 1]
           new(x) == [requests |-> loop.requests, rounds |-> loop.rounds,
                      usage |-> [total |-> loop.usage.total, calls |-> calls],
                      seen |-> loop.seen, calls |-> loop.calls, todo |-> loop.todo,
                      results |-> loop.results, distilling |-> loop.distilling,
                      executed |-> x]
<1>1. /\ Running /\ loop.todo # <<>> /\ ~loop.distilling /\ Due.name = name
      /\ loop.usage.total < MaxTotalCalls /\ name \in Tools
      /\ loop.usage.calls[name] < Limits[name]
  BY DEF Dispatch, Dispatchable
<1>2. /\ loop \in Loop /\ loop.usage \in Usage /\ loop.usage.calls \in [Tools -> Nat]
      /\ loop.executed \in [Tools -> Nat] /\ loop.usage.total \in Nat
  BY <1>1, Waiting DEF Loop, Usage
<1>3. Counted = new(loop.executed) /\ Executing = new(executed)
  <2>1. loop = [requests |-> loop.requests, rounds |-> loop.rounds,
                usage |-> loop.usage, seen |-> loop.seen, calls |-> loop.calls,
                todo |-> loop.todo, results |-> loop.results, distilling |-> loop.distilling,
                executed |-> loop.executed]
    BY <1>2 DEF Loop
  <2>2. [loop.usage EXCEPT !.calls = calls] = [total |-> loop.usage.total, calls |-> calls]
    BY <1>2 DEF Usage
  <2>3. Counted = [loop EXCEPT !.usage = [loop.usage EXCEPT !.calls = calls]]
    BY <1>1 DEF Counted
  <2> HIDE DEF calls
  <2>4. Counted = new(loop.executed)
    BY <2>1, <2>2, <2>3
  <2>5. Executing = [Counted EXCEPT !.executed = executed]
    BY <1>1, <2>4 DEF Executing
  <2> HIDE DEF executed
  <2> QED
    BY <2>4, <2>5
<1>4. calls \in [Tools -> Nat] /\ executed \in [Tools -> Nat]
  BY <1>1, <1>2
<1>5. Total(calls) = Total(loop.usage.calls) + 1 /\ Total(loop.usage.calls) \in Nat
  BY <1>1, <1>2, TotalCounts
<1>6. Total(loop.usage.calls) <= loop.usage.total
  BY <1>1, <1>2 DEF LoopInv, LoopIsWithin
<1>7. \A t \in Tools : chapter.spent[t] \in Nat /\ Limits[t] \in Nat
  BY LoopAssumption DEF LoopInv, LoopTypeOK, Chapter, Tools
<1>8. \A t \in Tools : /\ chapter.spent[t] + loop.executed[t] <= calls[t]
                       /\ chapter.spent[t] + executed[t] <= calls[t]
                       /\ calls[t] <= Limits[t]
  <2> SUFFICES ASSUME NEW t \in Tools
               PROVE  /\ chapter.spent[t] + loop.executed[t] <= calls[t]
                      /\ chapter.spent[t] + executed[t] <= calls[t]
                      /\ calls[t] <= Limits[t]
    OBVIOUS
  <2>1. /\ chapter.spent[t] + loop.executed[t] <= loop.usage.calls[t]
        /\ loop.usage.calls[t] <= Limits[t]
    BY <1>1 DEF LoopInv, LoopIsWithin
  <2>2. /\ chapter.spent[t] \in Nat /\ Limits[t] \in Nat
        /\ loop.executed[t] \in Nat /\ loop.usage.calls[t] \in Nat
    BY <1>2, <1>7
  <2>3. CASE t = name
    BY <1>1, <1>2, <2>1, <2>2, <2>3
  <2>4. CASE t # name
    BY <1>1, <1>2, <2>1, <2>2, <2>4
  <2> QED
    BY <2>3, <2>4
<1>9. Total(calls) <= loop.usage.total + 1 /\ Total(calls) <= MaxTotalCalls
  <2>1. MaxTotalCalls \in Nat
    BY LoopAssumption
  <2> QED
    BY <1>1, <1>2, <1>5, <1>6, <2>1
<1> HIDE DEF calls, executed
<1>10. ASSUME NEW x \in [Tools -> Nat], \A t \in Tools : chapter.spent[t] + x[t] <= calls[t]
       PROVE  Dispatched(new(x))
  <2>1. new(x) \in Loop
    BY <1>2, <1>4, <1>10 DEF Loop, Usage
  <2> QED
    BY <1>8, <1>9, <1>10, <2>1 DEF Dispatched, SameConversation
<1> QED
  BY <1>2, <1>3, <1>4, <1>8, <1>10

-----------------------------------------------------------------------------
(* Conversations                                                           *)

\* The ids of a sequence of calls or of results.
LEMMA IdsAre ==
  ASSUME NEW s, NEW T, s \in Seq(T)
  PROVE  /\ Ids(s) \in Seq({x.id : x \in T}) /\ Len(Ids(s)) = Len(s)
         /\ DOMAIN Ids(s) = 1 .. Len(s)
         /\ \A n \in 1 .. Len(s) : Ids(s)[n] = s[n].id
<1>1. DOMAIN s = 1 .. Len(s) /\ Len(s) \in Nat /\ \A n \in 1 .. Len(s) : s[n] \in T
  OBVIOUS
<1>2. Ids(s) \in [1 .. Len(s) -> {x.id : x \in T}]
  BY <1>1 DEF Ids
<1> QED
  BY <1>1, <1>2 DEF Ids

\* The head of a sequence may as well stand at the end of the sequence before it.
LEMMA HeadMovesOver ==
  ASSUME NEW X, NEW a \in Seq(X), NEW b \in Seq(X), b # <<>>
  PROVE  Append(a, Head(b)) \o Tail(b) = a \o b
<1>1. Head(b) \in X /\ Tail(b) \in Seq(X)
  OBVIOUS
<1>2. <<Head(b)>> \in Seq(X) /\ Append(a, Head(b)) = a \o <<Head(b)>>
  BY <1>1
<1>3. <<Head(b)>> \o Tail(b) = b
  <2> DEFINE c == <<Head(b)>> \o Tail(b)
  <2>1. Len(b) \in Nat \ {0} /\ Len(Tail(b)) = Len(b) - 1
    OBVIOUS
  <2>2. c \in Seq(X) /\ Len(c) = Len(b)
    BY <1>1, <1>2, <2>1, ConcatProperties
  <2>3. ASSUME NEW i \in 1 .. Len(b) PROVE c[i] = b[i]
    BY <1>1, <1>2, <2>1
  <2> HIDE DEF c
  <2>4. c = b
    BY <2>2, <2>3, SeqEqual
  <2> QED
    BY <2>4 DEF c
<1> QED
  BY <1>1, <1>2, <1>3, ConcatAssociative

\* A result takes the place of its call.
LEMMA AnswerKeepsIds ==
  ASSUME NEW results \in Seq(Result), NEW todo \in Seq(Call), todo # <<>>,
         NEW r \in Result, r.id = Head(todo).id
  PROVE  Ids(Append(results, r)) \o Ids(Tail(todo)) = Ids(results) \o Ids(todo)
<1> DEFINE X == {x.id : x \in Result \cup Call}
<1>1. results \in Seq(Result \cup Call) /\ todo \in Seq(Result \cup Call)
  BY SeqMonotonic
<1>2. /\ Append(results, r) \in Seq(Result \cup Call) /\ Tail(todo) \in Seq(Result \cup Call)
      /\ Len(Append(results, r)) = Len(results) + 1 /\ Len(Tail(todo)) = Len(todo) - 1
      /\ Len(results) \in Nat /\ Len(todo) \in Nat \ {0}
      /\ \A n \in 1 .. Len(results) : Append(results, r)[n] = results[n]
      /\ Append(results, r)[Len(results) + 1] = r
      /\ \A n \in 1 .. Len(todo) - 1 : Tail(todo)[n] = todo[n + 1]
      /\ Head(todo) = todo[1]
  BY <1>1
<1>3. /\ Ids(results) \in Seq(X) /\ Len(Ids(results)) = Len(results)
      /\ \A n \in 1 .. Len(results) : Ids(results)[n] = results[n].id
  BY <1>1, IdsAre
<1>4. /\ Ids(todo) \in Seq(X) /\ Len(Ids(todo)) = Len(todo)
      /\ \A n \in 1 .. Len(todo) : Ids(todo)[n] = todo[n].id
  BY <1>1, IdsAre
<1>5. /\ Ids(Append(results, r)) \in Seq(X) /\ Len(Ids(Append(results, r))) = Len(results) + 1
      /\ \A n \in 1 .. Len(results) + 1 :
            Ids(Append(results, r))[n] = Append(results, r)[n].id
  BY <1>2, IdsAre
<1>6. /\ Ids(Tail(todo)) \in Seq(X) /\ Len(Ids(Tail(todo))) = Len(todo) - 1
      /\ \A n \in 1 .. Len(todo) - 1 : Ids(Tail(todo))[n] = Tail(todo)[n].id
  BY <1>2, IdsAre
<1> HIDE DEF X
<1>7. Ids(todo) # <<>> /\ Head(Ids(todo)) = r.id /\ r.id \in X
  BY <1>2, <1>4
<1>8. Ids(Append(results, r)) = Append(Ids(results), r.id)
  <2>1. /\ Append(Ids(results), r.id) \in Seq(X)
        /\ Len(Append(Ids(results), r.id)) = Len(results) + 1
        /\ \A n \in 1 .. Len(results) + 1 :
              Append(Ids(results), r.id)[n] =
                IF n <= Len(results) THEN Ids(results)[n] ELSE r.id
    BY <1>2, <1>3, <1>7
  <2>2. ASSUME NEW n \in 1 .. Len(results) + 1
        PROVE  Ids(Append(results, r))[n] = Append(Ids(results), r.id)[n]
    BY <1>2, <1>3, <1>5, <2>1
  <2> QED
    BY <1>5, <2>1, <2>2, SeqEqual
<1>9. Ids(Tail(todo)) = Tail(Ids(todo))
  <2>1. /\ Tail(Ids(todo)) \in Seq(X) /\ Len(Tail(Ids(todo))) = Len(todo) - 1
        /\ \A n \in 1 .. Len(todo) - 1 : Tail(Ids(todo))[n] = Ids(todo)[n + 1]
    BY <1>2, <1>4, <1>7
  <2>2. ASSUME NEW n \in 1 .. Len(todo) - 1 PROVE Ids(Tail(todo))[n] = Tail(Ids(todo))[n]
    BY <1>2, <1>4, <1>6, <2>1
  <2> QED
    BY <1>6, <2>1, <2>2, SeqEqual
<1> QED
  BY <1>3, <1>4, <1>7, <1>8, <1>9, HeadMovesOver

\* New calls have as many ids as there are calls.
LEMMA IdsAreCounted ==
  ASSUME NEW calls \in Seq(Call), IsInjective(Ids(calls))
  PROVE  /\ IsFiniteSet(Range(Ids(calls)))
         /\ Cardinality(Range(Ids(calls))) = Len(calls)
<1> DEFINE S == 1 .. Len(calls)
           T == Range(Ids(calls))
<1>1. DOMAIN Ids(calls) = S /\ Len(calls) \in Nat
  BY DEF Ids
<1>2. IsFiniteSet(S) /\ Cardinality(S) = Len(calls)
  BY <1>1, FS_Interval
<1>3. Ids(calls) \in [S -> T] /\ \A t \in T : \E s \in S : Ids(calls)[s] = t
  BY <1>1 DEF Range, Ids
<1>4. Ids(calls) \in Surjection(S, T) /\ Ids(calls) \in Injection(S, T)
  BY <1>3 DEF Surjection, Injection
<1> HIDE DEF S, T
<1> QED
  BY <1>2, <1>4, FS_Surjection DEF T

-----------------------------------------------------------------------------
(* The journal under the loop                                              *)

\* What a request changes at most: the journal has its row, and no refusal is new
\* that is not explained.
JournalGrows(key) ==
    /\ asked' \subseteq Key /\ asked \subseteq asked'
    /\ recorded' \subseteq asked' /\ recorded \subseteq recorded'
    /\ \A other \in asked' : other \in asked \/ other = key
    /\ refused' \subseteq cut

\* An effect of a chapter attempt that is still open adds to the journal only.
LEMMA JournalledGrows ==
  ASSUME LoopInv, Running, NEW key \in Key, key.attempt = Attempt, ~MadeByLoop(key),
         NEW outcome, Journalled(key, outcome)
  PROVE  JournalGrows(key) /\ (outcome = "succeeded" => key \in recorded')
<1>1. chapter.attempts \in Nat
  BY DEF LoopInv, LoopTypeOK, Chapter
<1>2. key \in asked => Attempt \in cut
  BY <1>1 DEF LoopInv, KeysAreExplained, Attempt
<1>3. refused' \subseteq cut
  BY <1>2 DEF Journalled, LoopInv, RefusalsAreExplained
<1>4. asked \subseteq Key /\ recorded \subseteq asked
  BY DEF LoopInv, LoopTypeOK
<1> QED
  BY <1>3, <1>4 DEF Journalled, JournalGrows

\* The journal is left alone by the steps that ask nobody.
LEMMA JournalKept ==
  ASSUME LoopInv, UNCHANGED <<asked, recorded, refused>>, NEW key
  PROVE  JournalGrows(key)
  BY DEF LoopInv, LoopTypeOK, RefusalsAreExplained, JournalGrows

Evidenced(kind, key) ==
    kind = "sourced" =>
        /\ key \in recorded'
        /\ key.kind = "distill" => [key EXCEPT !.kind = "search"] \in recorded'

\* The key of the request a call makes.
IsKeyOfCall(key) ==
    key.attempt = Attempt /\ key.kind # "model" /\ key.at = loop.usage.total + 1

\* An answered call leaves the loop, its budget and the journal in step.
LEMMA AnswerSound ==
  ASSUME LoopInv, Running, loop.todo # <<>>, NEW l, Dispatched(l),
         NEW kind \in {"sourced", "plain", "error"}, NEW rkey \in Key \cup {None},
         NEW key, IsKeyOfCall(key), JournalGrows(key), Evidenced(kind, rkey),
         loop' = Answered(l, kind, rkey), UNCHANGED <<chapter, saved, takeovers, cut>>
  PROVE  LoopInv'
<1> DEFINE result == [id |-> Head(loop.todo).id, kind |-> kind, key |-> rkey]
<1>1. /\ loop \in Loop /\ Due \in Call /\ Due.id \in CallIds
      /\ loop.usage.total \in Nat /\ loop.todo \in Seq(Call) /\ loop.results \in Seq(Result)
      /\ loop.requests \in Nat
  BY Waiting DEF Loop, Usage
<1>2. l \in Loop /\ SameConversation(l)
  BY DEF Dispatched
<1>3. loop' \in Loop /\ AnsweredFrom(loop', l, kind, rkey)
  BY <1>1, <1>2, AnsweredIs DEF SameConversation, Due
<1>4. /\ loop'.requests = loop.requests /\ loop'.rounds = loop.rounds
      /\ loop'.seen = loop.seen /\ loop'.calls = loop.calls
      /\ loop'.usage.total = loop.usage.total + 1 /\ loop'.usage.calls = l.usage.calls
      /\ loop'.executed = l.executed
      /\ loop'.todo = Tail(loop.todo) /\ loop'.distilling = FALSE
      /\ loop'.results = Append(loop.results, result)
  BY <1>2, <1>3 DEF AnsweredFrom, SameConversation
<1>5. result \in Result /\ result.id = Head(loop.todo).id /\ Evidenced(result.kind, result.key)
  BY <1>1 DEF Result, Due
<1> HIDE DEF result
<1>6. LoopTypeOK'
  BY <1>3 DEF LoopInv, LoopTypeOK, JournalGrows, RefusalsAreExplained, Running
<1>7. ResultsAnswerCalls'
  <2>1. Ids(loop.results) \o Ids(loop.todo) = Ids(loop.calls)
    BY DEF LoopInv, ResultsAnswerCalls
  <2>2. Ids(loop'.results) \o Ids(loop'.todo) = Ids(loop'.calls)
    BY <1>1, <1>4, <1>5, <2>1, AnswerKeepsIds
  <2>3. /\ Cardinality(loop.seen) = loop.usage.total - chapter.usage.total + Len(loop.todo)
        /\ chapter.usage.total \in Nat
    BY DEF LoopInv, ResultsAnswerCalls, LoopTypeOK, Chapter, Usage
  <2>4. Len(loop'.todo) = Len(loop.todo) - 1 /\ Len(loop.todo) \in Nat
    BY <1>1, <1>4
  <2>5. Cardinality(loop'.seen) = loop'.usage.total - chapter'.usage.total + Len(loop'.todo)
    <3>1. \A t, c, n \in Nat : (t + 1) - c + (n - 1) = t - c + n
      OBVIOUS
    <3>2. (loop.usage.total + 1) - chapter.usage.total + (Len(loop.todo) - 1) =
             loop.usage.total - chapter.usage.total + Len(loop.todo)
      BY <1>1, <2>3, <2>4, <3>1
    <3>3. chapter'.usage.total = chapter.usage.total /\ loop'.seen = loop.seen
      BY <1>4
    <3> QED
      BY <1>4, <2>3, <2>4, <3>2, <3>3
  <2> QED
    BY <2>2, <2>5 DEF ResultsAnswerCalls
<1>8. RoundsAreBounded'
  BY <1>4 DEF LoopInv, RoundsAreBounded
<1>9. LoopIsInStep'
  <2>1. \A n \in DOMAIN Tail(loop.todo) :
           n + 1 \in DOMAIN loop.todo /\ Tail(loop.todo)[n] = loop.todo[n + 1]
    BY <1>1
  <2> QED
    BY <1>4, <2>1 DEF LoopInv, LoopIsInStep
<1>10. UsageIsWithin(chapter)' /\ UsageIsWithin(saved)' /\ SavedTextIsRecorded'
  BY DEF LoopInv, UsageIsWithin, SavedTextIsRecorded, JournalGrows
<1>11. LoopIsWithin'
  BY <1>1, <1>2, <1>4 DEF Dispatched, SameConversation, LoopIsWithin
<1>12. EvidenceIsRecorded'
  <2>1. ASSUME NEW r \in Range(loop'.results) PROVE r \in Range(loop.results) \/ r = result
    <3>1. PICK n \in DOMAIN Append(loop.results, result) : r = Append(loop.results, result)[n]
      BY <1>4, <2>1 DEF Range
    <3>2. /\ DOMAIN Append(loop.results, result) = 1 .. Len(loop.results) + 1
          /\ Len(loop.results) \in Nat /\ DOMAIN loop.results = 1 .. Len(loop.results)
          /\ \A i \in 1 .. Len(loop.results) : Append(loop.results, result)[i] = loop.results[i]
          /\ Append(loop.results, result)[Len(loop.results) + 1] = result
      BY <1>1, <1>5
    <3> QED
      BY <3>1, <3>2 DEF Range
  <2>2. ASSUME NEW r \in Range(loop.results) PROVE Evidenced(r.kind, r.key)
    BY DEF LoopInv, EvidenceIsRecorded, Evidenced, JournalGrows
  <2>3. \A r \in Range(loop'.results) : Evidenced(r.kind, r.key)
    BY <1>5, <2>1, <2>2
  <2>4. chapter.text # None => chapter.text \in recorded'
    BY DEF LoopInv, EvidenceIsRecorded, JournalGrows
  <2> QED
    BY <2>3, <2>4 DEF EvidenceIsRecorded, Evidenced
<1>13. KeysAreExplained'
  <2> SUFFICES ASSUME NEW k \in asked'
               PROVE  \/ k.attempt <= chapter.attempts
                      \/ k.attempt \in cut
                      \/ k.attempt = Attempt /\ MadeByLoop(k)'
    BY <1>3, NoneIsNoLoop DEF KeysAreExplained, Running, Attempt
  <2>1. CASE k = key
    BY <1>1, <1>4, <2>1 DEF IsKeyOfCall, MadeByLoop
  <2>2. CASE k \in asked
    <3>1. k.at \in Nat
      BY <2>2 DEF LoopInv, LoopTypeOK, Key
    <3>2. MadeByLoop(k) => MadeByLoop(k)'
      BY <1>1, <1>4, <3>1 DEF MadeByLoop
    <3> QED
      BY <2>2, <3>2 DEF LoopInv, KeysAreExplained
  <2> QED
    BY <2>1, <2>2 DEF JournalGrows
<1>14. RefusalsAreExplained'
  BY DEF JournalGrows, RefusalsAreExplained
<1> QED
  BY <1>6, <1>7, <1>8, <1>9, <1>10, <1>11, <1>12, <1>13, <1>14 DEF LoopInv

-----------------------------------------------------------------------------
(* The end of an attempt                                                   *)

\* The chapter an attempt leaves has its usage and a text the journal knows.
LEMMA EndSound ==
  ASSUME LoopInv, Running, NEW key, key.attempt = Attempt, JournalGrows(key),
         NEW c \in Chapter, c.attempts = chapter.attempts + 1, UsageIsWithin(c),
         c.text # None => c.text \in recorded',
         loop' = None, chapter' = c, UNCHANGED <<saved, takeovers, cut>>
  PROVE  LoopInv'
<1>1. ~Running'
  BY DEF Running
<1>2. LoopTypeOK'
  BY <1>1 DEF LoopInv, LoopTypeOK, JournalGrows
<1>3. ResultsAnswerCalls' /\ RoundsAreBounded' /\ LoopIsInStep' /\ LoopIsWithin'
  BY <1>1 DEF ResultsAnswerCalls, RoundsAreBounded, LoopIsInStep, LoopIsWithin
<1>4. UsageIsWithin(chapter)' /\ UsageIsWithin(saved)' /\ SavedTextIsRecorded'
  BY DEF LoopInv, UsageIsWithin, SavedTextIsRecorded, JournalGrows
<1>5. EvidenceIsRecorded'
  BY <1>1 DEF EvidenceIsRecorded
<1>6. KeysAreExplained'
  <2> SUFFICES ASSUME NEW k \in asked'
               PROVE  k.attempt <= chapter'.attempts \/ k.attempt \in cut
    BY DEF KeysAreExplained
  <2>1. chapter.attempts \in Nat /\ (k \in asked => k.attempt \in Nat)
    BY DEF LoopInv, LoopTypeOK, Chapter, Key
  <2>2. CASE k = key
    BY <2>1, <2>2 DEF Attempt
  <2>3. CASE k \in asked
    BY <2>1, <2>3 DEF LoopInv, KeysAreExplained, Attempt
  <2> QED
    BY <2>2, <2>3 DEF JournalGrows
<1>7. RefusalsAreExplained'
  BY DEF JournalGrows, RefusalsAreExplained
<1> QED
  BY <1>2, <1>3, <1>4, <1>5, <1>6, <1>7 DEF LoopInv

CountedAs(c, inPass, status, text) ==
    c = [chapter EXCEPT !.attempts = @ + 1, !.inPass = inPass, !.status = status, !.text = text]

\* A chapter whose attempt is counted is a chapter, with the same usage and spending.
LEMMA ChapterCounted ==
  ASSUME chapter \in Chapter, NEW inPass \in Nat,
         NEW status \in {"write", "written", "failed"}, NEW text \in Key \cup {None},
         NEW c, CountedAs(c, inPass, status, text)
  PROVE  /\ c \in Chapter /\ c.attempts = chapter.attempts + 1
         /\ c.usage = chapter.usage /\ c.spent = chapter.spent /\ c.text = text
<1>1. chapter = [attempts |-> chapter.attempts, inPass |-> chapter.inPass,
                 usage |-> chapter.usage, spent |-> chapter.spent,
                 status |-> chapter.status, text |-> chapter.text]
  BY DEF Chapter
<1>2. c = [attempts |-> chapter.attempts + 1, inPass |-> inPass,
           usage |-> chapter.usage, spent |-> chapter.spent,
           status |-> status, text |-> text]
  BY <1>1 DEF CountedAs
<1>3. chapter.attempts + 1 \in Nat /\ chapter.usage \in Usage /\ chapter.spent \in [Tools -> Nat]
  BY DEF Chapter
<1> QED
  BY <1>2, <1>3 DEF Chapter

\* What a failed attempt leaves of its chapter.
LEMMA TriedIs ==
  ASSUME chapter \in Chapter, NEW retryable
  PROVE  /\ Tried(retryable) \in Chapter /\ Tried(retryable).attempts = chapter.attempts + 1
         /\ Tried(retryable).usage = chapter.usage /\ Tried(retryable).spent = chapter.spent
         /\ Tried(retryable).text = chapter.text
<1> DEFINE status == IF retryable /\ chapter.inPass = 0 THEN "write" ELSE "failed"
           c == Tried(retryable)
<1>1. chapter = [attempts |-> chapter.attempts, inPass |-> chapter.inPass,
                 usage |-> chapter.usage, spent |-> chapter.spent,
                 status |-> chapter.status, text |-> chapter.text]
  BY DEF Chapter
<1>2. /\ chapter.inPass + 1 \in Nat /\ chapter.text \in Key \cup {None}
      /\ status \in {"write", "written", "failed"}
  BY DEF Chapter
<1>3. CountedAs(c, chapter.inPass + 1, status, chapter.text)
  <2> HIDE DEF status
  <2>1. c = [chapter EXCEPT !.attempts = @ + 1, !.inPass = @ + 1, !.status = status]
    BY DEF Tried, status
  <2> HIDE DEF c
  <2> QED
    BY <1>1, <2>1 DEF CountedAs
<1> HIDE DEF status, c
<1>4. /\ c \in Chapter /\ c.attempts = chapter.attempts + 1
      /\ c.usage = chapter.usage /\ c.spent = chapter.spent /\ c.text = chapter.text
  BY <1>2, <1>3, ChapterCounted
<1> QED
  BY <1>4 DEF c

\* An attempt that throws costs nothing but itself.
LEMMA ThrowSound ==
  ASSUME LoopInv, Running, NEW key, key.attempt = Attempt, JournalGrows(key),
         Throws, UNCHANGED <<saved, takeovers, cut>>
  PROVE  LoopInv'
<1> DEFINE c == Tried(TRUE)
<1>1. chapter \in Chapter
  BY DEF LoopInv, LoopTypeOK
<1>2. /\ c \in Chapter /\ c.attempts = chapter.attempts + 1
      /\ c.usage = chapter.usage /\ c.spent = chapter.spent /\ c.text = chapter.text
  BY <1>1, TriedIs
<1>3. loop' = None /\ chapter' = c
  BY DEF Throws
<1> HIDE DEF c
<1>4. UsageIsWithin(c)
  BY <1>2 DEF LoopInv, UsageIsWithin
<1>5. c.text # None => c.text \in recorded'
  BY <1>2 DEF LoopInv, EvidenceIsRecorded, JournalGrows
<1> QED
  BY <1>2, <1>3, <1>4, <1>5, EndSound

\* What a finished loop used is within the budget of the chapter.
LEMMA WithUsageSound ==
  ASSUME LoopInv, Running, loop.todo = <<>>,
         NEW c \in Chapter, c.spent = chapter.spent
  PROVE  /\ WithUsage(c) \in Chapter /\ UsageIsWithin(WithUsage(c))
         /\ WithUsage(c).attempts = c.attempts /\ WithUsage(c).text = c.text
<1>1. /\ loop.usage \in Usage /\ loop.executed \in [Tools -> Nat]
      /\ chapter.spent \in [Tools -> Nat] /\ loop.usage.total \in Nat
      /\ loop.usage.calls \in [Tools -> Nat]
  BY DEF LoopInv, LoopTypeOK, Loop, Chapter, Usage
<1>2. Spent(c) \in [Tools -> Nat]
      /\ \A t \in Tools : Spent(c)[t] = chapter.spent[t] + loop.executed[t]
  BY <1>1 DEF Spent
<1>3. /\ WithUsage(c) \in Chapter /\ WithUsage(c).usage = loop.usage
      /\ WithUsage(c).spent = Spent(c)
      /\ WithUsage(c).attempts = c.attempts /\ WithUsage(c).text = c.text
  BY <1>1, <1>2 DEF WithUsage, Chapter
<1>4. Total(loop.usage.calls) \in Nat /\ ~loop.distilling
  BY <1>1, TotalIsNat DEF LoopInv, LoopIsInStep
<1>5. UsageIsWithin(WithUsage(c))
  BY <1>1, <1>2, <1>3, <1>4 DEF LoopInv, LoopIsWithin, UsageIsWithin
<1> QED
  BY <1>3, <1>5

\* The attempts that end without a chapter, and the one that ends with it.
LEMMA LoopEndsSound ==
  ASSUME LoopInv, Running, loop.todo = <<>>, JournalGrows(ModelKey),
         UNCHANGED <<saved, takeovers, cut>>,
         \/ \E reason : Inconclusive(reason)
         \/ ModelKey \in recorded' /\ ModelKey \in Key /\ Completed(ModelKey)
  PROVE  LoopInv'
<1>1. chapter \in Chapter /\ ModelKey.attempt = Attempt
  BY DEF LoopInv, LoopTypeOK, ModelKey, Scope
<1>2. ASSUME NEW reason, Inconclusive(reason) PROVE LoopInv'
  <2> DEFINE c == Tried(reason \in Retryable)
  <2>1. /\ c \in Chapter /\ c.attempts = chapter.attempts + 1
        /\ c.spent = chapter.spent /\ c.text = chapter.text
    BY <1>1, TriedIs
  <2>2. loop' = None /\ chapter' = WithUsage(c)
    BY <1>2 DEF Inconclusive
  <2> HIDE DEF c
  <2>3. /\ WithUsage(c) \in Chapter /\ UsageIsWithin(WithUsage(c))
        /\ WithUsage(c).attempts = chapter.attempts + 1 /\ WithUsage(c).text = chapter.text
    BY <2>1, WithUsageSound
  <2>4. WithUsage(c).text # None => WithUsage(c).text \in recorded'
    BY <2>3 DEF LoopInv, EvidenceIsRecorded, JournalGrows
  <2> QED
    BY <1>1, <2>2, <2>3, <2>4, EndSound
<1>3. ASSUME ModelKey \in recorded', ModelKey \in Key, Completed(ModelKey) PROVE LoopInv'
  <2> DEFINE c == [chapter EXCEPT !.attempts = @ + 1, !.inPass = 0,
                                  !.status = "written", !.text = ModelKey]
  <2>1. /\ c \in Chapter /\ c.attempts = chapter.attempts + 1
        /\ c.spent = chapter.spent /\ c.text = ModelKey
    <3> HIDE DEF c
    <3>1. CountedAs(c, 0, "written", ModelKey)
      BY DEF c, CountedAs
    <3> QED
      BY <1>1, <1>3, <3>1, ChapterCounted
  <2>2. loop' = None /\ chapter' = WithUsage(c)
    BY <1>3 DEF Completed
  <2> HIDE DEF c
  <2>3. /\ WithUsage(c) \in Chapter /\ UsageIsWithin(WithUsage(c))
        /\ WithUsage(c).attempts = chapter.attempts + 1 /\ WithUsage(c).text = ModelKey
    BY <2>1, WithUsageSound
  <2> QED
    BY <1>1, <1>3, <2>2, <2>3, EndSound
<1> QED
  BY <1>2, <1>3

-----------------------------------------------------------------------------
(* A round of calls, and a search that goes on                             *)

RoundTaken(calls) ==
    loop' = [loop EXCEPT !.requests = @ + 1, !.rounds = @ + 1,
                         !.seen = @ \cup Range(Ids(calls)),
                         !.calls = calls, !.todo = calls, !.results = <<>>]

\* The loop once it has taken the calls of a response.
LEMMA RoundIs ==
  ASSUME loop \in Loop, NEW calls \in Seq(Call), Range(Ids(calls)) \subseteq CallIds,
         RoundTaken(calls)
  PROVE  /\ loop' \in Loop
         /\ loop'.requests = loop.requests + 1 /\ loop'.rounds = loop.rounds + 1
         /\ loop'.usage = loop.usage /\ loop'.seen = loop.seen \cup Range(Ids(calls))
         /\ loop'.calls = calls /\ loop'.todo = calls /\ loop'.results = <<>>
         /\ loop'.distilling = loop.distilling /\ loop'.executed = loop.executed
<1> DEFINE seen == loop.seen \cup Range(Ids(calls))
<1>1. loop = [requests |-> loop.requests, rounds |-> loop.rounds,
              usage |-> loop.usage, seen |-> loop.seen, calls |-> loop.calls,
              todo |-> loop.todo, results |-> loop.results, distilling |-> loop.distilling,
              executed |-> loop.executed]
  BY DEF Loop
<1>2. loop' = [requests |-> loop.requests + 1, rounds |-> loop.rounds + 1,
               usage |-> loop.usage, seen |-> seen, calls |-> calls,
               todo |-> calls, results |-> <<>>, distilling |-> loop.distilling,
               executed |-> loop.executed]
  BY <1>1 DEF RoundTaken
<1>3. /\ loop.usage \in Usage /\ loop.distilling \in BOOLEAN
      /\ loop.executed \in [Tools -> Nat] /\ seen \subseteq CallIds
      /\ loop.requests + 1 \in Nat /\ loop.rounds + 1 \in Nat /\ <<>> \in Seq(Result)
  BY DEF Loop
<1> HIDE DEF seen
<1>4. loop' \in Loop
  BY <1>2, <1>3 DEF Loop
<1> QED
  BY <1>2, <1>4 DEF seen

\* A usable response with calls opens a round.
LEMMA TakeCallsSound ==
  ASSUME LoopInv, Running, loop.todo = <<>>, JournalGrows(ModelKey),
         NEW calls \in Responses, Usable(calls), loop.rounds < MaxToolRounds,
         RoundTaken(calls),
         UNCHANGED <<chapter, saved, takeovers, cut>>
  PROVE  LoopInv'
<1> DEFINE ids == Range(Ids(calls))
<1>1. /\ loop \in Loop /\ loop.requests \in Nat /\ loop.rounds \in Nat
      /\ loop.usage.total \in Nat /\ loop.seen \subseteq CallIds /\ ~loop.distilling
      /\ chapter.usage.total \in Nat /\ MaxToolRounds \in Nat
  BY LoopAssumption DEF LoopInv, LoopTypeOK, Loop, Usage, LoopIsInStep, Chapter
<1>2. calls \in Seq(Call) /\ calls # <<>> /\ Len(calls) \in Nat
  BY LoopAssumption DEF Responses
<1>3. \A n \in DOMAIN calls : calls[n].id \in CallIds /\ calls[n].id \in ids
  <2>1. ASSUME NEW n \in DOMAIN calls PROVE calls[n].id \in CallIds /\ calls[n].id \in ids
    <3>1. calls[n] \in Call /\ n \in DOMAIN Ids(calls) /\ Ids(calls)[n] = calls[n].id
      BY <1>2, <2>1 DEF Ids
    <3>2. calls[n].id \in ids
      BY <3>1 DEF Range
    <3> QED
      BY <3>1, <3>2 DEF Usable, Call
  <2> QED
    BY <2>1
<1>4. ids \subseteq CallIds
  BY <1>3 DEF Range, Ids
<1>5. IsFiniteSet(ids) /\ Cardinality(ids) = Len(calls) /\ ids \cap loop.seen = {}
  BY <1>2, IdsAreCounted DEF Usable
<1> HIDE DEF ids
<1>6. /\ loop' \in Loop
      /\ loop'.requests = loop.requests + 1 /\ loop'.rounds = loop.rounds + 1
      /\ loop'.usage = loop.usage /\ loop'.seen = loop.seen \cup ids
      /\ loop'.calls = calls /\ loop'.todo = calls /\ loop'.results = <<>>
      /\ loop'.distilling = FALSE /\ loop'.executed = loop.executed
  <2>1. loop.distilling = FALSE
    BY <1>1 DEF Loop
  <2> QED
    BY <1>1, <1>2, <1>4, <2>1, RoundIs DEF ids
<1>7. LoopTypeOK'
  BY <1>6 DEF LoopInv, LoopTypeOK, JournalGrows, Running
<1>8. ResultsAnswerCalls'
  <2>1. Ids(<<>>) \o Ids(calls) = Ids(calls)
    <3>1. Ids(<<>>) = <<>>
      BY DEF Ids
    <3>2. Ids(calls) \in Seq({x.id : x \in Call})
      BY <1>2, IdsAre
    <3> QED
      BY <3>1, <3>2, ConcatEmptySeq
  <2>2. IsFiniteSet(loop.seen) /\ Cardinality(loop.seen) = loop.usage.total - chapter.usage.total
    <3>1. Len(loop.todo) = 0
      OBVIOUS
    <3> QED
      BY <1>1, <3>1 DEF LoopInv, ResultsAnswerCalls, LoopIsInStep
  <2>3. Cardinality(loop.seen \cup ids) = Cardinality(loop.seen) + Len(calls)
        /\ IsFiniteSet(loop.seen \cup ids)
    <3>1. loop.seen \cap ids = {} /\ Cardinality({}) = 0
      BY <1>5, FS_EmptySet
    <3>2. Cardinality(loop.seen) \in Nat
      BY <2>2, FS_CardinalityType
    <3> QED
      BY <1>2, <1>5, <2>2, <3>1, <3>2, FS_Union
  <2>4. Cardinality(loop'.seen) = loop'.usage.total - chapter'.usage.total + Len(loop'.todo)
    BY <1>6, <2>2, <2>3
  <2> QED
    BY <1>6, <2>1, <2>4 DEF ResultsAnswerCalls
<1>9. RoundsAreBounded'
  BY <1>1, <1>6 DEF LoopInv, RoundsAreBounded
<1>10. LoopIsInStep'
  <2>1. IsFiniteSet(loop.seen \cup ids)
    BY <1>5, FS_Union DEF LoopInv, LoopIsInStep
  <2> QED
    BY <1>3, <1>6, <2>1 DEF LoopIsInStep
<1>11. UsageIsWithin(chapter)' /\ UsageIsWithin(saved)' /\ SavedTextIsRecorded'
  BY DEF LoopInv, UsageIsWithin, SavedTextIsRecorded, JournalGrows
<1>12. LoopIsWithin'
  BY <1>1, <1>6 DEF LoopInv, LoopIsWithin
<1>13. EvidenceIsRecorded'
  <2>1. Range(loop'.results) = {}
    BY <1>6 DEF Range
  <2> QED
    BY <2>1 DEF LoopInv, EvidenceIsRecorded, JournalGrows
<1>14. KeysAreExplained'
  <2> SUFFICES ASSUME NEW k \in asked'
               PROVE  \/ k.attempt <= chapter.attempts
                      \/ k.attempt \in cut
                      \/ k.attempt = Attempt /\ MadeByLoop(k)'
    BY <1>6, NoneIsNoLoop DEF KeysAreExplained, Running, Attempt
  <2>1. CASE k = ModelKey
    BY <1>1, <1>6, <2>1 DEF ModelKey, Scope, MadeByLoop
  <2>2. CASE k \in asked
    <3>1. k.at \in Nat
      BY <2>2 DEF LoopInv, LoopTypeOK, Key
    <3>2. MadeByLoop(k) => MadeByLoop(k)'
      BY <1>1, <1>6, <3>1 DEF MadeByLoop
    <3> QED
      BY <2>2, <3>2 DEF LoopInv, KeysAreExplained
  <2> QED
    BY <2>1, <2>2 DEF JournalGrows
<1>15. RefusalsAreExplained'
  BY DEF JournalGrows, RefusalsAreExplained
<1> QED
  BY <1>7, <1>8, <1>9, <1>10, <1>11, <1>12, <1>13, <1>14, <1>15 DEF LoopInv

DistillBegins(l) == loop' = [l EXCEPT !.distilling = TRUE]

\* A search that found sources keeps the conversation and waits for its distillation.
LEMMA DistillingSound ==
  ASSUME LoopInv, Running, loop.todo # <<>>, ~loop.distilling, NEW l, Dispatched(l),
         JournalGrows(ToolKey("search")), ToolKey("search") \in recorded',
         DistillBegins(l), UNCHANGED <<chapter, saved, takeovers, cut>>
  PROVE  LoopInv'
<1>1. /\ l \in Loop /\ SameConversation(l) /\ loop.usage.total \in Nat /\ loop.requests \in Nat
  BY Waiting DEF Dispatched, Loop, Usage
<1>2. /\ loop' \in Loop /\ loop'.requests = loop.requests /\ loop'.rounds = loop.rounds
      /\ loop'.seen = loop.seen /\ loop'.calls = loop.calls /\ loop'.todo = loop.todo
      /\ loop'.results = loop.results /\ loop'.usage.total = loop.usage.total
      /\ loop'.usage.calls = l.usage.calls /\ loop'.executed = l.executed
      /\ loop'.distilling = TRUE
  <2>1. l = [requests |-> l.requests, rounds |-> l.rounds,
             usage |-> l.usage, seen |-> l.seen, calls |-> l.calls,
             todo |-> l.todo, results |-> l.results, distilling |-> l.distilling,
             executed |-> l.executed]
    BY <1>1 DEF Loop
  <2>2. loop' = [requests |-> l.requests, rounds |-> l.rounds,
                 usage |-> l.usage, seen |-> l.seen, calls |-> l.calls,
                 todo |-> l.todo, results |-> l.results, distilling |-> TRUE,
                 executed |-> l.executed]
    BY <2>1 DEF DistillBegins
  <2>3. loop' \in Loop
    BY <1>1, <2>2 DEF Loop
  <2> QED
    BY <1>1, <2>2, <2>3 DEF SameConversation
<1>3. LoopTypeOK'
  BY <1>2 DEF LoopInv, LoopTypeOK, JournalGrows, Running
<1>4. ResultsAnswerCalls' /\ RoundsAreBounded'
  BY <1>2 DEF LoopInv, ResultsAnswerCalls, RoundsAreBounded
<1>5. LoopIsInStep'
  BY <1>2 DEF LoopInv, LoopIsInStep, ToolKey, Scope, Attempt
<1>6. UsageIsWithin(chapter)' /\ UsageIsWithin(saved)' /\ SavedTextIsRecorded'
  BY DEF LoopInv, UsageIsWithin, SavedTextIsRecorded, JournalGrows
<1>7. LoopIsWithin'
  BY <1>1, <1>2 DEF Dispatched, SameConversation, LoopIsWithin
<1>8. EvidenceIsRecorded'
  BY <1>2 DEF LoopInv, EvidenceIsRecorded, JournalGrows
<1>9. KeysAreExplained'
  <2> SUFFICES ASSUME NEW k \in asked'
               PROVE  \/ k.attempt <= chapter.attempts
                      \/ k.attempt \in cut
                      \/ k.attempt = Attempt /\ MadeByLoop(k)'
    BY <1>2, NoneIsNoLoop DEF KeysAreExplained, Running, Attempt
  <2>1. CASE k = ToolKey("search")
    BY <1>1, <1>2, <2>1 DEF ToolKey, Scope, MadeByLoop
  <2>2. CASE k \in asked
    <3>1. MadeByLoop(k) => MadeByLoop(k)'
      BY <1>1, <1>2 DEF MadeByLoop
    <3> QED
      BY <2>2, <3>1 DEF LoopInv, KeysAreExplained
  <2> QED
    BY <2>1, <2>2 DEF JournalGrows
<1>10. RefusalsAreExplained'
  BY DEF JournalGrows, RefusalsAreExplained
<1> QED
  BY <1>3, <1>4, <1>5, <1>6, <1>7, <1>8, <1>9, <1>10 DEF LoopInv

-----------------------------------------------------------------------------
(* The steps                                                               *)

\* No request of the loop in progress is made twice.
LEMMA KeysAreFresh ==
  ASSUME LoopInv, Running
  PROVE  /\ ModelKey \in Key /\ ModelKey.attempt = Attempt /\ ~MadeByLoop(ModelKey)
         /\ \A kind \in Tools \cup {"distill"} :
               /\ ToolKey(kind) \in Key /\ ToolKey(kind).attempt = Attempt
               /\ IsKeyOfCall(ToolKey(kind))
               /\ ~loop.distilling \/ kind = "distill" => ~MadeByLoop(ToolKey(kind))
<1>1. /\ chapter.attempts + 1 \in Nat /\ loop.requests \in Nat /\ loop.rounds \in Nat
      /\ loop.usage.total \in Nat
  BY DEF LoopInv, LoopTypeOK, Loop, Usage, Chapter
<1>2. ModelKey \in Key /\ ModelKey.attempt = Attempt /\ ~MadeByLoop(ModelKey)
  BY <1>1 DEF ModelKey, Scope, Attempt, Key, MadeByLoop
<1>3. ASSUME NEW kind \in Tools \cup {"distill"}
      PROVE  /\ ToolKey(kind) \in Key /\ ToolKey(kind).attempt = Attempt
             /\ IsKeyOfCall(ToolKey(kind))
             /\ ~loop.distilling \/ kind = "distill" => ~MadeByLoop(ToolKey(kind))
  <2>1. kind # "model"
    BY LoopAssumption DEF Tools
  <2>2. ToolKey(kind) \in Key
    BY <1>1 DEF ToolKey, Scope, Attempt, Key
  <2> QED
    BY <1>1, <2>1, <2>2 DEF ToolKey, Scope, IsKeyOfCall, MadeByLoop
<1> QED
  BY <1>2, <1>3

\* A model call, whatever comes back, keeps the invariant.
LEMMA GenerateSound ==
  ASSUME LoopInv, Generate
  PROVE  LoopInv'
<1>1. /\ Running /\ loop.todo = <<>> /\ UNCHANGED <<saved, takeovers, cut>>
      /\ ModelKey \in Key /\ ModelKey.attempt = Attempt /\ ~MadeByLoop(ModelKey)
  BY KeysAreFresh DEF Generate
<1>2. ASSUME NEW outcome, Journalled(ModelKey, outcome), Throws PROVE LoopInv'
  BY <1>1, <1>2, JournalledGrows, ThrowSound
<1>3. ASSUME Journalled(ModelKey, "succeeded"), Respond(ModelKey) PROVE LoopInv'
  <2>1. JournalGrows(ModelKey) /\ ModelKey \in recorded'
    BY <1>1, <1>3, JournalledGrows
  <2>2. CASE Completed(ModelKey)
    BY <1>1, <2>1, <2>2, LoopEndsSound
  <2>3. ASSUME NEW reason, Inconclusive(reason) PROVE LoopInv'
    BY <1>1, <2>1, <2>3, LoopEndsSound
  <2>4. ASSUME NEW calls \in Responses, TakeCalls(calls), ~\E reason : Inconclusive(reason)
        PROVE  LoopInv'
    <3>1. /\ Usable(calls) /\ ~(loop.rounds >= MaxToolRounds)
          /\ RoundTaken(calls) /\ UNCHANGED chapter
      BY <2>4 DEF TakeCalls, RoundTaken
    <3>2. loop.rounds < MaxToolRounds
      BY <1>1, <3>1, LoopAssumption DEF LoopInv, LoopTypeOK, Loop
    <3> QED
      BY <1>1, <2>1, <3>1, <3>2, TakeCallsSound
  <2> QED
    BY <1>3, <2>2, <2>3, <2>4 DEF Respond
<1> QED
  BY <1>2, <1>3 DEF Generate

\* Declined calls, refused inputs and the local tool ask nobody.
LEMMA LocalAnswersSound ==
  ASSUME LoopInv, Decline \/ RefuseInput \/ Diagram
  PROVE  LoopInv'
<1>1. /\ Running /\ loop.todo # <<>>
      /\ UNCHANGED <<chapter, saved, takeovers, cut>>
      /\ UNCHANGED <<asked, recorded, refused>>
  BY DEF Decline, RefuseInput, Diagram, Dispatch
<1>2. IsKeyOfCall(ToolKey("distill")) /\ JournalGrows(ToolKey("distill"))
  BY <1>1, KeysAreFresh, JournalKept
<1>3. Evidenced("error", None) /\ Evidenced("plain", None)
  BY DEF Evidenced
<1>4. CASE Decline
  <2>1. loop' = Answered(loop, "error", None) /\ Dispatched(loop)
    BY <1>1, <1>4, Waiting DEF Decline
  <2> QED
    BY <1>1, <1>2, <1>3, <2>1, AnswerSound
<1>5. CASE RefuseInput
  <2>1. loop' = Answered(Counted, "error", None) /\ Dispatched(Counted)
    BY <1>5, CountedIs DEF RefuseInput
  <2> QED
    BY <1>1, <1>2, <1>3, <2>1, AnswerSound
<1>6. CASE Diagram
  <2>1. loop' = Answered(Executing, "plain", None) /\ Dispatched(Executing)
    BY <1>6, CountedIs DEF Diagram
  <2> QED
    BY <1>1, <1>2, <1>3, <2>1, AnswerSound
<1> QED
  BY <1>4, <1>5, <1>6

\* A result that is reported reaches the loop, or the attempt ends.
LEMMA ReportedSound ==
  ASSUME LoopInv, Running, loop.todo # <<>>, NEW l, Dispatched(l),
         NEW kind \in {"sourced", "plain", "error"}, NEW rkey \in Key \cup {None},
         NEW key, IsKeyOfCall(key), JournalGrows(key), Evidenced(kind, rkey),
         Reported(Answered(l, kind, rkey)), UNCHANGED <<saved, takeovers, cut>>
  PROVE  LoopInv'
<1>1. CASE loop' = Answered(l, kind, rkey) /\ UNCHANGED chapter
  BY <1>1, AnswerSound
<1>2. CASE Throws
  BY <1>2, ThrowSound DEF IsKeyOfCall
<1> QED
  BY <1>1, <1>2 DEF Reported

\* A search, whatever comes back, keeps the invariant.
LEMMA SearchSound ==
  ASSUME LoopInv, Search
  PROVE  LoopInv'
<1> DEFINE key == ToolKey("search")
<1>1. /\ Running /\ loop.todo # <<>> /\ ~loop.distilling /\ "search" \in Tools
      /\ UNCHANGED <<saved, takeovers, cut>> /\ Dispatched(Executing)
  BY CountedIs DEF Search, Dispatch, Dispatchable
<1>2. key \in Key /\ key.attempt = Attempt /\ IsKeyOfCall(key) /\ ~MadeByLoop(key)
  BY <1>1, KeysAreFresh
<1> HIDE DEF key
<1>3. Evidenced("error", None) /\ Evidenced("plain", None)
  BY DEF Evidenced
<1>4. ASSUME NEW outcome, Journalled(key, outcome), NEW kind \in {"plain", "error"},
             Reported(Answered(Executing, kind, None))
      PROVE  LoopInv'
  <2>1. JournalGrows(key)
    BY <1>1, <1>2, <1>4, JournalledGrows
  <2> QED
    BY <1>1, <1>2, <1>3, <1>4, <2>1, ReportedSound
<1>5. ASSUME Journalled(key, "succeeded"), DistillBegins(Executing), UNCHANGED chapter
      PROVE  LoopInv'
  <2>1. JournalGrows(key) /\ key \in recorded'
    BY <1>1, <1>2, <1>5, JournalledGrows
  <2> QED
    BY <1>1, <1>5, <2>1, DistillingSound DEF key
<1> QED
  BY <1>4, <1>5 DEF Search, DistillBegins, key

\* Distilling what a search found keeps the invariant.
LEMMA DistillSound ==
  ASSUME LoopInv, Distill
  PROVE  LoopInv'
<1> DEFINE key == ToolKey("distill")
<1>1. /\ Running /\ loop.distilling /\ loop.todo # <<>>
      /\ ToolKey("search") \in recorded /\ UNCHANGED <<saved, takeovers, cut>>
  BY DEF Distill, LoopInv, LoopIsInStep
<1>2. key \in Key /\ key.attempt = Attempt /\ IsKeyOfCall(key) /\ ~MadeByLoop(key)
  BY <1>1, KeysAreFresh
<1>3. Dispatched(loop)
  BY <1>1, Waiting
<1>4. PICK outcome \in Errors \cup {"succeeded"} :
         /\ Journalled(key, outcome)
         /\ \E kind \in {Cited(outcome), "error"} : Reported(Answered(loop, kind, key))
  BY DEF Distill
<1>5. PICK kind \in {Cited(outcome), "error"} : Reported(Answered(loop, kind, key))
  BY <1>4
<1>6. [key EXCEPT !.kind = "search"] = ToolKey("search")
  BY DEF ToolKey
<1> HIDE DEF key
<1>7. JournalGrows(key) /\ (outcome = "succeeded" => key \in recorded')
  BY <1>1, <1>2, <1>4, JournalledGrows
<1>8. kind \in {"sourced", "plain", "error"} /\ (kind = "sourced" => outcome = "succeeded")
  BY <1>5 DEF Cited
<1>9. Evidenced(kind, key)
  BY <1>1, <1>6, <1>7, <1>8 DEF Evidenced, JournalGrows
<1> QED
  BY <1>1, <1>2, <1>3, <1>5, <1>7, <1>8, <1>9, ReportedSound

\* Reading a web page keeps the invariant.
LEMMA ExtractSound ==
  ASSUME LoopInv, Extract
  PROVE  LoopInv'
<1> DEFINE key == ToolKey("extract_webpage")
<1>1. /\ Running /\ loop.todo # <<>> /\ ~loop.distilling /\ "extract_webpage" \in Tools
      /\ UNCHANGED <<saved, takeovers, cut>> /\ Dispatched(Executing)
  BY CountedIs DEF Extract, Dispatch, Dispatchable
<1>2. key \in Key /\ key.attempt = Attempt /\ IsKeyOfCall(key) /\ ~MadeByLoop(key)
  BY <1>1, KeysAreFresh
<1>3. PICK outcome \in Errors \cup {"succeeded"} :
         Journalled(key, outcome) /\ Reported(Answered(Executing, Cited(outcome), key))
  BY DEF Extract
<1>4. key.kind = "extract_webpage"
  BY DEF ToolKey
<1> HIDE DEF key
<1>5. JournalGrows(key) /\ (outcome = "succeeded" => key \in recorded')
  BY <1>1, <1>2, <1>3, JournalledGrows
<1>6. Cited(outcome) \in {"sourced", "plain", "error"} /\ Evidenced(Cited(outcome), key)
  BY <1>4, <1>5 DEF Cited, Evidenced
<1> QED
  BY <1>1, <1>2, <1>3, <1>5, <1>6, ReportedSound

\* A handler that is cancelled before it asks ends the attempt.
LEMMA AbortSound ==
  ASSUME LoopInv, Abort
  PROVE  LoopInv'
<1>1. /\ Running /\ Throws /\ UNCHANGED <<saved, takeovers, cut>>
      /\ UNCHANGED <<asked, recorded, refused>>
  BY DEF Abort
<1>2. ModelKey.attempt = Attempt /\ JournalGrows(ModelKey)
  BY <1>1, KeysAreFresh, JournalKept
<1> QED
  BY <1>1, <1>2, ThrowSound

\* A new attempt begins with the usage of its chapter and an empty conversation.
LEMMA StartAttemptSound ==
  ASSUME LoopInv, StartAttempt
  PROVE  LoopInv'
<1>1. ~Running /\ UNCHANGED <<chapter, saved, asked, recorded, takeovers, cut, refused>>
  BY DEF StartAttempt
<1>2. chapter \in Chapter /\ chapter.usage \in Usage /\ chapter.spent \in [Tools -> Nat]
      /\ chapter.usage.calls \in [Tools -> Nat] /\ chapter.usage.total \in Nat
      /\ MaxToolRounds \in Nat
  BY LoopAssumption DEF LoopInv, LoopTypeOK, Chapter, Usage
<1>3. /\ loop'.requests = 0 /\ loop'.rounds = 0 /\ loop'.usage = chapter.usage
      /\ loop'.seen = {} /\ loop'.calls = <<>> /\ loop'.todo = <<>> /\ loop'.results = <<>>
      /\ loop'.distilling = FALSE /\ loop'.executed = Zero
  BY DEF StartAttempt
<1>4. loop' \in Loop
  <2>1. Zero \in [Tools -> Nat] /\ <<>> \in Seq(Call) /\ <<>> \in Seq(Result)
    BY DEF Zero
  <2> QED
    BY <1>2, <2>1 DEF StartAttempt, Loop
<1>5. LoopTypeOK'
  BY <1>1, <1>4 DEF LoopInv, LoopTypeOK
<1>6. ResultsAnswerCalls'
  <2>1. Ids(<<>>) = <<>> /\ <<>> \o <<>> = <<>> /\ Len(<<>>) = 0
    BY DEF Ids
  <2>2. Cardinality({}) = 0
    BY FS_EmptySet
  <2>3. Ids(loop'.results) \o Ids(loop'.todo) = Ids(loop'.calls)
    BY <1>3, <2>1
  <2>4. Cardinality(loop'.seen) = loop'.usage.total - chapter'.usage.total + Len(loop'.todo)
    <3>1. Cardinality(loop'.seen) = 0 /\ Len(loop'.todo) = 0
      BY <1>3, <2>1, <2>2
    <3>2. chapter'.usage = chapter.usage
      BY <1>1
    <3> QED
      BY <1>2, <1>3, <3>1, <3>2
  <2> QED
    BY <2>3, <2>4 DEF ResultsAnswerCalls
<1>7. RoundsAreBounded'
  BY <1>2, <1>3 DEF RoundsAreBounded
<1>8. LoopIsInStep'
  BY <1>3, FS_EmptySet DEF LoopIsInStep
<1>9. UsageIsWithin(chapter)' /\ UsageIsWithin(saved)' /\ SavedTextIsRecorded'
  BY <1>1 DEF LoopInv, UsageIsWithin, SavedTextIsRecorded
<1>10. LoopIsWithin'
  BY <1>1, <1>2, <1>3 DEF LoopInv, UsageIsWithin, LoopIsWithin, Zero
<1>11. EvidenceIsRecorded'
  BY <1>1, <1>3 DEF LoopInv, EvidenceIsRecorded, Range
<1>12. KeysAreExplained' /\ RefusalsAreExplained'
  BY <1>1 DEF LoopInv, KeysAreExplained, RefusalsAreExplained
<1> QED
  BY <1>5, <1>6, <1>7, <1>8, <1>9, <1>10, <1>11, <1>12 DEF LoopInv

\* A refused chapter keeps everything but its status.
LEMMA SendBackSound ==
  ASSUME LoopInv, SendBack
  PROVE  LoopInv'
<1>1. ~Running /\ UNCHANGED <<saved, loop, asked, recorded, takeovers, cut, refused>>
  BY DEF SendBack
<1>2. /\ chapter' \in Chapter /\ chapter'.attempts = chapter.attempts
      /\ chapter'.usage = chapter.usage /\ chapter'.spent = chapter.spent
      /\ chapter'.text = chapter.text
  BY DEF SendBack, LoopInv, LoopTypeOK, Chapter
<1>3. LoopTypeOK' /\ RefusalsAreExplained'
  BY <1>1, <1>2 DEF LoopInv, LoopTypeOK, Running, RefusalsAreExplained
<1>4. ResultsAnswerCalls' /\ RoundsAreBounded' /\ LoopIsInStep' /\ LoopIsWithin'
  BY <1>1 DEF Running, ResultsAnswerCalls, RoundsAreBounded, LoopIsInStep, LoopIsWithin
<1>5. UsageIsWithin(chapter)' /\ UsageIsWithin(saved)' /\ SavedTextIsRecorded'
  BY <1>1, <1>2 DEF LoopInv, UsageIsWithin, SavedTextIsRecorded
<1>6. EvidenceIsRecorded' /\ KeysAreExplained'
  BY <1>1, <1>2 DEF LoopInv, EvidenceIsRecorded, KeysAreExplained, Running
<1> QED
  BY <1>3, <1>4, <1>5, <1>6 DEF LoopInv

\* A lost lease, a checkpoint and a stuttering step leave chapter, loop and journal.
LEMMA CheckpointSound ==
  ASSUME LoopInv, saved' \in {saved, chapter},
         UNCHANGED <<chapter, loop, asked, recorded, takeovers, cut, refused>>
  PROVE  LoopInv'
<1>1. LoopTypeOK' /\ RefusalsAreExplained'
  BY DEF LoopInv, LoopTypeOK, Running, RefusalsAreExplained
<1>2. ResultsAnswerCalls' /\ RoundsAreBounded' /\ LoopIsWithin' /\ LoopIsInStep'
  BY DEF LoopInv, Running, ResultsAnswerCalls, RoundsAreBounded, LoopIsInStep, LoopIsWithin,
         ToolKey, Scope, Attempt
<1>3. UsageIsWithin(chapter)' /\ UsageIsWithin(saved)' /\ SavedTextIsRecorded'
  BY DEF LoopInv, UsageIsWithin, SavedTextIsRecorded, EvidenceIsRecorded
<1>4. EvidenceIsRecorded' /\ KeysAreExplained'
  BY DEF LoopInv, EvidenceIsRecorded, KeysAreExplained, Running, Attempt, MadeByLoop
<1> QED
  BY <1>1, <1>2, <1>3, <1>4 DEF LoopInv

\* The attempts of an execution that is taken over are cut short, the one in progress
\* with the request it may have entered in the journal.
LEMMA TakeOverSound ==
  ASSUME LoopInv, TakeOver
  PROVE  LoopInv'
<1> DEFINE last == chapter.attempts + IF Running THEN 1 ELSE 0
<1>1. /\ takeovers < MaxTakeovers /\ takeovers' = takeovers + 1
      /\ cut' = cut \cup (saved.attempts + 1 .. last)
      /\ asked' \in {asked, asked \cup InFlight}
      /\ chapter' = saved /\ loop' = None /\ UNCHANGED <<saved, recorded, refused>>
  BY DEF TakeOver
<1>2. /\ chapter.attempts \in Nat /\ saved.attempts \in Nat /\ last \in Nat
      /\ MaxTakeovers \in Nat
  BY LoopAssumption DEF LoopInv, LoopTypeOK, Chapter
<1>3. \A key \in InFlight : Running /\ key \in Key /\ key.attempt = Attempt
  <2>1. CASE Running
    <3>1. \A kind \in Tools \cup {"distill"} : ToolKey(kind) \in Key
                                              /\ ToolKey(kind).attempt = Attempt
      BY <2>1, KeysAreFresh
    <3> QED
      BY <2>1, <3>1, KeysAreFresh DEF InFlight
  <2> QED
    BY <2>1 DEF InFlight
<1>4. ~Running'
  BY <1>1 DEF Running
<1>5. LoopTypeOK'
  <2>1. cut' \subseteq Nat
    <3>1. cut \subseteq Nat
      BY DEF LoopInv, LoopTypeOK
    <3>2. \A a, b \in Nat : a + 1 .. b \subseteq Nat
      OBVIOUS
    <3> HIDE DEF last
    <3> QED
      BY <1>1, <1>2, <3>1, <3>2
  <2>2. takeovers' \in 0 .. MaxTakeovers
    BY <1>1, <1>2 DEF LoopInv, LoopTypeOK
  <2>3. recorded' \subseteq asked' /\ asked' \subseteq Key
    BY <1>1, <1>3 DEF LoopInv, LoopTypeOK
  <2> QED
    BY <1>1, <1>4, <2>1, <2>2, <2>3 DEF LoopInv, LoopTypeOK
<1>6. ResultsAnswerCalls' /\ RoundsAreBounded' /\ LoopIsInStep' /\ LoopIsWithin'
  BY <1>4 DEF ResultsAnswerCalls, RoundsAreBounded, LoopIsInStep, LoopIsWithin
<1>7. UsageIsWithin(chapter)' /\ UsageIsWithin(saved)' /\ SavedTextIsRecorded'
  BY <1>1 DEF LoopInv, UsageIsWithin, SavedTextIsRecorded
<1>8. EvidenceIsRecorded'
  BY <1>1, <1>4 DEF LoopInv, SavedTextIsRecorded, EvidenceIsRecorded
<1>9. KeysAreExplained'
  <2> SUFFICES ASSUME NEW k \in asked'
               PROVE  k.attempt <= saved.attempts \/ k.attempt \in cut'
    BY <1>1 DEF KeysAreExplained
  <2>1. k.attempt \in Nat /\ (k.attempt \in cut \/ k.attempt <= last)
    <3>1. CASE k \in InFlight
      BY <1>2, <1>3, <3>1 DEF Attempt, Key
    <3>2. CASE k \in asked
      BY <1>2, <3>2 DEF LoopInv, LoopTypeOK, KeysAreExplained, Attempt, Key
    <3> QED
      BY <1>1, <3>1, <3>2
  <2> HIDE DEF last
  <2> QED
    BY <1>1, <1>2, <2>1
<1>10. RefusalsAreExplained'
  BY <1>1 DEF LoopInv, RefusalsAreExplained
<1> QED
  BY <1>5, <1>6, <1>7, <1>8, <1>9, <1>10 DEF LoopInv

-----------------------------------------------------------------------------
(* The theorems                                                            *)

\* A chapter that was never attempted has spent nothing.
LEMMA LoopInvInit ==
  ASSUME Init
  PROVE  LoopInv
<1>1. ~Running
  BY DEF Init, Running
<1>2. \A t \in Tools : Zero[t] = 0 /\ Limits[t] \in Nat
  BY LoopAssumption DEF Zero, Tools
<1>3. Zero \in [Tools -> Nat] /\ Total(Zero) = 0 /\ MaxTotalCalls \in Nat /\ MaxTakeovers \in Nat
  BY LoopAssumption, <1>2 DEF Zero, Total, Of
<1>4. /\ NewChapter \in Chapter /\ NewChapter.usage.calls = Zero /\ NewChapter.spent = Zero
      /\ NewChapter.usage.total = 0 /\ NewChapter.text = None
  BY <1>3 DEF NewChapter, Chapter, Usage
<1>5. chapter = NewChapter /\ saved = NewChapter /\ asked = {} /\ recorded = {}
      /\ takeovers = 0 /\ cut = {} /\ refused = {}
  BY DEF Init
<1>6. UsageIsWithin(NewChapter)
  BY <1>2, <1>3, <1>4 DEF UsageIsWithin
<1>7. LoopTypeOK
  BY <1>1, <1>3, <1>4, <1>5 DEF LoopTypeOK
<1> QED
  BY <1>1, <1>4, <1>5, <1>6, <1>7
     DEF LoopInv, ResultsAnswerCalls, RoundsAreBounded, LoopIsInStep, LoopIsWithin,
         EvidenceIsRecorded, SavedTextIsRecorded, KeysAreExplained, RefusalsAreExplained

\* Every step of a writer keeps the invariant.
LEMMA LoopInvStep ==
  ASSUME LoopInv, [Next]_vars
  PROVE  LoopInv'
<1>1. CASE StartAttempt
  BY <1>1, StartAttemptSound
<1>2. CASE SendBack
  BY <1>2, SendBackSound
<1>3. CASE Generate
  BY <1>3, GenerateSound
<1>4. CASE Decline \/ RefuseInput \/ Diagram
  BY <1>4, LocalAnswersSound
<1>5. CASE Search
  BY <1>5, SearchSound
<1>6. CASE Distill
  BY <1>6, DistillSound
<1>7. CASE Extract
  BY <1>7, ExtractSound
<1>8. CASE Abort
  BY <1>8, AbortSound
<1>9. CASE LoseLease
  BY <1>9, CheckpointSound DEF LoseLease
<1>10. CASE Persist
  BY <1>10, CheckpointSound DEF Persist
<1>11. CASE TakeOver
  BY <1>11, TakeOverSound
<1>12. CASE UNCHANGED vars
  BY <1>12, CheckpointSound DEF vars
<1> QED
  BY <1>1, <1>2, <1>3, <1>4, <1>5, <1>6, <1>7, <1>8, <1>9, <1>10, <1>11, <1>12 DEF Next

\* The inductive invariant of a writer holds, whatever its tools and limits are.
THEOREM LoopInvariant == Spec => []LoopInv
<1>1. Init => LoopInv
  BY LoopInvInit
<1>2. LoopInv /\ [Next]_vars => LoopInv'
  BY LoopInvStep
<1> QED
  BY <1>1, <1>2, PTL DEF Spec

\* Each call of a response has one result, under its id and in order, before the model
\* is asked again, no id is used twice, and the rounds are bounded.
THEOREM ConversationIsSoundHolds == Spec => []ConversationIsSound
<1>1. LoopInv => ConversationIsSound
  BY DEF LoopInv, ConversationIsSound
<1> QED
  BY <1>1, LoopInvariant, PTL

\* The journal refuses a request to the lease holder only in an attempt that an earlier
\* execution had begun.
THEOREM RefusalsAreExplainedHolds == Spec => []RefusalsAreExplained
<1>1. LoopInv => RefusalsAreExplained
  BY DEF LoopInv
<1> QED
  BY <1>1, LoopInvariant, PTL

\* What the model is told to cite was found, and its distillation, by requests that
\* succeeded, and so was the chapter's text.
THEOREM EvidenceIsRecordedHolds == Spec => []EvidenceIsRecorded
<1>1. LoopInv => EvidenceIsRecorded
  BY DEF LoopInv
<1> QED
  BY <1>1, LoopInvariant, PTL

\* Over retries, rewrites and takeovers no tool is run more often than its limit, and
\* all together not more often than the chapter's total.
THEOREM ChapterBudgetAlwaysHolds == Spec => []ChapterBudgetHolds
<1>1. ASSUME LoopInv PROVE ChapterBudgetHolds
  <2> DEFINE used == IF Running THEN loop.usage.calls ELSE chapter.usage.calls
             run == [t \in Tools |-> Handlers(t)]
  <2>1. used \in [Tools -> Nat] /\ MaxTotalCalls \in Nat
    BY <1>1, LoopAssumption DEF LoopInv, LoopTypeOK, Loop, Chapter, Usage
  <2>2. \A t \in Tools : Limits[t] \in Nat /\ used[t] \in Nat
    BY <2>1, LoopAssumption DEF Tools
  <2>3. \A t \in Tools : /\ Handlers(t) \in Nat
                         /\ Handlers(t) <= used[t] /\ used[t] <= Limits[t]
    <3>1. \A t \in Tools : /\ chapter.spent[t] \in Nat
                           /\ Running => loop.executed[t] \in Nat
      BY <1>1 DEF LoopInv, LoopTypeOK, Loop, Chapter
    <3>2. CASE Running
      BY <1>1, <3>1, <3>2 DEF LoopInv, LoopIsWithin, Handlers
    <3>3. CASE ~Running
      BY <1>1, <3>1, <3>3 DEF LoopInv, UsageIsWithin, Handlers
    <3> QED
      BY <3>2, <3>3
  <2>4. Total(used) <= MaxTotalCalls
    BY <1>1 DEF LoopInv, LoopIsWithin, UsageIsWithin
  <2>5. run \in [Tools -> Nat] /\ \A t \in Tools : run[t] <= used[t]
    BY <2>3
  <2> HIDE DEF used, run
  <2>6. Total(run) <= MaxTotalCalls
    <3>1. Total(run) <= Total(used) /\ Total(run) \in Nat /\ Total(used) \in Nat
      BY <2>1, <2>5, TotalGrows, TotalIsNat
    <3> QED
      BY <2>1, <2>4, <3>1
  <2> QED
    BY <2>2, <2>3, <2>6 DEF ChapterBudgetHolds, run
<1> QED
  BY <1>1, LoopInvariant, PTL
=============================================================================
