------------------------------ MODULE ToolLoop ------------------------------
(***************************************************************************)
(* The writing of one chapter (agent-core: tool-loop.ts, writer.ts,        *)
(* research.ts, web-extract.ts).  A write attempt lets a model call tools  *)
(* in rounds, under a budget that belongs to the chapter, and every        *)
(* request that leaves the process goes through the effect journal under a *)
(* key built from the attempt.  Around the loop stands what it depends on: *)
(* the write node with its retries, the reviews that send a chapter back,  *)
(* the checkpoints, and a lease that may be lost at any await.             *)
(***************************************************************************)
EXTENDS Naturals, Sequences, FiniteSets, SequencesExt

CONSTANTS
    Limits,         \* [registered tool -> maxCalls, MaxTotalCalls if it has none]
    CallIds,        \* ids a model gives its calls
    None,           \* an empty id, an absent record
    MaxToolRounds,  \* maxToolRounds (8 in writer.ts)
    MaxTotalCalls,  \* maxTotalCalls (8 in writer.ts)
    MaxPerResponse, \* bound: calls in one response
    MaxAttempts,    \* bound: attempts, retries and rewrites together
    MaxFailures,    \* bound: requests of which the journal records no success
    MaxTakeovers    \* bound: executions another run takes over

ASSUME LoopAssumption ==
    /\ DOMAIN Limits \subseteq {"search", "extract_webpage", "generate_diagram"}
    /\ \A t \in DOMAIN Limits : Limits[t] \in Nat
    /\ {MaxToolRounds, MaxTotalCalls, MaxPerResponse, MaxAttempts, MaxFailures, MaxTakeovers}
          \subseteq Nat

VARIABLES
    chapter,    \* the chapter in the state of the graph that runs
    saved,      \* the same in the newest checkpoint
    loop,       \* the ToolLoopRunner.run in progress, or None
    asked,      \* effect keys with a row in the journal
    recorded,   \* those whose row says succeeded
    fenced,     \* the run that executes has lost its lease
    takeovers,  \* history: executions another run took over
    cut,        \* history: attempts an execution was cut short in, or forgot
    refused     \* history: attempts in which a used key was refused to a lease holder

vars == <<chapter, saved, loop, asked, recorded, fenced, takeovers, cut, refused>>

Tools == DOMAIN Limits
Key == [attempt : Nat, kind : Tools \cup {"model", "distill"}, round : Nat, at : Nat]
Usage == [total : Nat, calls : [Tools -> Nat]]

\* The columns of ChapterWorkflowState the loop depends on.  text: the request that
\* returned it; spent: history, handlers run in the attempts this state knows of.
Chapter ==
    [attempts : Nat, inPass : Nat, usage : Usage, spent : [Tools -> Nat],
     status : {"write", "written", "failed"}, text : Key \cup {None}]

Call == [id : CallIds \cup {None}, name : Tools \cup {"other"}]
Result == [id : CallIds, kind : {"sourced", "plain", "error"}, key : Key \cup {None}]

\* todo: the calls of the last response that have no result yet; distilling: the
\* search of the first of them has answered; executed: history, handlers run.
Loop ==
    [requests : Nat, rounds : Nat, usage : Usage, seen : SUBSET CallIds,
     calls : Seq(Call), todo : Seq(Call), results : Seq(Result),
     distilling : BOOLEAN, executed : [Tools -> Nat]]

ASSUME NoneIsNoLoop == None \notin Loop

Zero == [t \in Tools |-> 0]
NewChapter ==
    [attempts |-> 0, inPass |-> 0, usage |-> [total |-> 0, calls |-> Zero],
     spent |-> Zero, status |-> "write", text |-> None]

Init ==
    /\ chapter = NewChapter /\ saved = NewChapter
    /\ loop = None
    /\ asked = {} /\ recorded = {}
    /\ fenced = FALSE
    /\ takeovers = 0 /\ cut = {} /\ refused = {}

Running == loop # None
Attempt == chapter.attempts + 1

-----------------------------------------------------------------------------
(* The journal                                                             *)

\* Mutant: attempts are counted anew in every pass, as light_review counts its own.
ScopeInPass == chapter.inPass + 1

\* effectScope of the write node.
Scope == Attempt

\* EffectJournalModel.generateWithTools numbers the requests of a scope.
ModelKey == [attempt |-> Scope, kind |-> "model", round |-> 0, at |-> loop.requests + 1]

\* The scope of a tool names its round and its call, counted over all attempts.
ToolKey(kind) ==
    [attempt |-> Scope, kind |-> kind, round |-> loop.rounds, at |-> loop.usage.total + 1]

\* A journalled request is refused before it is sent; or its outcome is recorded; or
\* it is answered and the outcome cannot be recorded, which throws, with the lease
\* lost or not.
Journalled(key, outcome) ==
    \/ /\ outcome = "refused"
       /\ key \in asked \/ fenced
       /\ refused' = IF fenced THEN refused ELSE refused \cup {Attempt}
       /\ UNCHANGED <<asked, recorded, fenced>>
    \/ /\ outcome # "refused"
       /\ key \notin asked /\ ~fenced
       /\ outcome # "succeeded" => Cardinality(asked \ recorded) < MaxFailures
       /\ asked' = asked \cup {key}
       /\ recorded' = IF outcome = "succeeded" THEN recorded \cup {key} ELSE recorded
       /\ fenced' \in IF outcome = "unrecorded" THEN BOOLEAN ELSE {FALSE}
       /\ UNCHANGED refused

Errors == {"refused", "failed", "unrecorded"}

-----------------------------------------------------------------------------
(* The write node                                                          *)

\* WriterService.write, with the usage the chapter has.
StartAttempt ==
    /\ ~Running /\ chapter.status = "write" /\ chapter.attempts < MaxAttempts
    /\ loop' = [requests |-> 0, rounds |-> 0, usage |-> chapter.usage, seen |-> {},
                calls |-> <<>>, todo |-> <<>>, results |-> <<>>, distilling |-> FALSE,
                executed |-> Zero]
    /\ UNCHANGED <<chapter, saved, asked, recorded, fenced, takeovers, cut, refused>>

Retryable == {"invalid_model_response", "empty_final_text", "max_tokens", "pause_turn"}

\* Once more in a pass: componentInconclusiveDecision, writerInconclusiveDecision.
Tried(retryable) ==
    [chapter EXCEPT !.attempts = @ + 1, !.inPass = @ + 1,
                    !.status = IF retryable /\ chapter.inPass = 0 THEN "write" ELSE "failed"]

Spent(c) == [t \in Tools |-> c.spent[t] + loop.executed[t]]

\* Mutant: only an attempt that wrote the chapter passes its usage on.
UsageOfText(c) ==
    [c EXCEPT !.usage = IF c.status = "written" THEN loop.usage ELSE @, !.spent = Spent(c)]

\* budgetUsage of the result, whatever its status.
WithUsage(c) == [c EXCEPT !.usage = loop.usage, !.spent = Spent(c)]

\* The service threw: what it used is not known to the node.
Throws == loop' = None /\ chapter' = Tried(TRUE)

Inconclusive(reason) ==
    loop' = None /\ chapter' = WithUsage(Tried(reason \in Retryable))

Completed(key) ==
    /\ loop' = None
    /\ chapter' = WithUsage([chapter EXCEPT !.attempts = @ + 1, !.inPass = 0,
                                            !.status = "written", !.text = key])

\* light_review and full_review: a chapter they refuse is written again.
SendBack ==
    /\ ~Running /\ chapter.status = "written"
    /\ chapter' = [chapter EXCEPT !.status = "write"]
    /\ UNCHANGED <<saved, loop, asked, recorded, fenced, takeovers, cut, refused>>

-----------------------------------------------------------------------------
(* The loop                                                                *)

Ids(calls) == [n \in DOMAIN calls |-> calls[n].id]

\* Mutant: only the response itself is searched for the id.
UsableInResponse(calls) == None \notin Range(Ids(calls)) /\ IsInjective(Ids(calls))

\* An id pairs a call with its result, in the whole conversation.
Usable(calls) ==
    /\ None \notin Range(Ids(calls)) /\ IsInjective(Ids(calls))
    /\ Range(Ids(calls)) \cap loop.seen = {}

Responses == UNION {[1 .. n -> Call] : n \in 1 .. MaxPerResponse}

\* A response that asks for tools.  The end of the while loop is never reached:
\* after the last round the model has one request, in which it may not ask again.
TakeCalls(calls) ==
    IF ~Usable(calls) THEN Inconclusive("invalid_model_response")
    ELSE IF loop.rounds >= MaxToolRounds THEN Inconclusive("max_tool_rounds")
    ELSE /\ loop' = [loop EXCEPT !.requests = @ + 1, !.rounds = @ + 1,
                                 !.seen = @ \cup Range(Ids(calls)),
                                 !.calls = calls, !.todo = calls, !.results = <<>>]
         /\ UNCHANGED chapter

\* Only the text of an end_turn without calls is the chapter.
Respond(key) ==
    \/ Completed(key)
    \/ \E reason \in Retryable \cup {"refusal"} : Inconclusive(reason)
    \/ \E calls \in Responses : TakeCalls(calls)

\* The request after the results of a round, all of them, or the first one.
Generate ==
    /\ Running /\ loop.todo = <<>>
    /\ \/ \E outcome \in Errors : Journalled(ModelKey, outcome) /\ Throws
       \/ Journalled(ModelKey, "succeeded") /\ Respond(ModelKey)
    /\ UNCHANGED <<saved, takeovers, cut>>

\* The result of the first call that has none, and the loop after it.
Answered(l, kind, key) ==
    [l EXCEPT !.usage.total = @ + 1, !.todo = Tail(@), !.distilling = FALSE,
              !.results = Append(@, [id |-> Head(l.todo).id, kind |-> kind, key |-> key])]

Due == Head(loop.todo)

\* Mutant: a tool's limit holds in an attempt, as it did in the Python writer.
DispatchableInAttempt ==
    /\ loop.usage.total < MaxTotalCalls /\ Due.name \in Tools
    /\ loop.usage.calls[Due.name] - chapter.usage.calls[Due.name] < Limits[Due.name]

\* Within the chapter's budget, registered, and within the tool's own.
Dispatchable ==
    /\ loop.usage.total < MaxTotalCalls /\ Due.name \in Tools
    /\ loop.usage.calls[Due.name] < Limits[Due.name]

\* budget_exceeded and unknown_tool: counted, answered, not run.
Decline ==
    /\ Running /\ loop.todo # <<>> /\ ~loop.distilling
    /\ ~Dispatchable
    /\ loop' = Answered(loop, "error", None)
    /\ UNCHANGED <<chapter, saved, asked, recorded, fenced, takeovers, cut, refused>>

\* A call that is dispatched is counted before its input is looked at.
Counted == [loop EXCEPT !.usage.calls[Due.name] = @ + 1]
Executing == [Counted EXCEPT !.executed[Due.name] = @ + 1]

Dispatch(name) ==
    Running /\ loop.todo # <<>> /\ ~loop.distilling /\ Due.name = name /\ Dispatchable

RefuseInput ==
    /\ \E name \in Tools : Dispatch(name)
    /\ loop' = Answered(Counted, "error", None)
    /\ UNCHANGED <<chapter, saved, asked, recorded, fenced, takeovers, cut, refused>>

\* diagramTool: assembled locally.
Diagram ==
    /\ Dispatch("generate_diagram")
    /\ loop' = Answered(Executing, "plain", None)
    /\ UNCHANGED <<chapter, saved, asked, recorded, fenced, takeovers, cut, refused>>

\* The progress events of a search and of an extraction: one that cannot be recorded
\* throws as a cancellation, which is not made a result.
Reported(l) == (loop' = l /\ UNCHANGED chapter) \/ Throws

\* ResearchService.research, up to its sources: no source is not an error, and any
\* failure but a cancellation, the journal's refusal included, is a status.
Search ==
    /\ Dispatch("search")
    /\ \/ \E outcome \in Errors :
             /\ Journalled(ToolKey("search"), outcome)
             /\ Reported(Answered(Executing, "error", None))
       \/ /\ Journalled(ToolKey("search"), "succeeded")
          /\ \/ Reported(Answered(Executing, "plain", None))
             \/ loop' = [Executing EXCEPT !.distilling = TRUE] /\ UNCHANGED chapter
    /\ UNCHANGED <<saved, takeovers, cut>>

\* Mutant: sources are cited once they are there.
CitedWhenFound(outcome) == "sourced"

\* Only what was extracted or distilled is given to the model to cite.
Cited(outcome) == IF outcome = "succeeded" THEN "sourced" ELSE "error"

\* ResearchService.research, its distillation, which may also return nothing.
Distill ==
    /\ Running /\ loop.distilling
    /\ \E outcome \in Errors \cup {"succeeded"} :
          /\ Journalled(ToolKey("distill"), outcome)
          /\ \E kind \in {Cited(outcome), "error"} :
                Reported(Answered(loop, kind, ToolKey("distill")))
    /\ UNCHANGED <<saved, takeovers, cut>>

\* WebExtractService.extract
Extract ==
    /\ Dispatch("extract_webpage")
    /\ \E outcome \in Errors \cup {"succeeded"} :
          /\ Journalled(ToolKey("extract_webpage"), outcome)
          /\ Reported(Answered(Executing, Cited(outcome), ToolKey("extract_webpage")))
    /\ UNCHANGED <<saved, takeovers, cut>>

\* A handler is cancelled before it asks anybody: by the heartbeat that found the
\* lease lost, or by the progress event of its start.
Abort ==
    /\ Running /\ loop.todo # <<>>
    /\ fenced \/ \E name \in Tools \ {"generate_diagram"} : Dispatch(name)
    /\ Throws
    /\ UNCHANGED <<saved, asked, recorded, fenced, takeovers, cut, refused>>

-----------------------------------------------------------------------------
(* Lease and checkpoints                                                   *)

LoseLease ==
    /\ ~fenced /\ takeovers < MaxTakeovers
    /\ fenced' = TRUE
    /\ UNCHANGED <<chapter, saved, loop, asked, recorded, takeovers, cut, refused>>

\* PostgresSaver.put, while the graph runs on; the checkpoint pointer is fenced.
\* Bound: not when no execution is left that would read it.
Persist ==
    /\ ~fenced /\ saved # chapter /\ takeovers < MaxTakeovers
    /\ saved' = chapter
    /\ UNCHANGED <<chapter, loop, asked, recorded, fenced, takeovers, cut, refused>>

\* The request an execution that is killed may have entered in the journal.
InFlight ==
    IF ~Running \/ fenced THEN {}
    ELSE IF loop.todo = <<>> THEN {ModelKey}
    ELSE IF loop.distilling THEN {ToolKey("distill")}
    ELSE IF Due.name \in Tools \ {"generate_diagram"} /\ Dispatchable THEN {ToolKey(Due.name)}
    ELSE {}

\* The execution died or lost its lease, and another run goes on from the newest
\* checkpoint.  What a process without the lease still does reaches nobody.
TakeOver ==
    /\ takeovers < MaxTakeovers
    /\ Running \/ fenced \/ saved # chapter
    /\ takeovers' = takeovers + 1
    /\ cut' = cut \cup (saved.attempts + 1 .. chapter.attempts + IF Running THEN 1 ELSE 0)
    /\ asked' \in {asked, asked \cup InFlight}
    /\ chapter' = saved /\ loop' = None /\ fenced' = FALSE
    /\ UNCHANGED <<saved, recorded, refused>>

Next ==
    \/ StartAttempt \/ SendBack
    \/ Generate \/ Decline \/ RefuseInput \/ Diagram \/ Search \/ Distill \/ Extract \/ Abort
    \/ LoseLease \/ Persist \/ TakeOver

Spec == Init /\ [][Next]_vars

-----------------------------------------------------------------------------
(* Properties                                                              *)

LoopTypeOK ==
    /\ {chapter, saved} \subseteq Chapter
    /\ Running => loop \in Loop
    /\ recorded \subseteq asked /\ asked \subseteq Key
    /\ takeovers \in 0 .. MaxTakeovers
    /\ refused \subseteq Nat /\ cut \subseteq Nat

\* ADR 0008.3: each call of a response has one result, under its id and in order,
\* before the model is asked again, and no id is used twice in a conversation.
ResultsAnswerCalls ==
    Running =>
        /\ Ids(loop.results) \o Ids(loop.todo) = Ids(loop.calls)
        /\ Cardinality(loop.seen) = loop.usage.total - chapter.usage.total + Len(loop.todo)

\* ADR 0008.4: rounds are bounded, and after the last one the model has one request.
RoundsAreBounded ==
    Running => loop.rounds = loop.requests /\ loop.rounds <= MaxToolRounds

\* The conversation with the model is one its protocol allows, and it ends.
ConversationIsSound == LoopTypeOK /\ ResultsAnswerCalls /\ RoundsAreBounded

Handlers(t) == chapter.spent[t] + IF Running THEN loop.executed[t] ELSE 0

\* The sum over the tools of a writer, which are three at most.
Of(f, name) == IF name \in Tools THEN f[name] ELSE 0
Total(f) == Of(f, "search") + Of(f, "extract_webpage") + Of(f, "generate_diagram")

\* ADR 0008.4, ADR 0009.5: the budget is the chapter's.  Over all attempts that
\* returned and the one in progress, through retries, rewrites and takeovers, no
\* tool is run more often than its limit, and all together not more than the total.
ChapterBudgetHolds ==
    /\ \A t \in Tools : Handlers(t) <= Limits[t]
    /\ Total([t \in Tools |-> Handlers(t)]) <= MaxTotalCalls

\* The writer never gets in its own way: the journal refuses a request to the run
\* that holds the lease only in an attempt an earlier execution had begun.
RefusalsAreExplained == refused \subseteq cut

\* ADR 0008.7: what the model is told to cite was found by a request the journal
\* knows to have succeeded, with its distillation, and so was the chapter's text:
\* no failure, refusal or lost lease is passed on as material.
EvidenceIsRecorded ==
    /\ chapter.text # None => chapter.text \in recorded
    /\ Running => \A r \in Range(loop.results) :
          r.kind = "sourced" =>
              /\ r.key \in recorded
              /\ r.key.kind = "distill" => [r.key EXCEPT !.kind = "search"] \in recorded
=============================================================================
