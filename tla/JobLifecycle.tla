---------------------------- MODULE JobLifecycle ----------------------------
(***************************************************************************)
(* What the job store promises about a job, seen from the API: the status  *)
(* it reports, how many times execution was started, and whether the user  *)
(* asked to stop.  It knows nothing of leases, tokens, rows or events.     *)
(***************************************************************************)
EXTENDS Naturals

CONSTANT Jobs

VARIABLES
    phase,      \* the status the API reports
    attempt,    \* executions started so far
    stopping    \* a cancellation was requested

lifecycleVars == <<phase, attempt, stopping>>

Finished == {"completed", "failed", "cancelled"}

Init ==
    /\ phase = [j \in Jobs |-> "absent"]
    /\ attempt = [j \in Jobs |-> 0]
    /\ stopping = [j \in Jobs |-> FALSE]

Move(j, from, to) ==
    /\ phase[j] \in from
    /\ phase' = [phase EXCEPT ![j] = to]

Accept(j) == Move(j, {"absent"}, "queued") /\ UNCHANGED <<attempt, stopping>>

\* A first execution, one after an answer, or one that replaces a lost one.
Start(j) ==
    /\ ~stopping[j]
    /\ Move(j, {"queued", "running"}, "running")
    /\ attempt' = [attempt EXCEPT ![j] = @ + 1]
    /\ UNCHANGED stopping

Ask(j) ==
    /\ ~stopping[j]
    /\ Move(j, {"running"}, "awaiting_input")
    /\ UNCHANGED <<attempt, stopping>>

Answer(j) == Move(j, {"awaiting_input"}, "queued") /\ UNCHANGED <<attempt, stopping>>

\* A job nobody executes stops at once, a running one is told to.
Stop(j) ==
    /\ \/ Move(j, {"queued", "awaiting_input"}, "cancelled")
       \/ Move(j, {"running"}, "running")
    /\ stopping' = [stopping EXCEPT ![j] = TRUE]
    /\ UNCHANGED attempt

Finish(j, outcome) ==
    /\ stopping[j] => outcome = "cancelled"
    /\ Move(j, {"running"}, outcome)
    /\ UNCHANGED <<attempt, stopping>>

Next ==
    \E j \in Jobs :
        \/ Accept(j) \/ Start(j) \/ Ask(j) \/ Answer(j) \/ Stop(j)
        \/ \E outcome \in Finished : Finish(j, outcome)

Spec == Init /\ [][Next]_lifecycleVars
=============================================================================
