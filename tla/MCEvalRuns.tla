----------------------------- MODULE MCEvalRuns -----------------------------
(* For TLC: one completed run that two sampling versions select, so that a    *)
(* suite has up to two cases with their own retention, and a request of each  *)
(* kind.                                                                      *)
EXTENDS EvalRuns

CONSTANTS r1, v1, v2, qa, qc, qi, w1, w2, e

MCSelects == (v1 :> {r1}) @@ (v2 :> {r1})
MCRetention == (v1 :> 1) @@ (v2 :> 2)
\* The second release calibrates another model, the third has another plan.
MCPlan == [n \in 1 .. MaxRelease |-> IF n = 3 THEN "plan2" ELSE "plan1"]
MCModel == [n \in 1 .. MaxRelease |-> IF n = 2 THEN "model2" ELSE "model1"]
MCTarget == (qa :> "article") @@ (qc :> "calibration") @@ (qi :> "inline")
WorkerSymmetry == Permutations(Workers)

\* Bounds: the kinds of request share no state, so each is explored alone, the
\* synthetic ones without the curation, a third release only under a calibration;
\* once a run of the suite is requested, the candidates and articles outside the
\* suite stay out of the way.
Used(q) == evalRuns[q].status # "absent"
Untouched == now = 0 /\ runs[r1].stamp = 0 /\ \A v \in Versions : policies[v] = None
OneRequest ==
    /\ Cardinality({q \in Requests : Used(q)}) <= 1
    /\ authorization.status # "absent" => ~Used(qa) /\ ~Used(qi)
    /\ release = 3 => authorization.status # "absent"
    /\ Used(qi) \/ authorization.status # "absent" => Untouched
    /\ Used(qa) =>
         /\ articles[r1] = 1 /\ \A v \in Versions : policies[v] = None
         /\ \A c \in CandidateIds : candidates[c] # None =>
              \E k \in suite.dataset : k.candidate = c
=============================================================================
