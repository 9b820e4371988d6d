--------------------------- MODULE MCWorkflowGraph --------------------------
(* TLC instances of WorkflowGraph.                                         *)
EXTENDS WorkflowGraph

\* Jobs without the interrupt, with it, and of either kind.
Unattended == {FALSE}
Attended == {TRUE}
Either == Unattended \cup Attended

\* A draft that is sent back is replaced by the revision, so its size is explored as
\* one chapter only.
OneDraft == \A n \in 1 .. Len(replies) : replies[n].action = "revise" => replies[n].outline = 1
=============================================================================
