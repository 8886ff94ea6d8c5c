------------------------ MODULE MCApprovalWorkflow ------------------------
(***************************************************************************)
(* Instances of ApprovalWorkflow for TLC.                                  *)
(***************************************************************************)
EXTENDS ApprovalWorkflow

CONSTANTS c1, c2, c3, x1, m1, r1, r2

\* One creator and the monitor run on the second replica.
MCHomeOf ==
    [p \in {c1, c2, c3, x1, m1} |-> IF p \in {c2, c3, x1} THEN r1 ELSE r2]

\* Two calls may create the workflow; reviewers vote, take over, comment, decide.
MCOpsOf ==
    [c \in {c1, c2, c3} |->
       CASE c = c1 -> {"create"}
         [] c = c2 -> {"create", "approve", "review", "comment"}
         [] c = c3 -> {"approve", "reject", "escalate", "revoke"}]
=============================================================================
