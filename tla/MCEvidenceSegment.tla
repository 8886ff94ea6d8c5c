-------------------------- MODULE MCEvidenceSegment --------------------------
(* Instances of EvidenceSegment for TLC. *)
EXTENDS EvidenceSegment

CONSTANTS j1, j2

MCOneJob == {j1}

MCTwoJobs == {j1, j2}

MCOperator == {j2}
=============================================================================
