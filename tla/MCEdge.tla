------------------------------- MODULE MCEdge -------------------------------
(***************************************************************************)
(* Instances of HttpEdge and KmsSigner for TLC.  The two share no state    *)
(* and meet only in the class of an error, so a behaviour is one of the    *)
(* first or one of the second, chosen at the start.                        *)
(***************************************************************************)
EXTENDS HttpEdge, KmsSigner

VARIABLE part

vars == <<part, edgeVars, signerVars>>

Init == part \in {"edge", "signer"} /\ EdgeInit /\ SignerInit

Next ==
  \/ part = "edge" /\ EdgeNext /\ UNCHANGED <<part, signerVars>>
  \/ part = "signer" /\ SignerNext /\ UNCHANGED <<part, edgeVars>>

Spec == Init /\ [][Next]_vars /\ (part = "signer" => SignerFairness)
=============================================================================
