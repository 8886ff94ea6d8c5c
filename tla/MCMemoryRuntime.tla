-------------------------- MODULE MCMemoryRuntime --------------------------
(***************************************************************************)
(* Instances of MemoryRuntime for TLC: two decisions that carry the same   *)
(* idempotency key.                                                        *)
(***************************************************************************)
EXTENDS MemoryRuntime, TLC

CONSTANTS c1, c2, k1, d1, d2, j1, j2

MCCalls == {c1, c2}
MCDecisionOf == [c \in MCCalls |-> IF c = c1 THEN d1 ELSE d2]
MCKeyOf == [c \in MCCalls |-> k1]
MCSymmetry == Permutations({j1, j2})
MCSigningKeys == <<"v1", "v2">>
=============================================================================
