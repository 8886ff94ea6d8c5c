--------------------------- MODULE MCLimitStore ---------------------------
(***************************************************************************)
(* Instances of LimitStore for TLC.                                        *)
(***************************************************************************)
EXTENDS LimitStore

CONSTANTS c1, c2, c3, c4, k1, k2

\* Three calls on one counter; the fourth brings in a second counter.
MCKeyOf == [c \in {c1, c2, c3, c4} |-> IF c = c4 THEN k2 ELSE k1]
MCCostOf == [c \in {c1, c2, c3, c4} |-> 1]

\* Every call is for a decision of its own.
MCMintedIds == [c \in {c1, c2, c3, c4} |-> c]

\* The calls on the first counter are interchangeable.
MCSymmetry == Permutations({c1, c2, c3})

\* The second call retries the first decision.
MCRetriedIds == [c \in {c1, c2, c3, c4} |-> IF c = c2 THEN c1 ELSE c]
=============================================================================
