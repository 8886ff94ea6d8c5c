----------------------- MODULE MCPostgresDispatcher -----------------------
(***************************************************************************)
(* Instances of PostgresDispatcher for TLC.                                *)
(***************************************************************************)
EXTENDS PostgresDispatcher

CONSTANTS c1, c2, c3, r1, r2, k1, k2, t1, t2

MCCalls == {c1, c2, c3}

\* Two calls of one tenant race for k1 from two replicas; the third shares a
\* replica with the first, and its tenant happens to use the same key.
MCKeyOf == [c \in MCCalls |-> k1]
MCTenantOf == [c \in MCCalls |-> IF c = c3 THEN t2 ELSE t1]
MCHomeOf == [c \in MCCalls |-> IF c = c2 THEN r2 ELSE r1]

\* Two keys: the third call has a key of its own.
MCKeyOf2 == [c \in MCCalls |-> IF c = c3 THEN k2 ELSE k1]
=============================================================================
