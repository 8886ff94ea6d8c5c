------------------------ MODULE MCDecisionService ------------------------
(***************************************************************************)
(* Instances of DecisionService for TLC.                                   *)
(***************************************************************************)
EXTENDS DecisionService

CONSTANTS c1, c2, r1, r2, k1, t1, d1, d2

MCCalls == {c1, c2}

\* Two requests with one idempotency key, on two replicas, for one tenant.
MCKeyOf == [c \in MCCalls |-> k1]
MCTenantOf == [c \in MCCalls |-> t1]
MCHomeOf == [c \in MCCalls |-> IF c = c1 THEN r1 ELSE r2]

\* Both requests are served by one replica.
MCOneHome == [c \in MCCalls |-> r1]

\* A tool call and a catalogue request; a pre-built action and a replay.
MCEntries == [c \in MCCalls |-> IF c = c1 THEN "tool" ELSE "request"]
MCReplayEntries == [c \in MCCalls |-> IF c = c1 THEN "action" ELSE "replay"]

\* Decision ids minted by the service.
MCMintedIds == [c \in MCCalls |-> IF c = c1 THEN d1 ELSE d2]

\* A caller retries with the decision id of its first attempt.
MCCallerIds == [c \in MCCalls |-> d1]
=============================================================================
