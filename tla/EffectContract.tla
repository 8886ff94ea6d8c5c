---------------------------- MODULE EffectContract ----------------------------
(***************************************************************************)
(* What the governance boundary promises about real-world effects, without *)
(* replicas, ledgers, pools or pipelines (ports/dispatcher.py and          *)
(* ports/evidence.py): an effect follows a durable record that allows it,  *)
(* happens at most once per idempotency key, and what callers are told     *)
(* about it is true and stays true.                                        *)
(***************************************************************************)
CONSTANTS Calls, Keys, KeyOf

VARIABLES
    recorded,   \* requests whose allowing intent record is durable
    performed,  \* requests that have had their effect
    reported    \* what each caller is told: "executed", "failed", "unknown"

contractVars == <<recorded, performed, reported>>

Definite == {"executed", "failed"}

SameKey(c) == {d \in Calls : KeyOf[d] = KeyOf[c]}

Init ==
    /\ recorded = {}
    /\ performed = {}
    /\ reported = [c \in Calls |-> "none"]

\* append_intent returned a receipt, or committed and could not say so.
Record(c) ==
    /\ recorded' = recorded \cup {c}
    /\ UNCHANGED <<performed, reported>>

\* The effect: recorded first, the only one of its key, and not after anybody
\* was given a definite answer for the key.
Perform(c) ==
    /\ c \in recorded
    /\ performed \cap SameKey(c) = {}
    /\ \A d \in SameKey(c) : reported[d] \notin Definite
    /\ performed' = performed \cup {c}
    /\ UNCHANGED <<recorded, reported>>

\* An answer: EXECUTED only after the effect, and definite answers agree.
Report(c, s) ==
    /\ reported[c] = "none"
    /\ s = "executed" => performed \cap SameKey(c) # {}
    /\ s \in Definite => \A d \in SameKey(c) : reported[d] \in Definite => reported[d] = s
    /\ reported' = [reported EXCEPT ![c] = s]
    /\ UNCHANGED <<recorded, performed>>

Next ==
    \E c \in Calls :
        \/ Record(c)
        \/ Perform(c)
        \/ \E s \in Definite \cup {"unknown"} : Report(c, s)

Spec == Init /\ [][Next]_contractVars
=============================================================================
