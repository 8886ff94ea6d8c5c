------------------------- MODULE PostgresDispatcher -------------------------
(***************************************************************************)
(* The durable, cross-replica dispatcher                                   *)
(* (glassbox/adapters/outbound/postgres/dispatcher.py).                    *)
(*                                                                         *)
(* A call of dispatch() takes an in-flight slot of its replica, claims the *)
(* action's idempotency key with INSERT ... ON CONFLICT DO NOTHING, and    *)
(* either runs the effect handler in the replica's thread pool and records *)
(* the outcome in dispatch_ledger, or waits for the claimant's outcome.    *)
(* Replicas crash and restart, a transaction may fail before or after its  *)
(* commit, and a wait may run into its deadline at any moment.             *)
(***************************************************************************)
EXTENDS Integers, FiniteSets

CONSTANTS
    Calls,        \* invocations of dispatch(); each is one decision's call
    Keys,         \* idempotency keys
    Tenants,      \* tenants
    Replicas,     \* processes, each with a dispatcher of its own
    KeyOf,        \* the call's action.idempotency_key
    TenantOf,     \* the call's action.tenant_id
    HomeOf,       \* the replica that serves the call
    Handled,      \* the calls whose action has a registered handler
    MaxInFlight,  \* max_in_flight: slots, and worker threads, of a replica
    NoCall        \* the claimant of a key nobody has claimed

ASSUME DispatcherAssumption ==
    /\ IsFiniteSet(Calls)
    /\ KeyOf \in [Calls -> Keys]
    /\ TenantOf \in [Calls -> Tenants]
    /\ HomeOf \in [Calls -> Replicas]
    /\ Handled \subseteq Calls
    /\ MaxInFlight \in Nat \ {0}
    /\ NoCall \notin Calls

VARIABLES
    status,    \* dispatch_ledger.status by key; "absent" without a row
    claimant,  \* the call that inserted the key's row
    pc,        \* where each call is in dispatch()
    answer,    \* what the call returns or raises, once known
    job,       \* the call's future in the thread pool
    acted,     \* the calls whose handler has performed the real-world effect
    inFlight,  \* _in_flight of each replica
    up         \* is the replica's process running?

dispatcherVars == <<status, claimant, pc, answer, job, acted, inFlight, up>>

Terminal == {"executed", "failed", "indeterminate"}

\* Inside the try block of dispatch(): the call holds an in-flight slot.
Holding == {"claim", "submit", "wait", "complete", "await", "leave"}

\* The pool will run the handler no further.
Ended == {"ok", "flagged", "raised", "timed", "killed"}

Answers == Terminal \cup {"none", "claim_pending", "refused", "driver_error"}

DispatcherTypeOK ==
    /\ status \in [Keys -> Terminal \cup {"absent", "claimed"}]
    /\ claimant \in [Keys -> Calls \cup {NoCall}]
    /\ pc \in [Calls -> Holding \cup {"idle", "done", "lost"}]
    /\ answer \in [Calls -> Answers]
    /\ job \in [Calls -> Ended \cup {"none", "queued", "running"}]
    /\ acted \subseteq Calls
    /\ inFlight \in [Replicas -> Int]
    /\ up \in [Replicas -> BOOLEAN]

DispatcherInit ==
    /\ status = [k \in Keys |-> "absent"]
    /\ claimant = [k \in Keys |-> NoCall]
    /\ pc = [c \in Calls |-> "idle"]
    /\ answer = [c \in Calls |-> "none"]
    /\ job = [c \in Calls |-> "none"]
    /\ acted = {}
    /\ inFlight = [r \in Replicas |-> 0]
    /\ up = [r \in Replicas |-> TRUE]

At(c, l) == pc[c] = l /\ up[HomeOf[c]]

Goto(c, l) == pc' = [pc EXCEPT ![c] = l]

Answer(c, a) == answer' = [answer EXCEPT ![c] = a]

-----------------------------------------------------------------------------
(* dispatch(): the receipt and handler checks, and the in-flight bound.    *)

Refuse(c) ==
    /\ At(c, "idle")
    /\ c \notin Handled \/ inFlight[HomeOf[c]] >= MaxInFlight
    /\ Answer(c, "refused")
    /\ Goto(c, "done")
    /\ UNCHANGED <<status, claimant, job, acted, inFlight, up>>

Admit(c) ==
    /\ At(c, "idle")
    /\ c \in Handled
    /\ inFlight[HomeOf[c]] < MaxInFlight
    /\ inFlight' = [inFlight EXCEPT ![HomeOf[c]] = @ + 1]
    /\ Goto(c, "claim")
    /\ UNCHANGED <<status, claimant, answer, job, acted, up>>

-----------------------------------------------------------------------------
(* _claim: one transaction; a driver error may hide a committed insert.    *)

InsertRow(c) ==
    /\ status[KeyOf[c]] = "absent"
    /\ status' = [status EXCEPT ![KeyOf[c]] = "claimed"]
    /\ claimant' = [claimant EXCEPT ![KeyOf[c]] = c]

ClaimWon(c) ==
    /\ At(c, "claim")
    /\ InsertRow(c)
    /\ Goto(c, "submit")
    /\ UNCHANGED <<answer, job, acted, inFlight, up>>

\* Mutant: the result of _claim is ignored.
ClaimLostRunsAnyway(c) ==
    /\ At(c, "claim")
    /\ status[KeyOf[c]] # "absent"
    /\ Goto(c, "submit")
    /\ UNCHANGED <<status, claimant, answer, job, acted, inFlight, up>>

ClaimLost(c) ==
    /\ At(c, "claim")
    /\ status[KeyOf[c]] # "absent"
    /\ Goto(c, "await")
    /\ UNCHANGED <<status, claimant, answer, job, acted, inFlight, up>>

\* Mutant: the claim is made before the try block, so the slot leaks.
ClaimFailedLeaks(c) ==
    /\ At(c, "claim")
    /\ InsertRow(c) \/ UNCHANGED <<status, claimant>>
    /\ Answer(c, "driver_error")
    /\ Goto(c, "done")
    /\ UNCHANGED <<job, acted, inFlight, up>>

ClaimFailed(c) ==
    /\ At(c, "claim")
    /\ InsertRow(c) \/ UNCHANGED <<status, claimant>>
    /\ Answer(c, "driver_error")
    /\ Goto(c, "leave")
    /\ UNCHANGED <<job, acted, inFlight, up>>

-----------------------------------------------------------------------------
(* The claimant: submit the handler, wait for it, record the outcome.      *)

Submit(c) ==
    /\ At(c, "submit")
    /\ job' = [job EXCEPT ![c] = "queued"]
    /\ Goto(c, "wait")
    /\ UNCHANGED <<status, claimant, answer, acted, inFlight, up>>

\* Mutant: an undefined outcome counts as success.
OutcomeOfOptimist(j) == IF j \in {"flagged", "raised"} THEN "failed" ELSE "executed"

\* future.result() returns or re-raises: a clean result is EXECUTED, a flagged
\* one and an exception are FAILED.  The handler's own TimeoutError is the class
\* that the except clause for the deadline catches.
OutcomeOf(j) ==
    CASE j = "ok"                    -> "executed"
      [] j \in {"flagged", "raised"} -> "failed"
      [] OTHER                       -> "indeterminate"

WaitReturns(c) ==
    /\ At(c, "wait")
    /\ job[c] \in Ended
    /\ Answer(c, OutcomeOf(job[c]))
    /\ Goto(c, "complete")
    /\ UNCHANGED <<status, claimant, job, acted, inFlight, up>>

\* Mutant: future.result() without a timeout.
WaitNeverTimesOut(c) == At(c, "wait") /\ FALSE

\* Mutant: the deadline is reported as FAILED.
WaitTimesOutAsFailed(c) ==
    /\ At(c, "wait")
    /\ job[c] \notin Ended
    /\ Answer(c, "failed")
    /\ Goto(c, "complete")
    /\ UNCHANGED <<status, claimant, job, acted, inFlight, up>>

\* The deadline: the future is neither cancelled nor waited for any longer.
WaitTimesOut(c) ==
    /\ At(c, "wait")
    /\ job[c] \notin Ended
    /\ Answer(c, "indeterminate")
    /\ Goto(c, "complete")
    /\ UNCHANGED <<status, claimant, job, acted, inFlight, up>>

\* _complete: a driver error is swallowed, whether or not the update committed.
Complete(c) ==
    /\ At(c, "complete")
    /\ \/ status' = [status EXCEPT ![KeyOf[c]] = answer[c]]
       \/ UNCHANGED status
    /\ Goto(c, "leave")
    /\ UNCHANGED <<claimant, answer, job, acted, inFlight, up>>

-----------------------------------------------------------------------------
(* _await_existing: one read of the ledger per poll, under row-level       *)
(* security: only rows of the call's own tenant are visible.               *)

Visible(c) ==
    /\ claimant[KeyOf[c]] # NoCall
    /\ TenantOf[claimant[KeyOf[c]]] = TenantOf[c]

AwaitReturns(c) ==
    /\ At(c, "await")
    /\ Visible(c)
    /\ status[KeyOf[c]] \in Terminal
    /\ Answer(c, status[KeyOf[c]])
    /\ Goto(c, "leave")
    /\ UNCHANGED <<status, claimant, job, acted, inFlight, up>>

AwaitTimesOut(c) ==
    /\ At(c, "await")
    /\ ~(Visible(c) /\ status[KeyOf[c]] \in Terminal)
    /\ Answer(c, "claim_pending")
    /\ Goto(c, "leave")
    /\ UNCHANGED <<status, claimant, job, acted, inFlight, up>>

AwaitFailed(c) ==
    /\ At(c, "await")
    /\ Answer(c, "driver_error")
    /\ Goto(c, "leave")
    /\ UNCHANGED <<status, claimant, job, acted, inFlight, up>>

\* The finally block of dispatch().
Leave(c) ==
    /\ At(c, "leave")
    /\ inFlight' = [inFlight EXCEPT ![HomeOf[c]] = @ - 1]
    /\ Goto(c, "done")
    /\ UNCHANGED <<status, claimant, answer, job, acted, up>>

-----------------------------------------------------------------------------
(* The thread pool and the handlers registered with it.  A handler may     *)
(* hang, and may raise before or after its effect.                         *)

RunningAt(r) == {c \in Calls : HomeOf[c] = r /\ job[c] = "running"}

StartHandler(c) ==
    /\ job[c] = "queued"
    /\ up[HomeOf[c]]
    /\ Cardinality(RunningAt(HomeOf[c])) < MaxInFlight
    /\ job' = [job EXCEPT ![c] = "running"]
    /\ UNCHANGED <<status, claimant, pc, answer, acted, inFlight, up>>

Effect(c) ==
    /\ job[c] = "running"
    /\ up[HomeOf[c]]
    /\ c \notin acted
    /\ acted' = acted \cup {c}
    /\ UNCHANGED <<status, claimant, pc, answer, job, inFlight, up>>

FinishHandler(c) ==
    /\ job[c] = "running"
    /\ up[HomeOf[c]]
    /\ \E j \in {"raised", "timed"} \cup (IF c \in acted THEN {"ok", "flagged"} ELSE {}) :
          job' = [job EXCEPT ![c] = j]
    /\ UNCHANGED <<status, claimant, pc, answer, acted, inFlight, up>>

-----------------------------------------------------------------------------
(* Process failure: everything in the replica's memory is lost.            *)

Crash(r) ==
    /\ up[r]
    /\ up' = [up EXCEPT ![r] = FALSE]
    /\ pc' = [c \in Calls |->
                IF HomeOf[c] = r /\ pc[c] \in Holding THEN "lost" ELSE pc[c]]
    /\ job' = [c \in Calls |->
                IF HomeOf[c] = r /\ job[c] \in {"queued", "running"} THEN "killed" ELSE job[c]]
    /\ inFlight' = [inFlight EXCEPT ![r] = 0]
    /\ UNCHANGED <<status, claimant, answer, acted>>

Restart(r) ==
    /\ ~up[r]
    /\ up' = [up EXCEPT ![r] = TRUE]
    /\ UNCHANGED <<status, claimant, pc, answer, job, acted, inFlight>>

-----------------------------------------------------------------------------
\* dispatch() once it is called, step by step.
CallStep(c) ==
    \/ ClaimWon(c) \/ ClaimLost(c)
    \/ Submit(c) \/ WaitReturns(c) \/ WaitTimesOut(c) \/ Complete(c)
    \/ AwaitReturns(c) \/ AwaitTimesOut(c)
    \/ Leave(c)

CallFails(c) == ClaimFailed(c) \/ AwaitFailed(c)

PoolStep(c) == StartHandler(c) \/ Effect(c) \/ FinishHandler(c)

DispatcherNext ==
    \/ \E c \in Calls : Refuse(c) \/ Admit(c) \/ CallStep(c) \/ CallFails(c) \/ PoolStep(c)
    \/ \E r \in Replicas : Crash(r) \/ Restart(r)

DispatcherSpec == DispatcherInit /\ [][DispatcherNext]_dispatcherVars

-----------------------------------------------------------------------------
(* Properties.                                                             *)

\* At most one effect per idempotency key, whichever replicas serve the calls
\* and whenever they crash (the promise of PostgresDispatcher.dispatch).
AtMostOncePerKey ==
    \A c, d \in acted : KeyOf[c] = KeyOf[d] => c = d

\* An EXECUTED answer, the claimant's own or one read from the ledger by
\* _await_existing, is only given when the key's effect has happened.
ExecutedIsTrue ==
    \A c \in Calls :
        answer[c] = "executed" => \E d \in acted : KeyOf[d] = KeyOf[c]

\* EXECUTED and FAILED are final: once a call has one of these answers, no
\* handler performs an effect for its key any more.  This is why the deadline in
\* dispatch() must report INDETERMINATE.
NoEffectAfterDefiniteAnswer ==
    [][\A c \in acted' \ acted : \A d \in Calls :
          KeyOf[d] = KeyOf[c] => answer[d] \notin {"executed", "failed"}]_dispatcherVars

\* Two calls for one key never get contradicting definite answers: what
\* _complete wrote is what the claimant returned and what every waiter reads.
DefiniteAnswersAgree ==
    \A c, d \in Calls :
        /\ KeyOf[c] = KeyOf[d]
        /\ answer[c] \in {"executed", "failed"}
        /\ answer[d] \in {"executed", "failed"}
        => answer[c] = answer[d]

\* A ledger row is written once: a terminal status never changes, and no call
\* takes over a claim, its own retry after a crash included.
LedgerIsWriteOnce ==
    [][\A k \in Keys :
          /\ status[k] \in Terminal => status'[k] = status[k]
          /\ status[k] # "absent" => claimant'[k] = claimant[k]]_dispatcherVars

\* The calls of a replica that hold an in-flight slot.
Holders(r) == {c \in Calls : HomeOf[c] = r /\ pc[c] \in Holding}

\* _in_flight counts exactly the calls between the bound check and the finally
\* block, on every path out of dispatch(), and stays within the bound.
InFlightIsExact ==
    \A r \in Replicas :
        /\ inFlight[r] = Cardinality(Holders(r))
        /\ inFlight[r] <= MaxInFlight

\* The answer or ledger status a is what the claimant's ended handler means.
Settled(a, k) ==
    /\ a = "executed" => job[claimant[k]] = "ok"
    /\ a = "failed" => job[claimant[k]] \in {"flagged", "raised"}

\* Why the safety properties hold: a handler belongs to the claimant of its key,
\* a call between its claim and _complete owns a row that is still 'claimed', and
\* every definite answer or status is the verdict of the claimant's handler.
LedgerInv ==
    /\ \A k \in Keys :
          /\ status[k] = "absent" <=> claimant[k] = NoCall
          /\ claimant[k] # NoCall => KeyOf[claimant[k]] = k
          /\ Settled(status[k], k)
    /\ \A c \in Calls :
          /\ pc[c] \in {"submit", "wait", "complete"}
                => claimant[KeyOf[c]] = c /\ status[KeyOf[c]] = "claimed"
          /\ pc[c] \in {"idle", "claim", "submit"} => job[c] = "none"
          /\ pc[c] = "complete" => answer[c] \in Terminal
          /\ pc[c] \in {"idle", "claim", "submit", "wait", "await"} => answer[c] = "none"
          /\ job[c] # "none" => claimant[KeyOf[c]] = c
          /\ job[c] \in {"ok", "flagged"} => c \in acted
          /\ c \in acted => job[c] # "none"
          /\ answer[c] \in {"executed", "failed"} => claimant[KeyOf[c]] # NoCall
          /\ Settled(answer[c], KeyOf[c])

\* "bound concurrency. No unbounded submission into a shared pool"
\* (ports/dispatcher.py): the pool never holds more than max_in_flight handlers.
PoolIsBounded ==
    \A r \in Replicas :
        Cardinality({c \in Calls : HomeOf[c] = r /\ job[c] \in {"queued", "running"}})
            <= MaxInFlight
=============================================================================
