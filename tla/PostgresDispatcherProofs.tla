---------------------- MODULE PostgresDispatcherProofs ----------------------
(***************************************************************************)
(* Proofs about PostgresDispatcher for any number of calls, keys, tenants  *)
(* and replicas.                                                           *)
(***************************************************************************)
EXTENDS PostgresDispatcher, FiniteSetTheorems, TLAPS

-----------------------------------------------------------------------------
(* Type correctness.                                                       *)

\* The initial state has the right types (DispatcherInit).
LEMMA TypeInit == DispatcherInit => DispatcherTypeOK
BY DispatcherAssumption
DEF DispatcherInit, DispatcherTypeOK, Terminal, Holding, Ended, Answers

\* Every step of dispatch(), of the pool and of process failure keeps the types.
LEMMA TypeNext ==
    DispatcherTypeOK /\ LedgerInv /\ [DispatcherNext]_dispatcherVars => DispatcherTypeOK'
<1> SUFFICES ASSUME DispatcherTypeOK, LedgerInv, [DispatcherNext]_dispatcherVars
             PROVE  DispatcherTypeOK'
  OBVIOUS
<1> USE DispatcherAssumption DEF DispatcherTypeOK, Terminal, Holding, Ended, Answers
<1>1. ASSUME NEW c \in Calls, Refuse(c) PROVE DispatcherTypeOK'
  BY <1>1 DEF Refuse, At, Goto, Answer
<1>2. ASSUME NEW c \in Calls, Admit(c) PROVE DispatcherTypeOK'
  BY <1>2 DEF Admit, At, Goto, Answer
<1>3. ASSUME NEW c \in Calls, ClaimWon(c) PROVE DispatcherTypeOK'
  BY <1>3 DEF ClaimWon, InsertRow, At, Goto, Answer
<1>4. ASSUME NEW c \in Calls, ClaimLost(c) PROVE DispatcherTypeOK'
  BY <1>4 DEF ClaimLost, At, Goto, Answer
<1>5. ASSUME NEW c \in Calls, ClaimFailed(c) PROVE DispatcherTypeOK'
  BY <1>5 DEF ClaimFailed, InsertRow, At, Goto, Answer
<1>6. ASSUME NEW c \in Calls, Submit(c) PROVE DispatcherTypeOK'
  BY <1>6 DEF Submit, At, Goto, Answer
<1>7. ASSUME NEW c \in Calls, WaitReturns(c) PROVE DispatcherTypeOK'
  BY <1>7 DEF WaitReturns, OutcomeOf, At, Goto, Answer
<1>8. ASSUME NEW c \in Calls, WaitTimesOut(c) PROVE DispatcherTypeOK'
  BY <1>8 DEF WaitTimesOut, At, Goto, Answer
<1>9. ASSUME NEW c \in Calls, Complete(c) PROVE DispatcherTypeOK'
  BY <1>9 DEF Complete, At, Goto, Answer, LedgerInv
<1>10. ASSUME NEW c \in Calls, AwaitReturns(c) PROVE DispatcherTypeOK'
  BY <1>10 DEF AwaitReturns, At, Goto, Answer
<1>11. ASSUME NEW c \in Calls, AwaitTimesOut(c) PROVE DispatcherTypeOK'
  BY <1>11 DEF AwaitTimesOut, At, Goto, Answer
<1>12. ASSUME NEW c \in Calls, AwaitFailed(c) PROVE DispatcherTypeOK'
  BY <1>12 DEF AwaitFailed, At, Goto, Answer
<1>13. ASSUME NEW c \in Calls, Leave(c) PROVE DispatcherTypeOK'
  BY <1>13 DEF Leave, At, Goto, Answer
<1>14. ASSUME NEW c \in Calls, StartHandler(c) PROVE DispatcherTypeOK'
  BY <1>14 DEF StartHandler
<1>15. ASSUME NEW c \in Calls, Effect(c) PROVE DispatcherTypeOK'
  BY <1>15 DEF Effect
<1>16. ASSUME NEW c \in Calls, FinishHandler(c) PROVE DispatcherTypeOK'
  BY <1>16 DEF FinishHandler
<1>17. ASSUME NEW r \in Replicas, Crash(r) PROVE DispatcherTypeOK'
  BY <1>17 DEF Crash
<1>18. ASSUME NEW r \in Replicas, Restart(r) PROVE DispatcherTypeOK'
  BY <1>18 DEF Restart
<1>19. CASE UNCHANGED dispatcherVars
  BY <1>19 DEF dispatcherVars
<1> QED
  BY <1>1, <1>2, <1>3, <1>4, <1>5, <1>6, <1>7, <1>8, <1>9, <1>10, <1>11, <1>12, <1>13, <1>14,
     <1>15, <1>16, <1>17, <1>18, <1>19 DEF DispatcherNext, CallStep, CallFails, PoolStep

-----------------------------------------------------------------------------
(* The inductive invariant.                                                *)

\* Nothing is claimed initially (DispatcherInit).
LEMMA LedgerInvInit == DispatcherInit => LedgerInv
BY DispatcherAssumption DEF DispatcherInit, LedgerInv, Settled, Terminal

\* Every step keeps the claimant's ownership of its key (LedgerInv).
LEMMA LedgerInvNext ==
    DispatcherTypeOK /\ LedgerInv /\ [DispatcherNext]_dispatcherVars => LedgerInv'
<1> SUFFICES ASSUME DispatcherTypeOK, LedgerInv, [DispatcherNext]_dispatcherVars
             PROVE  LedgerInv'
  OBVIOUS
<1> USE DispatcherAssumption DEF DispatcherTypeOK, LedgerInv, Settled, Terminal, Holding, Ended,
Answers
<1>1. ASSUME NEW c \in Calls, Refuse(c) PROVE LedgerInv'
  BY <1>1 DEF Refuse, At, Goto, Answer
<1>2. ASSUME NEW c \in Calls, Admit(c) PROVE LedgerInv'
  BY <1>2 DEF Admit, At, Goto, Answer
<1>3. ASSUME NEW c \in Calls, ClaimWon(c) PROVE LedgerInv'
  BY <1>3 DEF ClaimWon, InsertRow, At, Goto, Answer
<1>4. ASSUME NEW c \in Calls, ClaimLost(c) PROVE LedgerInv'
  BY <1>4 DEF ClaimLost, At, Goto, Answer
<1>5. ASSUME NEW c \in Calls, ClaimFailed(c) PROVE LedgerInv'
  BY <1>5 DEF ClaimFailed, InsertRow, At, Goto, Answer
<1>6. ASSUME NEW c \in Calls, Submit(c) PROVE LedgerInv'
  BY <1>6 DEF Submit, At, Goto, Answer
<1>7. ASSUME NEW c \in Calls, WaitReturns(c) PROVE LedgerInv'
  BY <1>7 DEF WaitReturns, OutcomeOf, At, Goto, Answer
<1>8. ASSUME NEW c \in Calls, WaitTimesOut(c) PROVE LedgerInv'
  BY <1>8 DEF WaitTimesOut, At, Goto, Answer
<1>9. ASSUME NEW c \in Calls, Complete(c) PROVE LedgerInv'
  BY <1>9 DEF Complete, At, Goto, Answer
<1>10. ASSUME NEW c \in Calls, AwaitReturns(c) PROVE LedgerInv'
  BY <1>10 DEF AwaitReturns, At, Goto, Answer, Visible
<1>11. ASSUME NEW c \in Calls, AwaitTimesOut(c) PROVE LedgerInv'
  BY <1>11 DEF AwaitTimesOut, At, Goto, Answer, Visible
<1>12. ASSUME NEW c \in Calls, AwaitFailed(c) PROVE LedgerInv'
  BY <1>12 DEF AwaitFailed, At, Goto, Answer
<1>13. ASSUME NEW c \in Calls, Leave(c) PROVE LedgerInv'
  BY <1>13 DEF Leave, At, Goto, Answer
<1>14. ASSUME NEW c \in Calls, StartHandler(c) PROVE LedgerInv'
  BY <1>14 DEF StartHandler
<1>15. ASSUME NEW c \in Calls, Effect(c) PROVE LedgerInv'
  BY <1>15 DEF Effect
<1>16. ASSUME NEW c \in Calls, FinishHandler(c) PROVE LedgerInv'
  BY <1>16 DEF FinishHandler
<1>17. ASSUME NEW r \in Replicas, Crash(r) PROVE LedgerInv'
  BY <1>17 DEF Crash
<1>18. ASSUME NEW r \in Replicas, Restart(r) PROVE LedgerInv'
  BY <1>18 DEF Restart
<1>19. CASE UNCHANGED dispatcherVars
  BY <1>19 DEF dispatcherVars
<1> QED
  BY <1>1, <1>2, <1>3, <1>4, <1>5, <1>6, <1>7, <1>8, <1>9, <1>10, <1>11, <1>12, <1>13, <1>14,
     <1>15, <1>16, <1>17, <1>18, <1>19 DEF DispatcherNext, CallStep, CallFails, PoolStep

\* Type correctness of the dispatcher's state and of the ledger.
THEOREM DispatcherTypes == DispatcherSpec => []DispatcherTypeOK
BY TypeInit, TypeNext, LedgerInvInit, LedgerInvNext, PTL DEF DispatcherSpec

\* The invariant the other theorems rest on: handlers belong to claimants, and
\* every definite answer is the verdict of the claimant's handler.
THEOREM LedgerInvariant == DispatcherSpec => []LedgerInv
BY TypeInit, TypeNext, LedgerInvInit, LedgerInvNext, PTL DEF DispatcherSpec

-----------------------------------------------------------------------------
(* Safety of the answers and of the ledger.                                *)

\* What the invariant says of effects and answers: a handler that acted belongs to
\* the key's only claimant, and definite answers are the verdict of that handler.
LEMMA LedgerInvSuffices ==
    DispatcherTypeOK /\ LedgerInv => AtMostOncePerKey /\ ExecutedIsTrue /\ DefiniteAnswersAgree
<1> SUFFICES ASSUME DispatcherTypeOK, LedgerInv
             PROVE  AtMostOncePerKey /\ ExecutedIsTrue /\ DefiniteAnswersAgree
  OBVIOUS
<1>1. AtMostOncePerKey
  BY DEF DispatcherTypeOK, LedgerInv, AtMostOncePerKey
<1>2. ExecutedIsTrue
  BY DispatcherAssumption DEF DispatcherTypeOK, LedgerInv, Settled, ExecutedIsTrue
<1>3. DefiniteAnswersAgree
  BY DispatcherAssumption DEF DispatcherTypeOK, LedgerInv, Settled, DefiniteAnswersAgree
<1> QED
  BY <1>1, <1>2, <1>3

\* One effect per idempotency key, across replicas, crashes and retries.
THEOREM AtMostOnce == DispatcherSpec => []AtMostOncePerKey
BY LedgerInvSuffices, DispatcherTypes, LedgerInvariant, PTL

\* An EXECUTED answer is only given when the key's effect has happened.
THEOREM ExecutedTrue == DispatcherSpec => []ExecutedIsTrue
BY LedgerInvSuffices, DispatcherTypes, LedgerInvariant, PTL

\* Definite answers for one key agree, whoever gives them.
THEOREM AnswersAgree == DispatcherSpec => []DefiniteAnswersAgree
BY LedgerInvSuffices, DispatcherTypes, LedgerInvariant, PTL

\* No step performs an effect for a key once somebody has a definite answer for
\* it: the claimant's handler has ended, and only a running handler acts.
LEMMA EffectStep ==
    DispatcherTypeOK /\ LedgerInv /\ [DispatcherNext]_dispatcherVars =>
        \A c \in acted' \ acted : \A d \in Calls :
            KeyOf[d] = KeyOf[c] => answer[d] \notin {"executed", "failed"}
<1> SUFFICES ASSUME DispatcherTypeOK, LedgerInv, [DispatcherNext]_dispatcherVars,
                    NEW c \in acted' \ acted
             PROVE  \A d \in Calls :
                        KeyOf[d] = KeyOf[c] => answer[d] \notin {"executed", "failed"}
  OBVIOUS
<1>1. Effect(c) /\ c \in Calls
  BY DEF DispatcherNext, dispatcherVars, CallStep, CallFails, PoolStep, Refuse, Admit,
         ClaimWon, ClaimLost, ClaimFailed, Submit, WaitReturns, WaitTimesOut, Complete,
         AwaitReturns, AwaitTimesOut, AwaitFailed, Leave, StartHandler, Effect,
         FinishHandler, Crash, Restart
<1>2. job[c] = "running" /\ claimant[KeyOf[c]] = c
  BY <1>1 DEF Effect, LedgerInv
<1> QED
  BY <1>1, <1>2, DispatcherAssumption DEF DispatcherTypeOK, LedgerInv, Settled

\* EXECUTED and FAILED are final for the key, on every replica.
THEOREM DefiniteIsFinal == DispatcherSpec => NoEffectAfterDefiniteAnswer
BY EffectStep, DispatcherTypes, LedgerInvariant, PTL
DEF DispatcherSpec, NoEffectAfterDefiniteAnswer

\* No step rewrites a terminal status or hands a claim to another call.
LEMMA LedgerStep ==
    DispatcherTypeOK /\ LedgerInv /\ [DispatcherNext]_dispatcherVars =>
        \A k \in Keys :
            /\ status[k] \in Terminal => status'[k] = status[k]
            /\ status[k] # "absent" => claimant'[k] = claimant[k]
<1> SUFFICES ASSUME DispatcherTypeOK, LedgerInv, [DispatcherNext]_dispatcherVars,
                    NEW k \in Keys
             PROVE  /\ status[k] \in Terminal => status'[k] = status[k]
                    /\ status[k] # "absent" => claimant'[k] = claimant[k]
  OBVIOUS
<1>1. CASE UNCHANGED <<status, claimant>>
  BY <1>1
<1>2. ASSUME NEW c \in Calls, ClaimWon(c) \/ ClaimFailed(c), ~UNCHANGED <<status, claimant>>
      PROVE  /\ status[k] \in Terminal => status'[k] = status[k]
             /\ status[k] # "absent" => claimant'[k] = claimant[k]
  BY <1>2, DispatcherAssumption
  DEF ClaimWon, ClaimFailed, InsertRow, DispatcherTypeOK, Terminal
<1>3. ASSUME NEW c \in Calls, Complete(c)
      PROVE  /\ status[k] \in Terminal => status'[k] = status[k]
             /\ status[k] # "absent" => claimant'[k] = claimant[k]
  BY <1>3, DispatcherAssumption DEF Complete, At, DispatcherTypeOK, LedgerInv, Terminal
<1> QED
  BY <1>1, <1>2, <1>3
  DEF DispatcherNext, dispatcherVars, CallStep, CallFails, PoolStep, Refuse, Admit,
      ClaimLost, Submit, WaitReturns, WaitTimesOut, AwaitReturns, AwaitTimesOut,
      AwaitFailed, Leave, StartHandler, Effect, FinishHandler, Crash, Restart

\* The ledger is written once per key: claimed by one call, then settled by it.
THEOREM WriteOnce == DispatcherSpec => LedgerIsWriteOnce
BY LedgerStep, DispatcherTypes, LedgerInvariant, PTL
DEF DispatcherSpec, LedgerIsWriteOnce

-----------------------------------------------------------------------------
(* The in-flight counter.                                                  *)

\* The slots of a replica are held by finitely many calls.
LEMMA HoldersFinite == \A r \in Replicas : IsFiniteSet(Holders(r))
BY FS_Subset, DispatcherAssumption DEF Holders

\* Every path into and out of dispatch() keeps the counter exact: the bound check
\* adds one, the finally block removes one, a crash loses counter and calls alike.
LEMMA InFlightNext ==
    DispatcherTypeOK /\ InFlightIsExact /\ [DispatcherNext]_dispatcherVars
        => InFlightIsExact'
<1> SUFFICES ASSUME DispatcherTypeOK, InFlightIsExact, [DispatcherNext]_dispatcherVars,
                    NEW r \in Replicas
             PROVE  /\ inFlight'[r] = Cardinality(Holders(r)')
                    /\ inFlight'[r] <= MaxInFlight
  BY DEF InFlightIsExact, Holders
<1> DEFINE Goal == /\ inFlight'[r] = Cardinality(Holders(r)')
                   /\ inFlight'[r] <= MaxInFlight
<1>0. /\ inFlight[r] = Cardinality(Holders(r))
      /\ inFlight[r] <= MaxInFlight
      /\ inFlight[r] \in Int /\ MaxInFlight \in Nat
      /\ IsFiniteSet(Holders(r))
  BY HoldersFinite, DispatcherAssumption DEF InFlightIsExact, DispatcherTypeOK
<1>1. ASSUME Holders(r)' = Holders(r), inFlight'[r] = inFlight[r] PROVE Goal
  BY <1>0, <1>1
<1>2. ASSUME NEW c \in Calls, Admit(c) PROVE Goal
  <2>1. CASE HomeOf[c] = r
    <3>1. Holders(r)' = Holders(r) \cup {c} /\ c \notin Holders(r)
      BY <1>2, <2>1 DEF Holders, Admit, At, Goto, Holding, DispatcherTypeOK
    <3>2. inFlight'[r] = inFlight[r] + 1 /\ inFlight[r] < MaxInFlight
      BY <1>2, <2>1 DEF Admit, DispatcherTypeOK
    <3>3. Cardinality(Holders(r) \cup {c}) = Cardinality(Holders(r)) + 1
      BY <1>0, <3>1, FS_AddElement
    <3> HIDE DEF Holders
    <3> QED
      BY <1>0, <3>1, <3>2, <3>3
  <2>2. CASE HomeOf[c] # r
    BY <1>1, <1>2, <2>2 DEF Holders, Admit, At, Goto, DispatcherTypeOK
  <2> QED
    BY <2>1, <2>2
<1>3. ASSUME NEW c \in Calls, Leave(c) PROVE Goal
  <2>1. CASE HomeOf[c] = r
    <3>1. Holders(r)' = Holders(r) \ {c} /\ c \in Holders(r)
      BY <1>3, <2>1 DEF Holders, Leave, At, Goto, Holding, DispatcherTypeOK
    <3>2. inFlight'[r] = inFlight[r] - 1
      BY <1>3, <2>1 DEF Leave, DispatcherTypeOK
    <3>3. Cardinality(Holders(r) \ {c}) = Cardinality(Holders(r)) - 1
      BY <1>0, <3>1, FS_RemoveElement
    <3> QED
      BY <1>0, <3>1, <3>2, <3>3
  <2>2. CASE HomeOf[c] # r
    BY <1>1, <1>3, <2>2 DEF Holders, Leave, At, Goto, DispatcherTypeOK
  <2> QED
    BY <2>1, <2>2
<1>4. ASSUME NEW s \in Replicas, Crash(s) PROVE Goal
  <2>1. CASE s = r
    <3>1. Holders(r)' = {}
      BY <1>4, <2>1 DEF Holders, Crash, Holding
    <3>2. inFlight'[r] = 0
      BY <1>4, <2>1 DEF Crash, DispatcherTypeOK
    <3> QED
      BY <1>0, <3>1, <3>2, FS_EmptySet
  <2>2. CASE s # r
    BY <1>1, <1>4, <2>2 DEF Holders, Crash, DispatcherTypeOK
  <2> QED
    BY <2>1, <2>2
<1>5. ASSUME NEW c \in Calls,
             \/ Refuse(c) \/ ClaimWon(c) \/ ClaimLost(c) \/ ClaimFailed(c) \/ Submit(c)
             \/ WaitReturns(c) \/ WaitTimesOut(c) \/ Complete(c) \/ AwaitReturns(c)
             \/ AwaitTimesOut(c) \/ AwaitFailed(c)
      PROVE  Goal
  <2>1. /\ inFlight' = inFlight
        /\ \E l \in Holding \cup {"idle", "done", "lost"} :
              /\ pc' = [pc EXCEPT ![c] = l]
              /\ pc[c] \in Holding <=> l \in Holding
    BY <1>5 DEF Refuse, ClaimWon, ClaimLost, ClaimFailed, Submit, WaitReturns, WaitTimesOut,
                Complete, AwaitReturns, AwaitTimesOut, AwaitFailed, At, Goto, Holding
  <2> QED
    BY <1>1, <2>1 DEF Holders, DispatcherTypeOK
<1>6. ASSUME UNCHANGED <<pc, inFlight>> PROVE Goal
  BY <1>1, <1>6 DEF Holders
<1> HIDE DEF Goal
<1>7. Goal
  BY <1>2, <1>3, <1>4, <1>5, <1>6
  DEF DispatcherNext, dispatcherVars, CallStep, CallFails, PoolStep, StartHandler, Effect,
      FinishHandler, Restart
<1> QED
  BY <1>7 DEF Goal

\* _in_flight is exact and bounded, whatever fails and whenever.
THEOREM InFlightExact == DispatcherSpec => []InFlightIsExact
<1>1. DispatcherInit => InFlightIsExact
  <2> SUFFICES ASSUME DispatcherInit, NEW r \in Replicas
               PROVE  inFlight[r] = Cardinality(Holders(r)) /\ inFlight[r] <= MaxInFlight
    BY DEF InFlightIsExact
  <2>1. Holders(r) = {} /\ inFlight[r] = 0
    BY DEF DispatcherInit, Holders, Holding
  <2> QED
    BY <2>1, FS_EmptySet, DispatcherAssumption
<1> QED
  BY <1>1, InFlightNext, DispatcherTypes, PTL DEF DispatcherSpec
=============================================================================
