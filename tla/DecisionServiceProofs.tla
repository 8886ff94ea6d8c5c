----------------------- MODULE DecisionServiceProofs ------------------------
(***************************************************************************)
(* Proofs about DecisionService for any number of requests, replicas, tenants*)
(* and keys: the dispatcher is used within its specification, the types are*)
(* right, and only live allows are dispatched.                             *)
(***************************************************************************)
EXTENDS DecisionService, PostgresDispatcherProofs

-----------------------------------------------------------------------------
(* The pipeline drives the dispatcher within its specification.            *)

\* Every step of the service is a step of the dispatcher or leaves it alone.
LEMMA ServiceStepIsDispatcherStep == [Next]_vars => [DispatcherNext]_dispatcherVars
<1> SUFFICES ASSUME [Next]_vars PROVE [DispatcherNext]_dispatcherVars
  OBVIOUS
<1>1. CASE UNCHANGED vars
  BY <1>1 DEF vars
<1>2. ASSUME NEW c \in Calls, Begin(c) \/ ServiceStep(c) \/ InDispatcher(c)
      PROVE  [DispatcherNext]_dispatcherVars
  <2>1. CASE Begin(c)
    BY <2>1 DEF Begin
  <2>2. CASE CallDispatch(c)
    BY <2>2 DEF CallDispatch, DispatcherNext
  <2>3. CASE InDispatcher(c)
    BY <2>3 DEF InDispatcher, DispatcherNext
  <2>4. CASE ServiceStep(c) /\ ~CallDispatch(c)
    BY <2>4 DEF ServiceStep, KillSwitchRead, CheckGlobalSwitch, CheckTenantSwitch, CheckMandate,
       CheckRevocation, CheckPolicyAndRisk, CheckLimits, CheckBaseline, Observe, GiveBack,
       CreateWorkflow, AppendIntent, AppendIntentFails, Compensate, WithholdDispatch,
       DispatchReturns, AppendOutcome
  <2> QED
    BY <1>2, <2>1, <2>2, <2>3, <2>4
<1>3. ASSUME NEW k \in Kinds, NEW t \in Tenants, Engage(k, t) \/ Disengage(k, t)
      PROVE  [DispatcherNext]_dispatcherVars
  BY <1>3 DEF Engage, Disengage
<1>4. CASE TimePasses
  BY <1>4 DEF TimePasses
<1>5. ASSUME NEW r \in Replicas, CrashReplica(r) \/ RestartReplica(r)
      PROVE  [DispatcherNext]_dispatcherVars
  BY <1>5 DEF CrashReplica, RestartReplica, DispatcherNext
<1> QED
  BY <1>1, <1>2, <1>3, <1>4, <1>5 DEF Next

\* The dispatcher inside the service behaves as PostgresDispatcher, so everything
\* proved of it holds of the composition.
THEOREM ServiceUsesDispatcher == Spec => DispatcherSpec
<1>1. Init => DispatcherInit
  BY DEF Init
<1> QED
  BY <1>1, ServiceStepIsDispatcherStep, PTL DEF Spec, DispatcherSpec

\* At most one effect per idempotency key through the whole pipeline.
THEOREM ServiceAtMostOnce == Spec => []AtMostOncePerKey
BY ServiceUsesDispatcher, AtMostOnce, PTL
-----------------------------------------------------------------------------
(* Moves of the dispatcher, as the pipeline sees them.                     *)

\* Once called, a dispatch stays called, and only calls that were made act.
LEMMA DispatcherMoves ==
    ASSUME DispatcherTypeOK, LedgerInv, NEW c \in Calls, InDispatcher(c)
    PROVE  /\ UNCHANGED serviceVars
           /\ \A d \in Calls : pc'[d] = "idle" <=> pc[d] = "idle"
           /\ acted \subseteq acted'
           /\ UNCHANGED up
<1>1. UNCHANGED serviceVars
  BY DEF InDispatcher
<1>2. CASE CallStep(c) \/ CallFails(c)
  BY <1>1, <1>2
  DEF CallStep, CallFails, ClaimWon, ClaimLost, ClaimFailed, Submit, WaitReturns,
      WaitTimesOut, Complete, AwaitReturns, AwaitTimesOut, AwaitFailed, Leave, At, Goto,
      DispatcherTypeOK
<1>3. CASE PoolStep(c)
  BY <1>1, <1>3 DEF PoolStep, StartHandler, Effect, FinishHandler
<1> QED
  BY <1>2, <1>3 DEF InDispatcher

-----------------------------------------------------------------------------
(* The pipeline: what is decided, and what the dispatcher gets to see.     *)

\* No step dispatches what is not an unconditional, live allow (PipelineInv).
LEMMA PipelineNext ==
    DispatcherTypeOK /\ LedgerInv /\ ServiceTypeOK /\ PipelineInv /\ [Next]_vars =>
        PipelineInv'
<1> SUFFICES ASSUME DispatcherTypeOK, LedgerInv, ServiceTypeOK, PipelineInv, [Next]_vars
             PROVE  PipelineInv'
  OBVIOUS
<1>0. /\ stage \in [Calls -> Stages]
      /\ effect \in [Calls -> Decisions]
      /\ pc \in [Calls -> Holding \cup {"idle", "done", "lost"}]
  BY DispatcherAssumption, ServiceAssumption DEF DispatcherTypeOK, ServiceTypeOK
<1> USE <1>0 DEF dispatcherVars, PipelineInv, Unrecorded
<1>1. ASSUME NEW c \in Calls, Begin(c) PROVE PipelineInv'
  BY <1>1 DEF Begin, Serving, Enter, Deny, Decide, InForce
<1>2. ASSUME NEW c \in Calls, CheckGlobalSwitch(c) PROVE PipelineInv'
  BY <1>2 DEF CheckGlobalSwitch, KillSwitchRead, Serving, Enter, Deny, Decide
<1>3. ASSUME NEW c \in Calls, CheckTenantSwitch(c) PROVE PipelineInv'
  BY <1>3 DEF CheckTenantSwitch, KillSwitchRead, Serving, Enter, Deny, Decide
<1>4. ASSUME NEW c \in Calls, CheckMandate(c) PROVE PipelineInv'
  BY <1>4 DEF CheckMandate, Serving, Enter, Deny, Decide
<1>5. ASSUME NEW c \in Calls, CheckRevocation(c) PROVE PipelineInv'
  BY <1>5 DEF CheckRevocation, Serving, Enter, Deny, Decide
<1>6. ASSUME NEW c \in Calls, CheckPolicyAndRisk(c) PROVE PipelineInv'
  BY <1>6 DEF CheckPolicyAndRisk, Serving, Enter, Deny, Decide, Effects
<1>7. ASSUME NEW c \in Calls, CheckLimits(c) PROVE PipelineInv'
  BY <1>7 DEF CheckLimits, Consume, Reject, AfterLimits, AfterBaseline, Serving, Enter,
      Deny, Decide, Effects
<1>8. ASSUME NEW c \in Calls, CheckBaseline(c) PROVE PipelineInv'
  BY <1>8 DEF CheckBaseline, AfterBaseline, Serving, Enter, Deny, Decide
<1>9. ASSUME NEW c \in Calls, Observe(c) PROVE PipelineInv'
  BY <1>9 DEF Observe, AfterBaseline, Serving, Enter
<1>10. ASSUME NEW c \in Calls, GiveBack(c) PROVE PipelineInv'
  BY <1>10 DEF GiveBack, Released, Serving, Enter
<1>11. ASSUME NEW c \in Calls, CreateWorkflow(c) PROVE PipelineInv'
  BY <1>11 DEF CreateWorkflow, Serving, Enter
<1>12. ASSUME NEW c \in Calls, AppendIntent(c) PROVE PipelineInv'
  BY <1>12 DEF AppendIntent, WriteIntent, Serving, Enter
<1>13. ASSUME NEW c \in Calls, AppendIntentFails(c) PROVE PipelineInv'
  BY <1>13 DEF AppendIntentFails, WriteIntent, Serving, Enter
<1>14. ASSUME NEW c \in Calls, Compensate(c) PROVE PipelineInv'
  BY <1>14 DEF Compensate, Released, Serving, Enter
<1>15. ASSUME NEW c \in Calls, WithholdDispatch(c) PROVE PipelineInv'
  BY <1>15 DEF WithholdDispatch, Withheld, Serving, Enter
<1>16. ASSUME NEW c \in Calls, DispatchReturns(c) PROVE PipelineInv'
  BY <1>16 DEF DispatchReturns, ExecutionStatus, Serving, Enter
<1>17. ASSUME NEW c \in Calls, AppendOutcome(c) PROVE PipelineInv'
  BY <1>17 DEF AppendOutcome, Serving, Enter
<1>18. ASSUME NEW c \in Calls, CallDispatch(c) PROVE PipelineInv'
  BY <1>18 DEF CallDispatch, serviceVars, Serving, Withheld, Admit, Refuse, At, Goto,
      Answer, Decisions, Effects
<1>19. ASSUME NEW c \in Calls, InDispatcher(c) PROVE PipelineInv'
  BY <1>19, DispatcherMoves DEF serviceVars
<1>20. ASSUME NEW k \in Kinds, NEW t \in Tenants, Engage(k, t) PROVE PipelineInv'
  BY <1>20 DEF Engage
<1>21. ASSUME NEW k \in Kinds, NEW t \in Tenants, Disengage(k, t) PROVE PipelineInv'
  BY <1>21 DEF Disengage
<1>22. CASE TimePasses
  BY <1>22 DEF TimePasses
<1>23. ASSUME NEW r \in Replicas, CrashReplica(r) PROVE PipelineInv'
  BY <1>23 DEF CrashReplica, Crash, Holding
<1>24. ASSUME NEW r \in Replicas, RestartReplica(r) PROVE PipelineInv'
  BY <1>24 DEF RestartReplica, Restart, serviceVars
<1>25. CASE UNCHANGED vars
  BY <1>25 DEF vars, serviceVars, dispatcherVars
<1> HIDE <1>0 DEF dispatcherVars, PipelineInv, Unrecorded
<1> QED
  BY <1>1, <1>2, <1>3, <1>4, <1>5, <1>6, <1>7, <1>8, <1>9, <1>10, <1>11, <1>12, <1>13,
     <1>14, <1>15, <1>16, <1>17, <1>18, <1>19, <1>20, <1>21, <1>22, <1>23, <1>24, <1>25
  DEF Next, ServiceStep

\* Every step of the service keeps the types (ServiceTypeOK).
LEMMA ServiceTypeNext ==
    DispatcherTypeOK /\ LedgerInv /\ PipelineInv /\ ServiceTypeOK /\ [Next]_vars =>
        ServiceTypeOK'
<1> SUFFICES ASSUME DispatcherTypeOK, LedgerInv, PipelineInv, ServiceTypeOK, [Next]_vars
             PROVE  ServiceTypeOK'
  OBVIOUS
<1> USE DispatcherAssumption, ServiceAssumption DEF dispatcherVars, ServiceTypeOK,
        Stages, Decisions, Active, Over, Effects, Results, Kinds, Intents
<1>1. ASSUME NEW c \in Calls, Begin(c) PROVE ServiceTypeOK'
  BY <1>1 DEF Begin, Serving, Enter, Deny, Decide, InForce
<1>2. ASSUME NEW c \in Calls, CheckGlobalSwitch(c) PROVE ServiceTypeOK'
  BY <1>2 DEF CheckGlobalSwitch, KillSwitchRead, Serving, Enter, Deny, Decide
<1>3. ASSUME NEW c \in Calls, CheckTenantSwitch(c) PROVE ServiceTypeOK'
  BY <1>3 DEF CheckTenantSwitch, KillSwitchRead, Serving, Enter, Deny, Decide
<1>4. ASSUME NEW c \in Calls, CheckMandate(c) PROVE ServiceTypeOK'
  BY <1>4 DEF CheckMandate, Serving, Enter, Deny, Decide
<1>5. ASSUME NEW c \in Calls, CheckRevocation(c) PROVE ServiceTypeOK'
  BY <1>5 DEF CheckRevocation, Serving, Enter, Deny, Decide
<1>6. ASSUME NEW c \in Calls, CheckPolicyAndRisk(c) PROVE ServiceTypeOK'
  BY <1>6 DEF CheckPolicyAndRisk, Serving, Enter, Deny, Decide
<1>7. ASSUME NEW c \in Calls, CheckLimits(c) PROVE ServiceTypeOK'
  BY <1>7 DEF CheckLimits, Consume, Reject, AfterLimits, AfterBaseline, Serving, Enter,
      Deny, Decide
<1>8. ASSUME NEW c \in Calls, CheckBaseline(c) PROVE ServiceTypeOK'
  BY <1>8 DEF CheckBaseline, AfterBaseline, Serving, Enter, Deny, Decide
<1>9. ASSUME NEW c \in Calls, Observe(c) PROVE ServiceTypeOK'
  BY <1>9 DEF Observe, AfterBaseline, Serving, Enter
<1>10. ASSUME NEW c \in Calls, GiveBack(c) PROVE ServiceTypeOK'
  BY <1>10 DEF GiveBack, Released, Serving, Enter
<1>11. ASSUME NEW c \in Calls, CreateWorkflow(c) PROVE ServiceTypeOK'
  BY <1>11 DEF CreateWorkflow, Serving, Enter
<1>12. ASSUME NEW c \in Calls, AppendIntent(c) PROVE ServiceTypeOK'
  BY <1>12 DEF AppendIntent, WriteIntent, Serving, Enter, PipelineInv
<1>13. ASSUME NEW c \in Calls, AppendIntentFails(c) PROVE ServiceTypeOK'
  BY <1>13 DEF AppendIntentFails, WriteIntent, Serving, Enter, PipelineInv
<1>14. ASSUME NEW c \in Calls, Compensate(c) PROVE ServiceTypeOK'
  BY <1>14 DEF Compensate, Released, Serving, Enter
<1>15. ASSUME NEW c \in Calls, WithholdDispatch(c) PROVE ServiceTypeOK'
  BY <1>15 DEF WithholdDispatch, Withheld, Serving, Enter, Terminal
<1>16. ASSUME NEW c \in Calls, DispatchReturns(c) PROVE ServiceTypeOK'
  BY <1>16 DEF DispatchReturns, ExecutionStatus, Serving, Enter, DispatcherTypeOK,
      Terminal, Answers
<1>17. ASSUME NEW c \in Calls, AppendOutcome(c) PROVE ServiceTypeOK'
  BY <1>17 DEF AppendOutcome, Serving, Enter
<1>18. ASSUME NEW c \in Calls, CallDispatch(c) PROVE ServiceTypeOK'
  BY <1>18 DEF CallDispatch, serviceVars, Serving, Withheld, Admit, Refuse, At, Goto,
      Answer
<1>19. ASSUME NEW c \in Calls, InDispatcher(c) PROVE ServiceTypeOK'
  BY <1>19, DispatcherMoves DEF serviceVars
<1>20. ASSUME NEW k \in Kinds, NEW t \in Tenants, Engage(k, t) PROVE ServiceTypeOK'
  BY <1>20 DEF Engage
<1>21. ASSUME NEW k \in Kinds, NEW t \in Tenants, Disengage(k, t) PROVE ServiceTypeOK'
  BY <1>21 DEF Disengage
<1>22. CASE TimePasses
  BY <1>22 DEF TimePasses
<1>23. ASSUME NEW r \in Replicas, CrashReplica(r) PROVE ServiceTypeOK'
  BY <1>23 DEF CrashReplica, Crash, Holding
<1>24. ASSUME NEW r \in Replicas, RestartReplica(r) PROVE ServiceTypeOK'
  BY <1>24 DEF RestartReplica, Restart, serviceVars
<1>25. CASE UNCHANGED vars
  BY <1>25 DEF vars, serviceVars, dispatcherVars
<1> HIDE DispatcherAssumption, ServiceAssumption DEF dispatcherVars, ServiceTypeOK,
         Stages, Decisions, Active, Over, Effects, Results, Kinds, Intents
<1> QED
  BY <1>1, <1>2, <1>3, <1>4, <1>5, <1>6, <1>7, <1>8, <1>9, <1>10, <1>11, <1>12, <1>13,
     <1>14, <1>15, <1>16, <1>17, <1>18, <1>19, <1>20, <1>21, <1>22, <1>23, <1>24, <1>25
  DEF Next, ServiceStep

-----------------------------------------------------------------------------
(* The theorems.                                                           *)

\* The pipeline begins with nothing decided or dispatched.
LEMMA ServiceInit == Init => ServiceTypeOK /\ PipelineInv
BY DispatcherAssumption, ServiceAssumption
DEF Init, DispatcherInit, ServiceTypeOK, PipelineInv, Results, Stages, Decisions

\* Type correctness of the service, the stores included.
THEOREM ServiceTypes == Spec => [](ServiceTypeOK /\ PipelineInv)
<1>1. Spec => [](DispatcherTypeOK /\ LedgerInv)
  BY ServiceUsesDispatcher, DispatcherTypes, LedgerInvariant, PTL
<1> QED
  BY <1>1, ServiceInit, PipelineNext, ServiceTypeNext, PTL DEF Spec
=============================================================================
