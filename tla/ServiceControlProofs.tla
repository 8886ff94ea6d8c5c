------------------------ MODULE ServiceControlProofs ------------------------
(***************************************************************************)
(* Proofs about the controls of DecisionService: emergency stops are honoured,*)
(* denials return their budget, and ceilings hold.                         *)
(***************************************************************************)
EXTENDS DecisionServiceProofs

\* No step takes a request past a stop that is still in force (StopInv).
LEMMA StopNext ==
    DispatcherTypeOK /\ LedgerInv /\ ServiceTypeOK /\ PipelineInv /\ StopInv /\
        [Next]_vars => StopInv'
<1> SUFFICES ASSUME DispatcherTypeOK, LedgerInv, ServiceTypeOK, PipelineInv, StopInv,
                    [Next]_vars
             PROVE  StopInv'
  OBVIOUS
<1>0. /\ stage \in [Calls -> Stages]
      /\ effect \in [Calls -> Decisions]
      /\ barred \in [Calls -> SUBSET Kinds]
      /\ pc \in [Calls -> Holding \cup {"idle", "done", "lost"}]
      /\ TenantOf \in [Calls -> Tenants]
  BY DispatcherAssumption, ServiceAssumption DEF DispatcherTypeOK, ServiceTypeOK
<1> USE <1>0 DEF dispatcherVars, StopInv, PipelineInv, Unrecorded, Active, Kinds,
        InForce
<1>1. ASSUME NEW c \in Calls, Begin(c) PROVE StopInv'
  BY <1>1 DEF Begin, Serving, Enter, Deny, Decide, InForce
<1>2. ASSUME NEW c \in Calls, CheckGlobalSwitch(c) PROVE StopInv'
  BY <1>2 DEF CheckGlobalSwitch, KillSwitchRead, Serving, Enter, Deny, Decide
<1>3. ASSUME NEW c \in Calls, CheckTenantSwitch(c) PROVE StopInv'
  BY <1>3 DEF CheckTenantSwitch, KillSwitchRead, Serving, Enter, Deny, Decide
<1>4. ASSUME NEW c \in Calls, CheckMandate(c) PROVE StopInv'
  BY <1>4 DEF CheckMandate, Serving, Enter, Deny, Decide
<1>5. ASSUME NEW c \in Calls, CheckRevocation(c) PROVE StopInv'
  BY <1>5 DEF CheckRevocation, Serving, Enter, Deny, Decide
<1>6. ASSUME NEW c \in Calls, CheckPolicyAndRisk(c) PROVE StopInv'
  BY <1>6 DEF CheckPolicyAndRisk, Serving, Enter, Deny, Decide
<1>7. ASSUME NEW c \in Calls, CheckLimits(c) PROVE StopInv'
  BY <1>7 DEF CheckLimits, Consume, Reject, AfterLimits, AfterBaseline, Serving, Enter,
      Deny, Decide
<1>8. ASSUME NEW c \in Calls, CheckBaseline(c) PROVE StopInv'
  BY <1>8 DEF CheckBaseline, AfterBaseline, Serving, Enter, Deny, Decide
<1>9. ASSUME NEW c \in Calls, Observe(c) PROVE StopInv'
  BY <1>9 DEF Observe, AfterBaseline, Serving, Enter
<1>10. ASSUME NEW c \in Calls, GiveBack(c) PROVE StopInv'
  BY <1>10 DEF GiveBack, Released, Serving, Enter
<1>11. ASSUME NEW c \in Calls, CreateWorkflow(c) PROVE StopInv'
  BY <1>11 DEF CreateWorkflow, Serving, Enter
<1>12. ASSUME NEW c \in Calls, AppendIntent(c) PROVE StopInv'
  BY <1>12 DEF AppendIntent, WriteIntent, Serving, Enter
<1>13. ASSUME NEW c \in Calls, AppendIntentFails(c) PROVE StopInv'
  BY <1>13 DEF AppendIntentFails, WriteIntent, Serving, Enter
<1>14. ASSUME NEW c \in Calls, Compensate(c) PROVE StopInv'
  BY <1>14 DEF Compensate, Released, Serving, Enter
<1>15. ASSUME NEW c \in Calls, WithholdDispatch(c) PROVE StopInv'
  BY <1>15 DEF WithholdDispatch, Withheld, Serving, Enter
<1>16. ASSUME NEW c \in Calls, DispatchReturns(c) PROVE StopInv'
  BY <1>16 DEF DispatchReturns, ExecutionStatus, Serving, Enter
<1>17. ASSUME NEW c \in Calls, AppendOutcome(c) PROVE StopInv'
  BY <1>17 DEF AppendOutcome, Serving, Enter
<1>18. ASSUME NEW c \in Calls, CallDispatch(c) PROVE StopInv'
  BY <1>18 DEF CallDispatch, serviceVars, Serving, Withheld, Admit, Refuse, At, Goto,
      Answer, Decisions, Effects
<1>19. ASSUME NEW c \in Calls, InDispatcher(c) PROVE StopInv'
  BY <1>19, DispatcherMoves DEF serviceVars
<1>20. ASSUME NEW k \in Kinds, NEW t \in Tenants, Engage(k, t) PROVE StopInv'
  BY <1>20 DEF Engage
<1>21. ASSUME NEW k \in Kinds, NEW t \in Tenants, Disengage(k, t) PROVE StopInv'
  BY <1>21 DEF Disengage
<1>22. CASE TimePasses
  BY <1>22 DEF TimePasses
<1>23. ASSUME NEW r \in Replicas, CrashReplica(r) PROVE StopInv'
  BY <1>23 DEF CrashReplica, Crash, Holding
<1>24. ASSUME NEW r \in Replicas, RestartReplica(r) PROVE StopInv'
  BY <1>24 DEF RestartReplica, Restart, serviceVars
<1>25. CASE UNCHANGED vars
  BY <1>25 DEF vars, serviceVars, dispatcherVars
<1> HIDE <1>0 DEF dispatcherVars, StopInv, PipelineInv, Unrecorded, Active, Kinds,
         InForce
<1> QED
  BY <1>1, <1>2, <1>3, <1>4, <1>5, <1>6, <1>7, <1>8, <1>9, <1>10, <1>11, <1>12, <1>13,
     <1>14, <1>15, <1>16, <1>17, <1>18, <1>19, <1>20, <1>21, <1>22, <1>23, <1>24, <1>25
  DEF Next, ServiceStep

\* No step leaves a denied request with the budget it was admitted to (BudgetInv).
LEMMA BudgetNext ==
    DispatcherTypeOK /\ LedgerInv /\ ServiceTypeOK /\ BudgetInv /\ [Next]_vars =>
        BudgetInv'
<1> SUFFICES ASSUME DispatcherTypeOK, LedgerInv, ServiceTypeOK, BudgetInv, [Next]_vars
             PROVE  BudgetInv'
  OBVIOUS
<1>0. /\ stage \in [Calls -> Stages]
      /\ effect \in [Calls -> Decisions]
      /\ verdict \in [Calls -> {"none", "admitted", "rejected"}]
  BY DispatcherAssumption, ServiceAssumption DEF DispatcherTypeOK, ServiceTypeOK
<1> USE <1>0 DEF dispatcherVars, BudgetInv
<1>1. ASSUME NEW c \in Calls, Begin(c) PROVE BudgetInv'
  BY <1>1 DEF Begin, Serving, Enter, Deny, Decide, InForce
<1>2. ASSUME NEW c \in Calls, CheckGlobalSwitch(c) PROVE BudgetInv'
  BY <1>2 DEF CheckGlobalSwitch, KillSwitchRead, Serving, Enter, Deny, Decide
<1>3. ASSUME NEW c \in Calls, CheckTenantSwitch(c) PROVE BudgetInv'
  BY <1>3 DEF CheckTenantSwitch, KillSwitchRead, Serving, Enter, Deny, Decide
<1>4. ASSUME NEW c \in Calls, CheckMandate(c) PROVE BudgetInv'
  BY <1>4 DEF CheckMandate, Serving, Enter, Deny, Decide
<1>5. ASSUME NEW c \in Calls, CheckRevocation(c) PROVE BudgetInv'
  BY <1>5 DEF CheckRevocation, Serving, Enter, Deny, Decide
<1>6. ASSUME NEW c \in Calls, CheckPolicyAndRisk(c) PROVE BudgetInv'
  BY <1>6 DEF CheckPolicyAndRisk, Serving, Enter, Deny, Decide
<1>7. ASSUME NEW c \in Calls, CheckLimits(c) PROVE BudgetInv'
  BY <1>7 DEF CheckLimits, Consume, Reject, AfterLimits, AfterBaseline, Serving, Enter,
      Deny, Decide
<1>8. ASSUME NEW c \in Calls, CheckBaseline(c) PROVE BudgetInv'
  BY <1>8 DEF CheckBaseline, AfterBaseline, Serving, Enter, Deny, Decide
<1>9. ASSUME NEW c \in Calls, Observe(c) PROVE BudgetInv'
  BY <1>9 DEF Observe, AfterBaseline, Serving, Enter
<1>10. ASSUME NEW c \in Calls, GiveBack(c) PROVE BudgetInv'
  BY <1>10 DEF GiveBack, Released, Serving, Enter
<1>11. ASSUME NEW c \in Calls, CreateWorkflow(c) PROVE BudgetInv'
  BY <1>11 DEF CreateWorkflow, Serving, Enter
<1>12. ASSUME NEW c \in Calls, AppendIntent(c) PROVE BudgetInv'
  BY <1>12 DEF AppendIntent, WriteIntent, Serving, Enter
<1>13. ASSUME NEW c \in Calls, AppendIntentFails(c) PROVE BudgetInv'
  BY <1>13 DEF AppendIntentFails, WriteIntent, Serving, Enter
<1>14. ASSUME NEW c \in Calls, Compensate(c) PROVE BudgetInv'
  BY <1>14 DEF Compensate, Released, Serving, Enter
<1>15. ASSUME NEW c \in Calls, WithholdDispatch(c) PROVE BudgetInv'
  BY <1>15 DEF WithholdDispatch, Withheld, Serving, Enter
<1>16. ASSUME NEW c \in Calls, DispatchReturns(c) PROVE BudgetInv'
  BY <1>16 DEF DispatchReturns, ExecutionStatus, Serving, Enter
<1>17. ASSUME NEW c \in Calls, AppendOutcome(c) PROVE BudgetInv'
  BY <1>17 DEF AppendOutcome, Serving, Enter
<1>18. ASSUME NEW c \in Calls, CallDispatch(c) PROVE BudgetInv'
  BY <1>18 DEF CallDispatch, serviceVars, Serving, Withheld, Admit, Refuse, At, Goto,
      Answer
<1>19. ASSUME NEW c \in Calls, InDispatcher(c) PROVE BudgetInv'
  BY <1>19, DispatcherMoves DEF serviceVars
<1>20. ASSUME NEW k \in Kinds, NEW t \in Tenants, Engage(k, t) PROVE BudgetInv'
  BY <1>20 DEF Engage
<1>21. ASSUME NEW k \in Kinds, NEW t \in Tenants, Disengage(k, t) PROVE BudgetInv'
  BY <1>21 DEF Disengage
<1>22. CASE TimePasses
  BY <1>22 DEF TimePasses
<1>23. ASSUME NEW r \in Replicas, CrashReplica(r) PROVE BudgetInv'
  BY <1>23 DEF CrashReplica, Crash, Holding
<1>24. ASSUME NEW r \in Replicas, RestartReplica(r) PROVE BudgetInv'
  BY <1>24 DEF RestartReplica, Restart, serviceVars
<1>25. CASE UNCHANGED vars
  BY <1>25 DEF vars, serviceVars, dispatcherVars
<1> HIDE <1>0 DEF dispatcherVars, BudgetInv
<1> QED
  BY <1>1, <1>2, <1>3, <1>4, <1>5, <1>6, <1>7, <1>8, <1>9, <1>10, <1>11, <1>12, <1>13,
     <1>14, <1>15, <1>16, <1>17, <1>18, <1>19, <1>20, <1>21, <1>22, <1>23, <1>24, <1>25
  DEF Next, ServiceStep

-----------------------------------------------------------------------------
(* The theorems.                                                           *)

\* No stop and no budget is held initially.
LEMMA ControlInit == Init => StopInv /\ BudgetInv
BY DispatcherAssumption, ServiceAssumption
DEF Init, DispatcherInit, StopInv, BudgetInv, InForce

\* The invariants of the service that hold whatever the decision ids are.
LEMMA StageInvariants ==
    Spec => [](/\ DispatcherTypeOK /\ LedgerInv /\ ServiceTypeOK /\ PipelineInv
               /\ StopInv /\ BudgetInv)
<1>1. Spec => [](DispatcherTypeOK /\ LedgerInv)
  BY ServiceUsesDispatcher, DispatcherTypes, LedgerInvariant, PTL
<1> QED
  BY <1>1, ServiceTypes, ControlInit, StopNext, BudgetNext, PTL DEF Spec

\* An emergency stop in force from the beginning of a non-advisory request to its
\* effect is never passed.
THEOREM StopsHonoured == Spec => []StopIsHonoured
<1>1. DispatcherTypeOK /\ LedgerInv /\ StopInv => StopIsHonoured
  BY DEF DispatcherTypeOK, LedgerInv, StopInv, StopIsHonoured
<1> QED
  BY <1>1, StageInvariants, PTL

\* A denial is returned only after its velocity budget is.
THEOREM BudgetReturned == Spec => []DenialReturnsBudget
<1>1. BudgetInv => DenialReturnsBudget
  BY DEF BudgetInv, DenialReturnsBudget
<1> QED
  BY <1>1, StageInvariants, PTL

-----------------------------------------------------------------------------
(* The velocity ceiling.                                                   *)

\* A step that only removes budget keeps every tenant within its ceiling.
LEMMA LessBudget ==
    ASSUME ServiceTypeOK, CeilingHolds, budget' \subseteq budget
    PROVE  CeilingHolds'
<1> SUFFICES ASSUME NEW t \in Tenants
             PROVE  Cardinality(SpentBy(t)') <= Ceiling
  BY DEF CeilingHolds
<1>1. IsFiniteSet(SpentBy(t)) /\ SpentBy(t)' \subseteq SpentBy(t)
  BY FS_Subset, DispatcherAssumption DEF SpentBy, ServiceTypeOK
<1>2. /\ Cardinality(SpentBy(t)') <= Cardinality(SpentBy(t))
      /\ IsFiniteSet(SpentBy(t)')
  BY <1>1, FS_Subset
<1>3. Cardinality(SpentBy(t)) <= Ceiling
  BY DEF CeilingHolds
<1>4. /\ Cardinality(SpentBy(t)') \in Nat
      /\ Cardinality(SpentBy(t)) \in Nat
      /\ Ceiling \in Nat
  BY <1>1, <1>2, FS_CardinalityType, ServiceAssumption
<1> QED
  BY <1>2, <1>3, <1>4

\* The consume script checks and records in one step.
LEMMA ConsumeKeepsCeiling ==
    ASSUME ServiceTypeOK, CeilingHolds, NEW c \in Calls, Consume(c)
    PROVE  CeilingHolds'
<1> SUFFICES ASSUME NEW t \in Tenants
             PROVE  Cardinality(SpentBy(t)') <= Ceiling
  BY DEF CeilingHolds
<1>1. CASE t # TenantOf[c]
  <2>1. SpentBy(t)' = SpentBy(t)
    BY <1>1 DEF Consume, SpentBy
  <2> QED
    BY <2>1 DEF CeilingHolds
<1>2. CASE t = TenantOf[c]
  <2>1. SpentBy(t)' = SpentBy(t) \cup {c} /\ IsFiniteSet(SpentBy(t))
    BY <1>2, FS_Subset, DispatcherAssumption DEF Consume, SpentBy, ServiceTypeOK
  <2>2. Cardinality(SpentBy(t)) < Ceiling
    BY <1>2 DEF Consume
  <2>3. Cardinality(SpentBy(t)) \in Nat /\ Ceiling \in Nat
    BY <2>1, FS_CardinalityType, ServiceAssumption
  <2>4. Cardinality(SpentBy(t) \cup {c}) <= Cardinality(SpentBy(t)) + 1
    BY <2>1, <2>3, FS_AddElement
  <2>5. Cardinality(SpentBy(t) \cup {c}) \in Nat
    BY <2>1, FS_AddElement, FS_CardinalityType
  <2>6. Cardinality(SpentBy(t) \cup {c}) <= Ceiling
    BY <2>2, <2>3, <2>4, <2>5
  <2> QED
    BY <2>1, <2>6
<1> QED
  BY <1>1, <1>2

\* No interleaving of requests, lost replies and releases exceeds a ceiling.
THEOREM CeilingKept == Spec => []CeilingHolds
<1>1. Init => CeilingHolds
  <2> SUFFICES ASSUME Init, NEW t \in Tenants PROVE Cardinality(SpentBy(t)) <= Ceiling
    BY DEF CeilingHolds
  <2>1. SpentBy(t) = {}
    BY DEF Init, SpentBy
  <2> QED
    BY <2>1, FS_EmptySet, ServiceAssumption
<1>2. ServiceTypeOK /\ CeilingHolds /\ [Next]_vars => CeilingHolds'
  <2> SUFFICES ASSUME ServiceTypeOK, CeilingHolds, [Next]_vars PROVE CeilingHolds'
    OBVIOUS
  <2>1. ASSUME NEW c \in Calls, CheckLimits(c) PROVE CeilingHolds'
    <3>1. CASE Consume(c)
      BY <3>1, ConsumeKeepsCeiling
    <3>2. CASE ~Consume(c)
      <4>1. budget' = budget
        BY <2>1, <3>2 DEF CheckLimits, Reject
      <4> QED
        BY <4>1, LessBudget
    <3> QED
      BY <3>1, <3>2
  <2>2. ASSUME NEW c \in Calls, GiveBack(c) \/ Compensate(c) PROVE CeilingHolds'
    <3>1. budget' \subseteq budget
      BY <2>2 DEF GiveBack, Compensate, Released
    <3> QED
      BY <3>1, LessBudget
  <2>3. CASE TimePasses
    <3>1. budget' \subseteq budget
      BY <2>3 DEF TimePasses
    <3> QED
      BY <3>1, LessBudget
  <2>4. CASE budget' = budget
    BY <2>4, LessBudget
  <2> QED
    BY <2>1, <2>2, <2>3, <2>4
    DEF Next, vars, serviceVars, ServiceStep, Begin, CheckGlobalSwitch, CheckTenantSwitch,
        KillSwitchRead, CheckMandate, CheckRevocation, CheckPolicyAndRisk, CheckBaseline,
        Observe, CreateWorkflow, AppendIntent, AppendIntentFails, WithholdDispatch,
        CallDispatch, DispatchReturns, AppendOutcome, InDispatcher, Engage, Disengage,
        CrashReplica, RestartReplica
<1> QED
  BY <1>1, <1>2, ServiceTypes, PTL DEF Spec
=============================================================================
