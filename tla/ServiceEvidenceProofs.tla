----------------------- MODULE ServiceEvidenceProofs ------------------------
(***************************************************************************)
(* Proofs about the evidence of DecisionService: intents precede effects,  *)
(* and outcomes are true.                                                  *)
(***************************************************************************)
EXTENDS ServiceControlProofs

\* No two requests share a decision id: uuid4 ids, or callers that never reuse one.
Minted == \A c, d \in Calls : DecisionIdOf[c] = DecisionIdOf[d] => c = d

\* A row of evidence_intent tells requests and decisions apart.
LEMMA IntentFacts ==
    /\ \A c \in Calls, e \in Decisions : Intent(c, e) # NoIntent
    /\ \A c, d \in Calls, e, f \in Decisions :
          Intent(c, e) = Intent(d, f) => c = d /\ e = f
BY DispatcherAssumption DEF Intent, NoIntent

\* No step records an outcome that is not what became of the request (OutcomeInv).
LEMMA OutcomeNext ==
    DispatcherTypeOK /\ LedgerInv /\ ServiceTypeOK /\ PipelineInv /\ OutcomeInv /\
        [Next]_vars => OutcomeInv'
<1> SUFFICES ASSUME DispatcherTypeOK, LedgerInv, ServiceTypeOK, PipelineInv, OutcomeInv,
                    [Next]_vars
             PROVE  OutcomeInv'
  OBVIOUS
<1>0. /\ stage \in [Calls -> Stages]
      /\ result \in [Calls -> Results]
      /\ outcomes \in [Calls -> Results]
      /\ intents \in [DecisionIds -> Intents \cup {NoIntent}]
      /\ pc \in [Calls -> Holding \cup {"idle", "done", "lost"}]
      /\ DecisionIdOf \in [Calls -> DecisionIds]
  BY DispatcherAssumption, ServiceAssumption DEF DispatcherTypeOK, ServiceTypeOK
<1> USE <1>0 DEF dispatcherVars, OutcomeInv, Over
<1>1. ASSUME NEW c \in Calls, Begin(c) PROVE OutcomeInv'
  BY <1>1 DEF Begin, Serving, Enter, Deny, Decide, InForce
<1>2. ASSUME NEW c \in Calls, CheckGlobalSwitch(c) PROVE OutcomeInv'
  BY <1>2 DEF CheckGlobalSwitch, KillSwitchRead, Serving, Enter, Deny, Decide
<1>3. ASSUME NEW c \in Calls, CheckTenantSwitch(c) PROVE OutcomeInv'
  BY <1>3 DEF CheckTenantSwitch, KillSwitchRead, Serving, Enter, Deny, Decide
<1>4. ASSUME NEW c \in Calls, CheckMandate(c) PROVE OutcomeInv'
  BY <1>4 DEF CheckMandate, Serving, Enter, Deny, Decide
<1>5. ASSUME NEW c \in Calls, CheckRevocation(c) PROVE OutcomeInv'
  BY <1>5 DEF CheckRevocation, Serving, Enter, Deny, Decide
<1>6. ASSUME NEW c \in Calls, CheckPolicyAndRisk(c) PROVE OutcomeInv'
  BY <1>6 DEF CheckPolicyAndRisk, Serving, Enter, Deny, Decide
<1>7. ASSUME NEW c \in Calls, CheckLimits(c) PROVE OutcomeInv'
  BY <1>7 DEF CheckLimits, Consume, Reject, AfterLimits, AfterBaseline, Serving, Enter,
      Deny, Decide
<1>8. ASSUME NEW c \in Calls, CheckBaseline(c) PROVE OutcomeInv'
  BY <1>8 DEF CheckBaseline, AfterBaseline, Serving, Enter, Deny, Decide
<1>9. ASSUME NEW c \in Calls, Observe(c) PROVE OutcomeInv'
  BY <1>9 DEF Observe, AfterBaseline, Serving, Enter
<1>10. ASSUME NEW c \in Calls, GiveBack(c) PROVE OutcomeInv'
  BY <1>10 DEF GiveBack, Released, Serving, Enter
<1>11. ASSUME NEW c \in Calls, CreateWorkflow(c) PROVE OutcomeInv'
  BY <1>11 DEF CreateWorkflow, Serving, Enter
<1>12. ASSUME NEW c \in Calls, AppendIntent(c) PROVE OutcomeInv'
  BY <1>12, IntentFacts DEF AppendIntent, WriteIntent, Serving, Enter, ServiceTypeOK
<1>13. ASSUME NEW c \in Calls, AppendIntentFails(c) PROVE OutcomeInv'
  BY <1>13, IntentFacts DEF AppendIntentFails, WriteIntent, Serving, Enter,
      ServiceTypeOK
<1>14. ASSUME NEW c \in Calls, Compensate(c) PROVE OutcomeInv'
  BY <1>14 DEF Compensate, Released, Serving, Enter
<1>15. ASSUME NEW c \in Calls, WithholdDispatch(c) PROVE OutcomeInv'
  BY <1>15 DEF WithholdDispatch, Withheld, Serving, Enter, PipelineInv
<1>16. ASSUME NEW c \in Calls, DispatchReturns(c) PROVE OutcomeInv'
  BY <1>16, LedgerInvSuffices DEF DispatchReturns, ExecutionStatus, Serving, Enter,
      PipelineInv, ExecutedIsTrue, DispatcherTypeOK, Answers, Terminal
<1>17. ASSUME NEW c \in Calls, AppendOutcome(c) PROVE OutcomeInv'
  BY <1>17 DEF AppendOutcome, Serving, Enter
<1>18. ASSUME NEW c \in Calls, CallDispatch(c) PROVE OutcomeInv'
  BY <1>18 DEF CallDispatch, serviceVars, Serving, Withheld, Admit, Refuse, At, Goto,
      Answer
<1>19. ASSUME NEW c \in Calls, InDispatcher(c) PROVE OutcomeInv'
  BY <1>19, DispatcherMoves DEF serviceVars
<1>20. ASSUME NEW k \in Kinds, NEW t \in Tenants, Engage(k, t) PROVE OutcomeInv'
  BY <1>20 DEF Engage
<1>21. ASSUME NEW k \in Kinds, NEW t \in Tenants, Disengage(k, t) PROVE OutcomeInv'
  BY <1>21 DEF Disengage
<1>22. CASE TimePasses
  BY <1>22 DEF TimePasses
<1>23. ASSUME NEW r \in Replicas, CrashReplica(r) PROVE OutcomeInv'
  BY <1>23 DEF CrashReplica, Crash, Holding, Active
<1>24. ASSUME NEW r \in Replicas, RestartReplica(r) PROVE OutcomeInv'
  BY <1>24 DEF RestartReplica, Restart, serviceVars
<1>25. CASE UNCHANGED vars
  BY <1>25 DEF vars, serviceVars, dispatcherVars
<1> HIDE <1>0 DEF dispatcherVars, OutcomeInv, Over
<1> QED
  BY <1>1, <1>2, <1>3, <1>4, <1>5, <1>6, <1>7, <1>8, <1>9, <1>10, <1>11, <1>12, <1>13,
     <1>14, <1>15, <1>16, <1>17, <1>18, <1>19, <1>20, <1>21, <1>22, <1>23, <1>24, <1>25
  DEF Next, ServiceStep

\* No step dispatches without, or against, the request's own record (RecordInv).
LEMMA RecordNext ==
    Minted /\ DispatcherTypeOK /\ LedgerInv /\ ServiceTypeOK /\ PipelineInv /\ RecordInv
        /\ [Next]_vars => RecordInv'
<1> SUFFICES ASSUME Minted, DispatcherTypeOK, LedgerInv, ServiceTypeOK, PipelineInv,
                    RecordInv, [Next]_vars
             PROVE  RecordInv'
  OBVIOUS
<1>0. /\ stage \in [Calls -> Stages]
      /\ effect \in [Calls -> Decisions]
      /\ intents \in [DecisionIds -> Intents \cup {NoIntent}]
      /\ pc \in [Calls -> Holding \cup {"idle", "done", "lost"}]
      /\ DecisionIdOf \in [Calls -> DecisionIds]
  BY DispatcherAssumption, ServiceAssumption DEF DispatcherTypeOK, ServiceTypeOK
<1> USE <1>0 DEF dispatcherVars, Minted, PipelineInv, RecordInv, Allowed, Unrecorded
<1>1. ASSUME NEW c \in Calls, Begin(c) PROVE RecordInv'
  BY <1>1 DEF Begin, Serving, Enter, Deny, Decide, InForce
<1>2. ASSUME NEW c \in Calls, CheckGlobalSwitch(c) PROVE RecordInv'
  BY <1>2 DEF CheckGlobalSwitch, KillSwitchRead, Serving, Enter, Deny, Decide
<1>3. ASSUME NEW c \in Calls, CheckTenantSwitch(c) PROVE RecordInv'
  BY <1>3 DEF CheckTenantSwitch, KillSwitchRead, Serving, Enter, Deny, Decide
<1>4. ASSUME NEW c \in Calls, CheckMandate(c) PROVE RecordInv'
  BY <1>4 DEF CheckMandate, Serving, Enter, Deny, Decide
<1>5. ASSUME NEW c \in Calls, CheckRevocation(c) PROVE RecordInv'
  BY <1>5 DEF CheckRevocation, Serving, Enter, Deny, Decide
<1>6. ASSUME NEW c \in Calls, CheckPolicyAndRisk(c) PROVE RecordInv'
  BY <1>6 DEF CheckPolicyAndRisk, Serving, Enter, Deny, Decide
<1>7. ASSUME NEW c \in Calls, CheckLimits(c) PROVE RecordInv'
  BY <1>7 DEF CheckLimits, Consume, Reject, AfterLimits, AfterBaseline, Serving, Enter,
      Deny, Decide
<1>8. ASSUME NEW c \in Calls, CheckBaseline(c) PROVE RecordInv'
  BY <1>8 DEF CheckBaseline, AfterBaseline, Serving, Enter, Deny, Decide
<1>9. ASSUME NEW c \in Calls, Observe(c) PROVE RecordInv'
  BY <1>9 DEF Observe, AfterBaseline, Serving, Enter
<1>10. ASSUME NEW c \in Calls, GiveBack(c) PROVE RecordInv'
  BY <1>10 DEF GiveBack, Released, Serving, Enter
<1>11. ASSUME NEW c \in Calls, CreateWorkflow(c) PROVE RecordInv'
  BY <1>11 DEF CreateWorkflow, Serving, Enter
<1>12. ASSUME NEW c \in Calls, AppendIntent(c) PROVE RecordInv'
  BY <1>12, IntentFacts DEF AppendIntent, WriteIntent, Serving, Enter
<1>13. ASSUME NEW c \in Calls, AppendIntentFails(c) PROVE RecordInv'
  BY <1>13, IntentFacts DEF AppendIntentFails, WriteIntent, Serving, Enter
<1>14. ASSUME NEW c \in Calls, Compensate(c) PROVE RecordInv'
  BY <1>14 DEF Compensate, Released, Serving, Enter
<1>15. ASSUME NEW c \in Calls, WithholdDispatch(c) PROVE RecordInv'
  BY <1>15 DEF WithholdDispatch, Withheld, Serving, Enter
<1>16. ASSUME NEW c \in Calls, DispatchReturns(c) PROVE RecordInv'
  BY <1>16 DEF DispatchReturns, ExecutionStatus, Serving, Enter
<1>17. ASSUME NEW c \in Calls, AppendOutcome(c) PROVE RecordInv'
  BY <1>17 DEF AppendOutcome, Serving, Enter
<1>18. ASSUME NEW c \in Calls, CallDispatch(c) PROVE RecordInv'
  BY <1>18 DEF CallDispatch, serviceVars, Serving, Withheld, Admit, Refuse, At, Goto,
      Answer, Decisions, Effects
<1>19. ASSUME NEW c \in Calls, InDispatcher(c) PROVE RecordInv'
  BY <1>19, DispatcherMoves DEF serviceVars
<1>20. ASSUME NEW k \in Kinds, NEW t \in Tenants, Engage(k, t) PROVE RecordInv'
  BY <1>20 DEF Engage
<1>21. ASSUME NEW k \in Kinds, NEW t \in Tenants, Disengage(k, t) PROVE RecordInv'
  BY <1>21 DEF Disengage
<1>22. CASE TimePasses
  BY <1>22 DEF TimePasses
<1>23. ASSUME NEW r \in Replicas, CrashReplica(r) PROVE RecordInv'
  BY <1>23 DEF CrashReplica, Crash, Holding, Active
<1>24. ASSUME NEW r \in Replicas, RestartReplica(r) PROVE RecordInv'
  BY <1>24 DEF RestartReplica, Restart, serviceVars
<1>25. CASE UNCHANGED vars
  BY <1>25 DEF vars, serviceVars, dispatcherVars
<1> HIDE <1>0 DEF dispatcherVars, Minted, PipelineInv, RecordInv, Allowed, Unrecorded
<1> QED
  BY <1>1, <1>2, <1>3, <1>4, <1>5, <1>6, <1>7, <1>8, <1>9, <1>10, <1>11, <1>12, <1>13,
     <1>14, <1>15, <1>16, <1>17, <1>18, <1>19, <1>20, <1>21, <1>22, <1>23, <1>24, <1>25
  DEF Next, ServiceStep

-----------------------------------------------------------------------------
(* The theorems.                                                           *)

\* Nothing is recorded initially.
LEMMA EvidenceInit == Init => RecordInv /\ OutcomeInv
BY DispatcherAssumption, ServiceAssumption
DEF Init, DispatcherInit, RecordInv, OutcomeInv, Unrecorded

\* Recorded outcomes are true.
THEOREM OutcomesTrue == Spec => []OutcomesAreTrue
<1>1. Spec => []OutcomeInv
  BY StageInvariants, EvidenceInit, OutcomeNext, PTL DEF Spec
<1>2. DispatcherTypeOK /\ LedgerInv /\ OutcomeInv => OutcomesAreTrue
  BY DEF DispatcherTypeOK, LedgerInv, OutcomeInv, OutcomesAreTrue
<1> QED
  BY <1>1, <1>2, StageInvariants, PTL

\* With decision ids of their own, requests keep RecordInv.
LEMMA Recorded == ASSUME Minted PROVE Spec => []RecordInv
BY Minted, StageInvariants, EvidenceInit, RecordNext, PTL DEF Spec

\* Invariant I1 of the code, for every number of requests and replicas: with
\* decision ids of their own, no request acts before its record allows it.
THEOREM EvidenceFirst == ASSUME Minted PROVE Spec => []EvidenceBeforeEffect
<1>1. DispatcherTypeOK /\ LedgerInv /\ PipelineInv /\ RecordInv => EvidenceBeforeEffect
  BY DEF DispatcherTypeOK, LedgerInv, PipelineInv, RecordInv, Allowed, EvidenceBeforeEffect
<1> QED
  BY <1>1, Recorded, StageInvariants, PTL

\* The inductive invariant of the pipeline as a whole: its stages, records, stops,
\* budgets and outcomes, with decision ids of their own.
THEOREM ServiceInvariant == ASSUME Minted PROVE Spec => []ServiceInv
<1>1. Spec => []OutcomeInv
  BY StageInvariants, EvidenceInit, OutcomeNext, PTL DEF Spec
<1>2. PipelineInv /\ RecordInv /\ StopInv /\ BudgetInv /\ OutcomeInv => ServiceInv
  BY DEF ServiceInv
<1> QED
  BY <1>1, <1>2, Recorded, StageInvariants, PTL
=============================================================================
