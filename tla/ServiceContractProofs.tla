----------------------- MODULE ServiceContractProofs ------------------------
(***************************************************************************)
(* Proof that DecisionService, composed with PostgresDispatcher, implements*)
(* EffectContract.                                                         *)
(***************************************************************************)
EXTENDS ServiceEvidenceProofs

\* A step that keeps the intents, the effects and the answers is invisible.
LEMMA ContractStutter ==
    ASSUME UNCHANGED <<intents, acted, answer>>
    PROVE  UNCHANGED Contract!contractVars
BY DEF Contract!contractVars, Allowed

\* append_intent is Record, or invisible when it records anything but an allow.
LEMMA IntentIsRecord ==
    ASSUME Minted, ServiceTypeOK, PipelineInv, NEW c \in Calls, Serving(c, "evidence"),
           WriteIntent(c), UNCHANGED dispatcherVars
    PROVE  [Contract!Next]_(Contract!contractVars)
<1>1. UNCHANGED <<acted, answer>>
  BY DEF dispatcherVars
<1>2. effect[c] \in Effects /\ DecisionIdOf[c] \in DecisionIds
  BY ServiceAssumption DEF PipelineInv, Serving, ServiceTypeOK, Decisions
<1>3. CASE intents' = intents
  BY <1>1, <1>3, ContractStutter
<1>4. CASE intents' # intents
  <2>1. /\ intents[DecisionIdOf[c]] = NoIntent
        /\ intents' = [intents EXCEPT ![DecisionIdOf[c]] = Intent(c, effect[c])]
    BY <1>4 DEF WriteIntent
  <2>2. \A d \in Calls \ {c} : Allowed(d)' <=> Allowed(d)
    BY <1>2, <2>1, ServiceAssumption DEF Allowed, Minted, ServiceTypeOK
  <2>3. ~Allowed(c)
    BY <2>1, IntentFacts DEF Allowed, Effects, Decisions
  <2>4. CASE effect[c] = "allow"
    <3>1. Allowed(c)'
      BY <1>2, <2>1, <2>4 DEF Allowed, ServiceTypeOK
    <3>2. {d \in Calls : Allowed(d)}' = {d \in Calls : Allowed(d)} \cup {c}
      BY <2>2, <3>1
    <3>3. Contract!Record(c)
      BY <1>1, <3>2 DEF Contract!Record
    <3> QED
      BY <3>3 DEF Contract!Next
  <2>5. CASE effect[c] # "allow"
    <3>1. ~Allowed(c)'
      BY <1>2, <2>1, <2>5, IntentFacts DEF Allowed, ServiceTypeOK, Effects, Decisions
    <3>2. {d \in Calls : Allowed(d)}' = {d \in Calls : Allowed(d)}
      BY <2>2, <2>3, <3>1
    <3> QED
      BY <1>1, <3>2 DEF Contract!contractVars
  <2> QED
    BY <2>4, <2>5
<1> QED
  BY <1>3, <1>4

\* An answer of dispatch() is Report, or invisible when it is an error.
LEMMA AnswerIsReport ==
    ASSUME DispatcherTypeOK, DispatcherTypeOK', ExecutedIsTrue', DefiniteAnswersAgree',
           NEW c \in Calls, NEW a \in Answers, answer[c] = "none", Answer(c, a),
           UNCHANGED <<acted, intents>>
    PROVE  [Contract!Next]_(Contract!contractVars)
<1> DEFINE R == [d \in Calls |-> Reported(answer[d])]
<1>1. answer' = [answer EXCEPT ![c] = a] /\ answer'[c] = a
  BY DEF Answer, DispatcherTypeOK
<1>2. R[c] = "none"
  BY DEF Reported
<1>3. R' = [R EXCEPT ![c] = Reported(a)]
  BY <1>1 DEF DispatcherTypeOK
<1>4. Reported(a) \in {"executed", "failed", "unknown", "none"}
  BY DEF Reported
<1>5. {d \in Calls : Allowed(d)}' = {d \in Calls : Allowed(d)}
  BY DEF Allowed
<1>6. CASE Reported(a) = "none"
  <2>1. R' = R
    BY <1>2, <1>3, <1>6
  <2> QED
    BY <1>5, <2>1 DEF Contract!contractVars
<1>7. CASE Reported(a) # "none"
  <2>1. Reported(a) = "executed" => acted \cap Contract!SameKey(c) # {}
    BY <1>1, DispatcherAssumption
    DEF Contract!SameKey, ExecutedIsTrue, Reported, DispatcherTypeOK
  <2>2. ASSUME Reported(a) \in {"executed", "failed"}, NEW d \in Contract!SameKey(c),
               R[d] \in {"executed", "failed"}
        PROVE  R[d] = Reported(a)
    <3>1. d \in Calls /\ KeyOf[d] = KeyOf[c] /\ d # c
      BY <1>2, <2>2 DEF Contract!SameKey
    <3>2. answer'[d] = answer[d] /\ answer[d] = R[d] /\ a = Reported(a)
      BY <1>1, <2>2, <3>1 DEF Reported, DispatcherTypeOK
    <3> QED
      BY <1>1, <2>2, <3>1, <3>2 DEF DefiniteAnswersAgree
  <2>3. Contract!Report(c, Reported(a))
    BY <1>2, <1>3, <1>5, <2>1, <2>2 DEF Contract!Report, Contract!Definite
  <2>4. Reported(a) \in Contract!Definite \cup {"unknown"}
    BY <1>4, <1>7 DEF Contract!Definite
  <2> QED
    BY <2>3, <2>4 DEF Contract!Next
<1> QED
  BY <1>6, <1>7

\* A handler's effect is Perform.
LEMMA EffectIsPerform ==
    ASSUME DispatcherTypeOK, LedgerInv, RecordInv, AtMostOncePerKey', NEW c \in Calls,
           Effect(c), DispatcherNext, UNCHANGED intents
    PROVE  Contract!Next
<1>1. job[c] = "running" /\ pc[c] # "idle" /\ c \notin acted /\ acted' = acted \cup {c}
  BY DEF Effect, LedgerInv, DispatcherTypeOK
<1>2. c \in {d \in Calls : Allowed(d)}
  BY <1>1 DEF RecordInv
<1>3. acted \cap Contract!SameKey(c) = {}
  BY <1>1 DEF AtMostOncePerKey, Contract!SameKey
<1>4. \A d \in Contract!SameKey(c) :
        [e \in Calls |-> Reported(answer[e])][d] \notin {"executed", "failed"}
  BY <1>1, EffectStep DEF Contract!SameKey, Reported
<1>5. {d \in Calls : Allowed(d)}' = {d \in Calls : Allowed(d)} /\ answer' = answer
  BY DEF Allowed, Effect
<1>6. Contract!Perform(c)
  BY <1>1, <1>2, <1>3, <1>4, <1>5 DEF Contract!Perform, Contract!Definite
<1> QED
  BY <1>6 DEF Contract!Next

\* The same facts of the state after a step.
LEMMA LedgerInvSufficesNext ==
    DispatcherTypeOK' /\ LedgerInv' => AtMostOncePerKey' /\ ExecutedIsTrue' /\ DefiniteAnswersAgree'
BY LedgerInvSuffices, PTL

\* Every step of the service is a step of the contract or invisible in it.
LEMMA ContractNext ==
    ASSUME Minted, DispatcherTypeOK, DispatcherTypeOK', LedgerInv, LedgerInv', ServiceTypeOK,
           PipelineInv, RecordInv, [Next]_vars
    PROVE  [Contract!Next]_(Contract!contractVars)
<1>1. ExecutedIsTrue' /\ DefiniteAnswersAgree' /\ AtMostOncePerKey'
  BY LedgerInvSufficesNext
<1>2. ASSUME NEW c \in Calls, AppendIntent(c) \/ AppendIntentFails(c)
      PROVE  [Contract!Next]_(Contract!contractVars)
  <2>1. CASE WriteIntent(c)
    BY <1>2, <2>1, IntentIsRecord, Minted DEF AppendIntent, AppendIntentFails
  <2>2. CASE UNCHANGED intents
    BY <1>2, <2>2, ContractStutter DEF AppendIntent, AppendIntentFails, dispatcherVars
  <2> QED
    BY <1>2, <2>1, <2>2 DEF AppendIntent, AppendIntentFails
<1>3. ASSUME NEW c \in Calls, CallDispatch(c) PROVE [Contract!Next]_(Contract!contractVars)
  <2>1. CASE Refuse(c)
    <3>1. answer[c] = "none" /\ Answer(c, "refused") /\ UNCHANGED <<acted, intents>>
      BY <1>3, <2>1 DEF CallDispatch, serviceVars, Refuse, At, LedgerInv
    <3> QED
      BY <1>1, <3>1, AnswerIsReport DEF Answers
  <2>2. CASE Admit(c)
    BY <1>3, <2>2, ContractStutter DEF CallDispatch, serviceVars, Admit
  <2> QED
    BY <1>3, <2>1, <2>2 DEF CallDispatch
<1>4. ASSUME NEW c \in Calls, InDispatcher(c) PROVE [Contract!Next]_(Contract!contractVars)
  <2>1. UNCHANGED intents /\ DispatcherNext
    BY <1>4 DEF InDispatcher, serviceVars, DispatcherNext
  <2>2. CASE Effect(c)
    BY <1>1, <2>1, <2>2, EffectIsPerform
  <2>3. CASE UNCHANGED <<acted, answer>>
    BY <2>1, <2>3, ContractStutter
  <2>4. ASSUME ClaimFailed(c) \/ WaitReturns(c) \/ WaitTimesOut(c) \/ AwaitReturns(c)
               \/ AwaitTimesOut(c) \/ AwaitFailed(c)
        PROVE  [Contract!Next]_(Contract!contractVars)
    <3>1. answer[c] = "none" /\ UNCHANGED acted
      BY <2>4 DEF ClaimFailed, WaitReturns, WaitTimesOut, AwaitReturns, AwaitTimesOut,
                  AwaitFailed, At, LedgerInv
    <3>2. PICK a \in Answers : Answer(c, a)
      BY <2>4 DEF ClaimFailed, WaitReturns, WaitTimesOut, AwaitReturns, AwaitTimesOut,
                  AwaitFailed, OutcomeOf, Answers, Terminal
    <3> QED
      BY <1>1, <2>1, <3>1, <3>2, AnswerIsReport
  <2> QED
    BY <1>4, <2>2, <2>3, <2>4
    DEF InDispatcher, CallStep, CallFails, PoolStep, ClaimWon, ClaimLost, Submit, Complete,
        Leave, StartHandler, FinishHandler
<1>5. CASE UNCHANGED <<intents, acted, answer>>
  BY <1>5, ContractStutter
<1> QED
  BY <1>2, <1>3, <1>4, <1>5
  DEF Next, vars, serviceVars, dispatcherVars, ServiceStep, Begin, CheckGlobalSwitch,
      CheckTenantSwitch, KillSwitchRead, CheckMandate, CheckRevocation, CheckPolicyAndRisk,
      CheckLimits, CheckBaseline, Observe, GiveBack, CreateWorkflow, Compensate,
      WithholdDispatch, DispatchReturns, AppendOutcome, Engage, Disengage, TimePasses,
      CrashReplica, Crash, RestartReplica, Restart

\* The whole boundary implements its contract: effects are recorded first, happen
\* once per key and are reported truthfully, for any number of requests.
THEOREM ServiceRefinesContract == ASSUME Minted PROVE Spec => ImplementsContract
<1>1. Init => Contract!Init
  <2> SUFFICES ASSUME Init PROVE Contract!Init
    OBVIOUS
  <2>1. \A c \in Calls : ~Allowed(c)
    BY IntentFacts, ServiceAssumption DEF Init, Allowed, Effects, Decisions
  <2>2. \A c \in Calls : Reported(answer[c]) = "none"
    BY DEF Init, DispatcherInit, Reported
  <2> QED
    BY <2>1, <2>2 DEF Init, DispatcherInit, Contract!Init
<1>2. Minted
  OBVIOUS
<1> QED
  BY <1>1, <1>2, ContractNext, StageInvariants, Recorded, PTL
  DEF Spec, ImplementsContract, Contract!Spec
=============================================================================
