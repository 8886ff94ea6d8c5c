--------------------------- MODULE DecisionService ---------------------------
(***************************************************************************)
(* The decision pipeline (glassbox/app/decision_service.py) composed with  *)
(* the stores it calls: kill switch, mandates, limits, baseline, approval  *)
(* workflows, evidence, and the dispatcher of PostgresDispatcher, whose    *)
(* steps are steps of this module.  A call of PostgresDispatcher is here a *)
(* request; it reaches dispatch() only through the pipeline.               *)
(*                                                                         *)
(* A stage is a step of its own when it touches shared state.  Stages that *)
(* only compute (catalogue, tool registry, identity, policy, risk) are     *)
(* merged, and what they compute is left open.  Any store may be           *)
(* unavailable, and an error may hide a change that was made.              *)
(***************************************************************************)
EXTENDS PostgresDispatcher

CONSTANTS
    DecisionIds,
    DecisionIdOf,  \* the request's decision_id, minted or the caller's own
    Advisory,      \* requests that may degrade on a dependency failure
    Monetary,      \* requests with a monetary exposure to baseline
    EntryOf,       \* the entry point that serves the request
    Stops,         \* which of the three emergency stops the operator uses
    Ceiling        \* the velocity limit of a tenant's agent

ASSUME ServiceAssumption ==
    /\ DecisionIdOf \in [Calls -> DecisionIds]
    /\ Advisory \subseteq Calls /\ Monetary \subseteq Calls
    /\ EntryOf \in [Calls -> {"action", "request", "tool", "replay"}]
    /\ Stops \subseteq {"global", "tenant", "agent"}
    /\ Ceiling \in Nat \ {0}

VARIABLES
    stage,      \* where each request is in the pipeline
    effect,     \* decision.effect; "obliged" is an allow with blocking obligations
    verdict,    \* the request's last LimitVerdict
    result,     \* execution.status
    engaged,    \* emergency stops in force: <<kind, tenant>>
    budget,     \* the requests that hold velocity budget in the current window
    cooling,    \* tenants whose limit is in its cooldown
    samples,    \* the requests observed by the baseline store
    workflows,  \* decision ids with an approval workflow
    intents,    \* evidence_intent by decision id
    outcomes,   \* evidence_outcome of each request; "none" without a row
    barred      \* history: stops in force without a break since the request began

serviceVars == <<stage, effect, verdict, result, engaged, budget, cooling,
                 samples, workflows, intents, outcomes, barred>>

vars == <<dispatcherVars, serviceVars>>

Replays == {c \in Calls : EntryOf[c] = "replay"}

Kinds == {"global", "tenant", "agent"}

Effects == {"allow", "obliged", "approval", "deny"}

\* A request is being served: its thread is in the pipeline.
Active == {"kill_global", "kill_tenant", "mandate", "revocation", "policy", "limits",
           "baseline", "observe", "give_back", "approval", "evidence", "compensate",
           "dispatch", "outcome"}

\* returned: a DecisionOutcome; evidence_error: EvidenceWriteError or
\* SigningUnavailableError; raised: any other exception; lost: crashed.
Over == {"returned", "evidence_error", "raised", "lost"}

Stages == Active \cup Over \cup {"idle"}

\* The effect of a request whose policy is still to be asked is "none".
Decisions == Effects \cup {"none"}

Results == {"none", "denied", "pending_approval", "replayed"} \cup Terminal

\* A row of evidence_intent: the request and its decision.
Intent(c, e) == [request |-> c, effect |-> e]

NoIntent == Intent(NoCall, "deny")

Intents == {Intent(c, e) : c \in Calls, e \in Effects}

ServiceTypeOK ==
    /\ stage \in [Calls -> Stages]
    /\ effect \in [Calls -> Decisions]
    /\ verdict \in [Calls -> {"none", "admitted", "rejected"}]
    /\ result \in [Calls -> Results]
    /\ engaged \subseteq Kinds \X Tenants
    /\ budget \subseteq Calls /\ samples \subseteq Calls
    /\ cooling \subseteq Tenants
    /\ workflows \subseteq DecisionIds
    /\ intents \in [DecisionIds -> Intents \cup {NoIntent}]
    /\ outcomes \in [Calls -> Results]
    /\ barred \in [Calls -> SUBSET Kinds]

Init ==
    /\ DispatcherInit
    /\ stage = [c \in Calls |-> "idle"]
    /\ effect = [c \in Calls |-> "none"]
    /\ verdict = [c \in Calls |-> "none"]
    /\ result = [c \in Calls |-> "none"]
    /\ engaged = {} /\ budget = {} /\ cooling = {} /\ samples = {} /\ workflows = {}
    /\ intents = [i \in DecisionIds |-> NoIntent]
    /\ outcomes = [c \in Calls |-> "none"]
    /\ barred = [c \in Calls |-> {}]

-----------------------------------------------------------------------------
Serving(c, s) == stage[c] = s /\ up[HomeOf[c]]

Enter(c, s) == stage' = [stage EXCEPT ![c] = s]

Decide(c, e) == effect' = [effect EXCEPT ![c] = e]

\* A denial: every later control is skipped, the record is written.  Risk is
\* still scored, which changes nothing about a denial.
Deny(c, s) == Decide(c, "deny") /\ Enter(c, s)

InForce(c) == {k \in Kinds : <<k, TenantOf[c]>> \in engaged}

\* _check_tool_registry: an ungoverned or quarantined tool, and an unavailable
\* registry, are denials.
ToolRegistryVerdicts == {"ok", "denied"}

\* _check_catalogue: so are ungoverned actions, flagged text and unsatisfied
\* attestations; parameters outside the schema raise.
CatalogueVerdicts == {"ok", "denied", "raised"}

\* A pre-built action and a replayed one are not resolved.
ResolutionVerdicts(c) ==
    CASE EntryOf[c] = "tool"    -> ToolRegistryVerdicts
      [] EntryOf[c] = "request" -> CatalogueVerdicts
      [] OTHER                  -> {"ok"}

\* The credential and its tenant raise, a contradicted assertion denies; replay()
\* checks neither.
IdentityVerdicts(c) == IF c \in Replays THEN {"ok"} ELSE {"ok", "denied", "raised"}

\* The entry points, up to the first control of _evaluate.
Begin(c) ==
    /\ Serving(c, "idle")
    /\ barred' = [barred EXCEPT ![c] = InForce(c)]
    /\ \E v \in ResolutionVerdicts(c), i \in IdentityVerdicts(c) :
          \/ /\ "raised" \in {v, i}
             /\ Enter(c, "raised") /\ UNCHANGED effect
          \/ /\ "raised" \notin {v, i} /\ "denied" \in {v, i}
             /\ Deny(c, "evidence")
          \/ /\ {v, i} = {"ok"}
             /\ Enter(c, IF c \in Advisory THEN "mandate" ELSE "kill_global")
             /\ UNCHANGED effect
    /\ UNCHANGED <<dispatcherVars, verdict, result, engaged, budget, cooling, samples,
                   workflows, intents, outcomes>>

\* _check_kill_switch: the global switch is read, then the tenant's; an
\* unavailable switch denies.
KillSwitchRead(c, here, kind, next) ==
    /\ Serving(c, here)
    /\ \/ <<kind, TenantOf[c]>> \notin engaged /\ Enter(c, next) /\ UNCHANGED effect
       \/ Deny(c, "evidence")
    /\ UNCHANGED <<dispatcherVars, verdict, result, engaged, budget, cooling, samples,
                   workflows, intents, outcomes, barred>>

CheckGlobalSwitch(c) == KillSwitchRead(c, "kill_global", "global", "kill_tenant")

\* Mutant: the global switch is read twice, the tenant's never.
CheckTenantSwitchGlobally(c) == KillSwitchRead(c, "kill_tenant", "global", "mandate")

CheckTenantSwitch(c) == KillSwitchRead(c, "kill_tenant", "tenant", "mandate")

\* _check_mandate, first read: no active mandate denies; an unavailable store
\* denies, or skips the whole check for an advisory action.
CheckMandate(c) ==
    /\ Serving(c, "mandate")
    /\ \/ Enter(c, "revocation") /\ UNCHANGED effect
       \/ c \in Advisory /\ Enter(c, "policy") /\ UNCHANGED effect
       \/ Deny(c, "evidence")
    /\ UNCHANGED <<dispatcherVars, verdict, result, engaged, budget, cooling, samples,
                   workflows, intents, outcomes, barred>>

\* _check_mandate, second read: the deny list, then mandate.permits().
CheckRevocation(c) ==
    /\ Serving(c, "revocation")
    /\ \/ <<"agent", TenantOf[c]>> \notin engaged /\ Enter(c, "policy") /\ UNCHANGED effect
       \/ c \in Advisory /\ Enter(c, "policy") /\ UNCHANGED effect
       \/ Deny(c, "evidence")
    /\ UNCHANGED <<dispatcherVars, verdict, result, engaged, budget, cooling, samples,
                   workflows, intents, outcomes, barred>>

\* _check_policy, _compute_risk and _check_risk_threshold.
CheckPolicyAndRisk(c) ==
    /\ Serving(c, "policy")
    /\ \/ \E e \in Effects \ {"deny"} : Decide(c, e) /\ Enter(c, "limits")
       \/ Deny(c, "evidence")
    /\ UNCHANGED <<dispatcherVars, verdict, result, engaged, budget, cooling, samples,
                   workflows, intents, outcomes, barred>>

-----------------------------------------------------------------------------
(* Limits and baseline.                                                    *)

SpentBy(t) == {c \in budget : TenantOf[c] = t}

\* The consume script admits: the member is recorded.
Consume(c) ==
    /\ TenantOf[c] \notin cooling
    /\ Cardinality(SpentBy(TenantOf[c])) < Ceiling
    /\ budget' = budget \cup {c}
    /\ UNCHANGED cooling

\* The consume script rejects: in cooldown, or over the ceiling, which starts one.
Reject(c) ==
    /\ TenantOf[c] \in cooling \/ Cardinality(SpentBy(TenantOf[c])) >= Ceiling
    /\ cooling' = cooling \cup {TenantOf[c]}
    /\ UNCHANGED budget

AfterBaseline(c) == IF effect[c] = "approval" THEN "approval" ELSE "evidence"

AfterLimits(c) == IF c \in Monetary THEN "baseline" ELSE AfterBaseline(c)

\* _check_limits; a store error may hide what the script did.
CheckLimits(c) ==
    /\ Serving(c, "limits")
    /\ \/ /\ Consume(c)
          /\ verdict' = [verdict EXCEPT ![c] = "admitted"]
          /\ Enter(c, AfterLimits(c)) /\ UNCHANGED effect
       \/ /\ Reject(c)
          /\ verdict' = [verdict EXCEPT ![c] = "rejected"]
          /\ Deny(c, "evidence")
       \/ /\ Consume(c) \/ Reject(c) \/ UNCHANGED <<budget, cooling>>
          /\ UNCHANGED verdict
          /\ IF c \in Advisory THEN Enter(c, AfterLimits(c)) /\ UNCHANGED effect
                               ELSE Deny(c, "evidence")
    /\ UNCHANGED <<dispatcherVars, result, engaged, samples, workflows, intents,
                   outcomes, barred>>

\* _check_baseline: an anomaly denies, and so does an unavailable store unless
\* the action is advisory.
CheckBaseline(c) ==
    /\ Serving(c, "baseline")
    /\ \/ Enter(c, "observe") /\ UNCHANGED effect
       \/ c \in Advisory /\ Enter(c, AfterBaseline(c)) /\ UNCHANGED effect
       \/ Deny(c, "give_back")
    /\ UNCHANGED <<dispatcherVars, verdict, result, engaged, budget, cooling, samples,
                   workflows, intents, outcomes, barred>>

\* baseline_store.observe, outside the try block: its error leaves _evaluate.
Observe(c) ==
    /\ Serving(c, "observe")
    /\ \/ samples' = samples \cup {c} /\ Enter(c, AfterBaseline(c))
       \/ samples' \in {samples, samples \cup {c}} /\ Enter(c, "raised")
    /\ UNCHANGED <<dispatcherVars, effect, verdict, result, engaged, budget, cooling,
                   workflows, intents, outcomes, barred>>

\* limit_store.release removes every member of the decision id.
Released(c) ==
    {d \in budget : ~(TenantOf[d] = TenantOf[c] /\ DecisionIdOf[d] = DecisionIdOf[c])}

\* Mutant: a baseline denial keeps the budget.
GiveBackNothing(c) ==
    /\ Serving(c, "give_back")
    /\ Enter(c, "evidence")
    /\ UNCHANGED <<dispatcherVars, effect, verdict, result, engaged, budget, cooling, samples,
                   workflows, intents, outcomes, barred>>

\* _release_limit_budget after a baseline denial: its error leaves _evaluate.
GiveBack(c) ==
    /\ Serving(c, "give_back")
    /\ \/ verdict[c] # "admitted" /\ Enter(c, "evidence") /\ UNCHANGED budget
       \/ verdict[c] = "admitted" /\ Enter(c, "evidence") /\ budget' = Released(c)
       \/ verdict[c] = "admitted" /\ Enter(c, "raised") /\ budget' \in {budget, Released(c)}
    /\ UNCHANGED <<dispatcherVars, effect, verdict, result, engaged, cooling, samples,
                   workflows, intents, outcomes, barred>>

-----------------------------------------------------------------------------
(* Approval workflow, evidence, dispatch, outcome.                         *)

\* _materialize_approval_metadata: every error of the workflow engine is logged
\* and swallowed.
CreateWorkflow(c) ==
    /\ Serving(c, "approval")
    /\ \/ c \notin Replays /\ workflows' = workflows \cup {DecisionIdOf[c]}
       \/ UNCHANGED workflows
    /\ Enter(c, "evidence")
    /\ UNCHANGED <<dispatcherVars, effect, verdict, result, engaged, budget, cooling,
                   samples, intents, outcomes, barred>>

\* append_intent: an existing row of the decision id is left as it is.
WriteIntent(c) ==
    intents' = IF intents[DecisionIdOf[c]] = NoIntent
                 THEN [intents EXCEPT ![DecisionIdOf[c]] = Intent(c, effect[c])]
                 ELSE intents

AppendIntent(c) ==
    /\ Serving(c, "evidence")
    /\ WriteIntent(c)
    /\ Enter(c, "dispatch")
    /\ UNCHANGED <<dispatcherVars, effect, verdict, result, engaged, budget, cooling,
                   samples, workflows, outcomes, barred>>

\* Mutant: an evidence failure is logged and the request goes on.
AppendIntentFailsOpen(c) ==
    /\ Serving(c, "evidence")
    /\ WriteIntent(c) \/ UNCHANGED intents
    /\ Enter(c, "dispatch")
    /\ UNCHANGED <<dispatcherVars, effect, verdict, result, engaged, budget, cooling,
                   samples, workflows, outcomes, barred>>

AppendIntentFails(c) ==
    /\ Serving(c, "evidence")
    /\ WriteIntent(c) \/ UNCHANGED intents
    /\ Enter(c, "compensate")
    /\ UNCHANGED <<dispatcherVars, effect, verdict, result, engaged, budget, cooling,
                   samples, workflows, outcomes, barred>>

\* The best-effort release before the evidence error is raised again.
Compensate(c) ==
    /\ Serving(c, "compensate")
    /\ \/ verdict[c] = "admitted" /\ budget' = Released(c)
       \/ UNCHANGED budget
    /\ Enter(c, "evidence_error")
    /\ UNCHANGED <<dispatcherVars, effect, verdict, result, engaged, cooling, samples,
                   workflows, intents, outcomes, barred>>

\* _dispatch_if_permitted, the branches that do not dispatch.
Withheld(c) ==
    CASE effect[c] = "deny"                     -> "denied"
      [] effect[c] \in {"approval", "obliged"}  -> "pending_approval"
      [] effect[c] = "allow" /\ c \in Replays   -> "replayed"
      [] OTHER                                  -> "none"

WithholdDispatch(c) ==
    /\ Serving(c, "dispatch")
    /\ Withheld(c) # "none"
    /\ result' = [result EXCEPT ![c] = Withheld(c)]
    /\ Enter(c, "outcome")
    /\ UNCHANGED <<dispatcherVars, effect, verdict, engaged, budget, cooling, samples,
                   workflows, intents, outcomes, barred>>

\* dispatcher.dispatch() is called.
CallDispatch(c) ==
    /\ Serving(c, "dispatch")
    /\ Withheld(c) = "none"
    /\ Admit(c) \/ Refuse(c)
    /\ UNCHANGED serviceVars

\* Mutant: a claim held by somebody else counts as done.
ExecutionStatusAssumed(a) ==
    CASE a = "refused"       -> "failed"
      [] a = "claim_pending" -> "executed"
      [] OTHER               -> a

\* dispatch() comes back: DispatchRefusedError is a DispatchError and becomes a
\* FAILED outcome; DriverUnavailableError is an EvidenceWriteError and passes.
ExecutionStatus(a) ==
    CASE a = "refused"       -> "failed"
      [] a = "claim_pending" -> "indeterminate"
      [] OTHER               -> a

DispatchReturns(c) ==
    /\ Serving(c, "dispatch")
    /\ pc[c] = "done"
    /\ \/ /\ answer[c] # "driver_error"
          /\ result' = [result EXCEPT ![c] = ExecutionStatus(answer[c])]
          /\ Enter(c, "outcome")
       \/ /\ answer[c] = "driver_error"
          /\ Enter(c, "evidence_error")
          /\ UNCHANGED result
    /\ UNCHANGED <<dispatcherVars, effect, verdict, engaged, budget, cooling, samples,
                   workflows, intents, outcomes, barred>>

\* append_outcome; its failure is logged.
AppendOutcome(c) ==
    /\ Serving(c, "outcome")
    /\ \/ outcomes' = [outcomes EXCEPT ![c] = result[c]]
       \/ UNCHANGED outcomes
    /\ Enter(c, "returned")
    /\ UNCHANGED <<dispatcherVars, effect, verdict, result, engaged, budget, cooling,
                   samples, workflows, intents, barred>>

-----------------------------------------------------------------------------
(* The operator, time, and process failure.                                *)

Engage(k, t) ==
    /\ k \in Stops
    /\ engaged' = engaged \cup (IF k = "global" THEN {k} \X Tenants ELSE {<<k, t>>})
    /\ UNCHANGED <<dispatcherVars, stage, effect, verdict, result, budget, cooling, samples,
                   workflows, intents, outcomes, barred>>

\* disengage_tenant, disengage_globally, or a new mandate for the agent.
Disengage(k, t) ==
    /\ <<k, t>> \in engaged
    /\ engaged' = engaged \ (IF k = "global" THEN {k} \X Tenants ELSE {<<k, t>>})
    /\ barred' = [c \in Calls |->
                    IF k = "global" \/ TenantOf[c] = t THEN barred[c] \ {k} ELSE barred[c]]
    /\ UNCHANGED <<dispatcherVars, stage, effect, verdict, result, budget, cooling, samples,
                   workflows, intents, outcomes>>

\* The limit window slides past a member, or a cooldown ends.
TimePasses ==
    /\ \/ \E c \in budget : budget' = budget \ {c} /\ UNCHANGED cooling
       \/ \E t \in cooling : cooling' = cooling \ {t} /\ UNCHANGED budget
    /\ UNCHANGED <<dispatcherVars, stage, effect, verdict, result, engaged, samples,
                   workflows, intents, outcomes, barred>>

CrashReplica(r) ==
    /\ Crash(r)
    /\ stage' = [c \in Calls |->
                   IF HomeOf[c] = r /\ stage[c] \in Active THEN "lost" ELSE stage[c]]
    /\ UNCHANGED <<effect, verdict, result, engaged, budget, cooling, samples, workflows,
                   intents, outcomes, barred>>

RestartReplica(r) == Restart(r) /\ UNCHANGED serviceVars

InDispatcher(c) == (CallStep(c) \/ CallFails(c) \/ PoolStep(c)) /\ UNCHANGED serviceVars

ServiceStep(c) ==
    \/ CheckGlobalSwitch(c) \/ CheckTenantSwitch(c) \/ CheckMandate(c) \/ CheckRevocation(c)
    \/ CheckPolicyAndRisk(c) \/ CheckLimits(c) \/ CheckBaseline(c) \/ Observe(c) \/ GiveBack(c)
    \/ CreateWorkflow(c) \/ AppendIntent(c) \/ AppendIntentFails(c) \/ Compensate(c)
    \/ WithholdDispatch(c) \/ CallDispatch(c) \/ DispatchReturns(c) \/ AppendOutcome(c)

Next ==
    \/ \E c \in Calls : Begin(c) \/ ServiceStep(c) \/ InDispatcher(c)
    \/ \E k \in Kinds, t \in Tenants : Engage(k, t) \/ Disengage(k, t)
    \/ TimePasses
    \/ \E r \in Replicas : CrashReplica(r) \/ RestartReplica(r)

Spec == Init /\ [][Next]_vars

(***************************************************************************)
(* A request is one thread, in the pipeline as in the dispatcher; it is    *)
(* scheduled, and every call of a store returns or raises.                 *)
(***************************************************************************)
FairSpec ==
    /\ Spec
    /\ \A c \in Calls : WF_vars(ServiceStep(c) \/ (CallStep(c) /\ UNCHANGED serviceVars))

-----------------------------------------------------------------------------
(* Properties.                                                             *)

\* Invariant I1 and more: an effect is preceded by a durable record of the very
\* request that has the effect, and that record allows it.  Nothing a store
\* does (unavailable, reply lost, retried) lets a denied or undecided request,
\* a pending approval or a replay act.
EvidenceBeforeEffect ==
    \A c \in acted :
        intents[DecisionIdOf[c]] = Intent(c, "allow") /\ c \notin Replays

\* An emergency stop (global switch, tenant switch, revocation of the agent) that
\* was in force when a non-advisory request began and stays in force keeps the
\* request from acting: no stage degrades past _check_kill_switch or the deny
\* list of _check_mandate.
StopIsHonoured ==
    \A c \in acted \ Advisory : barred[c] = {}

\* A decision that consumed velocity budget and is then denied has returned it
\* by the time the caller sees the denial (_release_limit_budget in _evaluate).
DenialReturnsBudget ==
    \A c \in Calls :
        stage[c] = "returned" /\ effect[c] = "deny" /\ verdict[c] = "admitted"
            => c \notin budget

\* The evidence of what happened is true: an EXECUTED outcome means that the
\* key's effect has happened, a DENIED, PENDING_APPROVAL or REPLAYED outcome
\* that this request has had none, and an outcome is never without its intent.
OutcomesAreTrue ==
    \A c \in Calls :
        /\ outcomes[c] # "none" => intents[DecisionIdOf[c]] # NoIntent
        /\ outcomes[c] = "executed" => \E d \in acted : KeyOf[d] = KeyOf[c]
        /\ outcomes[c] \in {"denied", "pending_approval", "replayed"} => c \notin acted

\* A request that consumed budget, on any replica and with any reply lost, never
\* takes a tenant's agent over its ceiling.
CeilingHolds ==
    \A t \in Tenants : Cardinality(SpentBy(t)) <= Ceiling

\* The refinement mapping: what the pipeline, the evidence store and the
\* dispatcher do together is what EffectContract allows.
Reported(a) ==
    CASE a \in {"executed", "failed"}             -> a
      [] a \in {"indeterminate", "claim_pending"} -> "unknown"
      [] OTHER                                    -> "none"

Allowed(c) == intents[DecisionIdOf[c]] = Intent(c, "allow")

Contract == INSTANCE EffectContract WITH
    recorded  <- {c \in Calls : Allowed(c)},
    performed <- acted,
    reported  <- [c \in Calls |-> Reported(answer[c])]

\* The composition of the decision pipeline with the dispatcher implements the
\* contract of effects: recorded first, once per key, truthfully reported.
ImplementsContract == Contract!Spec

-----------------------------------------------------------------------------
(* Why the safety properties hold.                                         *)

Unrecorded == {"idle", "kill_global", "kill_tenant", "mandate", "revocation", "policy",
               "limits", "baseline", "observe", "give_back", "approval", "evidence"}

\* A request is decided before its record is written, and only an allowed one
\* that is no replay is ever known to the dispatcher.
PipelineInv ==
    \A c \in Calls :
        /\ stage[c] \in Unrecorded => pc[c] = "idle"
        /\ stage[c] \in {"idle", "kill_global", "kill_tenant", "mandate", "revocation", "policy"}
              => effect[c] = "none"
        /\ stage[c] \in {"limits", "baseline", "observe", "give_back", "approval", "evidence",
                         "dispatch"} => effect[c] # "none"
        /\ pc[c] # "idle" => effect[c] = "allow" /\ c \notin Replays

\* With a decision id of its own, a request has no record until append_intent,
\* then one that says what was decided.
RecordInv ==
    \A c \in Calls :
        /\ stage[c] \in Unrecorded => intents[DecisionIdOf[c]] = NoIntent
        /\ stage[c] = "dispatch"
              => intents[DecisionIdOf[c]] = Intent(c, effect[c])
        /\ pc[c] # "idle" => Allowed(c)

\* A stop in force since the beginning is behind a check the request has yet to
\* pass, or the request is denied.
StopInv ==
    \A c \in Calls :
        /\ barred[c] \subseteq InForce(c)
        /\ c \notin Advisory /\ effect[c] # "deny" =>
              /\ stage[c] \in {"kill_tenant", "mandate", "revocation"} => "global" \notin barred[c]
              /\ stage[c] \in {"mandate", "revocation"} => "tenant" \notin barred[c]
              /\ stage[c] \in Active \ {"kill_global", "kill_tenant", "mandate", "revocation"}
                    => barred[c] = {}
        /\ c \notin Advisory /\ pc[c] # "idle" => barred[c] = {}

\* Only _check_limits admits, and a denial after it passes through the release.
BudgetInv ==
    \A c \in Calls :
        /\ stage[c] \in {"idle", "kill_global", "kill_tenant", "mandate", "revocation", "policy",
                         "limits"} => verdict[c] = "none"
        /\ stage[c] \in {"limits", "baseline", "observe", "approval"} => effect[c] # "deny"
        /\ /\ stage[c] \in {"evidence", "dispatch", "outcome", "returned"}
           /\ effect[c] = "deny" /\ verdict[c] = "admitted"
           => c \notin budget

\* What append_outcome is given is what became of the request.
OutcomeInv ==
    \A c \in Calls :
        /\ stage[c] \in {"dispatch", "outcome"} => intents[DecisionIdOf[c]] # NoIntent
        /\ result[c] = "executed" => \E d \in acted : KeyOf[d] = KeyOf[c]
        /\ result[c] \in {"denied", "pending_approval", "replayed"}
              => pc[c] = "idle" /\ stage[c] \in Over \cup {"outcome"}
        /\ outcomes[c] # "none" => outcomes[c] = result[c] /\ stage[c] = "returned"
                                  /\ intents[DecisionIdOf[c]] # NoIntent

\* The conjunction the theorems about the service rest on.
ServiceInv == PipelineInv /\ RecordInv /\ StopInv /\ BudgetInv /\ OutcomeInv

-----------------------------------------------------------------------------
(* Liveness, and what the documentation says and the code does not do.     *)

\* Every request ends: with an outcome, an exception, or the loss of its replica.
RequestsEnd ==
    \A c \in Calls : (stage[c] \in Active) ~> (stage[c] \in Over)

\* "Every governed decision ... produces a durable, signed IntentRecord before any
\* effect can occur" (docs/COMPLIANCE/requirements.md): a request that acted or
\* was answered has a record of its own, with its own decision.
EveryDecisionIsRecorded ==
    \A c \in Calls :
        c \in acted \/ stage[c] = "returned"
            => intents[DecisionIdOf[c]] = Intent(c, effect[c])

\* "EvidenceWriteError: If evidence cannot be made durable. The dispatcher is
\* never called on this path." (decide_and_dispatch)
EvidenceErrorMeansNoDispatch ==
    \A c \in Calls : stage[c] = "evidence_error" => pc[c] = "idle"

\* "a replay is a read-only re-evaluation" (_materialize_approval_metadata): it
\* leaves no trace in the operational stores.
ReplayIsReadOnly ==
    /\ budget \cap Replays = {} /\ samples \cap Replays = {}
    /\ \A c \in Replays : DecisionIdOf[c] \notin workflows

\* "a failure here must be retried and alerted" (EvidenceStore.append_outcome):
\* a returned decision's outcome is recorded in the end.
OutcomeIsRecorded ==
    \A c \in Calls :
        (stage[c] = "returned") ~> (outcomes[c] # "none")
=============================================================================
