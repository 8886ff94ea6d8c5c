---------------------------- MODULE ControlPlane ----------------------------
(***************************************************************************)
(* The governance stores of one tenant and the stages of a decision that   *)
(* read them: the tool registry, the action catalogue and the attestation  *)
(* provider, the mandate store with its revocation list, the two policy    *)
(* decision points, and the baseline store.  Operators change the stores   *)
(* while decisions run; every stage of a decision is one read under one    *)
(* lock (or one round trip), so what a later stage sees may differ from    *)
(* what an earlier one saw.  Identity, the kill switch and the limits are  *)
(* stages of DecisionService and LimitStore.                               *)
(***************************************************************************)
EXTENDS GovernanceRules

CONSTANTS
  Requests,       \* decisions
  Inputs,         \* what a caller may ask for: [path, digest, action, parameters, flagged],
                  \* flagged when the text it carries matches an injection pattern
  Resource,       \* the resource all of them name
  Digests,        \* tool definition digests
  DefinitionOf,   \* the action definition pinned by each digest
  Catalogue,      \* the definitions a catalogue bundle may govern
  Mandates, Policies,
  OwnSeeds, PeerSeeds,  \* sample histories the baseline store may start from
  MinSamples, MaxSamples, Threshold,
  DenyLevel,      \* config.risk.deny_level
  Pdps,           \* the policy decision points composed: declarative, allowlist
  MaxEdits,       \* bound on operator changes
  MaxFaults,      \* bound on failing store calls
  None

ASSUME ControlPlaneAssumption ==
  /\ Pdps \subseteq {"declarative", "allowlist"}
  /\ MinSamples \in Nat \ {0}
  /\ MaxSamples >= MinSamples
  /\ \A d \in Catalogue \cup Range(DefinitionOf) : WellFormedDefinition(d)
  /\ \A m \in Mandates : WellFormedMandate(m)

VARIABLES
  tools,      \* registry: active bundle, approved digest, quarantine flag
  catalogue,  \* the governed definition, or None
  fact,       \* the attestation: "yes", "no" or "never" recorded
  mandate, revoked,
  pdp, policy, allowed,
  own, peer,  \* baseline samples of the agent and of its peer group
  call, edits, faults,
  owed,       \* history: digests loaded as changes and not followed by an approval
  barred,     \* history: revoked when the request began, with no new mandate since
  attested    \* history: the attestation held at some moment of the request

registry == <<tools, catalogue, fact>>
authority == <<mandate, revoked>>
decisions == <<pdp, policy, allowed>>
samples == <<own, peer>>
vars == <<tools, catalogue, fact, mandate, revoked, pdp, policy, allowed, own, peer,
          call, edits, faults, owed, barred, attested>>

Fresh == [pc |-> "new", input |-> None, bundle |-> None, definition |-> None,
          action |-> None, mandate |-> None, cited |-> None, effect |-> None,
          reason |-> None, failed |-> {}]

Init ==
  /\ tools = [bundle |-> None, approved |-> None, quarantined |-> FALSE]
  /\ catalogue = None
  /\ fact = "never"
  /\ mandate \in Mandates \cup {None}
  /\ revoked = FALSE
  /\ pdp \in Pdps
  /\ policy \in IF pdp = "declarative" THEN Policies \cup {None} ELSE {None}
  /\ allowed = {}
  /\ own \in OwnSeeds
  /\ peer \in PeerSeeds
  /\ call = [r \in Requests |-> Fresh]
  /\ edits = 0
  /\ faults = 0
  /\ owed = {}
  /\ barred = [r \in Requests |-> FALSE]
  /\ attested = [r \in Requests |-> FALSE]

-----------------------------------------------------------------------------
(* Stages of a decision.                                                   *)

At(r, pc) == call[r].pc = pc
Goto(r, pc) == call' = [call EXCEPT ![r].pc = pc]
Raise(r) == Goto(r, "error")

\* The stage a step belongs to.
StageOf ==
  [tool |-> "tool_registry", quarantine |-> "tool_registry", catalogue |-> "catalogue",
   attest |-> "catalogue", mandate |-> "mandate", revocation |-> "mandate",
   policy |-> "policy", permit |-> "policy", risk |-> "risk", own |-> "baseline",
   peer |-> "baseline"]

\* A denial skips the stages after it, except that risk is always scored.
Denied(r, reason, cited, failed) ==
  call' = [call EXCEPT
             ![r].pc = IF call[r].pc \in {"risk", "own", "peer"} THEN "done" ELSE "risk",
             ![r].effect = "deny", ![r].reason = reason, ![r].cited = cited,
             ![r].failed = @ \cup failed]

\* A stage that ran, and refused; and one that could not run.
Deny(r, reason) == Denied(r, reason, None, {})
Fail(r, reason) == Denied(r, reason, None, {StageOf[call[r].pc]})

Begin(r) ==
  /\ At(r, "new")
  /\ \E input \in Inputs :
       call' = [call EXCEPT ![r].pc = input.path, ![r].input = input]
  /\ barred' = [barred EXCEPT ![r] = revoked]
  /\ attested' = [attested EXCEPT ![r] = fact = "yes"]
  /\ UNCHANGED <<registry, authority, decisions, samples, edits, faults, owed>>

Reads == UNCHANGED <<registry, authority, decisions, samples, edits, faults, owed, barred, attested>>

\* InMemoryToolRegistry.resolve: the bundle is read under the lock, then released.
ReadTools(r) ==
  /\ At(r, "tool")
  /\ IF tools.bundle = None
     THEN Fail(r, "dependency_unavailable")
     ELSE call' = [call EXCEPT ![r].pc = "quarantine", ![r].bundle = tools.bundle]
  /\ Reads

\* The action a definition derives; a negative magnitude makes the call raise.
Govern(r, definition, next) ==
  LET action == Derived(definition, Resource, call[r].input.parameters)
  IN  IF Representable(action.exposure)
      THEN call' = [call EXCEPT ![r].pc = next, ![r].definition = definition,
                                ![r].action = action]
      ELSE Raise(r)

\* The rest of resolve: quarantine under the lock again, then the presented digest.
CheckQuarantine(r) ==
  /\ At(r, "quarantine")
  /\ IF tools.quarantined
     THEN Deny(r, "tool_definition_changed")
     ELSE IF call[r].bundle # call[r].input.digest
          THEN Deny(r, "tool_not_governed")
     ELSE Govern(r, DefinitionOf[call[r].bundle], "mandate")
  /\ Reads

ReadCatalogue(r) ==
  /\ At(r, "catalogue")
  /\ IF catalogue = None
     THEN Fail(r, "dependency_unavailable")
     ELSE IF catalogue.action # call[r].input.action
          THEN Deny(r, "action_not_governed")
     ELSE IF SchemaViolated(catalogue, call[r].input.parameters)
          THEN Raise(r)
     ELSE IF call[r].input.flagged /\ Representable(Extract(catalogue.exposure, call[r].input.parameters))
          THEN Deny(r, "prompt_injection_detected")
     ELSE Govern(r, catalogue, IF catalogue.attestation THEN "attest" ELSE "mandate")
  /\ Reads

\* A fact never recorded counts as satisfied.
CheckAttestationLeniently(r) ==
  /\ At(r, "attest")
  /\ IF fact # "no" THEN Goto(r, "mandate") ELSE Deny(r, "attestation_not_satisfied")
  /\ Reads

\* _first_unsatisfied_attestation: unresolvable and false are the same denial.
CheckAttestation(r) ==
  /\ At(r, "attest")
  /\ IF fact = "yes" THEN Goto(r, "mandate") ELSE Deny(r, "attestation_not_satisfied")
  /\ Reads

GetMandate(r) ==
  /\ At(r, "mandate")
  /\ IF mandate = None
     THEN Deny(r, "mandate_missing")
     ELSE IF ActiveAt(mandate, 0)
          THEN call' = [call EXCEPT ![r].pc = "revocation", ![r].mandate = mandate]
          ELSE Deny(r, "mandate_missing")
  /\ Reads

\* is_revoked reads the deny list and the row that is stored now; permits uses the row read before.
CheckRevocation(r) ==
  /\ At(r, "revocation")
  /\ IF revoked \/ mandate = None
     THEN Deny(r, "mandate_revoked")
     ELSE IF RevokedAt(mandate, 0)
          THEN Deny(r, "mandate_revoked")
     ELSE IF ~Permits(call[r].mandate, call[r].action, 0)
          THEN Deny(r, "mandate_exceeded")
     ELSE Goto(r, "policy")
  /\ Reads

\* AuthorizationDecision: a policy denial cites its bundle as an allow does.
AfterPolicy(r, effect, cited) ==
  IF effect = "deny" THEN Denied(r, "policy_denied", cited, {})
  ELSE call' = [call EXCEPT ![r].pc = "risk", ![r].effect = effect, ![r].cited = cited]

\* DeclarativePolicyDecisionPoint.decide: one read of the active bundle.
DecidePolicy(r) ==
  /\ At(r, "policy")
  /\ pdp = "declarative"
  /\ IF policy = None THEN Fail(r, "policy_bundle_unavailable")
     ELSE AfterPolicy(r, Decide(policy, call[r].action), policy)
  /\ Reads

\* AllowListPolicyDecisionPoint.decide: the digest is taken under one lock ...
CitePolicy(r) ==
  /\ At(r, "policy")
  /\ pdp = "allowlist"
  /\ call' = [call EXCEPT ![r].pc = "permit", ![r].cited = allowed]
  /\ Reads

\* ... and the live set is looked up after it.
LookUpAction(r) ==
  /\ At(r, "permit")
  /\ AfterPolicy(r, IF call[r].action.action \in allowed THEN "allow" ELSE "deny",
                 call[r].cited)
  /\ Reads

\* _compute_risk and _check_risk_threshold: scored without factors, so the score is the
\* floor of the consequence class; then the baseline judges a known monetary exposure.
ScoreRisk(r) ==
  /\ At(r, "risk")
  /\ LET action == call[r].action
     IN  IF call[r].effect = "deny" THEN Goto(r, "done")
         ELSE IF FromScore(Score(<< >>, action.consequence)) > DenyLevel
              THEN Deny(r, "risk_threshold_exceeded")
         ELSE Goto(r, IF action.exposure.monetary = Unknown THEN "done" ELSE "own")
  /\ Reads

Judge(r, history) ==
  IF Anomalous(history, call[r].action.exposure.monetary, Threshold)
  THEN Deny(r, "baseline_anomaly")
  ELSE Goto(r, "observe")

\* evaluate: the agent's own samples when there are enough of them ...
EvaluateOwn(r) ==
  /\ At(r, "own")
  /\ IF Len(own) >= MinSamples THEN Judge(r, own) ELSE Goto(r, "peer")
  /\ Reads

\* ... and its peer group's when there are not: a second round trip to Redis (the
\* in-memory store reads both under one lock).
EvaluatePeer(r) ==
  /\ At(r, "peer")
  /\ IF peer = << >> THEN Deny(r, "baseline_anomaly") ELSE Judge(r, peer)
  /\ Reads

\* observe: the sample joins the sliding window.
Observe(r) ==
  /\ At(r, "observe")
  /\ LET longer == Append(own, call[r].action.exposure.monetary)
     IN  own' = SubSeq(longer, Max({1, Len(longer) - MaxSamples + 1}), Len(longer))
  /\ Goto(r, "done")
  /\ UNCHANGED <<registry, authority, decisions, peer, edits, faults, owed, barred, attested>>

\* Mutant: the denial that an outage of the risk engine forces is forgotten.
RiskFailsQuietly(r) ==
  call' = [call EXCEPT ![r].pc = "done", ![r].failed = @ \cup {"risk"}]

\* An outage of the risk engine denies what was not denied before; what was keeps its
\* reason, and the record keeps the failed stage.
RiskFails(r) ==
  IF call[r].effect = "deny"
  THEN call' = [call EXCEPT ![r].pc = "done", ![r].failed = @ \cup {"risk"}]
  ELSE Fail(r, "dependency_unavailable")

\* A store call fails: fail closed, except that an advisory action goes on past the
\* mandate and the baseline, with the stage skipped; a failing observe is not caught.
\* A fact that cannot be resolved is one that does not hold.
Unavailable(r) ==
  /\ faults < MaxFaults
  /\ \/ call[r].pc \in {"tool", "catalogue"} /\ Fail(r, "dependency_unavailable")
     \/ At(r, "attest") /\ Deny(r, "attestation_not_satisfied")
     \/ /\ call[r].pc \in {"mandate", "revocation"}
        /\ IF MayDegrade(call[r].action) THEN Goto(r, "policy")
           ELSE Fail(r, "dependency_unavailable")
     \/ At(r, "policy") /\ Fail(r, "policy_bundle_unavailable")
     \/ At(r, "risk") /\ RiskFails(r)
     \/ /\ call[r].pc \in {"own", "peer"}
        /\ IF MayDegrade(call[r].action) THEN Goto(r, "done")
           ELSE Fail(r, "dependency_unavailable")
     \/ At(r, "observe") /\ Raise(r)
  /\ faults' = faults + 1
  /\ UNCHANGED <<registry, authority, decisions, samples, edits, owed, barred, attested>>

-----------------------------------------------------------------------------
(* Operators.                                                              *)

Edit == edits < MaxEdits /\ edits' = edits + 1

Changed(digest) == tools.approved \notin {None, digest}

\* A changed digest replaces the approved one.
RegisterTrusting(digest) == [bundle |-> digest, approved |-> digest, quarantined |-> FALSE]

\* A tool seen for the first time is approved, a changed one is quarantined; nothing
\* but approve ends a quarantine.
Register(digest) ==
  [bundle |-> digest,
   approved |-> IF tools.approved = None THEN digest ELSE tools.approved,
   quarantined |-> tools.quarantined \/ Changed(digest)]

LoadTools(digest) ==
  /\ Edit
  /\ tools' = Register(digest)
  /\ owed' = IF Changed(digest) THEN owed \cup {digest} ELSE owed
  /\ UNCHANGED <<catalogue, fact, authority, decisions, samples, call, faults, barred, attested>>

\* approve: the digest named is not compared with the bundle that is loaded.
ApproveTool(digest) ==
  /\ Edit
  /\ tools' = [tools EXCEPT !.approved = digest, !.quarantined = FALSE]
  /\ owed' = {}
  /\ UNCHANGED <<catalogue, fact, authority, decisions, samples, call, faults, barred, attested>>

LoadCatalogue(definition) ==
  /\ Edit
  /\ catalogue' = definition
  /\ UNCHANGED <<tools, fact, authority, decisions, samples, call, faults, owed, barred, attested>>

RecordFact(value) ==
  /\ Edit
  /\ fact' = value
  /\ attested' = [r \in Requests |-> attested[r] \/ value = "yes"]
  /\ UNCHANGED <<tools, catalogue, authority, decisions, samples, call, faults, owed, barred>>

\* put replaces the row and takes the agent off the deny list.
PutMandate(m) ==
  /\ Edit
  /\ mandate' = m
  /\ revoked' = FALSE
  /\ barred' = [r \in Requests |-> FALSE]
  /\ UNCHANGED <<registry, decisions, samples, call, faults, owed, attested>>

Revoke ==
  /\ Edit
  /\ revoked' = TRUE
  /\ UNCHANGED <<registry, mandate, decisions, samples, call, faults, owed, barred, attested>>

LoadPolicy(rules) ==
  /\ pdp = "declarative"
  /\ Edit
  /\ policy' = rules
  /\ UNCHANGED <<registry, authority, pdp, allowed, samples, call, faults, owed, barred, attested>>

AllowAction(name) ==
  /\ pdp = "allowlist"
  /\ Edit
  /\ allowed' = allowed \cup {name}
  /\ UNCHANGED <<registry, authority, pdp, policy, samples, call, faults, owed, barred, attested>>

-----------------------------------------------------------------------------

Stage(r) ==
  \/ Begin(r) \/ ReadTools(r) \/ CheckQuarantine(r) \/ ReadCatalogue(r) \/ CheckAttestation(r)
  \/ GetMandate(r) \/ CheckRevocation(r) \/ DecidePolicy(r) \/ CitePolicy(r) \/ LookUpAction(r)
  \/ ScoreRisk(r) \/ EvaluateOwn(r) \/ EvaluatePeer(r) \/ Observe(r) \/ Unavailable(r)

Operator ==
  \/ \E d \in Digests : LoadTools(d) \/ ApproveTool(d)
  \/ \E d \in Catalogue : LoadCatalogue(d)
  \/ \E value \in {"yes", "no"} : RecordFact(value)
  \/ \E m \in Mandates : PutMandate(m)
  \/ Revoke
  \/ \E p \in Policies : LoadPolicy(p)
  \/ \E d \in Catalogue : AllowAction(d.action)

Quiet == (\A r \in Requests : call[r].pc \in {"done", "error"}) /\ UNCHANGED vars

Next == (\E r \in Requests : Stage(r)) \/ Operator \/ Quiet

Spec == Init /\ [][Next]_vars

-----------------------------------------------------------------------------
(* Properties.                                                             *)

ShortHistory == peer = << >> /\ Len(own) < MinSamples

Admitted(r) == At(r, "done") /\ call[r].effect \in {"allow", "approve"}

(* A decision that lets an action go on rests on authority that really held: an
   agent that was already revoked when the request began, and has no new mandate
   since, gets a non-advisory action through in no interleaving with the operators;
   the mandate the decision used permits the action; an action resolved through the
   catalogue had every attestation its definition requires at some moment of the
   request; and an agent with too few samples and no peer group to be judged by gets
   no monetary, non-advisory action through, so its history cannot start to grow
   (_check_mandate, _first_unsatisfied_attestation, _check_baseline).               *)
AdmittedIsGrounded ==
  \A r \in Requests : Admitted(r) =>
    /\ ~MayDegrade(call[r].action) =>
         /\ ~barred[r]
         /\ Permits(call[r].mandate, call[r].action, 0)
         /\ ShortHistory => call[r].action.exposure.monetary = Unknown
    /\ call[r].input.path = "catalogue" /\ call[r].definition.attestation => attested[r]

(* A tool whose definition changed stays out of use until an operator approves
   something: resolve never returns a digest that was loaded as a change and has
   seen no approval since, whatever bundles were loaded in between
   (InMemoryToolRegistry.load_bundle, resolve, approve).                            *)
ChangeWaitsForApproval ==
  [][\A r \in Requests : At(r, "quarantine") /\ call'[r].pc = "mandate" =>
       call[r].bundle \notin owed]_vars

Outages == {"dependency_unavailable", "policy_bundle_unavailable"}

\* AuthorizationDecision.__post_init__, of the fields the model has.
Acceptable(decision) ==
  /\ (decision.effect = "deny") <=> (decision.reason # None)
  /\ decision.effect # "deny" => decision.cited # None

(* The record of a decision tells an outage from a refusal.  A denial has a reason and
   an admission a policy bundle it cites, as AuthorizationDecision demands; nothing is
   admitted with a failed stage on record; an outage is given as the reason only when
   a stage failed, and a stage other than risk fails only when an outage is the reason,
   whatever else was denied and failed on the way (_evaluate, StageOutcome).         *)
RecordTellsWhy ==
  \A r \in Requests : At(r, "done") =>
    /\ Acceptable(call[r])
    /\ call[r].effect # "deny" => call[r].failed = {}
    /\ call[r].reason \in Outages => call[r].failed # {}
    /\ call[r].failed \ {"risk"} # {} => call[r].reason \in Outages

(* "Explicitly re-approve a quarantined tool at its new, reviewed digest": a tool
   resolves only at a digest that is approved.                                      *)
ResolvedIsApproved ==
  [][\A r \in Requests : At(r, "quarantine") /\ call'[r].pc = "mandate" =>
       call[r].bundle = tools.approved]_vars

(* "Names an AttestationProvider must resolve to True before the action may
   proceed": whatever path resolved the definition.                                 *)
AttestedBeforeAdmitted ==
  \A r \in Requests : Admitted(r) /\ call[r].definition.attestation => attested[r]

(* "every allow names the bundle digest that authorised it".                        *)
AllowNamesItsBundle ==
  \A r \in Requests :
    (Admitted(r) /\ pdp = "allowlist") => call[r].action.action \in call[r].cited

=============================================================================
