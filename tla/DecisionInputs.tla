-------------------------- MODULE DecisionInputs --------------------------
(***************************************************************************)
(* The inputs of the pure algorithms behind a decision and its evidence,   *)
(* built up the way their authors build them: an operator adds rules to a  *)
(* policy bundle one at a time, an engine collects risk factors and raises *)
(* their scores, a caller fills in the parameters of a governed action     *)
(* that an agent's mandate will be held against, a credential ages, a      *)
(* delegate delegates further, and a segment grows record by record.  Each *)
(* behaviour exercises one of the six.                                     *)
(***************************************************************************)
EXTENDS GovernanceRules, Identity, Merkle

CONSTANTS
  Names, Patterns,        \* action names, and glob patterns over the same letters
  ResourceNames, ResourcePatterns,
  Amounts,                \* monetary magnitudes a rule or an action may carry
  MaxRules,               \* rules in the bundle under construction
  FactorNames, Scores,    \* risk factors and the scores they may have
  Definitions, Mandates,  \* governed definitions, and mandates to hold them against
  Values,                 \* values a caller may give a parameter
  Tokens, MaxTime,        \* credentials, and how long they are presented
  HopTokens, MaxHops,     \* delegation tokens, and hops in a chain
  Leaves, MaxLeaves       \* record MACs, and records in a segment

\* RiskFactor.__post_init__, RiskScore.__post_init__.
WellFormedScore(s) == s \in 0 .. MaxRisk

\* What the domain types refuse to construct is never an input.
ASSUME InputsAreConstructible ==
  /\ \A d \in Definitions : WellFormedDefinition(d)
  /\ \A m \in Mandates : WellFormedMandate(m)
  /\ \A s \in Scores : WellFormedScore(s)

VARIABLES kind, rules, factors, consequence, definition, mandate, parameters,
          token, clock, hops, leaves

ruleVars == <<rules, factors, consequence, definition, mandate, parameters>>
inputVars == <<token, clock, hops, leaves>>
vars == <<kind, ruleVars, inputVars>>

Init ==
  /\ rules = << >>
  /\ factors = << >>
  /\ parameters = << >>
  /\ hops = << >>
  /\ leaves = << >>
  /\ clock = 0
  /\ kind \in {"policy", "risk", "parameters", "credential", "delegation", "segment"}
  /\ consequence \in IF kind = "risk" THEN Range(Severity) ELSE {0}
  /\ token \in IF kind = "credential" THEN Tokens ELSE {CHOOSE t \in Tokens : TRUE}
  /\ definition \in IF kind = "parameters" THEN Definitions ELSE {CHOOSE d \in Definitions : TRUE}
  /\ mandate \in IF kind = "parameters" THEN Mandates ELSE {CHOOSE m \in Mandates : TRUE}

\* PolicyRule.__post_init__ accepts every combination of the declared fields.  One
\* priority is enough: neither the conflict check nor what is asked of it reads it.
Rule ==
  [effect : {"allow", "deny", "approve"}, action : Patterns, resource : ResourcePatterns,
   consequence : {Unknown, 1}, monetary : Amounts \cup {Unknown}, priority : {1}]

AddRule(rule) ==
  /\ kind = "policy"
  /\ Len(rules) < MaxRules
  /\ rules' = Append(rules, rule)
  /\ UNCHANGED <<kind, factors, consequence, definition, mandate, parameters, inputVars>>

\* RiskInputs refuses a repeated factor name, so a name has one score; a new factor
\* is added, or the evidence behind a known one grows.
With(f, x, v) == [y \in DOMAIN f \cup {x} |-> IF y = x THEN v ELSE f[y]]

AddFactor(name, score) ==
  /\ kind = "risk"
  /\ name \in DOMAIN factors => score > factors[name]
  /\ factors' = With(factors, name, score)
  /\ UNCHANGED <<kind, rules, consequence, definition, mandate, parameters, inputVars>>

SetParameter(name, value) ==
  /\ kind = "parameters"
  /\ name \notin DOMAIN parameters
  /\ parameters' = With(parameters, name, value)
  /\ UNCHANGED <<kind, rules, factors, consequence, definition, mandate, inputVars>>

\* The same credential is presented again later.
TimePasses ==
  /\ kind = "credential"
  /\ clock < MaxTime
  /\ clock' = clock + 1
  /\ UNCHANGED <<kind, ruleVars, token, hops, leaves>>

\* The holder of the last hop delegates; what is not accepted is not extended.
Delegate(hop) ==
  /\ kind = "delegation"
  /\ Len(hops) < MaxHops
  /\ VerifyDelegationChain(hops) # Rejected
  /\ hops' = Append(hops, hop)
  /\ UNCHANGED <<kind, ruleVars, token, clock, leaves>>

AppendRecord(leaf) ==
  /\ kind = "segment"
  /\ Len(leaves) < MaxLeaves
  /\ leaves' = Append(leaves, leaf)
  /\ UNCHANGED <<kind, ruleVars, token, clock, hops>>

Complete == UNCHANGED vars

Next ==
  \/ \E rule \in Rule : AddRule(rule)
  \/ \E name \in FactorNames, score \in Scores : AddFactor(name, score)
  \/ \E name \in {"amount", "count", "note"}, value \in Values : SetParameter(name, value)
  \/ TimePasses
  \/ \E hop \in HopTokens : Delegate(hop)
  \/ \E leaf \in Leaves : AppendRecord(leaf)
  \/ Complete

Spec == Init /\ [][Next]_vars

-----------------------------------------------------------------------------
(* Properties.                                                             *)

Actions ==
  [action : Names, resource : ResourceNames, consequence : {0, 2},
   exposure : [blast : {0}, monetary : Amounts \cup {Unknown}, records : {Unknown}]]

(* detect_conflicts is sound: in a bundle for which it reports nothing, any two
   rules that match the same action have the same effect.  What the bundle decides
   then depends neither on the priorities of its rules nor on their order.         *)
UnreportedRulesAgree ==
  kind = "policy" /\ DetectConflicts(rules) = {} =>
    \A action \in Actions :
      Cardinality({r.effect : r \in {q \in Range(rules) : RuleMatches(q, action)}}) <= 1

(* The reference engine is monotonic and floored: one more factor, or a higher
   score for a known one, never lowers the score or its band, and no score lies
   below the floor of the action's consequence class (ReferenceRiskEngine._score,
   RiskScore.with_consequence_floor).                                              *)
RiskIsMonotone ==
  [][/\ Score(factors', consequence) >= Score(factors, consequence)
     /\ FromScore(Score(factors', consequence)) >= FromScore(Score(factors, consequence))
     /\ FromScore(Score(factors', consequence)) >= FloorLevel(consequence)]_factors

(* An amount nobody stated is never a small amount: when a mandate with a monetary
   ceiling permits the action that a definition derives from a caller's parameters,
   the caller did give the monetary field, as a number, within the ceiling; the
   same for the record count (ExposureRule.extract, Exposure.exceeds).             *)
PermittedAmountsAreKnown ==
  kind = "parameters" => \A resource \in ResourceNames :
    LET action == Derived(definition, resource, parameters)
        Known(field, types, ceiling) ==
          ceiling # Unknown =>
            /\ field \in DOMAIN parameters
            /\ parameters[field].type \in types
            /\ parameters[field].amount \in 0 .. ceiling
    IN  (/\ Representable(action.exposure)
         /\ ~SchemaViolated(definition, parameters)
         /\ Permits(mandate, action, 0)) =>
           /\ Known(definition.exposure.monetary, {"int", "float"}, mandate.exposure.monetary)
           /\ Known(definition.exposure.records, {"int"}, mandate.exposure.records)

(* A credential the service accepts is one the issuer signed for this service with
   the key its header names, inside its own lifetime although the verifier allows
   for skew; and what once stopped being accepted is never accepted again: the
   moments of acceptance are an interval (OidcIdentityVerifier.verify followed by
   VerifiedPrincipal.require_valid_at).                                            *)
AcceptedIsLive ==
  kind = "credential" /\ Accepted(token, clock) =>
    /\ token.kid \in DOMAIN Keys /\ token.signer = Keys[token.kid]
    /\ token.iss = Issuer /\ Audience \in token.aud
    /\ clock < token.exp
    /\ token.iat # Absent => token.iat <= clock
    /\ \A earlier \in 0 .. clock :
         Accepted(token, earlier) => \A t \in earlier .. clock : Accepted(token, t)

(* The leaf of an accepted chain speaks for the whole of it: what it may do is its own
   set, which every delegator before it held, and it is in force exactly while the
   leaf is and every hop has begun, so that no delegator lapses before the delegate
   (DelegationChain._require_attenuating against effective_capabilities, is_valid_at). *)
LeafSpeaksForChain ==
  LET chain == VerifyDelegationChain(hops)
  IN  chain \notin {Rejected, << >>} =>
        /\ EffectiveCapabilities(chain) = Last(chain).capabilities
        /\ \A hop \in Range(chain) : Last(chain).capabilities \subseteq hop.capabilities
        /\ \A t \in 0 .. MaxTime :
             ChainLive(chain, t) <=>
               t < Last(chain).expires /\ \A hop \in Range(chain) : hop.issued <= t

(* A sealed root commits to its records: two sequences of records have the same root
   only if they are the same; and the proof of a record verifies against the root
   for that record and for no other (merkle_root, build_inclusion_proof, verify).   *)
InclusionIsExact ==
  LET root == MerkleRoot(leaves)
      Segments == UNION {[1 .. n -> Leaves] : n \in 0 .. MaxLeaves}
  IN  kind = "segment" =>
      /\ \A other \in Segments : MerkleRoot(other) = root => other = leaves
      /\ \A seq \in DOMAIN leaves, leaf \in Leaves :
           LET proof == ProveInclusion(leaves, 1, seq)
           IN  /\ WellFormedProof(proof)
               /\ ProofVerifies(proof, leaf, root) <=> leaf = leaves[seq]

(* "Return whether ``leaf`` is at :attr:`index` in the tree with ``root``"
   (MerkleProof.verify): a proof that verifies says where the leaf is.              *)
ProofNamesItsPlace ==
  \A seq \in DOMAIN leaves, place \in 0 .. Len(leaves) - 1 :
    LET proof == [ProveInclusion(leaves, 1, seq) EXCEPT !.index = place]
    IN  WellFormedProof(proof) /\ ProofVerifies(proof, leaves[seq], MerkleRoot(leaves)) =>
          leaves[place + 1] = leaves[seq]

(* "Seconds of allowance for clock skew between the issuer and this process": a
   credential that is refused for its age alone is older than its lifetime and the
   allowance together.                                                             *)
SkewIsAllowed ==
  kind = "credential" /\ Verify(token, clock) # Rejected => Accepted(token, clock)

============================================================================
