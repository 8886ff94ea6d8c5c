-------------------------- MODULE GovernanceRules --------------------------
(***************************************************************************)
(* The decision algorithms of the domain layer, as pure operators: glob    *)
(* matching, exposure derivation and comparison, mandates, policy rules    *)
(* and their conflict check, the reference risk engine and the behavioural *)
(* baseline.  No state changes here; ControlPlane uses these operators     *)
(* from the stages of a decision, and DecisionInputs states what they      *)
(* promise over inputs that are built up step by step.                     *)
(*                                                                         *)
(* Names and glob patterns are sequences of tokens: a letter of Letters,   *)
(* and in patterns "*" or "?".  Character classes are left out.  All       *)
(* values belong to one tenant.                                            *)
(***************************************************************************)
EXTENDS Integers, Sequences, SequencesExt, FiniteSets

\* A magnitude that is not known (None): amounts themselves are never negative.
Unknown == -1

\* ConsequenceClass, BlastRadius and RiskLevel are compared by severity.
Severity == [advisory |-> 0, reversible |-> 1, compensable |-> 2, irreversible |-> 3]
BlastSeverity == [single |-> 0, group |-> 1, tenant |-> 2, global |-> 3]
RiskSeverity == [low |-> 0, medium |-> 1, high |-> 2, critical |-> 3]

-----------------------------------------------------------------------------
(* Glob matching.                                                          *)

RECURSIVE Matches(_, _)
\* fnmatch.fnmatchcase(name, pattern).
Matches(name, pattern) ==
  IF pattern = << >> THEN name = << >>
  ELSE IF Head(pattern) = "*"
       THEN \E n \in 0 .. Len(name) : Matches(SubSeq(name, n + 1, Len(name)), Tail(pattern))
       ELSE /\ name # << >>
            /\ Head(pattern) \in {"?", Head(name)}
            /\ Matches(Tail(name), Tail(pattern))

MatchesAny(patterns, name) == \E p \in patterns : Matches(name, p)

-----------------------------------------------------------------------------
(* Governed actions: a definition turns caller parameters into an action.  *)
(* A parameter value is a record [type, amount]; a string's amount is its  *)
(* length.                                                                 *)

Accepts(type, value) ==
  CASE type = "number"  -> value.type \in {"int", "float"}
    [] type = "integer" -> value.type = "int"
    [] type = "string"  -> value.type = "str"
    [] type = "boolean" -> value.type = "bool"

\* A field declaration is [name, type, required, max]; max is Unknown when unbounded.
FieldViolated(f, parameters) ==
  IF f.name \in DOMAIN parameters
  THEN LET value == parameters[f.name]
       IN  \/ ~Accepts(f.type, value)
           \/ f.max # Unknown /\ value.type = "str" /\ value.amount > f.max
  ELSE f.required

\* ActionDefinition.__post_init__ and ParameterField.__post_init__: one declaration per
\* parameter, and a length only for a string.
WellFormedDefinition(definition) ==
  /\ definition.consequence \in Range(Severity)
  /\ definition.exposure.blast \in Range(BlastSeverity)
  /\ \A f \in definition.schema : f.max # Unknown => f.type = "string" /\ f.max >= 0
  /\ \A f, g \in definition.schema : f.name = g.name => f = g

\* An empty schema validates nothing; any other one is an allow-list of keys.
SchemaViolated(definition, parameters) ==
  /\ definition.schema # {}
  /\ \/ DOMAIN parameters \ {f.name : f \in definition.schema} # {}
     \/ \E f \in definition.schema : FieldViolated(f, parameters)

\* Any value whose number can be read, whatever the field was declared to hold.
NumericFieldOrZero(parameters, field, types) ==
  IF field \in DOMAIN parameters /\ parameters[field].type \in types
  THEN parameters[field].amount ELSE 0

\* A missing field, or one of another type, is an unknown magnitude and not a small one.
NumericField(parameters, field, types) ==
  IF field \in DOMAIN parameters /\ parameters[field].type \in types
  THEN parameters[field].amount ELSE Unknown

Extract(rule, parameters) ==
  [blast |-> rule.blast,
   monetary |-> NumericField(parameters, rule.monetary, {"int", "float"}),
   records |-> NumericField(parameters, rule.records, {"int"})]

\* Exposure refuses to hold a negative magnitude: the call raises.
Representable(exposure) == exposure.monetary >= Unknown /\ exposure.records >= Unknown

Derived(definition, resource, parameters) ==
  [action |-> definition.action, resource |-> resource, consequence |-> definition.consequence,
   exposure |-> Extract(definition.exposure, parameters)]

MayDegrade(action) == action.consequence = Severity.advisory

ExceedsOn(magnitude, ceiling) ==
  ceiling # Unknown /\ (magnitude = Unknown \/ magnitude > ceiling)

Exceeds(exposure, ceiling) ==
  \/ exposure.blast > ceiling.blast
  \/ ExceedsOn(exposure.monetary, ceiling.monetary)
  \/ ExceedsOn(exposure.records, ceiling.records)

-----------------------------------------------------------------------------
(* Mandates: [actions, resources, scoped, consequence, exposure, from,     *)
(* until, revoked], the last two Unknown when absent.                      *)

RevokedAt(mandate, now) == mandate.revoked # Unknown /\ now >= mandate.revoked

\* Mandate.__post_init__, ActionResourceGrant.__post_init__.
WellFormedMandate(mandate) ==
  /\ mandate.consequence \in Range(Severity)
  /\ mandate.exposure.blast \in Range(BlastSeverity)
  /\ Representable(mandate.exposure)
  /\ mandate.until # Unknown => mandate.until > mandate.from
  /\ << >> \notin mandate.actions \cup mandate.resources
  /\ \A grant \in mandate.scoped : << >> \notin {grant[1], grant[2]}

ActiveAt(mandate, now) ==
  /\ ~RevokedAt(mandate, now)
  /\ now >= mandate.from
  /\ mandate.until = Unknown \/ now < mandate.until

Permits(mandate, action, now) ==
  /\ ActiveAt(mandate, now)
  /\ MatchesAny(mandate.actions, action.action)
  /\ MatchesAny(mandate.resources, action.resource)
  /\ mandate.scoped # {} =>
       \E grant \in mandate.scoped : /\ Matches(action.action, grant[1])
                                     /\ Matches(action.resource, grant[2])
  /\ action.consequence <= mandate.consequence
  /\ ~Exceeds(action.exposure, mandate.exposure)

-----------------------------------------------------------------------------
(* Policy: a rule is [effect, action, resource, consequence, monetary,     *)
(* priority], the two ceilings Unknown when absent; a bundle is a sequence *)
(* of rules.                                                               *)

RuleMatches(rule, action) ==
  /\ Matches(action.action, rule.action)
  /\ Matches(action.resource, rule.resource)
  /\ rule.consequence # Unknown => action.consequence <= rule.consequence
  /\ ~ExceedsOn(action.exposure.monetary, rule.monetary)

\* The bundle keeps its rules sorted by priority; the sort is stable.
Sorted(rules) ==
  LET order == SetToSortSeq(DOMAIN rules,
                 LAMBDA i, j : \/ rules[i].priority < rules[j].priority
                               \/ rules[i].priority = rules[j].priority /\ i < j)
  IN  [k \in DOMAIN rules |-> rules[order[k]]]

\* The first matching rule decides, and no match is a denial.
Decide(rules, action) ==
  LET sorted == Sorted(rules)
      first == SelectInSeq(sorted, LAMBDA rule : RuleMatches(rule, action))
  IN  IF first = 0 THEN "deny" ELSE sorted[first].effect

FixedPrefix(pattern) ==
  LET star == SelectInSeq(pattern, LAMBDA t : t = "*")
  IN  IF star = 0 THEN pattern ELSE SubSeq(pattern, 1, star - 1)

\* Only an equal prefix counts as an overlap.
PatternsEqual(p, q) == FixedPrefix(p) = FixedPrefix(q)

PatternsOverlap(p, q) ==
  IF ~Contains(p, "*") /\ ~Contains(q, "*")
  THEN p = q
  ELSE \/ IsPrefix(FixedPrefix(p), FixedPrefix(q))
       \/ IsPrefix(FixedPrefix(q), FixedPrefix(p))

DetectConflicts(rules) ==
  LET sorted == Sorted(rules)
  IN  {pair \in (DOMAIN sorted) \X (DOMAIN sorted) :
         /\ pair[1] < pair[2]
         /\ sorted[pair[1]].effect # sorted[pair[2]].effect
         /\ PatternsOverlap(sorted[pair[1]].action, sorted[pair[2]].action)
         /\ PatternsOverlap(sorted[pair[1]].resource, sorted[pair[2]].resource)}

-----------------------------------------------------------------------------
(* Risk: factors is a function from factor names to scores in 0 .. 100;    *)
(* levels are 0 (low) to 3 (critical).                                     *)

MaxRisk == 100
Escalation == 5
EscalationFloor == 25

\* RISK_BANDS: the band whose inclusive lower bound is the greatest not above the score.
LowerBound(level) == 25 * level
FromScore(score) == Max({level \in Range(RiskSeverity) : LowerBound(level) <= score})

\* CONSEQUENCE_FLOORS.
FloorLevel(consequence) == <<0, 0, 1, 2>>[consequence + 1]

WithConsequenceFloor(score, consequence) == Max({score, LowerBound(FloorLevel(consequence))})

\* A mean of the factors, as the engine's first version computed.
MeanScore(factors) ==
  LET names == DOMAIN factors
  IN  IF names = {} THEN 0
      ELSE MapThenSumSet(LAMBDA n : factors[n], names) \div Cardinality(names)

RawScore(factors) ==
  LET names == DOMAIN factors
      top == CHOOSE n \in names : \A other \in names : factors[other] <= factors[n]
      elevated == {n \in names \ {top} : factors[n] >= EscalationFloor}
  IN  IF names = {} THEN 0
      ELSE Min({MaxRisk, factors[top] + Cardinality(elevated) * Escalation})

Score(factors, consequence) == WithConsequenceFloor(RawScore(factors), consequence)

-----------------------------------------------------------------------------
(* Baselines: a distribution is a non-empty sequence of samples.           *)

SumOf(samples) == FoldLeft(LAMBDA total, x : total + x, 0, samples)
SumOfSquares(samples) == FoldLeft(LAMBDA total, x : total + x * x, 0, samples)

\* |z| > threshold for z = (x - mean) / stddev, multiplied out by the number of
\* samples: exact, and for a constant series true of every other value.
Anomalous(samples, x, threshold) ==
  LET n == Len(samples)
      spread == n * SumOfSquares(samples) - SumOf(samples) * SumOf(samples)
      distance == n * x - SumOf(samples)
  IN  distance * distance > threshold * threshold * spread

=============================================================================
