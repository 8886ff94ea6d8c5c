SPECIFICATION Spec
CONSTANTS
  Names <- MCNames
  Patterns <- MCPatterns
  ResourceNames <- MCResourceNames
  ResourcePatterns <- MCResourcePatterns
  Amounts <- MCAmounts
  MaxRules = 2
  FactorNames <- MCFactorNames
  Scores <- MCScores
  Definitions <- MCDefinitions
  Mandates <- MCMandates
  Values <- MCValues
  Keys <- MCKeys
  Issuer = "issuer"
  Audience = "glassbox"
  Skew = 1
  Absent = Absent
  Rejected = Rejected
  Tokens <- MCTokens
  MaxTime = 6
  HopTokens <- MCHopTokens
  MaxHops = 3
  Leaves = {"r1", "r2"}
  MaxLeaves = 6
INVARIANT UnreportedRulesAgree
INVARIANT PermittedAmountsAreKnown
INVARIANT AcceptedIsLive
INVARIANT LeafSpeaksForChain
INVARIANT InclusionIsExact
PROPERTY RiskIsMonotone
