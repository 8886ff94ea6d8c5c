SPECIFICATION Spec
CONSTANTS
  c1 = c1
  c2 = c2
  c3 = c3
  c4 = c4
  k1 = k1
  k2 = k2
  Backends = {"redis", "memory"}
  Calls = {c1, c2, c3, c4}
  Keys = {k1, k2}
  KeyOf <- MCKeyOf
  IdOf <- MCMintedIds
  CostOf <- MCCostOf
  Window = 2
  Cooldown = 1
  Padding = 1
  Ceiling = 1
  MaxSubjects = 1
  MaxTime = 3
  MaxFaults = 1
  None = None
INVARIANTS
  CeilingIsKept
PROPERTY
  CooldownIsKept
SYMMETRY MCSymmetry
