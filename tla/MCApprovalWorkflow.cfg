SPECIFICATION FairSpec
CONSTANTS
  c1 = c1
  c2 = c2
  c3 = c3
  x1 = x1
  m1 = m1
  r1 = r1
  r2 = r2
  Decisions = {d1}
  Calls = {c1, c2, c3}
  Expirers = {x1}
  Monitors = {m1}
  Replicas = {r1, r2}
  HomeOf <- MCHomeOf
  Actors = {a1, a2}
  Quorums = {2}
  OpsOf <- MCOpsOf
  MaxFaults = 1
  NoRow = NoRow
INVARIANTS
  StateMatchesHistory
  QuorumIsReal
  CreatesAgree
PROPERTY
  OverdueLeavesQueue
