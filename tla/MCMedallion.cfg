SPECIFICATION FairSpec
CONSTANTS
  d1 = d1
  d2 = d2
  m1 = m1
  m2 = m2
  Decisions = {d1, d2}
  Executed = {d1}
  Mergers = {m1, m2}
  BatchSize = 2
  MaxFaults = 1
INVARIANTS
  EventsAreAccountedFor
PROPERTY
  SilverConverges
