SPECIFICATION FairSpec
CONSTANTS
  Callers = {c1, c2}
  Threshold = 2
  Cooldown = 2
  CallBudget = 3
INVARIANTS
  BreakerInv
  ClosedBelowThreshold
  HalfOpenHasProbe
PROPERTIES
  ProbesSpaced
  HalfOpenEnds
  Recovers
