SPECIFICATION Spec
CONSTANTS
  i1 = i1
  i2 = i2
  c1 = c1
  c2 = c2
  c3 = c3
  NoKey = NoKey
  Home <- HomeOf
  Instances = {i1, i2}
  Callers = {c1, c3}
  Keys = {k1}
  Policies = {"degrade", "fail_closed"}
  Rate = 1
  MaxKeys = 1
  MaxCrashes = 1
  MaxLate = 1
  Threshold = 2
  Cooldown = 1
SYMMETRY Symmetry
INVARIANTS
  LimiterInv
  AdmissionBounded
  ChargedOnce
  AllowsPaid
  HealthyRedisAnswers
