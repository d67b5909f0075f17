SPECIFICATION FairSpec
CONSTANTS
  i1 = i1
  i2 = i2
  c1 = c1
  c2 = c2
  c3 = c3
  NoKey = NoKey
  Home <- HomeOf
  Instances = {i1}
  Callers = {c1, c2}
  Keys = {k1}
  Policies = {"degrade"}
  Rate = 1
  MaxKeys = 1
  MaxCrashes = 0
  MaxLate = 1
  Threshold = 1
  Cooldown = 1
INVARIANT OneHot
PROPERTY BackendHeals
