SPECIFICATION BothSpec
CONSTANTS
  Burst = 2
  Rate = 3
  Window = 7
  Epsilon = 1
  Milli = 2
  MaxTime = 11
  MaxSteps = 1
  Horizon = 8
INVARIANTS
  BucketInv
  Conforms
  RetryExact
  SameAnswers
PROPERTY ImplementsQuota
