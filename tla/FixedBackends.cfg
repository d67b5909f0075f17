SPECIFICATION BothSpec
CONSTANTS
  Rate = 2
  Window = 3
  Anchor = 0
  ZeroTime = 6
  Milli = 2
  MaxTime = 11
  MaxSteps = 2
INVARIANTS
  RedisInv
  TwiceRate
  RetryExact
  RemainingExact
  SameAnswers
PROPERTY ImplementsQuota
