SPECIFICATION BothSpec
CONSTANTS
  Rate = 2
  Window = 3
  Milli = 2
  MaxTime = 10
  MaxSteps = 2
INVARIANTS
  LogInv
  RateInAnyWindow
  SameAnswers
  MemoryTimesExact
PROPERTIES
  ImplementsQuota
  InflationBounded
