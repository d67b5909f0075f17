SPECIFICATION Spec
CONSTANTS
  Rate = 2
  Window = 3
  Anchor = 1
  MaxTime = 9
  MaxSteps = 1
INVARIANT TwiceRate
