SPECIFICATION Spec
CONSTANTS
  Callers = {c1, c2, c3}
  Threshold = 2
  Cooldown = 1
  CallBudget = 3
PROPERTY ProbeDecides
