SPECIFICATION Spec
CONSTANTS
  Requests = {r1}
PROPERTY CloseAfterDrain
