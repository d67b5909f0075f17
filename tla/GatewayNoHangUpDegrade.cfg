SPECIFICATION Spec
CONSTANTS
  Requests = {r1}
  Upstream = {200, 503}
INVARIANT NoHangUpDegrade
