SPECIFICATION Spec
CONSTANTS
  Requests = {r1, r2}
  Upstream = {200, 503}
INVARIANTS
  GatewayInv
  ObservationsMirrorCounts
  PolicyDecides
