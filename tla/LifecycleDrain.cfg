SPECIFICATION ProcessSpec
CONSTANTS
  Requests = {r1, r2}
  Second = 1
  Unescape <- MCUnescape
  Fingerprint <- MCFingerprint
  Documents <- MCDocuments
  Paths <- MCPaths
  Clients <- MCClients
INVARIANTS
  LifecycleInv
  DrainKeepsClient
PROPERTIES
  SignalEnds
  NothingLeftToFail
  RoutesLongestPrefix
  ResolvedWithinRoute
  QuotasSeparate
