SPECIFICATION Spec
CONSTANTS
  ann = ann
  t1 = t1
  t2 = t2
  key1 = key1
  junk = junk
  hub = hub
  other = other
  pods = pods
  logs = logs
  NoName = NoName
  NoTime = NoTime
  Token <- MCTokens
  KeyOwner <- MCKeyOwner
  Issuer = hub
  Audiences = {hub}
  ClockSkew = 1
  Server = {"k8s", "git"}
  LocalOnly = {"git"}
  AlwaysAllow <- MCAlwaysAllow
  StaticTools <- MCStaticTools
  Client = {c1, c2}
  Call = {k1, k2}
  Requests <- MCRequests
  Messages <- MCMessages
  Routes <- MCRoutes
  Pol <- MCPol
  Configs <- MCConfigs
  QuotaLimit = 1
  Day = 1
  DefaultLimit = 2
  MaxLimit = 2
  BreakdownLimit = 1
  NoClient = NoClient
  NoMessage = NoMessage
  MaxTime = 2
  MaxSessions = 2
  MaxFailed = 1
SYMMETRY GatewaySymmetry
CHECK_DEADLOCK FALSE
INVARIANT GaugesExact ReportsOwn Reconciled
PROPERTY WhoItSays
