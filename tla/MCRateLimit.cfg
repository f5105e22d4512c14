SPECIFICATION Spec
CONSTANTS
  t1 = t1
  u1 = u1
  x1 = x1
  NoName = NoName
  Caller = {c1, c2}
  Message <- ToolAndUser
  Configs <- TwoConfigs
  Window = 2
  CleanupInterval = 1
  MaxLag = 1
  MaxTime = 4
  MaxFailed = 1
  NoTime = NoTime
  NoMessage = NoMessage
SYMMETRY CallerSymmetry
INVARIANT TokenBucket AdmittedPaid
