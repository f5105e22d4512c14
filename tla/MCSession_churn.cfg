SPECIFICATION Spec
CONSTANTS
  Server = {"k8s"}
  Deployable = {"k8s"}
  Bound = "k8s"
  Tool = {"ping"}
  Resolve <- MCResolve
  Message <- CallsOnly
  Conn = {c1, c2}
  MaxMsg = 2
  MaxOpen = 2
  Capacity = 2
  IdleTimeoutOn = TRUE
  PoolMayInvalidate = FALSE
  NoServer = "none"
  NoTool = "none"
  NoConn = NoConn
  NoMsg = NoMsg
SYMMETRY ConnSymmetry
INVARIANT TypeOK Ownership CachedIsOpen AnswersHaveReader AtMostOneReply
          UsageSettled LeakOnlyLate
