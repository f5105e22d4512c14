SPECIFICATION FairSpec
CONSTANTS
  Server = {"k8s"}
  Deployable = {"k8s"}
  Bound = "k8s"
  Tool = {"ping"}
  Resolve <- MCResolve
  Message <- CallsOnly
  Conn = {c1, c2}
  MaxMsg = 2
  MaxOpen = 1
  Capacity = 1
  IdleTimeoutOn = TRUE
  PoolMayInvalidate = FALSE
  NoServer = "none"
  NoTool = "none"
  NoConn = NoConn
  NoMsg = NoMsg
PROPERTY SessionEnds BrokenClosed
