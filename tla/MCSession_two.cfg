SPECIFICATION Spec
CONSTANTS
  Server = {"k8s", "git", "local"}
  Deployable = {"k8s", "git"}
  Bound = "k8s"
  Tool = {"exec", "edit"}
  Resolve <- MCResolve
  Message <- TwoServerMessages
  Conn = {c1, c2}
  MaxMsg = 2
  MaxOpen = 1
  Capacity = 2
  IdleTimeoutOn = TRUE
  PoolMayInvalidate = TRUE
  NoServer = "none"
  NoTool = "none"
  NoConn = NoConn
  NoMsg = NoMsg
SYMMETRY ConnSymmetry
INVARIANT NoneForgotten Delivery
PROPERTY NotificationOrder
