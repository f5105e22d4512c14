SPECIFICATION FairSpec
CONSTANTS
  Server = {"k8s", "git"}
  LocalOnly = {"git"}
  ServerName = {"k8s", "git", "unknown"}
  AlwaysAllow <- MCAlwaysAllow
  StaticTools <- MCStaticTools
  Tool <- MCTools
  Policies <- MCPolicies
  MaxUnrelated = 2
INVARIANT AnswerIsResult Handshake OnlyAllowed
PROPERTY CallEnds
