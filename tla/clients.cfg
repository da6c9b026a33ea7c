SPECIFICATION FairSpec
CONSTANTS
  Hosts = {"h1", "h2", "h3"}
  Ports = {"p1", "p2"}
  UnixHosts = {"h3"}
  Tails = {"x", "y"}
  Platforms = {"unix", "windows"}
  HandleLimits = {1, 2}
  MaxConnections = 2
INVARIANTS
  TypeOK
  AnswersStayWithHost
  ConnectedClientKept
PROPERTIES
  SentIsReceived
  ConnectionsAccepted
CHECK_DEADLOCK FALSE
