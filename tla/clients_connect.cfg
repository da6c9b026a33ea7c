SPECIFICATION Spec
CONSTANTS
  Hosts = {"h1", "h2"}
  Ports = {"p1"}
  UnixHosts = {"h2"}
  Tails = {"x"}
  Platforms = {"unix", "windows"}
  HandleLimits = {1, 2}
  MaxConnections = 1
INVARIANTS
  ConstructedIsConnected
CHECK_DEADLOCK FALSE
