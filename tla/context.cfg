SPECIFICATION CtxFairSpec
CONSTANTS
  Devices = {d1}
  Names = {"on", "off"}
  Layouts <- MCLayouts
  MaxGen = 2
  MaxRequests = 1
  Programs = {"c_api", "app"}
  MaxPeers = 1
INVARIANTS
  CtxTypeOK
  RightAction
  NotFoundIsNotThere
  AnnouncedOnceKnown
  UsedIsThere
PROPERTIES
  KnownIsReported
  PeerIsDiscovered
CHECK_DEADLOCK FALSE
