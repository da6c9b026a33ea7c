SPECIFICATION FairSpec
CONSTANTS
  Net = net
  Apps = {a1}
  HeaderSize = 2
  Sizes = {1, 3}
  GarbageSizes = {0, 2}
  Capacity = 2
  MaxPackets = 2
  MaxConnections = 2
INVARIANTS
  TypeOK
  DeliveredIntact
  ReceiverInStep
PROPERTIES
  EmptyTakesNothing
  SendsReturn
  PacketsArrive
  ImplementsChannel
CHECK_DEADLOCK FALSE
