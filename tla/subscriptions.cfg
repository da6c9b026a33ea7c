SPECIFICATION FairSpec
CONSTANTS
  Threads = {t1, t2}
  Net = net
  MaxSubscriptions = 2
  Copies = 1
INVARIANTS
  TypeOK
  IdsDistinct
  ValuesAreOwn
  OneRoundAtATime
PROPERTIES
  RenewedKeepsRunning
CHECK_DEADLOCK FALSE
