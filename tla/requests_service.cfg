SPECIFICATION FairSpec
CONSTANTS
  Threads = {t1, t2}
  Net = net
  IdSpace = 2
  MaxRequests = 2
  Calls <- MCAllCalls
  Statuses = {"SUCCESS", "TIMEOUT"}
  Copies = 1
  Callback = "capi"
  Asserts = FALSE
PROPERTIES
  ImplementsService
  CallsReturn
CHECK_DEADLOCK FALSE
