SPECIFICATION Spec
CONSTANTS
  Threads = {t1}
  Net = net
  IdSpace = 2
  MaxRequests = 2
  Calls <- MCMixedCalls
  Statuses = {"SUCCESS"}
  Copies = 0
  Callback = "capi"
  Asserts = TRUE
INVARIANTS
  FetchReturnsResponse
CHECK_DEADLOCK FALSE
