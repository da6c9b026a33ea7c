SPECIFICATION Spec
CONSTANTS
  Threads = {t1}
  Net = net
  IdSpace = 2
  MaxRequests = 3
  Calls <- MCFetchCalls
  Statuses = {"SUCCESS"}
  Copies = 0
  Callback = "nullsafe"
  Asserts = TRUE
INVARIANTS
  AssertionHolds
CHECK_DEADLOCK FALSE
