SPECIFICATION Spec
CONSTANTS
  Threads = {t1, t2}
  Net = net
  IdSpace = 2
  MaxRequests = 3
  Calls <- MCCalls
  Statuses = {"SUCCESS", "TIMEOUT"}
  Copies = 0
  Callback = "nullsafe"
  Asserts = TRUE
SYMMETRY MCSymmetry
INVARIANTS
  TypeOK
  CallbackGetsOwnAnswer
  AssertionNeedsReuseOrCopy
  ReportsBounded
  AnswerIsOwn
  AnsweredEntryErased
  StaleNodeNeedsCallbackOrReuse
  CallInCallbackTimesOut
PROPERTIES
  PendingEntryKept
CHECK_DEADLOCK FALSE
