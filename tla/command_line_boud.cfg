SPECIFICATION Spec
CONSTANTS
  MaxItems = 3
  Lines <- DocumentedFileLines
  Dashed <- MCDashed
  Number <- MCNumber
  Files <- MCFiles
  Orders = {"left", "right"}
INVARIANTS
  DocumentedRateUsed
CHECK_DEADLOCK FALSE
