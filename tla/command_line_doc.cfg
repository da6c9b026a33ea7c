SPECIFICATION Spec
CONSTANTS
  MaxItems = 3
  Lines <- DocumentedLines
  Dashed <- MCDashed
  Number <- MCNumber
  Files <- MCFiles
  Orders = {"left", "right"}
INVARIANTS
  DocumentedLineRead
CHECK_DEADLOCK FALSE
