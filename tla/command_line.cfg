SPECIFICATION FairSpec
CONSTANTS
  MaxItems = 3
  Lines <- MCLines
  Dashed <- MCDashed
  Number <- MCNumber
  Files <- MCFiles
  Orders = {"left", "right"}
INVARIANTS
  TypeOK
  ParsedAsTyped
  InterfacesAsWritten
PROPERTIES
  Starts
CHECK_DEADLOCK FALSE
