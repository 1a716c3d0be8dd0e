SPECIFICATION Spec
CONSTANTS
  MaxNumber = 4
  MaxLength = 3
INVARIANTS
  ReadersAgree
  WritesKeepShape
CHECK_DEADLOCK FALSE
