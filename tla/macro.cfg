CONSTANTS
  PageSize = 14
  PageCount = 4
  Align = 2
  JumpLength = 3
  CRCLength = 2
  MaxItems = 4
  Programs <- MCPrograms
  Starts <- MCStarts
  Wild = Wild
SPECIFICATION Spec
INVARIANTS CrcKept ReadsBack ParseBounded SimplifySafe
CHECK_DEADLOCK FALSE
