CONSTANTS
  Sources <- MCSources
  Base <- MCBase
  MaxPlayed = 9
SPECIFICATION Spec
INVARIANT PartsMayBeEmpty
CHECK_DEADLOCK FALSE
