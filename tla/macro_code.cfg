CONSTANTS
  Sources <- MCSources
  Base <- MCBase
  MaxPlayed = 9
SPECIFICATION Spec
INVARIANTS LengthExact PartsKept PlaysItsParts
CHECK_DEADLOCK FALSE
