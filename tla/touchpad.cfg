CONSTANTS
  receiver = receiver
  mouse = mouse
  keyboard = keyboard
  wireless = wireless
  corded = corded
  Receivers = {receiver}
  Mice = {mouse}
  Others = {keyboard}
  Pads = {wireless, corded}
  PathOf <- MCPathOf
  Budgets <- MCBudgets
  IdRange = 2
SPECIFICATION FairSpec
INVARIANTS  SettledPadsWork TouchesShown QuietRunIsDefined
PROPERTIES InterruptEnds
CHECK_DEADLOCK FALSE
