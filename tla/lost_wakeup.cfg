CONSTANTS
  receiver = receiver
  mouse = mouse
  keyboard = keyboard
  wireless = wireless
  corded = corded
  Receivers = {receiver}
  Mice = {mouse}
  Others = {keyboard}
  Pads = {wireless, corded}
  PathOf <- MCPathOf
  Budgets <- MCSignalOnly
  IdRange = 16
SPECIFICATION FairSpec
PROPERTIES InterruptEndsPop
CHECK_DEADLOCK FALSE
