CONSTANTS
  f1 = f1  f2 = f2  v0 = v0  v1 = v1
  Pages = {1, 2}
  Fields = {f1, f2}
  Values = {v0, v1}
  Origin = v0
  Zero = Zero
  WriteCrc = TRUE
  MaxProcesses = 2
  Damaged = Damaged
  None = None
SPECIFICATION Spec
INVARIANTS CacheIsStored OthersKept
SYMMETRY MCSymmetry
CHECK_DEADLOCK FALSE
