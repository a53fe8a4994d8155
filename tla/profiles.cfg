CONSTANTS
  Mice <- MCMice
  Documents <- MCDocuments
  LastPage = 6
  Junk <- MCJunk
  MaxRuns = 4
SPECIFICATION Spec
INVARIANTS ReadsBack DumpRestores NamedProfilesStored
CHECK_DEADLOCK FALSE
