CONSTANTS
  p1 = p1  p2 = p2  d1 = d1
  Pages = {p1, p2}
  Data = {d1}
  Blank = Blank
  None = None
  PageSize = 6
  LongParamLength = 4
  HeaderLength = 2
  MaxSessions = 5
SPECIFICATION FairSpec
INVARIANTS ReadsWhatIsStored
PROPERTIES ImplementsPageStore CallsEnd
CHECK_DEADLOCK FALSE
