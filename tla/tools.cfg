CONSTANTS
    r1 = r1
    r2 = r2
    Runs <- MCRuns
    Described <- MCDescribed
    Addresses <- MCAddresses
    Slots = 2
    Lines = 2
    Situations <- MCSituations
SPECIFICATION FairSpec
INVARIANTS OneAfterTheOther OneSignalIsSafe ListsThemAll ButtonShown
PROPERTY RunsEnd
CHECK_DEADLOCK FALSE
