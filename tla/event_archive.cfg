CONSTANTS
    Run = {1, 2}
    Doc = {1, 2}
    MaxEvents = 3
    MaxFaults = 1
SPECIFICATION FairSpec
INVARIANTS TypeOK OneCopy ArchiveComplete StillAnswered
PROPERTIES ImplementsLog TeardownEnds
CHECK_DEADLOCK FALSE
