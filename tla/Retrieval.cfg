SPECIFICATION FairSpec
CONSTANTS
    None = None
    Waiting = Waiting
    Start = 4
    Tolerance = 1
    Deadline = 6
    MaxDirs = 2
    MaxFiles = 2
    OldFiles <- MCOldFiles
INVARIANTS
    NothingMissed
PROPERTIES
    Delivers
    RetrievalEnds
CHECK_DEADLOCK FALSE
