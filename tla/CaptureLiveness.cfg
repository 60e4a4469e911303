SPECIFICATION FairSpec
CONSTANTS
    s1 = s1
    s2 = s2
    s3 = s3
    a1 = a1
    a2 = a2
    None = None
    Starts <- MCStarts
    Aborts <- MCTwoAborts
    FramesOf <- MCFramesOf
    Mini = FALSE
    NoDarks = FALSE
    Serial = TRUE
    Patient = FALSE
    Faults = {"refused", "timeout"}
    MaxShots = 2
    MaxNotes = 1
PROPERTIES
    NothingHangs
VIEW View
CHECK_DEADLOCK FALSE
