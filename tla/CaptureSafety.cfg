SPECIFICATION Spec
CONSTANTS
    s1 = s1
    s2 = s2
    s3 = s3
    a1 = a1
    a2 = a2
    None = None
    Starts <- MCStarts
    Aborts <- MCTwoAborts
    FramesOf <- MCFramesOf
    Mini = TRUE
    NoDarks = TRUE
    Serial = TRUE
    Patient = FALSE
    Faults = {"refused", "timeout", "closed", "decode", "disconnect"}
    MaxShots = 2
    MaxNotes = 2
INVARIANTS
    Inv
    ReadyIsCurrent
    CountsAreOwn
    IdleMeansStopped
PROPERTIES
    AcceptedAtRest
VIEW View
CHECK_DEADLOCK FALSE
