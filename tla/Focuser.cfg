SPECIFICATION FairSpec
CONSTANTS
    o1 = o1
    None = None
    NumMoves = 2
    Others <- MCOthers
    MaxStep = 3
    Near = 1
    Tolerance = 1
    MaxNudges = 1
    MaxNotes = 2
    Mini = FALSE
INVARIANTS
    Inv
PROPERTIES
    MoveArrives
    RequestsReturn
CHECK_DEADLOCK FALSE
