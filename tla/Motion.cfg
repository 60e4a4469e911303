SPECIFICATION MotionFairSpec
CONSTANTS
    NumReqs = 3
    Axes <- MCAxes
    Rates <- MCRates
INVARIANTS
    MotionInv
    StoppedStays
PROPERTIES
    RequestsReturn
CHECK_DEADLOCK FALSE
