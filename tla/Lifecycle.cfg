SPECIFICATION LifeFairSpec
CONSTANTS
    s1 = s1
    s2 = s2
    s3 = s3
    c1 = c1
    Nothing = Nothing
    Sessions <- MCSessions
    Calls <- MCCalls
    MaxStarts = 1
    MaxPosted = 1
    MaxRefs = 1
    LateEnd = FALSE
INVARIANTS
    LifeInv
    OwnSession
    NothingHeld
PROPERTIES
    StartsAndStopsEnd
CHECK_DEADLOCK FALSE
