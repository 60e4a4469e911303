SPECIFICATION FairSpec
CONSTANTS
    s1 = s1
    s2 = s2
    a1 = a1
    o1 = o1
    None = None
    Slews <- MCSlews
    Aborts <- MCAborts
    Others <- MCOthers
    Overlap = FALSE
    MaxWire = 2
INVARIANTS
    Inv
    
PROPERTIES
    
    SlewingEnds
CHECK_DEADLOCK FALSE
