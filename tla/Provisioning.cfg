SPECIFICATION FairSpec
CONSTANTS
    j1 = j1
    j2 = j2
    w1 = w1
    n1 = n1
    n2 = n2
    Ap = Ap
    None = None
    Jobs <- MCJobs
    Scans <- MCScans
    Nets <- MCNets
    Saved <- MCSaved
    MaxGui = 1
    MaxWire = 1
INVARIANTS
    Inv
PROPERTIES
    OwnNetwork
    JobsEnd
CHECK_DEADLOCK FALSE
