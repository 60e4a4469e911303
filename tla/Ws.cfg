SPECIFICATION FairSpec
CONSTANTS
    r1 = r1
    r2 = r2
    r3 = r3
    ask = ask
    get = get
    note = note
    None = None
    Reqs <- MCTwoReqs
    Keys <- MCKeys
    KeyOf <- MCKeyOf
    AltsOf <- MCAltsOf
    Cancellable <- MCCancellable
    MaxConns = 2
INVARIANTS
    CorrelatedResult
    NoLeakedEntry
    LiveConnectionHasReader
PROPERTIES
    FutureCompletesOnce
    SentCallReturns
CHECK_DEADLOCK FALSE
