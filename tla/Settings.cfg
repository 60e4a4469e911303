SPECIFICATION FairSpec
CONSTANTS
    m1 = m1
    f1 = f1
    f2 = f2
    i1 = i1
    i2 = i2
    Nil = Nil
    NumCaptures = 1
    Moves <- MCMoves
    Filters <- MCFilters
    Default = f1
    Wanted <- MCWanted
    FilterIds <- MCFilterIds
    Obeyed <- MCObeyed
    Devices <- MCDevices
    MaxRestarts = 1
INVARIANTS
    Inv
    SettingsReached
PROPERTIES
    RequestsReturn
CHECK_DEADLOCK FALSE
