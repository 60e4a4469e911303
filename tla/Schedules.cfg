SPECIFICATION Spec
CONSTANTS
    n1 = n1
    n2 = n2
    None = None
    Day = 3
    Change = 3
    Shift = 1
    Dates <- MCDates
    Names <- MCNames
    Tasks <- MCTasks
    OneTasks <- MCOneTasks
    AppTasks <- MCAppTasks
    MaxPlans = 2
    MaxClock = 2
INVARIANTS
    PlacedInOrder
    TimesComeBack
SYMMETRY Symmetry
CHECK_DEADLOCK FALSE
