SPECIFICATION Spec
CONSTANTS
    tsk <- TwoTasks
    SkipTasks = {}
    default_sch <- DefaultInvalid
    RANGE = 3
    Written <- WrittenActive
    AppStates <- ActiveOrNot
    Charges = {50}
    EpochOffset = 7
    MaxUptime = 4
    MaxStep = 2
    MaxWrites = 0
    MaxReboots = 1
    WritesDuringLoad = FALSE
    StoreFaults = TRUE
INVARIANTS
    NoOldSchedules

    
