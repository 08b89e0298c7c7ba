SPECIFICATION Spec
CONSTANTS
    tsk <- TwoTasks
    SkipTasks = {}
    default_sch <- DefaultLockedOne
    RANGE = 2
    Written <- WrittenMixed
    AppStates <- ActiveOrRebooting
    Charges = {50}
    EpochOffset = 7
    MaxUptime = 4
    MaxStep = 1
    MaxWrites = 1
    MaxReboots = 0
    WritesDuringLoad = FALSE
    StoreFaults = FALSE
INVARIANTS
    ExecutesItsSchedule
    EventsInOrder
    
PROPERTIES
    AfterRespected
