SPECIFICATION FairSpec
CONSTANTS
    tsk <- TwoTasks
    SkipTasks = {}
    default_sch <- DefaultOne
    RANGE = 1
    Written <- WrittenAny
    AppStates <- NoStates
    Charges = {50}
    EpochOffset = 7
    MaxUptime = 2
    MaxStep = 1
    MaxWrites = 2
    MaxReboots = 0
    WritesDuringLoad = TRUE
    StoreFaults = FALSE
INVARIANTS
    StatesEvalAsDocumented
    LockoutOnTheLine
PROPERTIES
    ReloadHappens
