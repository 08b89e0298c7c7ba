SPECIFICATION Spec
CONSTANTS
    Keys = {k1, k2}
    Values = {v1, v2}
    None = None
    Threads = {t1}
    MaxOps = 4
    MaxReboots = 2
INVARIANTS
    
    
    OwnValuesOnly
\* the calls and restarts run out
CHECK_DEADLOCK FALSE
