SPECIFICATION Spec
CONSTANTS
  EraseBlocks = 2
  EraseUnits = 3
  MaxWraps = 3
  ResetUnits = 2
  QueueLen = 2
  RamBlocks = 1
  MaxCallers = 2
  MaxFaults = 2
  MaxReboots = 2
  MaxReadLen = 0
  EraseHazards <- NoHazards
INVARIANTS
  WindowPresent
  CurrentIsNewest
  OverrunBounded
PROPERTIES
  ProgramsErasedOnly
  BootEarliestTight
  FlashIsLog
