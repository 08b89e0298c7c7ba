SPECIFICATION Spec
CONSTANTS
  EraseBlocks = 2
  EraseUnits = 2
  MaxWraps = 2
  ResetUnits = 1
  QueueLen = 1
  RamBlocks = 0
  MaxCallers = 1
  MaxFaults = 0
  MaxReboots = 1
  MaxReadLen = 0
  EraseHazards <- Interrupted
PROPERTIES
  EmptyMeansErased
