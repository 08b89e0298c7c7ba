SPECIFICATION FairSpec
CONSTANTS
  EraseBlocks = 1
  EraseUnits = 4
  MaxWraps = 2
  ResetUnits = 1
  QueueLen = 1
  RamBlocks = 0
  MaxCallers = 1
  MaxFaults = 1
  MaxReboots = 1
  MaxReadLen = 0
  EraseHazards <- AnyHazard
PROPERTIES
  CommitThreadReturns
  BootFinishes
