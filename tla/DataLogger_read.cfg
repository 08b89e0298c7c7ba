SPECIFICATION Spec
CONSTANTS
  EraseBlocks = 2
  EraseUnits = 2
  MaxWraps = 3
  ResetUnits = 1
  QueueLen = 1
  RamBlocks = 0
  MaxCallers = 1
  MaxFaults = 1
  MaxReboots = 1
  MaxReadLen = 5
  EraseHazards <- NoHazards
PROPERTIES
  ReadSound
