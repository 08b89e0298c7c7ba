\* Two threads log and flush while the interface changes size and the device
\* reboots once.
SPECIFICATION Spec
CONSTANTS
  Loggers = {t1, t2}
  Flushers = {t1, t2}
  Iface = iface
  NoThread = none
  Requests <- MixedRequests
  MaxSize = 40
  PayloadSizes = {0, 24, 40}
  MaxCalls = 3
  MaxChanges = 2
  MaxReboots = 1
SYMMETRY ThreadSymmetry
INVARIANTS RelogBehindReader OversizeOnlyInWindow  RelogProgress LoggedOnce 
CHECK_DEADLOCK FALSE
