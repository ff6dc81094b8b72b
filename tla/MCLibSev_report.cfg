CONSTANTS
  Threads = {t1}
  Fds = {f1}
  VMs = {v1}
  Data = {d1}
  NoVM = NoVM
  NoThread = NoThread
  Failures = {23}
  ReuseFds = FALSE
  MaxCalls = 6
SPECIFICATION Spec
INVARIANT ReportReturnsZero
CHECK_DEADLOCK FALSE
