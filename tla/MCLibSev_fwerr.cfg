CONSTANTS
  Threads = {t1}
  Fds = {f1}
  VMs = {v1}
  Data = {d1}
  NoVM = NoVM
  NoThread = NoThread
  Failures = {23}
  ReuseFds = FALSE
  MaxCalls = 2
SPECIFICATION Spec
INVARIANT FwErrIsFirmwareCode
CHECK_DEADLOCK FALSE
