CONSTANTS
  Threads = {t1}
  Fds = {f1}
  VMs = {v1, v2}
  Data = {d1}
  NoVM = NoVM
  NoThread = NoThread
  Failures = {23}
  ReuseFds = TRUE
  MaxCalls = 4
SPECIFICATION Spec
INVARIANT RetTruthful
CHECK_DEADLOCK FALSE
