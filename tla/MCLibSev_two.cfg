CONSTANTS
  Threads = {t1, t2}
  Fds = {f1, f2}
  VMs = {v1, v2}
  Data = {d1}
  NoVM = NoVM
  NoThread = NoThread
  Failures = {}
  ReuseFds = TRUE
  MaxCalls = 5
SPECIFICATION OrderedSpec
INVARIANTS NoDeadlock UniqueLauncher
PROPERTY CallsReturn
CHECK_DEADLOCK FALSE
