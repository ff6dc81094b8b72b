CONSTANTS
  Threads = {t1, t2}
  Fds = {f1}
  VMs = {v1}
  Data = {d1}
  NoVM = NoVM
  NoThread = NoThread
  Failures = {153}
  ReuseFds = FALSE
  MaxCalls = 7
SPECIFICATION Spec
INVARIANTS TypeOK UniqueLauncher IoctlInOrder SecretAfterDelivery RetTruthful OrphanReported
PROPERTY ImplementsLauncher
SYMMETRY Symmetry
CHECK_DEADLOCK FALSE
