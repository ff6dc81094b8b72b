CONSTANTS
  Data = {d1, d2}
  Failures = {0, 23, 153}
  VMs = {v1}
  MaxContent = 3
  Admins = {a1, a2}
  KeyNames <- MCKeyNames
  Tcbs = {0, 1, 2}
  Masks = {0, 1, 2}
  Paths = 2
  Chains <- MCChains
  MaxCreates = 2
SPECIFICATION PlatformSpec
INVARIANTS
  TypeOK RightOrder SecretsAfterMeasurement ReportsAgree
  HostTypeOK ExportedVerifies OwnerInChain
  UntouchedIsRead FindsWhatStood TornIsCaught
SYMMETRY Symmetry
CHECK_DEADLOCK FALSE
