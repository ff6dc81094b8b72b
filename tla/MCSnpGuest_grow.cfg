CONSTANTS
  U32 = 65536
  Hosts <- MCChanging
  ReportData = {"zero"}
  Vmpl = 0
  SigningKey = "vlek"
  PageSize = 110
SPECIFICATION Spec
INVARIANT CertsWhenLargeEnough
CHECK_DEADLOCK FALSE
