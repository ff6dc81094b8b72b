CONSTANTS
  U32 = 65536
  Hosts <- MCHosts
  ReportData = {"zero", "nonce"}
  Vmpl = 2
  SigningKey = "vlek"
  PageSize = 110
SPECIFICATION Spec
INVARIANTS TypeOK CertsAreHosts AttestedIsGenuine AttestationWorks ReportIsAnswer
CHECK_DEADLOCK FALSE
