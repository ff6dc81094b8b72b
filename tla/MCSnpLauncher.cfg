CONSTANTS
  PAGE <- MCPAGE
  FOUR_GB <- MCFOUR_GB
  EmptyFile <- MCEmptyFile
  EmptyLine <- MCEmptyLine
  trim <- MCtrim
  Machines <- MCMachines
  Image <- MCImage
  Footer <- MCFooter
  Inputs <- MCInputs
  Owners <- MCOwners
  Orders <- MCOrders
  Failures = {0, 23, 153}
SPECIFICATION Spec
INVARIANTS TypeOK LauncherInStep DigestsAgree DigestBinds SevDigestsBind VmsaAgrees IdBlockBinds RightBlockRuns
CHECK_DEADLOCK FALSE
