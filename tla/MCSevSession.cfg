CONSTANTS
  Sessions = {s1}
  Guests = {g1, g2}
  Platforms <- MCPlatforms
  Policies = {"debug", "nodebug"}
  Bytes = {a, b}
  Secrets = {x1}
  Policy <- MCPolicy
  Build <- MCBuild
  Pdh <- MCPdh
  Chains <- MCChains
  MaxLen = 2
SPECIFICATION Spec
INVARIANTS TypeOK SecretOnlyInVerified RefusedRightly KeysStayOnChip GenuineChainsStart
SYMMETRY Symmetry
CHECK_DEADLOCK FALSE
