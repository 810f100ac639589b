CONSTANTS
  Procs = {c0, c1, c2}
  Modulus = 4
  ForgeTokens = TRUE
  NoToken = NoToken
SPECIFICATION Spec
PROPERTY BadReleaseFails
CHECK_DEADLOCK FALSE
