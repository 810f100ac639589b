CONSTANTS
  Procs = {c0, c1, c2}
  Modulus = 4
  ForgeTokens = FALSE
  NoToken = NoToken
SPECIFICATION FairSpec
INVARIANT MutualExclusion TicketsContiguous
PROPERTY BadReleaseFails ImplementsFifoLock IssuedEventuallyHolds
CHECK_DEADLOCK FALSE
