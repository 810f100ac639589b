SPECIFICATION SetupSpec
CONSTANTS
  d1 = d1
  d2 = d2
  p1 = p1
  p2 = p2
  Disks = {d1, d2}
  AsyncDisks = {d2}
  OriginDisk = None
  Slots = 4
  Owners = {o1, o2}
  Procs = {p1, p2}
  Machines <- MCMachines
  MaxEpoch = 4
  MaxOpens = 4
  None = None
INVARIANTS ClaimIsExclusive CustodyKept
PROPERTIES ClaimAsReviewed PoisonedIsKept
SYMMETRY Symmetry
CHECK_DEADLOCK FALSE
