SPECIFICATION Spec
CONSTANTS
  Threads = {t1, t2, t3}
  Objects <- MCObjects
  Kind <- MCKind
  MaxCount = 2
  MaxRecursion <- MCRecursion
  Settings <- MCSettings
  None = None
INVARIANTS NoMissedWake BlocksMatchWaits LedgerBalanced RefsExact KilledAreSwept
SYMMETRY ThreadSymmetry
CHECK_DEADLOCK FALSE
