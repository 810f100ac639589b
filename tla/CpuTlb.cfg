SPECIFICATION TlbFairSpec
CONSTANTS
  N = 3
  MaxGen = 2
  None = None
INVARIANTS NoStaleTranslation
PROPERTIES PoisonIsFinal AcksArrive
CHECK_DEADLOCK FALSE
