SPECIFICATION Spec
CONSTANTS
  Threads <- MCThreads
  CPUs <- MCCPUs
  Idle <- MCIdle
  Levels = 2
  MaxQuantum = 2
  Starvation = 3
  AgedService = 2
  None = None
  DefaultPriority = 0
  Tables <- MCTables
  Policies <- MCPolicies
  Watched = 2
INVARIANTS NoPanic NoLostThread BoundedWait
PROPERTIES DispatchOrder
