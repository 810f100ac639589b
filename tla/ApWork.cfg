SPECIFICATION FairSpec
CONSTANTS
  Threads <- MCThreads
  CPUs <- MCCPUs
  Idle <- MCIdle
  Workers <- MCWorkers
  Slots = {0}
  Settings <- MCSettings
  Levels = 1
  MaxQuantum = 1
  Starvation = 1
  AgedService = 2
  None = None
INVARIANTS StackOwnedOnce NoJobStranded PoolOutlivesCpus JobOwnedOnce
PROPERTIES JobsComplete
CHECK_DEADLOCK FALSE
