SPECIFICATION Spec
CONSTANTS
  Threads = {"t1", "t2", "t3"}
  Workloads <- MCWorkloads
  Durations = {0}
  TickUs = 1000
  MaxCount = 1
  Requests = {1, 2}
  Kinds = {"sync", "event", "packet", "skip"}
  MaxBatch = 2
  CancelAccepted = TRUE
  None = None
INVARIANTS RequestOutlivesUsers
CHECK_DEADLOCK FALSE
