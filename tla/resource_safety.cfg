SPECIFICATION FairSpec
CONSTANTS
  Procs = {p1, p2}
  ResourceIds = {r1}
  RequestIds = {q1, q2}
  Objects = {o1}
  Actors = {d1, d2}
  Dispatchers = {d1}
  Priorities <- MCOnePriority
  PostedInUse <- MCSomeInUse
  MaxCapacity = 2
  MaxQuantity = 2
  MaxClock = 0
  Reregister = FALSE
  OverlappingApprovals = TRUE
  None = None
  Lost = Lost
INVARIANTS TypeOK Mutex OverAllocationBounded NoOverAllocation AllocatedWasReviewed
PROPERTIES CallsAnsweredUnlessLeaked LeakIsForEver
CHECK_DEADLOCK FALSE
