SPECIFICATION FairSpec
CONSTANTS
  Procs = {p1, p2}
  ResourceIds = {r1}
  RequestIds = {q1}
  Objects = {o1}
  Actors = {d1}
  Dispatchers = {d1}
  Priorities <- MCOnePriority
  PostedInUse <- MCNothingInUse
  MaxCapacity = 1
  MaxQuantity = 1
  MaxClock = 0
  Reregister = FALSE
  OverlappingApprovals = TRUE
  None = None
  Lost = Lost
PROPERTIES EveryCallAnswered
CHECK_DEADLOCK FALSE
