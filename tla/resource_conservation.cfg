SPECIFICATION Spec
CONSTANTS
  Procs = {p1, p2}
  ResourceIds = {r1, r2}
  RequestIds = {q1, q2}
  Objects = {o1, o2}
  Actors = {d1}
  Dispatchers = {d1}
  Priorities <- MCPriorities
  PostedInUse <- MCNothingInUse
  MaxCapacity = 2
  MaxQuantity = 2
  MaxClock = 1
  Reregister = TRUE
  OverlappingApprovals = FALSE
  None = None
  Lost = Lost
SYMMETRY Symmetry
INVARIANTS OverAllocationBounded UnitsConserved StatusAccurate ArbitrationOrder
PROPERTIES LifecycleForward ImplementsPool
CHECK_DEADLOCK FALSE
