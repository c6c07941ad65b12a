SPECIFICATION Spec
CONSTANTS
  Procs = {p1, p2, p3}
  TaskIds = {t1}
  Officers = {o1}
  DispatcherIds = {d1, d2}
  GridIds = {g1, g2}
  MaxPoints = 1
  None = None
INVARIANTS TypeOK WorkWasSignedIn AssignedWithinRegistry
PROPERTIES CompletionHolds
