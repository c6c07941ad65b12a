SPECIFICATION Spec
CONSTANTS
  Procs = {p1, p2}
  MaterialIds = {m1}
  RequestIds = {q1, q2}
  Objects = {o1}
  Actors = {a1, a2}
  Managers = {a1}
  ItemLists <- MCSingleLines
  Priorities <- MCOnePriority
  MaxStock = 1
  MaxQuantity = 1
  MaxLines = 1
  MaxClock = 0
  Reregister = FALSE
  None = None
  Lost = Lost
INVARIANT RejectedTookNothing
