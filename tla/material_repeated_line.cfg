SPECIFICATION Spec
CONSTANTS
  Procs = {p1, p2}
  MaterialIds = {m1}
  RequestIds = {q1, q2}
  Objects = {o1}
  Actors = {a1}
  Managers = {a1}
  ItemLists <- MCLists
  Priorities <- MCOnePriority
  MaxStock = 2
  MaxQuantity = 1
  MaxLines = 2
  MaxClock = 0
  Reregister = FALSE
  None = None
  Lost = Lost
INVARIANT StockNeverNegative
