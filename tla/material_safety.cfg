SPECIFICATION Spec
CONSTANTS
  Procs = {p1, p2}
  MaterialIds = {m1, m2}
  RequestIds = {q1, q2}
  Objects = {o1, o2}
  Actors = {a1}
  Managers = {a1}
  ItemLists <- MCLists
  Priorities <- MCPriorities
  MaxStock = 1
  MaxQuantity = 1
  MaxLines = 2
  MaxClock = 1
  Reregister = TRUE
  None = None
  Lost = Lost
SYMMETRY Symmetry
INVARIANTS TypeOK Mutex OverdraftIsOneRequest StockAccounted CompletedWasSigned ArbitrationOrder
PROPERTIES DecisionHolds ImplementsLedger
