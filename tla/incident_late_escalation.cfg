SPECIFICATION Spec
CONSTANTS
  Procs = {p1}
  IncidentIds = {i1, i2}
  Objects = {o1}
  Reports <- MCReport
  Keys = {k1}
  Actors = {d1, d2}
  Dispatchers = {d1}
  Timeout = 1
  MaxClock = 1
  None = None
  o1 = o1
  o2 = o2
  o3 = o3
  i1 = i1
  i2 = i2
  k1 = k1
PROPERTIES RespondingNotEscalated
