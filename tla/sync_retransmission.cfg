SPECIFICATION Spec
CONSTANTS
  Procs = {w, p1}
  Worker = w
  IncidentIds = {i1, i2, i3}
  Objects = {o1, o2}
  Keys = {k1, k2}
  EntryIds = {s1}
  Entries = {e1}
  Reports <- MCOneReport
  Posts = {}
  Spare = 0
  ReplayEndpoint = TRUE
  ReuseEntryIds = FALSE
  RawConfigs <- MCOneAttempt
  Absent = Absent
  Bad = Bad
  None = None
  k1 = k1
  k2 = k2
  i1 = i1
PROPERTIES RetransmissionHarmless
