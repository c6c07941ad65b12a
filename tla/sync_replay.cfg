SPECIFICATION FairSpec
CONSTANTS
  Procs = {w, p1}
  Worker = w
  IncidentIds = {i1, i2, i3}
  Objects = {o1, o2, o3, o4, o5}
  Keys = {k1, k2}
  EntryIds = {s1, s2}
  Entries = {e1, e2}
  Reports <- MCReports
  Posts <- MCPosts
  Spare = 3
  ReplayEndpoint = TRUE
  ReuseEntryIds = FALSE
  RawConfigs <- MCConfigs
  Absent = Absent
  Bad = Bad
  None = None
  k1 = k1
  k2 = k2
  i1 = i1
INVARIANTS TypeOK AttemptsBounded UploadedWasStored DuplicatesOverlapped
PROPERTIES EntriesSettle
