SPECIFICATION Spec
CONSTANTS
  c1 = c1
  c2 = c2
  c3 = c3
  Calls = {c1, c2, c3}
  Name <- Names
  MaxInFlight = 2
  Faulty = {"newslot", "list", "read", "upload", "deleteslot"}
  LateExecution = TRUE
SYMMETRY Symmetry
INVARIANTS
  TypeOK
  SlotsHaveOwners
  DownloadIsNewest
  AttachedOnce
CHECK_DEADLOCK FALSE
