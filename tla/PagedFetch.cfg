SPECIFICATION FairSpec
CONSTANTS
  Rows = {1, 2, 3, 4}
  PageSize = 2
  MaxEdits = 2
INVARIANTS
  TypeOK
  QuietFetchIsExact
  MissesOnlyAfterDelete
PROPERTIES
  FetchEnds
CHECK_DEADLOCK FALSE
