SPECIFICATION FairSpec
CONSTANTS
  AuthMethods = {"userpass", "token", "file"}
  r1 = r1
  r2 = r2
  r3 = r3
  Requests = {r1, r2, r3}
  Mode <- AllModes
  MaxRetries = 1
  MaxInFlight = 2
  Timeouts = TRUE
  BlankLogins = TRUE
  MaxRefreshed = 1
INVARIANTS
  TypeOK
  ExecutionsWithinBudget
  ReturnedMeansExecuted
  TokenReplacesPassword
PROPERTIES
  TokenIsFresh
  TokenIsKept
  KeepsPromise
  CallsEnd
CHECK_DEADLOCK FALSE
