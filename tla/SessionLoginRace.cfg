SPECIFICATION Spec
CONSTANTS
  AuthMethods = {"userpass"}
  r1 = r1
  r2 = r2
  r3 = r3
  Requests = {r1, r2}
  Mode <- PostAndSimple
  MaxRetries = 1
  MaxInFlight = 2
  Timeouts = TRUE
  BlankLogins = FALSE
  MaxRefreshed = 1
INVARIANTS
  NoCallLacksCredential
CHECK_DEADLOCK FALSE
