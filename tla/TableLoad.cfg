SPECIFICATION FairSpec
CONSTANTS
  Calls <- PushUpdatePush
  LobCalls = {3}
  MaxRetries = 1
  Faulty <- AllRequests
  LateExecution = TRUE
INVARIANTS
  TypeOK
  NoSlotLeft
  LastReturnedWins
  ConfirmedLoadEndsCall
PROPERTIES
  KeepsLoadPromise
  ProgramEnds
CHECK_DEADLOCK FALSE
