SPECIFICATION FairSpec
CONSTANTS
  Threads = {t1, t2}
  Tasks = {k1, k2, k3}
  NoTask = NoTask
  Stop = Stop
  MaxAwaits = 1
  Interrupts = TRUE
INVARIANTS
  TypeOK
  BlockedMeansLoopRuns
  EveryCoroutineIsAwaited
PROPERTIES
  EveryWaitEnds
CHECK_DEADLOCK FALSE
