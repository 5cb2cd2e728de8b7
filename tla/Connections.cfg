SPECIFICATION Spec
CONSTANTS
  Configs <- SmallConfigs
  Chunks = {"a", "b1", "b2"}
  Contents <- ShortAndLong
  MaxCalls = 4
  MaxStarts = 2
INVARIANTS
  ConfigurationDecides
  WrittenOnce
  PulledIsAttached
CHECK_DEADLOCK FALSE
