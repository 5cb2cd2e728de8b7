SPECIFICATION Spec
CONSTANTS
  Frames <- SmallFrames
  Manuals <- SmallManuals
  LevelName <- Names
  Identifiers <- NotB
  Versions <- OldAndNew
  MaxCalls = 4
INVARIANTS
  ValuesArrive
CHECK_DEADLOCK FALSE
