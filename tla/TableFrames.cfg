SPECIFICATION Spec
CONSTANTS
  Frames <- SmallFrames
  Manuals <- SmallManuals
  LevelName <- Names
  Identifiers <- AllNames
  Versions <- OldAndNew
  MaxCalls = 4
INVARIANTS
  IndexBecomesKey
  FetchedFrameFitsTable
  LobNeedsTheFix
CHECK_DEADLOCK FALSE
