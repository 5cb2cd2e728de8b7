SPECIFICATION FairSpec
CONSTANTS
  NbRecords = 7
  Ends <- SmallEnds
  BufferSize = 4
  ReadSizes <- Sizes
INVARIANTS
  TypeOK
  InOrder
  EmptyMeansEnd
PROPERTIES
  AllIsRead
