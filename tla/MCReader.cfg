SPECIFICATION FairReaderSpec
CONSTANTS
  Sizes <- MCSizes
  Counts <- MCCounts
  MaxDepth = 4
  MaxSymbol = 2
INVARIANTS
  CursorIsTrue
  AnnouncedIsThere
  DepthIsNesting
PROPERTY Ends
CHECK_DEADLOCK FALSE
