SPECIFICATION FairSpec
CONSTANTS
  Bytes <- MCBytes
  Hash <- MCHash
  Extras = {0, 1, 2}
  Sizes = {7, 8, 12, 18, 19}
  Lengths = {3, 4, 9, 16}
  MaxSize = 18
INVARIANTS
  ReadsOnlyWritten
PROPERTIES
  ImplementsFormat
  Ends
CHECK_DEADLOCK FALSE
