SPECIFICATION ScannersSpec
CONSTANTS
  Lines <- MCLines
  MaxLines = 6
INVARIANTS
  WellSplit
  ScannersAgree
CHECK_DEADLOCK FALSE
