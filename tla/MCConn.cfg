SPECIFICATION FairSpec
CONSTANTS
  Timeouts = {0, 1, 4}
  EstablishCap = 2
  WriteCap = 3
  Addrs = 2
  MaxPieces = 1
  MaxRequests = 2
  MaxMsgLen = 10
INVARIANTS
  SlowQueryGetsItsTimeout
  EstablishmentFailsFast
PROPERTIES
  ImplementsChannel
  TimeoutEndsEverything
  LoginEnds
CHECK_DEADLOCK FALSE
