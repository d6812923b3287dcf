SPECIFICATION Spec
CONSTANTS
  Tokens <- MCTokens
  Literals = {"host:5000"}
  Bare <- MCBare
  Empty = ""
  Default = "default"
  NoServer = "none"
  MaxRedirects = 1
  First <- MCFirst
  Later <- MCLater
  Options = {"readonly", "dry", "scoped", "atomic", "project"}
  Maps <- MCMaps
  MaxArgs = 4
INVARIANTS
  AliasVerdict
  FlagsHold
  EitherOrder
  UsageErrorsComeFirst
CHECK_DEADLOCK FALSE
