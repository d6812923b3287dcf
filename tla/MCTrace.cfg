SPECIFICATION Spec
CONSTANTS
  Clients = {c1, c2}
  Foreign = {auth}
  MaxResets = 1
INVARIANTS
  PolicyIsKept
  OffRestores
  TrapsOnce
PROPERTY AnswersAreTrue
CHECK_DEADLOCK FALSE
