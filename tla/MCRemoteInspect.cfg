SPECIFICATION Spec
CONSTANTS
  Names = {f, g, h}
  MaxSteps = 2
INVARIANTS
  CleanUnlessOutOfBudget
  BlockedIsJustified
  BudgetSuffices
CHECK_DEADLOCK FALSE
