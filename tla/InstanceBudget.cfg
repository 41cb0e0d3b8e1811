SPECIFICATION Spec
CONSTANTS
  Sizes <- SmallSizes
  Bases = {0, 16, 40}
INVARIANTS
  BudgetSuffices
  RegionsAreApart
CHECK_DEADLOCK FALSE
