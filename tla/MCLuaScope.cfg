CONSTANTS
  Name = {"x"}
  Label = {"l"}
  Budgets <- MCBudgets
  MaxDepth = 3
SPECIFICATION Spec
INVARIANTS NamesResolve GotoReachesLabel JumpsClose
CHECK_DEADLOCK FALSE
