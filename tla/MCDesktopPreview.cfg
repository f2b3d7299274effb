SPECIFICATION Spec
CONSTANTS
  Null = Null
  s1 = s1
  s2 = s2
  Settings = {s1, s2}
  Default = s1
  PageCount = 2
  Openings = 1
  Budgets <- MCBudgets
INVARIANTS PaneComesRight NobodyWaitsInVain EstimatesCanBeStopped
CHECK_DEADLOCK FALSE
