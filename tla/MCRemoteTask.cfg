\* Two commands at a time, two in all.
SPECIFICATION Spec
CONSTANTS
  Null = Null
  kept = kept
  dropped = dropped
  Plans = {kept, dropped}
  DeletePlans = {dropped}
  PageCount = 2
  s1 = s1
  s2 = s2
  Slots = {s1, s2}
  Budget = 0
  CostBound = 1
  MaxRetries = 2
  PollBound = 2
  TraceBound = 1
  CommandBound = 2
INVARIANTS InstalledHasArtifact SummaryMatchesPages OverBudgetResultNotInPackage AcknowledgedMeansDeleted
SYMMETRY Symmetry
CHECK_DEADLOCK FALSE
