\* An editor that also replaces exports, one other process that replaces what
\* is there and one that does not; five commands are a generation, a review, a
\* revision, a build and another revision, in any order and interleaving.
SPECIFICATION Spec
CONSTANTS
  p1 = p1
  p2 = p2
  p3 = p3
  Procs = {p1, p2, p3}
  Editors = {p1}
  Overwriters = {p1, p2}
  MaxCommands = 5
  MaxFaults = 1
INVARIANT TextIsNotOlder
PROPERTIES LogsOnlyGrow BundleIsKept
CHECK_DEADLOCK FALSE
