\* Two runs of three pages with the same destination.  Three pages tell the
\* pages structural validation renders from the one it does not.
SPECIFICATION Spec
CONSTANTS
  r1 = r1
  r2 = r2
  Runs = {r1, r2}
  PageCount = 3
SYMMETRY Symmetry
INVARIANTS DestinationIsWhole RunsTidyUp
PROPERTIES CancelledRunsStop
CHECK_DEADLOCK FALSE
