\* Three callers, two documents, two configurations.
SPECIFICATION Spec
CONSTANTS
  c1 = c1
  c2 = c2
  c3 = c3
  Callers = {c1, c2, c3}
  PageCounts = {1, 2}
  f = f
  g = g
  Fingerprints = {f, g}
  Null = Null
SYMMETRY Symmetry
INVARIANTS AcceptedCallersAgree OneStamp
CHECK_DEADLOCK FALSE
