\* Two calls at a time, three documents and jobs.
SPECIFICATION Spec
CONSTANTS
  Null = Null
  f1 = f1
  f2 = f2
  c1 = c1
  c2 = c2
  Files = {f1}
  Calls = {c1, c2}
  IdBound = 3
SYMMETRY Symmetry
INVARIANTS JobSlotIsTheJob ShownEndIsTrue
CHECK_DEADLOCK FALSE
