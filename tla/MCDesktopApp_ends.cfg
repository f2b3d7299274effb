\* Threads and tasks keep running, whatever the user does.
SPECIFICATION FairSpec
CONSTANTS
  Null = Null
  f1 = f1
  f2 = f2
  c1 = c1
  c2 = c2
  Files = {f1}
  Calls = {c1, c2}
  IdBound = 2
PROPERTIES JobsEnd
CHECK_DEADLOCK FALSE
