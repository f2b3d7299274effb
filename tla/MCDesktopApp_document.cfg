\* A conversion is started while another document is being opened.
SPECIFICATION Spec
CONSTANTS
  Null = Null
  f1 = f1
  f2 = f2
  c1 = c1
  c2 = c2
  Files = {f1, f2}
  Calls = {c1, c2}
  IdBound = 4
INVARIANTS ConvertsRequestedDocument
CHECK_DEADLOCK FALSE
