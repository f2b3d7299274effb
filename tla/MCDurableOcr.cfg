\* Two runs of the same job at the same time.
SPECIFICATION Spec
CONSTANTS
  Null = Null
  mpdf_ocr_cli = mpdf_ocr_cli
  Owner = mpdf_ocr_cli
  native = native
  NativeText = native
  x = x
  y = y
  z = z
  rx = rx
  ry = ry
  Raws = {rx, ry}
  RawOf <- RawArtifact
  q1 = q1
  q2 = q2
  Answers = {x, z}
  Processes = {q1, q2}
  NativePages = {1}
  PageCount = 2
  MaxAttempts = 2
  Lease = 1
  ClockLag = 1
  MaxTime = 3
  AttemptBound = 2
SYMMETRY Symmetry
INVARIANTS CommittedPageOnDisk SummaryIsComplete
PROPERTIES EvidenceIsFinal
CHECK_DEADLOCK FALSE
