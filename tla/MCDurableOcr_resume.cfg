\* One process at a time, started again after every end.
SPECIFICATION Spec
CONSTANTS
  Null = Null
  mpdf_ocr_cli = mpdf_ocr_cli
  Owner = mpdf_ocr_cli
  native = native
  NativeText = native
  x = x
  y = y
  z = z
  rx = rx
  ry = ry
  Raws = {rx, ry}
  RawOf <- RawArtifact
  q1 = q1
  q2 = q2
  Answers = {x, y, z}
  Processes = {q1}
  NativePages = {1}
  PageCount = 2
  MaxAttempts = 2
  Lease = 2
  ClockLag = 1
  MaxTime = 4
  AttemptBound = 3
PROPERTIES RecordedPagesAreNotRedone
CHECK_DEADLOCK FALSE
