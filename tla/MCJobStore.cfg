\* Two workers that ask for leases of the same length, as every caller does,
\* compete for two pages.  Each reads its clock before it waits for the lock and
\* may be one tick behind; a worker may stop at any point, and one that asks
\* again under the same owner stands for a second run of the same program.
SPECIFICATION Spec
CONSTANTS
  a = a
  b = b
  Owners = {a, b}
  x = x
  y = y
  Digests = {x, y}
  Null = Null
  PageCount = 2
  MaxAttempts = 2
  Leases = {2}
  ClockLag = 1
  MaxTime = 4
  AttemptBound = 3
INVARIANTS TypeOK CounterMatchesPages CompletedMeansAllPages CancellationWins RunsBelongToAttempts JobLeaseCoversPages
PROPERTIES ImplementsLedger OnlyLeaseholdersOverlap
CHECK_DEADLOCK FALSE
