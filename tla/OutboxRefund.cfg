\* A refund with its comment, two workers, a crash and a failing commit.
SPECIFICATION Spec
CONSTANTS
  i1 = i1
  b1 = b1
  w1 = w1
  w2 = w2
  NoMsg = NoMsg
  NoWorker = NoWorker
  NoStatement = NoStatement
  p1 = p1
  Executions = {1}
  Request <- RefundWithComment
  Issues = {i1}
  Bodies = {b1}
  Workers = {w1, w2}
  Refreshers = {}
  MaxAttempts = 3
  BatchSize = 1
  MaxCrashes = 1
  MaxDbFaults = 1
SYMMETRY WorkerSymmetry
INVARIANTS
  ClaimExclusive
  AttemptBudget
  RefundReportedOnlyIfMade
PROPERTIES
  NoDispatchOfSettled
  StoppedRowsStayStopped
\* A worker without work polls: it may stay idle for ever.
CHECK_DEADLOCK FALSE
