\* Two executions on one issue, three effects, two workers with batches of two.
SPECIFICATION Spec
CONSTANTS
  i1 = i1
  b1 = b1
  w1 = w1
  w2 = w2
  NoMsg = NoMsg
  NoWorker = NoWorker
  NoStatement = NoStatement
  p1 = p1
  Executions = {1, 2}
  Request <- CloseCommentAndEscalate
  Issues = {i1}
  Bodies = {b1}
  Workers = {w1, w2}
  Refreshers = {p1}
  MaxAttempts = 1
  BatchSize = 2
  MaxCrashes = 0
  MaxDbFaults = 0
SYMMETRY WorkerSymmetry
INVARIANTS
  TypeOK
  OneTransitionPerExecution
  CompletionNotLost
  CardFollowsIssue
PROPERTIES
  ImplementsContract
\* A worker without work polls: it may stay idle for ever.
CHECK_DEADLOCK FALSE
