\* A crash between the claim and its outcome.
SPECIFICATION FairSpec
CONSTANTS
  i1 = i1
  b1 = b1
  w1 = w1
  w2 = w2
  NoMsg = NoMsg
  NoWorker = NoWorker
  NoStatement = NoStatement
  p1 = p1
  Executions = {1}
  Request <- Close
  Issues = {i1}
  Bodies = {b1}
  Workers = {w1}
  Refreshers = {}
  MaxAttempts = 2
  BatchSize = 1
  MaxCrashes = 1
  MaxDbFaults = 0
PROPERTIES
  ClaimsResolve
\* A worker without work polls: it may stay idle for ever.
CHECK_DEADLOCK FALSE
