\* Progress of a deduplicated comment and of a best-effort notification on one
\* worker, with a failing commit.
SPECIFICATION FairSpec
CONSTANTS
  i1 = i1
  b1 = b1
  w1 = w1
  w2 = w2
  NoMsg = NoMsg
  NoWorker = NoWorker
  NoStatement = NoStatement
  p1 = p1
  Executions = {1, 2}
  Request <- CommentAndNotify
  Issues = {i1}
  Bodies = {b1}
  Workers = {w1}
  Refreshers = {}
  MaxAttempts = 2
  BatchSize = 1
  MaxCrashes = 0
  MaxDbFaults = 1
PROPERTIES
  EffectsSettle
  SingleEffectExecutionsEnd
\* A worker without work polls: it may stay idle for ever.
CHECK_DEADLOCK FALSE
