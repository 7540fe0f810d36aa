\* Two requests with one key, an action of each tier or an incomplete refund, two
\* managers; the facts change once.
SPECIFICATION Spec
CONSTANTS
  NoRequest = NoRequest
  Requests = {q1, q2}
  Decisions = {d1, d2}
  Keys = {1}
  Asks <- AllAsks
  Amounts = {0, 2}
  Thresholds = {1}
  MaxChanges = 1
  MaxFaults = 1
SYMMETRY ActorSymmetry
INVARIANT OneExecutionPerKey
INVARIANT DecisionsAgree
PROPERTY DecisionsAreFinal
PROPERTY NotMilderThanFacts
PROPERTY ImplementsSubmissionContract
CHECK_DEADLOCK FALSE
