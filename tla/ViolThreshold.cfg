\* One refund whose facts do not change.
SPECIFICATION Spec
CONSTANTS
  NoRequest = NoRequest
  Requests = {q1}
  Decisions = {}
  Keys = {1}
  Asks <- LargeRefund
  Amounts = {0, 2}
  Thresholds = {1}
  MaxChanges = 0
  MaxFaults = 0
PROPERTY LargeRefundsAreApproved
CHECK_DEADLOCK FALSE
