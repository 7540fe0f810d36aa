\* A click whose answer is lost, and the click that repeats it.
SPECIFICATION Spec
CONSTANTS
  None = None
  Tickets = {t1}
  Lookups = {l1}
  MaxLoads = 2
  Buttons = {"escalate_missing"}
  MaxClicks = 2
INVARIANT OneExecutionPerIntent
CHECK_DEADLOCK FALSE
