\* Two tickets, one lookup, two requests for a card, two clicks.
SPECIFICATION FairSpec
CONSTANTS
  None = None
  Tickets = {t1, t2}
  Lookups = {l1}
  MaxLoads = 2
  Buttons = {"escalate_missing"}
  MaxClicks = 2
INVARIANT TypeOK
INVARIANT RetriesActOnce
INVARIANT NewIntentsAct
PROPERTY CardNeverGoesBack
PROPERTY ScreensSettle
CHECK_DEADLOCK FALSE
