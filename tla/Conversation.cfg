\* Three messages, four records.
SPECIFICATION Spec
CONSTANTS
  None = None
  Messages <- ChosenMessages
  Records <- ChosenRecords
  MaxMessages = 3
INVARIANT ReadingsAreKept
INVARIANT ShownDatesFollowRecords
INVARIANT UnwrittenDatesArePast
INVARIANT CorrectionsLead
INVARIANT SpecificRulesWin
CHECK_DEADLOCK FALSE
