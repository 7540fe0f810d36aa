\* A message in three versions, three other issues of which two are shown.
SPECIFICATION Spec
CONSTANTS
  None = None
  a = a
  b = b
  o = o
  Characters = {a, b}
  Extractions <- ChosenExtractions
  References = {o}
  Others = {1, 2, 3}
  Subjects <- ChosenSubjects
  Statuses = {None, "succeeded"}
  MaxRows = 4
  HISTORY_LIMIT = 2
  Kinds <- ChosenKinds
INVARIANT MarksAreTrue
INVARIANT StrongestReadingShown
INVARIANT RefundsAreNoticed
CHECK_DEADLOCK FALSE
