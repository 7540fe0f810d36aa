\* A new ticket that two events announce, and an old one that is reopened.
SPECIFICATION Spec
CONSTANTS
  t1 = t1
  t2 = t2
  born = born
  bornAgain = bornAgain
  reopened = reopened
  reopenedAgain = reopenedAgain
  gone = gone
  moved = moved
  movedBack = movedBack
  known = known
  Requests = {r1, r2, r3}
  Events = {born, bornAgain, reopened, gone, moved, movedBack}
  Tickets = {t1, t2}
  OldTickets = {t2}
  Kind <- ChosenKind
  TicketOf <- ChosenTicketOf
  MergedIds <- ChosenMergedIds
  Gate = 2
  MaxFaults = 1
  MaxCrashes = 1
  MaxReplays = 1
  Hole = Hole
  OldIssue = OldIssue
  NoEvent = NoEvent
SYMMETRY RequestSymmetry
INVARIANT EventsApplyOnce
INVARIANT OneIssuePerTicket
INVARIANT SignalsAreEarned
INVARIANT JobsAreTakenOnce
 
PROPERTY ImplementsEventContract
CHECK_DEADLOCK FALSE
