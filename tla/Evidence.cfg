\* Two ingestions of a ticket that names a charge and an order, an event of a
\* provider, and an action of the issue that completes.
SPECIFICATION Spec
CONSTANTS
  None = None
  charge = charge
  order = order
  Ids <- ChosenIds
  Canonical <- ChosenCanonical
  Ingestions = {p1, p2}
  Completions = {a1}
  Changes = {n1}
  Leads = {"stripe", "shopify"}
  Charge = charge
  Order = order
  OldRefunds = {None, "succeeded"}
  RefundAmount = 4999
  OrderTotal = 4999
  Tolerance = 2
  HoursPerStep = 24
  MaxIncidents = 2
SYMMETRY EvidenceSymmetry
INVARIANT OneRowPerSource
INVARIANT SpansHaveTheirMessages
INVARIANT HighBandsAreReal
PROPERTY QuietRefreshRepairs
CHECK_DEADLOCK FALSE
