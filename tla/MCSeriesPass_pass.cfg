\* Two buyers of a pass over two events, extended to a third with one place.
SPECIFICATION Spec
CONSTANTS
  h1 = h1
  h2 = h2
  e1 = e1
  e2 = e2
  e3 = e3
  Holder = {h1, h2}
  Event = {e1, e2, e3}
  Opening = {e1, e2}
  TierQuantity <- MCTierQuantity
  PassQuantity = 2
  MaxStarted = 2
  Removable = {e3}
INVARIANTS
  CountersAgree
  CancelledPassHoldsNothing
  NoHolderLeftBehind
SYMMETRY MCSymmetry
CHECK_DEADLOCK FALSE
