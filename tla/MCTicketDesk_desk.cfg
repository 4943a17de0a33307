\* A code with two uses, three rows that want it, scans racing cancellations.
SPECIFICATION Spec
CONSTANTS
  t1 = t1
  t2 = t2
  t3 = t3
  t4 = t4
  fixed = fixed
  open = open
  alice = alice
  bob = bob
  Unlimited = Unlimited
  Ticket = {t1, t2, t3, t4}
  Tier = {fixed, open}
  TierOf <- MCTierOf
  TotalQuantity <- MCQuantity
  User = {alice, bob}
  OwnerOf <- MCOwnerOf
  Method <- MCMethod
  PayWhatYouCan = {open}
  Coded = {t1, t2, t3}
  MaxTicketsPerUser = 2
  MaxOfTier <- MCOfTier
  MaxUses = 2
  MaxUsesPerUser = 1
  MaxInFlight = 2
SYMMETRY MCSymmetry
CHECK_DEADLOCK FALSE
INVARIANTS
  TypeOK
  CodeUsesCounted
  CodeKeptPerUser
  MoneyMatchesStatus
PROPERTIES
  ImplementsInventory
