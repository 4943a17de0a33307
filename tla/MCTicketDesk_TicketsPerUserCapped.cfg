\* One buyer at the door: two carts counted before either is locked.
SPECIFICATION Spec
CONSTANTS
  t1 = t1
  t2 = t2
  t3 = t3
  t4 = t4
  fixed = fixed
  open = open
  alice = alice
  bob = bob
  Unlimited = Unlimited
  Ticket = {t1, t2, t3, t4}
  Tier = {fixed, open}
  TierOf <- MCTierOf
  TotalQuantity <- MCQuantity
  User = {alice, bob}
  OwnerOf <- MCOwnerOf
  Method <- MCMethod
  PayWhatYouCan = {open}
  Coded = {t1, t2, t3}
  MaxTicketsPerUser = 1
  MaxOfTier <- MCOfTier
  MaxUses = 2
  MaxUsesPerUser = 2
  MaxInFlight = 2
INVARIANT TicketsPerUserCapped
CHECK_DEADLOCK FALSE
