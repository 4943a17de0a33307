\* One multi-tier batch against every canceller, the sweep and the webhook.
SPECIFICATION FairSpec
CONSTANTS
  t1 = t1
  t2 = t2
  t3 = t3
  regular = regular
  vip = vip
  r1 = r1
  r2 = r2
  Unlimited = Unlimited
  Ticket = {t1, t2, t3}
  Tier = {regular, vip}
  Reservation = {r1}
  TierOf <- MCTierOf
  TotalQuantity <- MCQuantity
  EffectiveCapacity = 2
CHECK_DEADLOCK FALSE
INVARIANTS
  TypeOK
  ActiveIsPaid
  PaidIsAccountedFor
  UnlockedReadsAgree
PROPERTIES
  ImplementsInventory
  AuditRowsSurvive
  SweepSparesPayable
  PendingIsResolved
