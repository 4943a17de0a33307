\* The code does not keep SessionChargesStampedRows.
SPECIFICATION Spec
CONSTANTS
  t1 = t1
  t2 = t2
  t3 = t3
  regular = regular
  vip = vip
  r1 = r1
  r2 = r2
  Unlimited = Unlimited
  Ticket = {t1, t2}
  Tier = {regular, vip}
  Reservation = {r1}
  TierOf <- MCTierOf
  TotalQuantity <- MCQuantity
  EffectiveCapacity = 0
CHECK_DEADLOCK FALSE
PROPERTY SessionChargesStampedRows
