\* Carts, box office, reseats and overrides on two seats, cancellations and stale saves.
SPECIFICATION Spec
CONSTANTS
  t1 = t1
  t2 = t2
  t3 = t3
  alice = alice
  bob = bob
  x1 = x1
  x2 = x2
  NoSeat = NoSeat
  NoOwner = NoOwner
  Seat = {1, 2}
  Ticket = {t1, t2, t3}
  Owner = {alice}
  GuestSession = {}
  UserOf <- MCUserOf
  Batches <- MCBatches
  Tx = {x1, x2}
  HoldTTL = 1
  HoldMaxLifetime = 2
  HoldCap = 2
  MaxWanting = 0
INVARIANTS
  SeatClaimedOnce
  LocksAcyclic
SYMMETRY MCSymmetry
