\* Two buyers holding seats, against one transaction that sells, moves or blocks them.
SPECIFICATION Spec
CONSTANTS
  t1 = t1
  t2 = t2
  t3 = t3
  alice = alice
  bob = bob
  x1 = x1
  x2 = x2
  NoSeat = NoSeat
  NoOwner = NoOwner
  Seat = {1, 2}
  Ticket = {t1}
  Owner = {alice, bob}
  GuestSession = {bob}
  UserOf <- MCUserOf
  Batches <- MCBatches
  Tx = {x1}
  HoldTTL = 2
  HoldMaxLifetime = 3
  HoldCap = 1
  MaxWanting = 1
INVARIANTS
  TypeOK
  HoldIsBounded
