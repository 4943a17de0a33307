SPECIFICATION Spec
CONSTANTS
  u1 = u1
  u2 = u2
  u3 = u3
  User = {u1, u2}
  Overriding = {}
  EffectiveCapacity = 1
  BatchSize = 0
  HasCutoff = TRUE
  Elsewhere = {}
  MaxLeaving = 1
  MaxInFlight = 1
PROPERTY NoSeatBeyondCapacity
