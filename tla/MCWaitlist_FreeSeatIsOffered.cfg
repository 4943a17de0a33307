\* Someone with a REVOKED offer of another event: an offer that expired here is never made again.
SPECIFICATION FairSpec
CONSTANTS
  u1 = u1
  u2 = u2
  u3 = u3
  User = {u1, u2}
  Overriding = {u2}
  EffectiveCapacity = 1
  BatchSize = 1
  HasCutoff = FALSE
  Elsewhere = {u1}
  MaxLeaving = 1
  MaxInFlight = 0
PROPERTY FreeSeatIsOffered
