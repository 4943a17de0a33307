\* Batches of one for two seats, beside an invitation that overrides the capacity.
SPECIFICATION FairSpec
CONSTANTS
  u1 = u1
  u2 = u2
  u3 = u3
  User = {u1, u2, u3}
  Overriding = {u3}
  EffectiveCapacity = 2
  BatchSize = 1
  HasCutoff = FALSE
  Elsewhere = {}
  MaxLeaving = 1
  MaxInFlight = 0
PROPERTY FreeSeatIsOffered
