CONSTANTS
  v1 = v1  d1 = d1  d2 = d2
  Events = {e1}
  Vals = {v1}
  Rollups = {}
  RollupVals = {w1}
  Providers = {}
  Days = {d1, d2}
  EventDay <- MCEventDay
  RollupDay <- MCRollupDay
  Gens = {g1, g2, g3}
  None = None  Keep = Keep  Delete = Delete  NoPlan = NoPlan
  MaxPurges = 0
  LateDelivery = FALSE
SPECIFICATION Spec
INVARIANT RetryIsExact
CHECK_DEADLOCK FALSE
