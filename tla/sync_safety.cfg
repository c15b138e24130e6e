CONSTANTS
  v1 = v1  d1 = d1  d2 = d2
  Events = {e1}
  Vals = {v1, v2}
  Rollups = {r1}
  RollupVals = {w1, w2}
  Providers = {}
  Days = {d1, d2}
  EventDay <- MCEventDay
  RollupDay <- MCRollupDay
  Gens = {g1, g2}
  None = None  Keep = Keep  Delete = Delete  NoPlan = NoPlan
  MaxPurges = 1
  LateDelivery = TRUE
SPECIFICATION LiveSpec
INVARIANTS TypeOK BaselineFollowsCommit MirrorExact
PROPERTIES ImplementsReplica UploadSettles
