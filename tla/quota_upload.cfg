SPECIFICATION LiveSpec
CONSTANTS
  Providers = {p1}
  LongIds = {}
  Items <- SomeItems
  None = None
  Limit = 1
  MaxObs = 2
  MaxReplays = 1
  MaxPurges = 1
  MaxLate = 1
INVARIANTS TypeOK CursorHonest StatesCarried LastSuccessExact
PROPERTIES ReplayResends ObservationsArrive
