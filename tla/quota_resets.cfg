SPECIFICATION Spec
CONSTANTS
  Ids = {1, 2, 3, 4}
  Contents <- SomeContents
  Jitter = 1
  None = None
  Gap = 1
  Buckets = {1, 2, 3}
INVARIANTS TypeOK CurrentIsLatest ResetsExact HistoryFaithful
