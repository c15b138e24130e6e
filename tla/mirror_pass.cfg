SPECIFICATION LiveSpec
CONSTANTS
  RowCount = 3
  DayOf <- TwoDays
  Vals = {v1, v2}
  None = None
  BatchSize = 2
  MaxWrites = 4
  MaxCrashes = 1
INVARIANTS TypeOK PassIsExact
PROPERTIES DeletesOnlyGone UndisturbedCatchesUp
CHECK_DEADLOCK FALSE
