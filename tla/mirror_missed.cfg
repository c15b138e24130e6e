SPECIFICATION LiveSpec
CONSTANTS
  RowCount = 2
  DayOf <- TwoDays
  Vals = {v1}
  None = None
  BatchSize = 2
  MaxWrites = 2
  MaxCrashes = 0
PROPERTY MirrorCatchesUp
CHECK_DEADLOCK FALSE
