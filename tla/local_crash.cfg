SPECIFICATION Spec
CONSTANTS
  a = a  b = b  c = c  f1 = f1  f2 = f2
  Records = {a, c}
  Files = {f1, f2}
  FileOf <- MCFileOf
  DayOf <- MCDayOf
  Identified = {}
  Children = {}
  None = None
  Compacting = TRUE
  RetainDays = 1
  LastDay = 2
  MaxCrashes = 1
  CrashInCompaction = TRUE
INVARIANT CountedOnce
CHECK_DEADLOCK FALSE
