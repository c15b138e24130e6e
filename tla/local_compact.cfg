SPECIFICATION Spec
CONSTANTS
  a = a  b = b  c = c  f1 = f1  f2 = f2
  Records = {a, b, c}
  Files = {f1, f2}
  FileOf <- MCFileOf
  DayOf <- MCDayOf
  Identified = {b}
  Children = {f2}
  None = None
  Compacting = TRUE
  RetainDays = 1
  LastDay = 2
  MaxCrashes = 3
  CrashInCompaction = FALSE
INVARIANTS TypeOK CountedOnce CursorsHonest
PROPERTY HistoryKept
CHECK_DEADLOCK FALSE
