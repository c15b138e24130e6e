SPECIFICATION LiveSpec
CONSTANTS
  Events = {e1, e2}
  Hours = 2
  DayRanges <- WholeHourDays
  Signatures = {base, fast}
  Base = base
  None = None
  Keep = Keep
  Delete = Delete
  BatchLimit = 1
  MaxCommits = 2
  MaxSettings = 2
INVARIANTS TypeOK QueriesExact HoursExact
PROPERTY CacheCatchesUp
