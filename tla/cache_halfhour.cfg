SPECIFICATION Spec
CONSTANTS
  Events = {e1}
  Hours = 2
  DayRanges <- HalfHourDays
  Signatures = {base, fast}
  Base = base
  None = None
  Keep = Keep
  Delete = Delete
  BatchLimit = 1
  MaxCommits = 2
  MaxSettings = 0
INVARIANT QueriesExact
