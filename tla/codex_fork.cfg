SPECIFICATION LiveSpec
CONSTANTS
  Sources <- TwoSources
  MaxCalls = 3
  LastOf <- MCLastOf
  SourceOf <- MCSourceOf
  MaxTurns = 2
  Refreshed = {2}
INVARIANTS TypeOK CallsCountedOnce NothingSkipped
PROPERTY CallsArrive
CHECK_DEADLOCK FALSE
