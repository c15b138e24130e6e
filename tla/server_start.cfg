CONSTANTS
  Legacy = {alpha, beta}
  Uuids = {u1, u2}
  Apps = {codex, claude}
  Requests = {r1}
  Absent = Absent
  MaxStops = 1
  MaxUploads = 1
  MaxEdits = 2
  Handlers = {h1, h2}
  Tokens = {t1, t2}
  NoToken = NoToken
  Sessions = {s1}
  Models = {m1}
  Providers = {p1}
  NoPrice = NoPrice
  Bodies <- SomeBodies
  None = None
  Partial = Partial
  Boot = Boot
  Idle = Idle
  MaxChanges = 2
SPECIFICATION AdminSpec
INVARIANTS AdminTypeOK StartSucceeds HistoryKept HistoryListed StoredUnderOwnNode SettingsKept
PROPERTIES LeftAlone EndedStaysOut
CHECK_DEADLOCK FALSE
SYMMETRY Symmetry
