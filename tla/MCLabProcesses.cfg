SPECIFICATION PSpec
CONSTANTS
  Managers = {m1, m2}
  Pids = {p1, p2}
  MaxStart = 4
  MaxRuns = 3
  MaxCrash = 1
INVARIANTS OnlyOwnSignalled Accounted OneService
PROPERTY CommandsEnd
CHECK_DEADLOCK FALSE
