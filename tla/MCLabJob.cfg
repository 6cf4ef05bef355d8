SPECIFICATION JSpec
CONSTANTS
  Demos = {d1, d2}
  Remotes = {d1, d2}
  LIMIT = 1
INVARIANTS NoStray AcceptedIsDecided NoLeak
PROPERTY DemosEnd
CHECK_DEADLOCK FALSE
