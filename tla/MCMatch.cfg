SPECIFICATION MSpec
CONSTANTS
  Clients <- MCClients
  MaxSeq = 2
INVARIANTS NoFalseAlarm NoOrphans PassedIsComplete
PROPERTY MatchIsOver
CHECK_DEADLOCK FALSE
