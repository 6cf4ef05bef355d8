CONSTANTS
  Ids = {11, 12}
  Names = {"ana", "bea"}
  FRAGS = 2
  DURATION = 4
  HEALTH = 1
  MAGAZINE = 2
  COOLDOWN = 1
  RELOAD = 1
  RESPAWN = 1
  HOLD = 3
  HANDSHAKE = 1
  SEQ_MAX = 1
SPECIFICATION ASpec
INVARIANTS DictionariesAgree OneWinner PulsesOnce
PROPERTY MatchEnds
CHECK_DEADLOCK FALSE
