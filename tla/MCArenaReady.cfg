CONSTANTS
  Ids = {11, 12, 13}
  Names = {"ana", "bea", "eva"}
  FRAGS = 1
  DURATION = 1
  HEALTH = 1
  MAGAZINE = 1
  COOLDOWN = 1
  RELOAD = 1
  RESPAWN = 1
  HOLD = 0
  HANDSHAKE = 1
  SEQ_MAX = 1
SPECIFICATION ASpec
INVARIANT ReadyStarts
CHECK_DEADLOCK FALSE
