CONSTANTS
  EDGE = 1
  RANGE = 1
  START = 1
  FIRE_TICKS = 2
  AMMO = 2
  HEALTH = 3
  DAMAGE = 2
  SEQ_MAX = 4
  TICK_MAX = 4
SPECIFICATION GSpec
INVARIANTS CombatLedger SpeedBound NoOverlap
