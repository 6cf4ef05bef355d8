SPECIFICATION TSpec
CONSTANTS
  Burst = 2
  Refill = 1
  QCount = 2
  Age = 1
  Idle = 3
  Beat = 1
  AckTicks = 1
  WireMax = 2
  MaxSaid = 2
INVARIANTS Faithful HealthyStaysUp
 
CHECK_DEADLOCK FALSE
