CONSTANTS
  Conns = {k1, k2, k3}
  Ports = {1, 2, 3}
  PeerIds = {21, 22}
  MAX_PENDING = 2
  MAX_CHANNELS = 1
  MAX_ROUTES = 2
  UP_MAX = 2
  MAX_ID = 2
SPECIFICATION GtwSpec
INVARIANTS OfferedIsOpenable ClosesCross RoutesAgree
PROPERTY RetirementArrives
CHECK_DEADLOCK FALSE
