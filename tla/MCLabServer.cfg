CONSTANTS
  Addrs = {a1, a2, a3}
  Nonces = {n1, n2}
  Sessions = {x1, x2}
  RequestIds = {1}
  SLOTS = 2
  MAX_CLIENTS = 2
  TIMEOUT = 1
  REQUEST_TIME = 1
  HISTORY = 2
  AHEAD = 1
  SEQ_MAX = 4
SPECIFICATION LSpec
INVARIANTS SlotsAreDistinct DatagramOnce FinalRstMeansClosed
PROPERTY SessionsEnd
CHECK_DEADLOCK FALSE
