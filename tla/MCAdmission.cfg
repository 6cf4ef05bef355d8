CONSTANTS
  Ids = {i1, i2}
  Challenges = {c1, c2}
  Controllers = {"game"}
  Attestors = {"attestor"}
  Peers = {"p2", "p3"}
  Workers = {w1, w2}
  MAXIMUM = 2
  BINDING = 3
  CHALLENGE = 1
  LEASE = 2
  MaxTime = 4
SPECIFICATION Spec
SYMMETRY Symmetry
INVARIANTS OneLivePerPeer AllowedIsFresh SingleVerification
PROPERTY ImplementsPermission
CHECK_DEADLOCK FALSE
