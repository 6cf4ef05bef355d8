CONSTANTS
  Ids = {i1}
  Challenges = {c1}
  Controllers = {"game"}
  Attestors = {"attestor"}
  Peers = {"p2"}
  Workers = {w1, w2, w3}
  MAXIMUM = 1
  BINDING = 2
  CHALLENGE = 1
  LEASE = 1
  MaxTime = 2
  MAX_TASKS = 2
  MAX_VERIFICATIONS = 1
SPECIFICATION SSpec
PROPERTIES CloseCompletes VerificationResolves
CHECK_DEADLOCK FALSE
