CONSTANTS
  Handlers = {h1, h2}
  MAX_TASKS = 2
  FRAMES = 1
SPECIFICATION GSSpec
INVARIANTS ReplyIsOwn SlotIsSpent
PROPERTIES InputFollowsTick ServiceStops
CHECK_DEADLOCK FALSE
