SPECIFICATION Spec
CONSTANTS
  Agents = {a1}
  FirstAgent = a1
  MaxUpdates = 4
  ResponseLimit = 3
  BatchSize = 2
  Capacity = 1
  MaxLives = 2
  Events = {"stop", "crash", "hang", "oom"}
  NoMessage = NoMessage
INVARIANTS TypeOK ForgottenIsAccountedFor
PROPERTIES TurnsInOrder
CHECK_DEADLOCK FALSE
