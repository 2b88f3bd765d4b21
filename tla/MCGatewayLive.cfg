SPECIFICATION FairSpec
CONSTANTS
  Agents = {a1, a2}
  FirstAgent = a1
  MaxUpdates = 2
  ResponseLimit = 2
  BatchSize = 1
  Capacity = 1
  MaxLives = 1
  Events = {"stop"}
  NoMessage = NoMessage
PROPERTIES QuietOnceJoined StopEndsDown TextsGetTurns
CHECK_DEADLOCK FALSE
