SPECIFICATION FairSpec
CONSTANTS
  ann = ann
  bob = bob
  Clients = {ann, bob}
  Agents = 1
  SessionOf <- SharedAgent
  MaxTurns = 2
  MaxRounds = 1
  MaxCalls = 1
  MaxCancels = 1
  Events = {"stop", "out of memory"}
INVARIANTS
  StaleCancelIsDropped
PROPERTIES
  StopSettles
CHECK_DEADLOCK FALSE
