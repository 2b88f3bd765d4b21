SPECIFICATION Spec
CONSTANTS
  ann = ann
  bob = bob
  Clients = {ann, bob}
  Agents = 2
  SessionOf <- OwnAgents
  MaxTurns = 2
  MaxRounds = 2
  MaxCalls = 2
  MaxCancels = 1
  Events = {}
INVARIANTS
  TypeOK
  HandlersHoldTheirOutput
PROPERTIES
  PromptsArePaired
  NoToolAfterCancel
CHECK_DEADLOCK FALSE
