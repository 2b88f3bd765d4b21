SPECIFICATION FairSpec
CONSTANTS
  Clients = {c1}
  Ids = {i1, i2}
  Grace = 1
  PurgeAfter = 2
  MaxLag = 1
  Faults = {"crash", "db error"}
  MaxFaults = 1
  None = None
INVARIANTS
  TypeOK
  AnsweredStaysListed
  RegisteredHoldsToken
PROPERTIES
  PurgedWasSilent
  
  BeatingIsListed
