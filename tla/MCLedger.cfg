SPECIFICATION FairSpec
CONSTANTS
  Callers = {c1, c2}
  Wrapped = {c2}
  Ids = {i1, i2, i3}
  Amounts = {0, 1, 2}
  Ceiling = 3
  Top = 4
  MaxBilled = 5
  None = None
INVARIANTS
  TypeOK
  PendingIsHeld
  CeilingHolds
  BilledIsCounted

  
