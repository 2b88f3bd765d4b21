SPECIFICATION Spec
CONSTANTS
  Messages = {m1, m2}
  Capacity = 3
  MaxEnqueued = 8
  Undefined = Undefined
INVARIANTS TypeOK Conservation HoldsNewest
PROPERTIES ImplementsQueue
