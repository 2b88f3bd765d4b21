SPECIFICATION Spec
CONSTANTS
  Replies = {r1, r2}
  OneThread = FALSE
  Faults = {}
  MaxRemembered = 2
  BackoffCap = 2
  Torn = Torn
  NoReply = NoReply
INVARIANTS AcceptedIsReplayed
