SPECIFICATION FairSpec
CONSTANTS
  Replies = {r1, r2}
  OneThread = TRUE
  Faults = {"crash", "rewrite fails"}
  MaxRemembered = 1
  BackoffCap = 3
  Torn = Torn
  NoReply = NoReply
INVARIANTS AcceptedIsReplayed
PROPERTIES AcceptedIsSettled
