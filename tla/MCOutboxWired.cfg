SPECIFICATION Spec
CONSTANTS
  Replies = {r1, r2}
  OneThread = FALSE
  Faults = {"crash", "crash in append", "short write", "rewrite fails"}
  MaxRemembered = 1
  BackoffCap = 3
  Torn = Torn
  NoReply = NoReply
INVARIANTS TypeOK NoRepeatWhileRemembered
PROPERTIES AckIsFinal
