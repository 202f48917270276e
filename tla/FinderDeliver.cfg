SPECIFICATION Spec
CONSTANTS
  Chats = {c1}
  Kinds = {"task"}
  RunReply = TRUE
  MaxAttempts = 2
  Interval = 1
  Deadline <- WorkingDeadline
  Closed = {2}
  Executors = {e1, e2}
  MayLapse = TRUE
  MaxTime = 4
  MaxMessages = 2
  None = None
SYMMETRY Symmetry
INVARIANTS TypeOK OverdueIsDue AttemptsSpaced ReplyFollowsOverdue AtMostOnePost
PROPERTIES NoOverdueOnceAnswered
CHECK_DEADLOCK FALSE
