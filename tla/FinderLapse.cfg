SPECIFICATION Spec
CONSTANTS
  Chats = {c1}
  Kinds = {"task"}
  RunReply = TRUE
  MaxAttempts = 2
  Interval = 1
  Deadline <- WorkingDeadline
  Closed = {}
  Executors = {e1}
  MayLapse = TRUE
  MaxTime = 4
  MaxMessages = 2
  None = None
PROPERTIES ReplyStopsRepeats
CHECK_DEADLOCK FALSE
