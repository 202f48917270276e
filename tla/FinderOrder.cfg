SPECIFICATION FairSpec
CONSTANTS
  Chats = {c1}
  Kinds = {"workflow"}
  RunReply = TRUE
  MaxAttempts = 2
  Interval = 1
  Deadline <- WorkingDeadline
  Closed = {1}
  Executors = {e1}
  MayLapse = FALSE
  MaxTime = 3
  MaxMessages = 3
  None = None
INVARIANTS PendingIsFirstUnanswered ReplyIsReported
PROPERTIES WaitIsNoticed ActionsEnd
CHECK_DEADLOCK FALSE
