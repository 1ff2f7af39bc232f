SPECIFICATION Spec
CONSTANTS
  Fds = {1, 2, 3, 4}
  FD_SETSIZE = 3
  MAX_LINE = 2
  Bytes = {"a", "nl"}
  Talkers = {1}
  MaxSend = 3
  Null = Null
CHECK_DEADLOCK FALSE
INVARIANTS StatesMatch AnswerIsPrefix QuietIsAnswered
PROPERTIES LinesAnswered
