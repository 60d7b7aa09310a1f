\* Two calls, three connections, one request pushed by the server.
SPECIFICATION FairSpec
CONSTANTS
  Calls = {c1, c2}
  MaxConns = 3
  MaxPushes = 1
  None = None
  Push = Push
INVARIANTS
  AnswerIsOwn
  OncePerConnection
PROPERTIES
  DeadlineEndsInvoke
  CloseTerminates
CHECK_DEADLOCK FALSE
