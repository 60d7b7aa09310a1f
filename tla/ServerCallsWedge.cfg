\* One call, answered and timing out at the same moment.
SPECIFICATION FairSpec
CONSTANTS
  Calls = {c1}
  Keys = {k1}
  Responses = {h1}
  Requests = {r1}
  None = None
PROPERTY TimedOutCallIsRemoved
CHECK_DEADLOCK FALSE
