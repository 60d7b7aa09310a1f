\* Two calls, two responses, a request, a transport that is lost, any number of failed dials.
SPECIFICATION FairSpec
CONSTANTS
  Calls = {c1, c2}
  Responses = {h1, h2}
  Requests = {r1}
  MaxTransports = 1
  Peer = Peer
  None = None
INVARIANTS
  ReturnedIsRemoved
  OnlyRepeatsAreLeftBehind
PROPERTIES
  ContractSpec
  TimedOutCallReturns
  CloseTerminates
CHECK_DEADLOCK FALSE
