\* Two calls to two peers, two responses in any order and from either peer,
\* one request of a peer, all racing with timeouts and Stop.
SPECIFICATION FairSpec
CONSTANTS
  Calls = {c1, c2}
  Keys = {k1, k2}
  Responses = {h1, h2}
  Requests = {r1}
  None = None
INVARIANTS
  AnswerFromAddressee
  WaitingIsRegistered
  HandoffTargetsLiveCall
PROPERTIES
  WedgeIsPermanent
  ContractSpec
  TimedOutCallReturns
CHECK_DEADLOCK FALSE
