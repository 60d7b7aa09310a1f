\* Two handshakes of one peer.
SPECIFICATION Spec
CONSTANTS
  Conns = {c1, c2}
  Keys = {k1}
  Lockers = {}
  None = None
  Malformed = Malformed
  MaxUpdates = 0
INVARIANT SingleConnectionPerKey
CHECK_DEADLOCK FALSE
