\* Two connections of one key, a revocation and its reversal, Stop, and a
\* response or an Invoke that locks s.mu.
SPECIFICATION FairSpec
CONSTANTS
  Conns = {c1, c2}
  Keys = {k1}
  Lockers = {h1}
  None = None
  Malformed = Malformed
  MaxUpdates = 2
INVARIANTS
  StopIsComplete
  UncontestedIsServed
  WatcherIsCurrent
PROPERTIES
  RegistryErrsOnlyInRegistration
  StopTerminates
  UpdateTerminates
CHECK_DEADLOCK FALSE
