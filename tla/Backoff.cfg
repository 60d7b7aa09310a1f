\* The default configuration of the backoff, in units of 512 ns: the intervals
\* up to MaxDelay are whole numbers.  The durations of the unidirectional client
\* are in seconds and have 9 bits.
SPECIFICATION Spec
CONSTANTS
  Conns = {c1, c2}
  BaseDelay = 1953125
  MaxDelay = 234375000
  MultNum = 8
  MultDen = 5
  JitterNum = 1
  JitterDen = 5
  MaxFails = 12
  Second = 1
  Minute = 60
  Limit = 256
INVARIANTS
  FollowsSchedule
  WaitsAreInRange
