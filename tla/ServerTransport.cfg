\* Three writers; any number of messages from the peer.
SPECIFICATION FairSpec
CONSTANT Writers = {w1, w2, w3}
INVARIANTS
  AcceptedIsSentOrFatal
PROPERTIES
  LifeCycle
  WriteReturns
  LossIsNoticed
  ReadPumpEnds
CHECK_DEADLOCK FALSE
