\* One transport and any number of failed dials; Dial without and with WithBlock.
SPECIFICATION FairSpec
CONSTANTS
  MaxTransports = 1
  Block = {FALSE, TRUE}
  Waits = FALSE
PROPERTIES
  LostConnectionIsRedialled
  CloseTerminates
  ReadyIsRead
  BlockingDialReturns
CHECK_DEADLOCK FALSE
