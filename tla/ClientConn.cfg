\* Two transports, one after the other, with any number of failed dials.
SPECIFICATION Spec
CONSTANTS
  MaxTransports = 2
  Block = {FALSE}
  Waits = TRUE
INVARIANTS
  StatesAgree
  SleeperWillBeTold
PROPERTIES
  OnlyOwnTransportDemotes
  ClosedWaiterSleepsOn
CHECK_DEADLOCK FALSE
