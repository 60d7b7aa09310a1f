\* Two services with the method name Ping in common, both in package pb; two
\* registrations on each side.
SPECIFICATION FairSpec
CONSTANTS
  A = A
  B = B
  None = None
  Calls = {c1}
  ServiceSet = {A, B}
  Methods <- MCMethods
  PbPackage = {A, B}
  GoName <- MCGoName
  MaxRegs = 2
INVARIANTS
  NamesResolve
  ResultIsTheHandlers
  PanicsOnlyUnprepared
PROPERTY ServedCallIsAnswered
CHECK_DEADLOCK FALSE
