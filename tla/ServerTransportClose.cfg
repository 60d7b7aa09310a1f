\* One writer suffices: its message leaves a deadline behind.
SPECIFICATION Spec
CONSTANT Writers = {w1}
INVARIANT CloseClosesConnection
CHECK_DEADLOCK FALSE
