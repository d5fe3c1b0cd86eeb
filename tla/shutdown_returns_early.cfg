CONSTANTS
  Conns = {c1, c2}
  Graceful = {TRUE}
SPECIFICATION Spec
CHECK_DEADLOCK FALSE
INVARIANT
  ConnectionsFinishFirst
