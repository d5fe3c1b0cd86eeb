CONSTANTS
  Conns = {c1, c2, c3}
  Graceful = {TRUE, FALSE}
SPECIFICATION FairSpec
CHECK_DEADLOCK FALSE
INVARIANTS
  TypeOK
  Handover
  StopsForSignal
PROPERTIES
  Drained
  ExchangeNotCut
  SignalStops
  Drains
