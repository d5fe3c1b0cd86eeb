CONSTANTS
  NONE = NONE
  Reqs = {r1, r2, r3}
  Keys = {k1}
  Versions = {"http1", "http2"}
  Alpn = {TRUE, FALSE}
SPECIFICATION Spec
SYMMETRY Symmetry
CHECK_DEADLOCK FALSE
INVARIANTS
  TypeOK
  OneOwner
  ExclusiveHttp1
  ConnectingIsAttempted
  OneSender
PROPERTIES
  OpenIsNeverLost
  PushServesAll
  Lends
