CONSTANTS
  NONE = NONE
  Reqs = {r1, r2}
  Keys = {k1}
  Versions = {"http2"}
  Alpn = {FALSE}
SPECIFICATION FairSpec
CHECK_DEADLOCK FALSE
PROPERTY
  WaiterNotStranded
