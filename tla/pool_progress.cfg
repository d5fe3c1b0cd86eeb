CONSTANTS
  NONE = NONE
  Reqs = {r1, r2}
  Keys = {k1, k2}
  Versions = {"http1", "http2"}
  Alpn = {TRUE, FALSE}
SPECIFICATION FairSpec
CHECK_DEADLOCK FALSE
INVARIANT
  KeyIsolation
PROPERTIES
  RequestsEnd
  NobodyOutlivesThePool
