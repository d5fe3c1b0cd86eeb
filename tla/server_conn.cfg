CONSTANTS
  Bytes <- MCBytes
  Prefix <- MCPrefix
  Streams <- MCStreams
  BufSizes <- MCBufSizes
  Reqs = {r1, r2}
  Names = {n1, n2}
  NONE = NONE
SPECIFICATION ServerFairSpec
CHECK_DEADLOCK FALSE
INVARIANTS
  ServerTypeOK
  NoByteLost
  Http2OnlyOnPreface
  InfoArrives
  SniMatches
PROPERTIES
  AllDelivered
  RequestsPass
