CONSTANTS
  Bytes <- MCBytes
  Prefix <- MCPrefix
  Streams <- MCStreams
  BufSizes <- MCBufSizes
SPECIFICATION Spec
CHECK_DEADLOCK FALSE
INVARIANT
  PrefaceIsDetected
