CONSTANTS
  NONE = NONE
  Reqs = {r1, r2, r3}
  Keys = {k1}
  Versions = {"http1"}
  Alpn = {FALSE}
SPECIFICATION Spec
SYMMETRY Symmetry
CHECK_DEADLOCK FALSE
INVARIANT
  LockNeverStuck
