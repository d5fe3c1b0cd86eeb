CONSTANTS
  p1 = p1
  p2 = p2
  p3 = p3
  Procs = {p1, p2, p3}
  Pids = {n1, n2, n3}
  Mute <- MCMute
  ABSENT = ABSENT
  INVALID = INVALID
  NONE = NONE
SPECIFICATION FairSpec
CHECK_DEADLOCK FALSE
INVARIANTS
  OneHolder
PROPERTIES
  Recovers
