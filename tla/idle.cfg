CONSTANTS
  c1 = c1
  c2 = c2
  c3 = c3
  NONE = NONE
  Connections <- MCConnections
  IdleTimeouts <- MCIdleTimeouts
  MaxNow = 4
SPECIFICATION Spec
SYMMETRY Symmetry
PROPERTIES
  PopsAtOnce
