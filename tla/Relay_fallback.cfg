\* Two clients over a lossy network, a relay that restarts once, clients that
\* punch again or start anew in the same or the other network.
SPECIFICATION Spec
SYMMETRY MCSymmetry
CONSTANTS
  a = a
  b = b
  home1 = home1
  home2 = home2
  none = none
  Nodes <- MCNodes
  Networks <- MCNetworks
  None <- none
  Beat = 2
  Punch = 1
  Timeout = 6
  Interval = 2
  MaxSockets = 2
  MaxRestarts = 1
INVARIANTS TypeOK RegisteredIsReachable SilentForgotten NetworksApart
PROPERTY KeptWhileHeard
