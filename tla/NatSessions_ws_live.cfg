SPECIFICATION LiveSpec
CONSTANTS
  Nodes = {n1}
  Networks = {w1}
  Sessions = {s1, s2}
  NoNode = NoNode
  NoSession = NoSession
  Transports = {FALSE}
  Timely = TRUE
  Timeout = 2
  MaxInbox = 1
PROPERTY NodeForgotten
PROPERTY ConnectedIsReachable
