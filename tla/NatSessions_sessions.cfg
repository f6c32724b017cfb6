SPECIFICATION Spec
CONSTANTS
  Nodes = {n1, n2}
  Networks = {w1}
  Sessions = {s1, s2}
  NoNode = NoNode
  NoSession = NoSession
  Transports = {TRUE, FALSE}
  Timely = FALSE
  Timeout = 1
  MaxInbox = 1
SYMMETRY Symmetry
INVARIANT TypeOK
INVARIANT OnlineIffRegistered
INVARIANT CurrentIsGenuine
INVARIANT RegisteredIsDbOnline
INVARIANT PeerListExact
PROPERTY LiveSessionKept
PROPERTY ImplementsPresence
