\* One attempt of two clients over a lossy, duplicating, reordering network.
SPECIFICATION FairSpec
CONSTANTS
  Nodes <- TwoNodes
  None = None
  Dials <- NoDials
  HasRelay = TRUE
  Lossy = TRUE
  MaxSignals = 1
  MaxPackets = 1
  MaxReconnects = 0
INVARIANTS TypeOK PeerReadyFirst PacketsReadable
PROPERTY Converges
CHECK_DEADLOCK FALSE
