\* Three clients join one network: each is signalled to every other.
SPECIFICATION Spec
CONSTANTS
  Nodes <- ThreeNodes
  None = None
  Dials <- NoDials
  HasRelay = FALSE
  Lossy = FALSE
  MaxSignals = 3
  MaxPackets = 0
  MaxReconnects = 0
INVARIANT KeysAgree
CHECK_DEADLOCK FALSE
