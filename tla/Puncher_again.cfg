\* Two attempts of two clients, in either direction, with a lost control connection.
SPECIFICATION TimedSpec
CONSTANTS
  Nodes <- TwoNodes
  None = None
  Dials <- SecondDialsFirst
  HasRelay = FALSE
  Lossy = FALSE
  MaxSignals = 2
  MaxPackets = 2
  MaxReconnects = 1
INVARIANTS ModeTracksPuncher NonceOnce
PROPERTIES NeverDemoted KeyStable AttemptEnds
CHECK_DEADLOCK FALSE
