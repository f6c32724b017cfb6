\* Any number of runs of the process, each with two events.
SPECIFICATION Spec
CONSTANTS
  None = None
  Messages <- MCMessages
  Configs <- MCConfigs
  MaxEvents = 2
INVARIANTS TypeOK SentInOrder HeartbeatArmed Startable
PROPERTIES QueueDrains StopsClean StopReturns EndNoticed ModeShown
CHECK_DEADLOCK FALSE
