SPECIFICATION FairSpec
CONSTANTS
  d1 = d1
  o1 = o1
  None = None
  Devices <- OneDevice
  Objects <- OneObject
  MaxSeconds = 0
  MaxSessions = 1
  MaxRunners = 1
  MaxCommands = 1
PROPERTY DisconnectedLeave
CHECK_DEADLOCK FALSE
