SPECIFICATION FairSpec
CONSTANTS
  d1 = d1
  o1 = o1
  None = None
  Devices <- OneDevice
  Objects <- OneObject
  MaxSeconds = 1
  MaxSessions = 3
  MaxRunners = 2
  MaxCommands = 1
PROPERTY ImplementsSessions
INVARIANT OneStreamPerDevice
INVARIANT OpenIsServed
INVARIANT NoGhostSubscriber
INVARIANT StreamsEnd
PROPERTY GroupsBecomeInactive
CHECK_DEADLOCK FALSE
