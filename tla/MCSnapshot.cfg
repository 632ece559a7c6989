SPECIFICATION FairSpec
CONSTANTS
  o1 = o1
  q1 = q1
  Runner = Runner
  None = None
  Limit = 2
  ChannelSize = 2
  MaxVersion = 4
  Undecodable = {2}
  MaxFaults = 2
  Objects <- OneObject
  Requests <- OneRequest
  Faults = {"busy", "noTx", "abort", "insert", "remove", "expire"}
INVARIANT TypeOK
INVARIANT NothingStranded
INVARIANT WrittenOnce
INVARIANT LimitNearlyKept
PROPERTY KeepsEnough
PROPERTY QueuedIsWritten
