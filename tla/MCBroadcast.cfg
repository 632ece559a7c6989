SPECIFICATION FairSpec
CONSTANTS
  c1 = c1
  c2 = c2
  u1 = u1
  u2 = u2
  None = None
  Clients <- TwoClients
  Updates <- TwoUpdates
  Capacity = 1
  Trigger = 1
  MaxInitSyncs = 3
PROPERTY ImplementsDocument
INVARIANT NoUpdateMissed
PROPERTY EventuallyConverged
CHECK_DEADLOCK FALSE
