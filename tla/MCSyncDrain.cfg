SPECIFICATION FairSpec
CONSTANTS
  u1 = u1
  u2 = u2
  a1 = a1
  Updates <- OneUpdate
  AwarenessUpdates <- OneAwareness
  MaximumPayloadSize = 2
  DisableMergeMessage = FALSE
  BatchLimit = 1
  OfflineUpdates <- NoEdits
  Faults <- AllButStopping
  MaxDisruptions = 1
  PromptNetwork = TRUE
PROPERTY EventuallyDrained
PROPERTY SubscribedServerKeeps
