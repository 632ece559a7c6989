SPECIFICATION FairSpec
CONSTANTS
  u1 = u1
  u2 = u2
  a1 = a1
  Updates <- TwoUpdates
  AwarenessUpdates <- NoEdits
  MaximumPayloadSize = 2
  DisableMergeMessage = TRUE
  BatchLimit = 1
  OfflineUpdates <- OneUpdate
  Faults <- Survivable
  MaxDisruptions = 2
  PromptNetwork = TRUE
INVARIANT IdsIssuedOnce
INVARIANT NoLostUpdate
INVARIANT ConnectedResumes
PROPERTY ImplementsDocument
PROPERTY EventuallySynced
PROPERTY EventuallyFinished
