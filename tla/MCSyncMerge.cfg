SPECIFICATION Spec
CONSTANTS
  u1 = u1
  u2 = u2
  a1 = a1
  Updates <- TwoUpdates
  AwarenessUpdates <- NoEdits
  MaximumPayloadSize = 2
  DisableMergeMessage = FALSE
  BatchLimit = 1
  OfflineUpdates <- NoEdits
  Faults = {}
  MaxDisruptions = 0
  PromptNetwork = FALSE
SYMMETRY Symmetry
INVARIANT NothingVanishes
