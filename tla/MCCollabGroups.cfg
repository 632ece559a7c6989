SPECIFICATION FairSpec
CONSTANTS
  owner = owner
  guest = guest
  edit = edit
  Users <- TwoUsers
  Editors <- OwnerOnly
  Updates <- OneUpdate
  Original <- NoUpdate
  Owners <- OwnerOnly
  Readers <- OwnerOnly
  Writers <- OwnerOnly
  Restorable = TRUE
  MaxGroups = 3
  MaxRunners = 2
  MaxCommands = 1
  MaxFaults = 1
INVARIANT LossExplained
PROPERTY EventuallyStored
PROPERTY SubscribedDocumentGrows
PROPERTY ImplementsDocument
