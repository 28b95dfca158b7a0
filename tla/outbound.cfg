SPECIFICATION FairSpec
CONSTANTS
  MaxMsg = 2
  Reply = {1}
  MaxRetry = 1
  MaxCrashes = 1
  MaxRejects = 2
  MaxTimeouts = 1
  MaxLost = 1
  MaxCancels = 1
  Window = 1
  NoOne = NoOne
CHECK_DEADLOCK FALSE
INVARIANTS TypeOK DuplicatesExplained FailedUndelivered InOrder
PROPERTIES SettlesUnlessArchived
