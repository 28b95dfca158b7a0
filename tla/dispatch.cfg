SPECIFICATION FairSpec
CONSTANTS
  Event = {e1, e2, e3}
  Time = {1, 2, 3}
  NumSubs = 2
  Replica = {r1, r2}
  MaxAttempts = 2
  BatchSize = 2
  MaxCrashes = 1
  NoReplica = NoReplica
CHECK_DEADLOCK FALSE
INVARIANTS TypeOK PublishedReachedAll DuplicatesNeedFailure
PROPERTIES EveryEventSettles
