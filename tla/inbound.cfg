SPECIFICATION FairSpec
CONSTANTS
  MaxMessages = 2
  Keyword = {1}
  Media = {2}
  Redelivered = {1}
  MaxDeliveries = 2
  MaxFresh = 1
  MaxRetry = 1
  MaxFaults = 2
  MaxTakeovers = 2
CHECK_DEADLOCK FALSE
INVARIANTS TypeOK ClaimNeverOrphaned WaitingIsCovered
PROPERTIES ClaimedIsAttended KeywordReachesHuman
