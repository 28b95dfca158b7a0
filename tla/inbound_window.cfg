SPECIFICATION FairSpec
CONSTANTS
  MaxMessages = 2
  Keyword = {}
  Media = {}
  Redelivered = {}
  MaxDeliveries = 1
  MaxFresh = 1
  MaxRetry = 1
  MaxFaults = 0
  MaxTakeovers = 0
CHECK_DEADLOCK FALSE
PROPERTIES EveryMessageSeen
