SPECIFICATION FairSpec
CONSTANTS
  Order = {o1, o2}
  Deliveries <- OneTwice
  MaxFaults = 1
CHECK_DEADLOCK FALSE
INVARIANTS TypeOK OneInvoice StatsNeverOver
PROPERTIES LinkDelivered
