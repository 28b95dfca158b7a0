SPECIFICATION Spec
CONSTANTS
  Order = {o1}
  MaxDeliveries = 2
  MaxPatches = 0
  PatchStatuses = {}
  MaxFaults = 1
  MaxRefusals = 1
CHECK_DEADLOCK FALSE
INVARIANTS TypeOK RemindersExplained CancelledUnsent ExpiredAfterFinal AllThreeScheduled
