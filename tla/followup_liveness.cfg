SPECIFICATION FairSpec
CONSTANTS
  Order = {o1}
  MaxDeliveries = 1
  MaxPatches = 1
  PatchStatuses = {"DELIVERED", "CONFIRMED"}
  MaxFaults = 1
  MaxRefusals = 0
CHECK_DEADLOCK FALSE
PROPERTIES UnpaidExpires NoRowForgotten
