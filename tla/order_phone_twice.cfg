SPECIFICATION Spec
CONSTANTS
  Order = {o1, o2}
  Conversation = {c1}
  ConvOf <- OneConversation
  Product = {p1}
  Items <- UnitItems
  InitStock <- StockForTwo
  ExtraRef = {x1}
  Total <- SameTotal
  Amount <- SameAmount
  Scope <- FullScope
  Kinds <- SuccessKinds
  PatchStatuses = {}
  Takeover = FALSE
  MaxRetry = 1
  MaxCrashes = 1
  NoOrder = NoOrder
  NoTurn = NoTurn
SYMMETRY OrderSymmetry
CHECK_DEADLOCK FALSE
INVARIANTS PaidOrdersBacked
