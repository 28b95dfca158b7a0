SPECIFICATION FairSpec
CONSTANTS
  Order = {o1, o2}
  Conversation = {c1}
  ConvOf <- OneConversation
  Product = {p1}
  Items <- UnitItems
  InitStock <- StockForTwo
  ExtraRef = {}
  Total <- SameTotal
  Amount <- SameAmount
  Scope <- FullScope
  Kinds <- OneChargeKinds
  PatchStatuses = {}
  Takeover = FALSE
  MaxRetry = 1
  MaxCrashes = 2
  NoOrder = NoOrder
  NoTurn = NoTurn
CHECK_DEADLOCK FALSE
PROPERTIES CancelledStockReturns InvoicingLeaves SuccessSettles
