SPECIFICATION Spec
CONSTANTS
  Order = {o1, o2}
  Conversation = {c1}
  ConvOf <- OneConversation
  Product = {p1, p2}
  Items <- UnitItems
  InitStock <- ScarceStock
  ExtraRef = {x1, x2}
  Total <- SameTotal
  Amount <- ExtraAmounts
  Scope <- FullScope
  Kinds <- PhoneKinds
  PatchStatuses = {"CONFIRMED", "SHIPPED"}
  Takeover = TRUE
  MaxRetry = 0
  MaxCrashes = 0
  NoOrder = NoOrder
  NoTurn = NoTurn
SYMMETRY OrderSymmetry
CHECK_DEADLOCK FALSE
INVARIANTS TypeOK InvoicingHasOrder
PROPERTIES StockIsLedger
