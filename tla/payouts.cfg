SPECIFICATION Spec
CONSTANTS
  b1 = b1
  b2 = b2
  r1 = r1
  r2 = r2
  r3 = r3
  a1 = a1
  a2 = a2
  a3 = a3
  Business = {b1, b2}
  Request = {r1, r2, r3}
  BizOf <- TwoBusinesses
  Mills <- EdgeAmounts
  Account = {a1, a2, a3}
  AccountOf <- OwnAccounts
  MaxRevenue = 2
  MaxFaults = 2
  NoAccount = NoAccount
  NoRequest = NoRequest
CHECK_DEADLOCK FALSE
INVARIANTS TypeOK NeverOverdrawn MoneyOutCovered ReservationsExplained PaidWithinBusiness
