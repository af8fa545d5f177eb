CONSTANTS
  Handlers = {h1, h2}
  u1 = u1
  p1 = p1
  p2 = p2
  u2 = u2
  Units = {u1, u2}
  Months = {1, 2}
  o1 = o1
  o2 = o2
  Payments = {p1, p2}
  Balances = {o1, o2}
  AsOf <- MCAsOf
  NumberOf <- MCNumberOf
  None = None
  UnitOf <- MCUnitOf
  AmountOf <- MCAmountOf
  Total <- MCTotal
  PoolSize = 2
  MaxRequests = 3
  MaxCrashes = 1
SPECIFICATION FairSpec
INVARIANT TypeOK
INVARIANT DocumentsAreInTheBooks
INVARIANT OneReceiptPerPayment
INVARIANT NumbersHaveNoGaps
INVARIANT AllocationsFit
INVARIANT OneBillPerMonth
INVARIANT CreditMeetsTheNextBill
PROPERTY EveryRequestEnds
CHECK_DEADLOCK FALSE
