SPECIFICATION FairSpec
CONSTANTS
  o1 = o1
  o2 = o2
  p1 = p1
  p2 = p2
  Orders = {o1, o2}
  Payments = {p1, p2}
  OrderOf <- MCOrderOf
  Amount <- MCAmount
  Expected <- MCExpected
  RowsOf <- MCRowsOf
  Merchant <- MCMerchant
  Fresh = {"created", "unpaid"}
  Leaving = {p1}
  Late = {o2}
  Passes = {w1}
  MaxFaults = 0
  None = None
INVARIANTS CreditedOnce
PROPERTIES SettledOrTold
\* Once nothing is captured and nothing is open the passes have nothing to do.
CHECK_DEADLOCK FALSE
