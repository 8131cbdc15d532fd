SPECIFICATION Spec
CONSTANTS
  o1 = o1
  o2 = o2
  p1 = p1
  p2 = p2
  Orders = {o1, o2}
  Payments = {p1, p2}
  OrderOf <- MCOrderOf
  Amount <- MCAmount
  Expected <- MCExpected
  RowsOf <- MCRowsOf
  Merchant <- MCMerchant
  Fresh = {"created"}
  Leaving = {p1}
  Late = {}
  Passes = {w1, w2}
  MaxFaults = 0
  None = None
INVARIANT CreditedOnce
\* Once nothing is captured and nothing is open the passes have nothing to do.
CHECK_DEADLOCK FALSE
