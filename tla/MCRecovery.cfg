SPECIFICATION Spec
CONSTANTS
  o1 = o1
  o2 = o2
  p1 = p1
  p2 = p2
  Orders = {o1}
  Payments = {p1, p2}
  OrderOf <- MCOneOrder
  Amount <- MCAmount
  Expected <- MCExpected
  RowsOf <- MCRowsOf
  Merchant <- MCMerchant
  Fresh = {"created"}
  Leaving = {p1}
  Late = {}
  Passes = {w1, w2}
  MaxFaults = 1
  None = None
SYMMETRY Symmetry
INVARIANTS CreditIsVetted CreditIsSum RecoveredHasLanded
PROPERTIES RefundStands
\* Once nothing is captured and nothing is open the passes have nothing to do.
CHECK_DEADLOCK FALSE
