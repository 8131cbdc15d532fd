SPECIFICATION Spec
CONSTANTS
  p1 = p1
  r1 = r1
  Payments = {p1}
  Refunds = {r1}
  PaymentOf <- MCPaymentOf
  ChecksRefunds = TRUE
  SettleTime = 1
  Overlap = 1
  ColdStart = 2
  CaptureTime = 2
  Passes = {i1, i2}
  MaxTime = 4
  MaxFaults = 1
  None = None
SYMMETRY Symmetry
CONSTRAINT NoGap
INVARIANTS TypeOK PaymentIsAccounted RefundIsAccounted
