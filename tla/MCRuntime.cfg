SPECIFICATION Spec
CONSTANTS
  order = order
  auth = auth
  capt = capt
  refd = refd
  d1 = d1
  d2 = d2
  d3 = d3
  d4 = d4
  Deliveries = {d1, d2, d3, d4}
  Events = {auth, capt, refd}
  Subjects = {order}
  Workers = {w1, w2}
  EventOf <- MCEventOf
  Genuine = {d1, d2, d3, d4}
  TypeOf <- MCTypeOf
  SubjectOf <- MCSubjectOf
  Handled <- MCHandled
  Expected = "payment.captured"
  MaxAttempts = 1
  MaxCrashes = 1
  None = None
SYMMETRY Symmetry
INVARIANTS TypeOK Exclusive AckedIsDurable RankIsHighest StaleIsOutranked FulfilledByEvent NoStall
PROPERTIES ImplementsContract
\* Once every event is settled or parked nothing is left to do.
CHECK_DEADLOCK FALSE
