SPECIFICATION FairSpec
CONSTANTS
  order = order
  auth = auth
  refd = refd
  ping = ping
  d1 = d1
  d2 = d2
  d3 = d3
  d4 = d4
  Deliveries = {d1, d2, d3, d4}
  Events = {auth, refd, ping}
  Subjects = {order}
  Workers = {w1}
  EventOf <- MCEventOf
  Genuine = {d1, d2, d3}
  TypeOf <- MCTypeOf
  SubjectOf <- MCSubjectOf
  Handled <- MCHandled
  Expected = "refund.created"
  MaxAttempts = 3
  MaxCrashes = 1
  None = None
INVARIANTS NeverRegress AttentionIsUnprocessed
PROPERTIES ImplementsFairContract
\* Once every event is settled or parked nothing is left to do.
CHECK_DEADLOCK FALSE
