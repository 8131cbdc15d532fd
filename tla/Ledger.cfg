SPECIFICATION FairSpec
CONSTANTS
  Orders = {o1, o2}
  Sweepers = {s1, s2}
  BatchSize = 2
  HasRepair = TRUE
  MaxFaults = 1
INVARIANTS PaidInTimeIsNotLost VerdictHasEvidence RecoveredWasRepaired
PROPERTIES AbsenceIsNamed
\* Once every order is paid for and resolved nothing is left to do.
CHECK_DEADLOCK FALSE
