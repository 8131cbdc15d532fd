SPECIFICATION FairSpec
CONSTANTS
  Effects = {email, receipt, sms}
  Deliverable = {email, receipt}
  Drainers = {d1, d2}
  MaxAttempts = 2
  MaxFaults = 2
  None = None
INVARIANTS CopiesAreCounted DeliveredWasReceived
PROPERTIES DeliveredIsFinal EveryIntentEnds
\* Once every effect is delivered or out of attempts nothing is left to do.
CHECK_DEADLOCK FALSE
