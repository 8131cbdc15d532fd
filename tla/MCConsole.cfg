SPECIFICATION ConsoleSpec
CONSTANTS
  None = None
  Parts = {"approvals", "tools", "arming", "timers", "onboarding", "audit", "repair", "standalone", "backfill", "mongo"}
  Payments = {p1, p2}
  Tokens = {t1}
  Requests = {q1, q2}
  Calls = {c1, c2}
  MaxCrashes = 1
  MaxStops = 1
  Modes = {protected}
  MaxRestarts = 1
  MaxArmings = 3
  MaxDeaths = 1
  MaxReboots = 1
  MaxStarts = 3
  MaxBad = 2
  Databases = {shop}
  Setups = {s1}
  EnvKeys = TRUE
  EnvExpected = FALSE
  MaxChecks = 2
  MaxTroubles = 1
  Versions = {v0, v1, v2}
  Good = {v2}
  Original = v0
  Rounds = 2
  MaxRuns = 2
  Schemas <- MCSchemas
  MaxOutages = 1
  MaxSecrets = 1
  From = 0
  To = 8
  Chunk = 3
  ColdStart = 3
  Overlap = 1
  SettleTime = 1
  MaxFailures = 2
  Delivered = {"failed", "captured", "refunded"}
INVARIANTS
  AnswerIsOwn
  ClaimIsBacked
  UnverifiableIsAsked
  RecoveryCreditsOnce
  VerdictsAreRight
  NothingIsLost
  BackfillCovers
  GuardedIsOnce
PROPERTIES
  EveryCallSettles
  WatchdogRevives
  CapturedIsSettled
CHECK_DEADLOCK FALSE
