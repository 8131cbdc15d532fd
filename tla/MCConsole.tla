------------------------------ MODULE MCConsole ------------------------------
(***************************************************************************)
(* The parts of the console and of the command line, for TLC.  They share  *)
(* no state with each other in one behaviour: which one runs is chosen at  *)
(* the start, and the other parts' variables keep their initial values.    *)
(* The approvals are extended, the other parts are instances; all of them  *)
(* declare their own variables, which this module declares again.          *)
(***************************************************************************)
EXTENDS Approvals

CONSTANTS
  Parts,  \* those to be checked
  Calls, MaxCrashes, MaxStops,
  Modes, MaxRestarts, MaxArmings, MaxDeaths, MaxReboots,
  MaxStarts, MaxBad,
  Databases, Setups, EnvKeys, EnvExpected,
  MaxChecks, MaxTroubles,
  Versions, Good, Original, Rounds, MaxRuns,
  Schemas, MaxOutages, MaxSecrets,
  From, To, Chunk, ColdStart, Overlap, SettleTime, MaxFailures,
  Delivered

VARIABLES
  part,  \* the part that runs
  child, process, torn, cut, ready, promise, nextId, waiting, asked, written, call,
  alive, crashes, stops,
  mode, merchant, stopping, restarts, saved, arming, merchants, overseen, port,
  warned, deaths, reboots,
  kept, running, start, handle, beginner, watchdog, stamped, idle, bad,
  row, connect, loops, setup, ownOpen,
  kind, secret, rows, level, seen, queue, watched, acked, script, note, report, trouble, checks,
  file, backup, fix, target, orphan, runs,
  schema, happened, hook, env, up, entry, bare, standing, shop, listed,
  secrets, outages,
  paid, local, requeued, cursor, finished, failures,
  upsert, unique, docs, delivery, reached, locked, died

T == INSTANCE ToolClient
A == INSTANCE Arming
L == INSTANCE LoopTimers
O == INSTANCE Onboarding
H == INSTANCE Audit
R == INSTANCE Repair
S == INSTANCE Standalone
B == INSTANCE Backfill
M == INSTANCE Mongo

ASSUME ConsoleAssumption ==
  /\ T!ToolClientAssumption /\ A!ArmingAssumption /\ L!LoopTimersAssumption
  /\ O!OnboardingAssumption /\ H!AuditAssumption /\ R!RepairAssumption
  /\ S!StandaloneAssumption /\ B!BackfillAssumption /\ M!MongoAssumption

toolsVars == <<child, process, torn, cut, ready, promise, nextId, waiting, asked, written, call,
               alive, crashes, stops>>
armingVars == <<mode, merchant, stopping, restarts, saved, arming, merchants, overseen, port,
                warned, deaths, reboots>>
timersVars == <<kept, running, start, handle, beginner, watchdog, stamped, idle, bad>>
onboardingVars == <<row, connect, loops, setup, ownOpen>>
auditVars == <<kind, secret, rows, level, seen, queue, watched, acked, script, note, report,
               trouble, checks>>
repairVars == <<file, backup, fix, target, orphan, runs>>
standaloneVars == <<schema, happened, hook, env, up, entry, bare, standing, shop, listed, secrets, outages>>
backfillVars == <<paid, local, requeued, cursor, finished, failures>>
mongoVars == <<upsert, unique, docs, delivery, reached, locked, died>>
allVars == <<part, vars, toolsVars, armingVars, timersVars, onboardingVars, auditVars, repairVars,
             standaloneVars, backfillVars, mongoVars>>
-----------------------------------------------------------------------------
(* The parts that do not run start in one state only. *)
ConsoleInit ==
  /\ part \in Parts
  /\ IF part = "timers" THEN TRUE ELSE beginner = [s \in 1..MaxStarts |-> "boot"]
  /\ IF part = "audit" THEN TRUE ELSE kind = "correct" /\ secret = TRUE
  /\ IF part = "standalone" THEN TRUE ELSE schema = CHOOSE s \in Schemas : TRUE
  /\ IF part = "backfill" THEN TRUE ELSE paid = [p \in Payments |-> From] /\ local = {}
  /\ IF part = "mongo" THEN TRUE ELSE upsert = TRUE /\ unique = TRUE /\ docs = <<>>
  /\ Init /\ T!Init /\ A!Init /\ L!Init /\ O!Init /\ H!Init /\ R!Init /\ S!Init /\ B!Init
  /\ M!Init

\* every part but p stays as it is
Others(p) ==
  /\ part = p /\ part' = part
  /\ IF p = "approvals" THEN TRUE ELSE UNCHANGED vars
  /\ IF p = "tools" THEN TRUE ELSE UNCHANGED toolsVars
  /\ IF p = "arming" THEN TRUE ELSE UNCHANGED armingVars
  /\ IF p = "timers" THEN TRUE ELSE UNCHANGED timersVars
  /\ IF p = "onboarding" THEN TRUE ELSE UNCHANGED onboardingVars
  /\ IF p = "audit" THEN TRUE ELSE UNCHANGED auditVars
  /\ IF p = "repair" THEN TRUE ELSE UNCHANGED repairVars
  /\ IF p = "standalone" THEN TRUE ELSE UNCHANGED standaloneVars
  /\ IF p = "backfill" THEN TRUE ELSE UNCHANGED backfillVars
  /\ IF p = "mongo" THEN TRUE ELSE UNCHANGED mongoVars

ConsoleNext ==
  \/ Others("approvals") /\ Next
  \/ Others("tools") /\ T!Next
  \/ Others("arming") /\ A!Next
  \/ Others("timers") /\ L!Next
  \/ Others("onboarding") /\ O!Next
  \/ Others("audit") /\ H!Next
  \/ Others("repair") /\ R!Next
  \/ Others("standalone") /\ S!Next
  \/ Others("backfill") /\ B!Next
  \/ Others("mongo") /\ M!Next

(* The fairness of the parts that state one, for the part that runs. *)
ConsoleFairness ==
  /\ \A c \in Calls :
       /\ WF_toolsVars(part = "tools" /\ T!Request(c))
       /\ WF_toolsVars(part = "tools" /\ T!Refused(c))
  /\ \A i \in T!Ids : WF_toolsVars(part = "tools" /\ T!TimeOut(i))
  /\ \A s \in L!Starts : WF_timersVars(part = "timers" /\ L!PassEnds(s))
  /\ WF_timersVars(part = "timers" /\ L!Beat)
  /\ WF_timersVars(part = "timers" /\ L!Watchdog)
  /\ WF_standaloneVars(part = "standalone" /\ S!Start)
  /\ WF_standaloneVars(part = "standalone" /\ S!Pass)
  /\ WF_standaloneVars(part = "standalone" /\ \E i \in S!Ids : S!Process(i) \/ S!Park(i))

ConsoleSpec == ConsoleInit /\ [][ConsoleNext]_allVars /\ ConsoleFairness
-----------------------------------------------------------------------------
(* An orders table with a status and a counter, which localOrderIds tests; and one
   with an amount, where it can test nothing and is given no --orders, and with a
   column that keeps the mapping from inserting. *)
MCSchemas ==
  LET all == {"failed", "authorized", "captured", "order_paid", "refunded"}
  IN  {[status |-> TRUE, adds |-> TRUE, counted |-> TRUE, null |-> {},
        inserts |-> all, own |-> all, orders |-> TRUE, url |-> FALSE],
       [status |-> FALSE, adds |-> TRUE, counted |-> FALSE, null |-> {},
        inserts |-> {}, own |-> all, orders |-> FALSE, url |-> TRUE]}

(* The parts' properties, stated where they are defined. *)

\* ToolClient: a call gets the answer of the child it was written to
AnswerIsOwn == T!AnswerIsOwn
\* ToolClient: a call is answered or fails
EveryCallSettles == T!EveryCallSettles
\* Arming: a console that says it is armed has somebody on the port, or coming
ClaimIsBacked == A!ClaimIsBacked
\* LoopTimers: loops that went quiet are brought back
WatchdogRevives == L!WatchdogRevives
\* Onboarding: loops that cannot check an amount ask before every repair
UnverifiableIsAsked == O!UnverifiableIsAsked
\* Audit: what the health check says of the three integrations is so
VerdictsAreRight == H!VerdictsAreRight
\* Audit: a tool that reads leaves what it read (violated)
ReadToolsOnlyRead == H!ReadToolsOnlyRead
\* Repair: the merchant's file can be had back
NothingIsLost == R!NothingIsLost
\* Standalone: a captured payment ends up settled
CapturedIsSettled == S!CapturedIsSettled
\* Backfill: exit code 0 means that the whole span was asked about
BackfillCovers == B!BackfillCovers
\* Mongo: with a guard that holds, the payment is added once
GuardedIsOnce == M!GuardedIsOnce
\* Mongo: a retry does not repeat the effect (violated)
RetryIsNoOp == M!RetryIsNoOp
=============================================================================
