------------------------------ MODULE Onboarding ------------------------------
(***************************************************************************)
(* The setup of src/web/server.js: POST /api/ray/setup, the conversation   *)
(* (/api/ray/act), the older connect routes, the answers, the reset, and   *)
(* the boot of src/web-command.js.                                         *)
(*                                                                         *)
(* No request waits for another.  Several setups run at once, and any      *)
(* answer may be given at any time: nextStep of src/web/ray.js only tells  *)
(* the page what to ask, the server does not look at it.  A pool is known  *)
(* by who opened it: a setup that runs, something else ("other"), or the   *)
(* console itself ("own"), whose pool holds the row of raze_setup.         *)
(*                                                                         *)
(* Kept is what decides whether the loops repair unattended.  The columns' *)
(* names, CONNECT.chosen with the statement made from it, the tools' file  *)
(* and the webhook's secret are left out.                                  *)
(***************************************************************************)
CONSTANTS
  Databases,   \* merchants' databases
  Setups,      \* those that may run at the same time
  EnvKeys,     \* the deployment has Razorpay keys of its own
  EnvExpected, \* ... and names an expected column: RAZE_EXPECTED_COLUMN
  None

OnboardingAssumption ==
  /\ None \notin Databases
  /\ {EnvKeys, EnvExpected} \subseteq BOOLEAN
  /\ Setups \cap {"none", "own", "other"} = {}

VARIABLES
  row,     \* raze_setup: the columns a boot reads
  connect, \* CONNECT.merchantPool, by who opened it, and CONNECT.databaseUrl
  loops,   \* S.loops: whether there is an expected column, and escalateOnly; or None
  setup,   \* setup[s]: the step it is at, its database, whether its pool is open, and
           \* whether it has an expected column
  ownOpen  \* the console's own pool has not been ended

vars == <<row, connect, loops, setup, ownOpen>>

NoRow == [confirmed |-> FALSE, expected |-> FALSE, escalate |-> None, db |-> None,
          backfill |-> FALSE]
Forgotten == [pool |-> "none", url |-> None]
Off == [at |-> "off", db |-> None, open |-> FALSE, expected |-> FALSE]

Rows == [confirmed : BOOLEAN, expected : BOOLEAN, escalate : BOOLEAN \cup {None},
         db : Databases \cup {None}, backfill : BOOLEAN]
Connections == [pool : {"none", "own", "other"} \cup Setups, url : Databases \cup {None}]
Loops == [expected : BOOLEAN, escalate : BOOLEAN]
Progress == [at : {"off", "db", "mapping", "backfill", "watch"},
             db : Databases \cup {None}, open : BOOLEAN, expected : BOOLEAN]

TypeOK ==
  /\ row \in Rows
  /\ connect \in Connections
  /\ loops \in Loops \cup {None}
  /\ setup \in [Setups -> Progress]
  /\ ownOpen \in BOOLEAN

Init ==
  /\ row = NoRow /\ connect = Forgotten /\ loops = None
  /\ setup = [s \in Setups |-> Off]
  /\ ownOpen = TRUE
-----------------------------------------------------------------------------
(* A faulty variant of a definition below. *)

\* a boot believes the merchant's answer alone
BootEscalates_answerOnly == row.escalate = TRUE
-----------------------------------------------------------------------------
At(s, step) == setup[s].at = step

(* saveSetup writes through the console's own pool. *)
Save(newRow) == ownOpen /\ row' = newRow

(* CONNECT.merchantPool || pool can be asked: one that is ended is replaced at once. *)
TargetOpen == connect.pool \in {"none", "own"} => ownOpen

(* A pool takes the place of CONNECT's.  That one is ended, the console's own too if
   a boot had put it there; when two requests connect at once both end an older one,
   and the one replaced here stays open. *)
Replace(pool, db, setups) ==
  /\ connect' = [pool |-> pool, url |-> db]
  /\ \E ends \in BOOLEAN :
       /\ ownOpen' = (ownOpen /\ ~(ends /\ connect.pool = "own"))
       /\ setup' = [s \in Setups |->
            IF ends /\ connect.pool = s THEN [setups[s] EXCEPT !.open = FALSE] ELSE setups[s]]

(* A setup is over; CONNECT may keep its pool. *)
Over(s) ==
  /\ setup' = [setup EXCEPT ![s] = Off]
  /\ connect' = IF connect.pool = s THEN [connect EXCEPT !.pool = "other"] ELSE connect

(* POST /api/ray/setup answers at once and goes on by itself: 1. the account. *)
Begin(s, db) ==
  /\ setup[s] = Off
  /\ setup' = [setup EXCEPT ![s] = [Off EXCEPT !.at = "db", !.db = db]]
  /\ UNCHANGED <<row, connect, loops, ownOpen>>

(* Any step may throw, or find nothing to go on with: the setup ends there. *)
Fail(s) ==
  /\ setup[s] # Off /\ Over(s)
  /\ UNCHANGED <<row, loops, ownOpen>>

(* 2. the database *)
ConnectDatabase(s) ==
  /\ At(s, "db")
  /\ Replace(s, setup[s].db, [setup EXCEPT ![s].at = "mapping", ![s].open = TRUE])
  /\ UNCHANGED <<row, loops>>

(* understand() asks a model, or reads the schema: whether its claim has an expected
   column may differ from one time to the next. *)
Understood == BOOLEAN

(* 3. to 6.: the schema, the address, the webhook; then the mapping, validated on this
   setup's pool.  Whether to ask is decided here, whatever the merchant had said. *)
ArmMapping(s, expected) ==
  /\ At(s, "mapping") /\ setup[s].open
  /\ Save([row EXCEPT !.confirmed = TRUE, !.expected = expected, !.escalate = ~expected,
                      !.db = setup[s].db])
  /\ setup' = [setup EXCEPT ![s].at = "backfill", ![s].expected = expected]
  /\ UNCHANGED <<connect, loops, ownOpen>>

(* 7. the number *)
Backfill(s) ==
  /\ At(s, "backfill") /\ setup[s].open
  /\ Save([row EXCEPT !.backfill = TRUE])
  /\ setup' = [setup EXCEPT ![s].at = "watch"]
  /\ UNCHANGED <<connect, loops, ownOpen>>

(* 8. new loops in place of the old, for the schema this setup understood *)
Watch(s) ==
  /\ At(s, "watch") /\ setup[s].open
  /\ loops' = [expected |-> setup[s].expected, escalate |-> ~setup[s].expected]
  /\ Over(s)
  /\ UNCHANGED <<row, ownOpen>>
-----------------------------------------------------------------------------
(* Requests, at any time. *)

(* The conversation's database, and POST /api/connect/database. *)
ConnectRequest(db) ==
  /\ Replace("other", db, setup)
  /\ UNCHANGED <<row, loops>>

(* The conversation's mapping: the escalate_only of before stays. *)
ActMapping(expected) ==
  /\ TargetOpen
  /\ Save([row EXCEPT !.confirmed = TRUE, !.expected = expected, !.db = connect.url])
  /\ UNCHANGED <<connect, loops, setup, ownOpen>>

(* POST /api/connect/manual-mapping records its columns in memory only. *)
ManualMapping(expected) ==
  /\ TargetOpen
  /\ Save([row EXCEPT !.confirmed = TRUE, !.expected = expected, !.escalate = ~expected])
  /\ UNCHANGED <<connect, loops, setup, ownOpen>>

(* POST /api/setup/answers takes any of three answers, and so does the conversation's
   sideEffects; nobody checks the column named.  Only the row learns of them. *)
Answer(escalate, expected, confirmed) ==
  /\ Save([row EXCEPT !.expected = expected, !.confirmed = confirmed,
                      !.escalate = escalate])
  /\ UNCHANGED <<connect, loops, setup, ownOpen>>

Answers ==
  \/ \E yes \in BOOLEAN : Answer(yes, row.expected, row.confirmed)
  \/ \E yes \in BOOLEAN : Answer(row.escalate, row.expected, yes)
  \/ Answer(row.escalate, TRUE, row.confirmed)
  \/ Answer(TRUE, FALSE, row.confirmed)

(* The conversation's number counts on the connected pool, POST /api/setup/backfill on
   the console's own. *)
BackfillRequest ==
  /\ Save([row EXCEPT !.backfill = TRUE])
  /\ UNCHANGED <<connect, loops, setup, ownOpen>>

(* POST /api/ray/reset: the one place that spares the console's own pool. *)
Reset ==
  /\ loops' = None /\ connect' = Forgotten
  /\ row' = IF ownOpen THEN NoRow ELSE row
  /\ setup' = [s \in Setups |->
       IF connect.pool = s THEN [setup[s] EXCEPT !.open = FALSE] ELSE setup[s]]
  /\ UNCHANGED <<ownOpen>>
-----------------------------------------------------------------------------
(* The console starts again, from the row and the environment. *)
Ready == row.backfill /\ row.confirmed /\ EnvKeys
BootEscalates == row.escalate = TRUE \/ ~row.expected

Boot ==
  /\ ownOpen' = TRUE
  /\ setup' = [s \in Setups |-> Off]
  /\ IF Ready
     THEN /\ loops' = [expected |-> row.expected \/ EnvExpected, escalate |-> BootEscalates]
          /\ connect' = [pool |-> IF row.db = None THEN "own" ELSE "other", url |-> row.db]
     ELSE connect' = Forgotten /\ loops' = None
  /\ UNCHANGED row

Next ==
  \/ \E s \in Setups :
       \/ \E db \in Databases : Begin(s, db)
       \/ Fail(s) \/ ConnectDatabase(s) \/ Backfill(s) \/ Watch(s)
       \/ \E expected \in Understood : ArmMapping(s, expected)
  \/ \E db \in Databases : ConnectRequest(db)
  \/ \E b \in BOOLEAN : ActMapping(b) \/ ManualMapping(b)
  \/ Answers \/ BackfillRequest \/ Reset \/ Boot

Spec == Init /\ [][Next]_vars
-----------------------------------------------------------------------------
(* Loops that cannot check an amount never repair by themselves, whichever way the
   mapping, the answers and the restart came about: "there would be nothing to
   check against". *)
UnverifiableIsAsked == loops # None /\ ~loops.expected => loops.escalate
=============================================================================
