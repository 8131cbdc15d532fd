-------------------------------- MODULE Arming --------------------------------
(***************************************************************************)
(* src/web/server.js, armMode and its callers: the console keeps one       *)
(* merchant process running behind a fixed port, in the mode last asked    *)
(* for.  An arming is one call of armMode: a request's, a restart's or the *)
(* one after a reboot; each spawns one child, which bears its number.      *)
(* Only one process can have the port; a second one exits.                 *)
(***************************************************************************)
EXTENDS Integers

CONSTANTS
  Modes,         \* unprotected, protected, correct
  MaxRestarts,   \* restarts within a minute before giving up: 5
  MaxArmings,    \* bound: calls of armMode
  MaxDeaths,     \* bound: merchants that die by themselves
  MaxReboots,    \* bound: restarts of the console
  None

ArmingAssumption ==
  /\ Modes # {} /\ None \notin Modes /\ None \notin Int
  /\ {MaxRestarts, MaxArmings, MaxDeaths, MaxReboots} \subseteq Nat

Armings == 1..MaxArmings

VARIABLES
  mode,      \* S.mode; None is 'none'
  merchant,  \* S.merchant
  stopping,  \* S.stopping
  restarts,  \* how many entries S.restarts has
  saved,     \* raze_console_state.mode
  arming,    \* arming[a]: why it was begun, for which mode, how far it is
  merchants, \* merchants[k]: unborn, starting, alive, dying (killed), dead (no exit event yet), gone
  overseen,   \* children with the exit handler
  port,      \* the child that listens, or None
  warned,    \* a restart failed
  deaths, reboots

vars == <<mode, merchant, stopping, restarts, saved, arming, merchants, overseen, port, warned,
          deaths, reboots>>

Unused == [why |-> None, mode |-> None, pc |-> "unused"]

TypeOK ==
  /\ {mode, saved} \subseteq Modes \cup {None}
  /\ {merchant, port} \subseteq Armings \cup {None}
  /\ {stopping, warned} \subseteq BOOLEAN
  /\ restarts \in 0..MaxRestarts
  /\ arming \in [Armings -> [why : {"request", "restart", "restore", None}, mode : Modes \cup {None},
                 pc : {"unused", "timer", "settling", "polling", "remembering", "forgetting", "done"}]]
  /\ merchants \in [Armings -> {"unborn", "starting", "alive", "dying", "dead", "gone"}]
  /\ overseen \subseteq Armings

Init ==
  /\ mode = None /\ merchant = None /\ stopping = FALSE /\ restarts = 0 /\ saved = None
  /\ arming = [a \in Armings |-> Unused]
  /\ merchants = [k \in Armings |-> "unborn"] /\ overseen = {} /\ port = None
  /\ warned = FALSE /\ deaths = 0 /\ reboots = 0
-----------------------------------------------------------------------------
(* A faulty variant of the definition below. *)

\* a merchant that cannot stay up is given up without disarming
GiveUp_armed == UNCHANGED <<mode, merchant>>
-----------------------------------------------------------------------------
Next1 == CHOOSE a \in Armings : arming[a].pc = "unused"
Free == \E a \in Armings : arming[a].pc = "unused"
Killed(k) == [merchants EXCEPT ![k] = IF @ \in {"starting", "alive"} THEN "dying" ELSE @]

(* armMode up to its first await: kill the merchant and wait, or, with none, spawn. *)
ArmMode(a, why, m) ==
  IF merchant # None
  THEN /\ stopping' = TRUE /\ merchant' = None
       /\ merchants' = Killed(merchant)
       /\ arming' = [arming EXCEPT ![a] = [why |-> why, mode |-> m, pc |-> "settling"]]
  ELSE /\ stopping' = FALSE /\ UNCHANGED merchant
       /\ merchants' = [merchants EXCEPT ![a] = "starting"]
       /\ arming' = [arming EXCEPT ![a] = [why |-> why, mode |-> m, pc |-> "polling"]]

(* POST /api/arm *)
Arm(m) ==
  /\ Free
  /\ restarts' = 0
  /\ ArmMode(Next1, "request", m)
  /\ UNCHANGED <<mode, saved, overseen, port, warned, deaths, reboots>>

(* 500 ms after the kill, whether or not the old merchant is dead. *)
Spawn(a) ==
  /\ arming[a].pc = "settling"
  /\ arming' = [arming EXCEPT ![a].pc = "polling"]
  /\ stopping' = FALSE
  /\ merchants' = [merchants EXCEPT ![a] = "starting"]
  /\ UNCHANGED <<mode, merchant, restarts, saved, overseen, port, warned, deaths, reboots>>

(* The child listens, or finds the port taken and exits. *)
Listen(k) ==
  /\ merchants[k] = "starting"
  /\ IF port = None
     THEN port' = k /\ merchants' = [merchants EXCEPT ![k] = "alive"]
     ELSE UNCHANGED port /\ merchants' = [merchants EXCEPT ![k] = "dead"]
  /\ UNCHANGED <<mode, merchant, stopping, restarts, saved, arming, overseen, warned, deaths, reboots>>

(* GET /health answered, by whoever has the port. *)
Healthy(a) ==
  /\ arming[a].pc = "polling" /\ port # None
  /\ overseen' = overseen \cup {a}
  /\ merchant' = a /\ mode' = arming[a].mode
  /\ arming' = [arming EXCEPT ![a].pc = "remembering"]
  /\ UNCHANGED <<stopping, restarts, saved, merchants, port, warned, deaths, reboots>>

Remember(a) ==
  /\ arming[a].pc \in {"remembering", "forgetting"}
  /\ saved' = IF arming[a].pc = "remembering" THEN arming[a].mode ELSE None
  /\ arming' = [arming EXCEPT ![a].pc = "done"]
  /\ UNCHANGED <<mode, merchant, stopping, restarts, merchants, overseen, port, warned, deaths, reboots>>

(* 25 s without an answer: the child is killed.  A request disarms, and so does
   the restore after a reboot; a restart only warns. *)
NotStarted(a) ==
  /\ arming[a].pc = "polling" /\ port = None
  /\ merchants' = Killed(a)
  /\ mode' = IF arming[a].why = "restart" THEN mode ELSE None
  /\ warned' = (warned \/ arming[a].why = "restart")
  /\ arming' = [arming EXCEPT ![a].pc = IF arming[a].why = "request" THEN "forgetting" ELSE "done"]
  /\ UNCHANGED <<merchant, stopping, restarts, saved, overseen, port, deaths, reboots>>

(* A merchant dies, by itself or of a kill. *)
Die(k) ==
  /\ \/ merchants[k] = "dying" /\ UNCHANGED deaths
     \/ merchants[k] \in {"starting", "alive"} /\ deaths < MaxDeaths /\ deaths' = deaths + 1
  /\ merchants' = [merchants EXCEPT ![k] = "dead"]
  /\ port' = IF port = k THEN None ELSE port
  /\ UNCHANGED <<mode, merchant, stopping, restarts, saved, arming, overseen, warned, reboots>>

GiveUp == mode' = None /\ merchant' = None

(* The exit event.  Nobody listens before /health was answered; a kill that was
   asked for is ignored; else a restart in 1.5 s, or after too many the end.
   Restarts older than a minute do not count. *)
Exit(k) ==
  /\ merchants[k] = "dead"
  /\ merchants' = [merchants EXCEPT ![k] = "gone"]
  /\ IF k \notin overseen \/ stopping \/ mode = None
     THEN UNCHANGED <<mode, merchant, restarts, arming>>
     ELSE \E recent \in 0..restarts :
            IF recent = MaxRestarts
            THEN GiveUp /\ UNCHANGED <<restarts, arming>>
            ELSE /\ Free
                 /\ restarts' = recent + 1
                 /\ arming' = [arming EXCEPT ![Next1].pc = "timer", ![Next1].why = "restart"]
                 /\ UNCHANGED <<mode, merchant>>
  /\ UNCHANGED <<stopping, saved, overseen, port, warned, deaths, reboots>>

(* The restart's timer fires. *)
Restart(a) ==
  /\ arming[a].pc = "timer"
  /\ IF mode = None
     THEN arming' = [arming EXCEPT ![a].pc = "done"] /\ UNCHANGED <<merchant, stopping, merchants>>
     ELSE ArmMode(a, "restart", mode)
  /\ UNCHANGED <<mode, restarts, saved, overseen, port, warned, deaths, reboots>>

(* The console restarts with everything it had spawned, and restoreArmed puts
   back what was saved. *)
Reboot ==
  /\ reboots < MaxReboots /\ Free
  /\ reboots' = reboots + 1
  /\ mode' = None /\ merchant' = None /\ stopping' = FALSE /\ restarts' = 0 /\ port' = None
  /\ overseen' = {} /\ warned' = FALSE
  /\ LET over == [a \in Armings |-> IF arming[a].pc = "unused" THEN Unused
                                    ELSE [arming[a] EXCEPT !.pc = "done"]]
         ended == [k \in Armings |-> IF merchants[k] = "unborn" THEN "unborn" ELSE "gone"]
     IN IF saved = None
        THEN arming' = over /\ merchants' = ended
        ELSE /\ arming' = [over EXCEPT ![Next1] = [why |-> "restore", mode |-> saved, pc |-> "polling"]]
             /\ merchants' = [ended EXCEPT ![Next1] = "starting"]
  /\ UNCHANGED <<saved, deaths>>

Next ==
  \/ \E m \in Modes : Arm(m)
  \/ \E a \in Armings : Spawn(a) \/ Healthy(a) \/ NotStarted(a) \/ Remember(a) \/ Restart(a)
  \/ \E k \in Armings : Listen(k) \/ Die(k) \/ Exit(k)
  \/ Reboot

Spec == Init /\ [][Next]_vars
-----------------------------------------------------------------------------
Pending == \/ \E a \in Armings : arming[a].pc \in {"timer", "settling", "polling"}
           \/ \E k \in overseen : merchants[k] = "dead"

(* While the console says it is armed something answers on the merchant's port,
   or is about to be put there: every death of a merchant is somebody's to handle,
   for any interleaving of requests, kills, late exits and restarts.  (A restart
   that failed has warned.) *)
ClaimIsBacked == mode # None => port # None \/ Pending \/ warned
=============================================================================
