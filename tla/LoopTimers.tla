------------------------------ MODULE LoopTimers ------------------------------
(***************************************************************************)
(* start and stop of src/loops/index.js, the console's watchdog and the    *)
(* reset of src/web/server.js: which intervals beat, from the start() that *)
(* setup or a boot awaits.  A start makes three passes before it arms its  *)
(* intervals; stop() clears the ones the object still knows.               *)
(*                                                                         *)
(* Slots number the calls of start() under way and the intervals they      *)
(* armed.  A pass is a request away from hanging for good.                 *)
(***************************************************************************)
EXTENDS Integers

CONSTANTS
  MaxStarts,  \* bound: starts under way and intervals armed, together
  MaxBad      \* bound: passes that throw or hang

LoopTimersAssumption == MaxStarts \in Nat \ {0} /\ MaxBad \in Nat

Starts == 1..MaxStarts
Passes == 1..3  \* reconcile, poll, sweep
Free == 0
Armed == 4

VARIABLES
  kept,      \* S.loops is this object; FALSE once reset
  running,
  start,     \* start[s]: Free, the pass it awaits, or Armed
  handle,    \* the intervals the object knows: a slot, or 0 for null
  beginner,  \* beginner[s]: setup, boot or watchdog
  watchdog,  \* armWatchdog was called
  stamped,   \* lastTickAt # null
  idle,      \* no pass completed for two and a half reconcile periods
  bad

vars == <<kept, running, start, handle, beginner, watchdog, stamped, idle, bad>>

Live == {s \in Starts : start[s] = Armed}

TypeOK ==
  /\ {kept, running, watchdog, stamped, idle} \subseteq BOOLEAN
  /\ start \in [Starts -> {Free, Armed} \cup Passes]
  /\ handle \in {0} \cup Live
  /\ beginner \in [Starts -> {"setup", "boot", "watchdog"}]
  /\ bad \in 0..MaxBad

(* Setup's step 8, or the boot after one, has called start(). *)
Init ==
  /\ kept = TRUE /\ running = TRUE /\ handle = 0
  /\ start = [s \in Starts |-> IF s = 1 THEN 1 ELSE Free]
  /\ beginner \in {[s \in Starts |-> by] : by \in {"setup", "boot"}}
  /\ watchdog = FALSE /\ stamped = FALSE /\ idle = TRUE /\ bad = 0
-----------------------------------------------------------------------------
(* A faulty variant of the definition below. *)

\* stop() leaves the flag
RunningAfterStop_kept == running
-----------------------------------------------------------------------------
(* stop() clears the intervals it knows, and the flag start() looks at first. *)
RunningAfterStop == FALSE
Stopped == [s \in Starts |-> IF s = handle THEN Free ELSE start[s]]

(* tick(): a pass of start s completes and stamps the clock, or throws.  After the
   third the intervals are armed, whatever happened to the object meanwhile, and
   whoever awaited the start goes on: a boot arms the watchdog, setup only if a
   pass was stamped. *)
PassEnds(s) ==
  /\ start[s] \in Passes
  /\ \/ stamped' = TRUE /\ idle' = FALSE /\ UNCHANGED bad
     \/ bad < MaxBad /\ bad' = bad + 1 /\ UNCHANGED <<stamped, idle>>
  /\ IF start[s] < 3
     THEN start' = [start EXCEPT ![s] = @ + 1] /\ UNCHANGED <<handle, watchdog>>
     ELSE /\ start' = [start EXCEPT ![s] = Armed]
          /\ handle' = s
          /\ watchdog' = (watchdog \/ beginner[s] = "boot"
                                   \/ (beginner[s] = "setup" /\ running /\ stamped'))
  /\ UNCHANGED <<kept, running, beginner>>

(* A pass never returns, or actions.ensure threw: nothing comes of this start. *)
PassHangs(s) ==
  /\ start[s] \in Passes /\ bad < MaxBad
  /\ bad' = bad + 1
  /\ start' = [start EXCEPT ![s] = Free]
  /\ UNCHANGED <<kept, running, handle, beginner, watchdog, stamped, idle>>

(* An interval's pass completes. *)
Beat ==
  /\ Live # {}
  /\ stamped' = TRUE /\ idle' = FALSE
  /\ UNCHANGED <<kept, running, start, handle, beginner, watchdog, bad>>

TimePasses ==
  /\ idle' = TRUE
  /\ UNCHANGED <<kept, running, start, handle, beginner, watchdog, stamped, bad>>

(* Every 30 seconds: stop, then start, which returns at once if running.  The
   start() that was stopped may still be under way. *)
Watchdog ==
  /\ watchdog /\ kept /\ idle
  /\ IF RunningAfterStop
     THEN start' = Stopped /\ UNCHANGED beginner
     ELSE \E s \in Starts :
            /\ Stopped[s] = Free
            /\ start' = [Stopped EXCEPT ![s] = 1]
            /\ beginner' = [beginner EXCEPT ![s] = "watchdog"]
  /\ running' = TRUE /\ handle' = 0
  /\ UNCHANGED <<kept, watchdog, stamped, idle, bad>>

(* POST /api/ray/reset *)
Reset ==
  /\ kept
  /\ kept' = FALSE /\ running' = RunningAfterStop /\ handle' = 0
  /\ start' = Stopped
  /\ UNCHANGED <<beginner, watchdog, stamped, idle, bad>>

Next ==
  \/ \E s \in Starts : PassEnds(s) \/ PassHangs(s)
  \/ Beat \/ TimePasses \/ Watchdog \/ Reset

(* Timers fire, and a pass that does not hang ends. *)
Fairness ==
  /\ \A s \in Starts : WF_vars(PassEnds(s))
  /\ WF_vars(Beat) /\ WF_vars(Watchdog)

Spec == Init /\ [][Next]_vars /\ Fairness
-----------------------------------------------------------------------------
(* Loops under the watchdog that have gone quiet complete a pass again, also when
   the restart's own first pass hangs and `running' says all is well. *)
WatchdogRevives == (watchdog /\ kept /\ idle) ~> (~idle \/ ~kept)
=============================================================================
