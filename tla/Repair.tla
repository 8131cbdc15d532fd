------------------------------- MODULE Repair --------------------------------
(***************************************************************************)
(* `raze fix`: src/fix-command.js around the repair loop of                *)
(* src/agent/index.js.  The merchant's file is patched by a model and the  *)
(* patch is tried by starting the file and auditing what answers on the    *)
(* port; a run may throw at every call, or be killed.                      *)
(*                                                                         *)
(* Versions of the file are model values; Good are those whose audit has   *)
(* no findings.  Whether the model rewrites the file or sends one edit,    *)
(* the loop gets a version or a refusal.  A process that is killed leaves  *)
(* the target it started on the port.                                      *)
(***************************************************************************)
EXTENDS Integers

CONSTANTS
  Versions,   \* contents the file can have
  Good,       \* those the probes pass on
  Original,   \* what the merchant wrote
  Rounds,     \* MAX_ROUNDS
  MaxRuns,    \* bound: runs of the command
  None

RepairAssumption ==
  /\ Good \subseteq Versions /\ Original \in Versions /\ None \notin Versions
  /\ {Rounds, MaxRuns} \subseteq Nat

VARIABLES
  file, backup,   \* the merchant's file, and <file>.raze-backup
  fix,            \* the run: its step, what it found, its round, its verdict
  target,          \* the version the run's own target was started from, or None
  orphan,         \* the version a target of an earlier run still answers with, or None
  runs

vars == <<file, backup, fix, target, orphan, runs>>

Steps == {"idle", "before", "repair", "first", "round", "verify", "after", "over"}
Verdicts == {"none", "ok", "failed", "crashed", "repaired", "disagrees"}

TypeOK ==
  /\ file \in Versions /\ backup \in Versions \cup {None}
  /\ target \in Versions \cup {None} /\ orphan \in Versions \cup {None}
  /\ fix \in [at : Steps, found : Versions, round : 0..(Rounds + 1), verdict : Verdicts]

Init ==
  /\ file = Original /\ backup = None /\ target = None /\ orphan = None /\ runs = 0
  /\ fix = [at |-> "idle", found |-> Original, round |-> 0, verdict |-> "none"]
-----------------------------------------------------------------------------
(* A faulty variant of the definition below: what is put back is the last
   version the loop worked on. *)
PutBack_current == file
-----------------------------------------------------------------------------
\* what repair() writes when it gives up, or when anything in it throws
PutBack == fix.found

\* startTarget: the port's owner answers /health, whoever started it
Answering == IF orphan # None THEN orphan ELSE file
Clean == Answering \in Good

\* runAudit: the run's target is stopped, and started from the file; it cannot
\* listen where another one does
Restarted == IF orphan # None THEN None ELSE file

\* the command ends without stopping its target
Abandon ==
  /\ orphan' = IF target' # None THEN target' ELSE orphan
  /\ fix' = [fix EXCEPT !.at = "over", !.verdict = "crashed"]

Begin ==
  /\ fix.at \in {"idle", "over"} /\ runs < MaxRuns
  /\ runs' = runs + 1
  /\ fix' = [at |-> "before", found |-> file, round |-> 0, verdict |-> "none"]
  /\ target' = None
  /\ UNCHANGED <<file, backup, orphan>>

\* the audit before the repair: an error is nobody's to catch
Before ==
  /\ fix.at = "before"
  /\ target' = Restarted
  /\ \/ fix' = [fix EXCEPT !.at = "repair"] /\ UNCHANGED orphan
     \/ Abandon
  /\ UNCHANGED <<file, backup, runs>>

BackUp ==
  /\ fix.at = "repair"
  /\ backup' = file
  /\ fix' = [fix EXCEPT !.at = "first", !.found = file]
  /\ UNCHANGED <<file, target, orphan, runs>>

\* repair() throws: the file is put back, the command stops its target
Throw ==
  /\ fix.at \in {"first", "round", "verify"}
  /\ file' = PutBack
  /\ target' = None
  /\ fix' = [fix EXCEPT !.at = "over", !.verdict = "failed"]
  /\ UNCHANGED <<backup, orphan, runs>>

\* the loop's audits: nothing to repair, or nothing left to repair
Audited ==
  /\ fix.at \in {"first", "verify"}
  /\ target' = Restarted
  /\ fix' = IF Clean THEN [fix EXCEPT !.at = "after", !.verdict = "ok"]
            ELSE [fix EXCEPT !.at = "round", !.round = @ + 1]
  /\ UNCHANGED <<file, backup, orphan, runs>>

\* a patch that passes sanityCheck is applied
Patch(v) ==
  /\ fix.at = "round" /\ fix.round <= Rounds
  /\ file' = v
  /\ fix' = [fix EXCEPT !.at = "verify"]
  /\ UNCHANGED <<backup, target, orphan, runs>>

\* no edit, or one that sanityCheck rejects
Rejected ==
  /\ fix.at = "round" /\ fix.round <= Rounds
  /\ fix' = [fix EXCEPT !.round = @ + 1]
  /\ UNCHANGED <<file, backup, target, orphan, runs>>

GiveUp ==
  /\ fix.at = "round" /\ fix.round > Rounds
  /\ file' = PutBack
  /\ fix' = [fix EXCEPT !.at = "after", !.verdict = "failed"]
  /\ UNCHANGED <<backup, target, orphan, runs>>

\* the final audit, and the verdict that is printed
After ==
  /\ fix.at = "after"
  /\ \/ /\ target' = None /\ UNCHANGED orphan
        /\ fix' = [fix EXCEPT !.at = "over",
             !.verdict = IF @ = "failed" THEN @ ELSE IF Clean THEN "repaired" ELSE "disagrees"]
     \/ target' = Restarted /\ Abandon
  /\ UNCHANGED <<file, backup, runs>>

Killed ==
  /\ fix.at \notin {"idle", "over"}
  /\ UNCHANGED target /\ Abandon
  /\ UNCHANGED <<file, backup, runs>>

\* raze fix --restore
Restore ==
  /\ fix.at \in {"idle", "over"} /\ backup # None
  /\ file' = backup /\ backup' = None
  /\ fix' = [at |-> "idle", found |-> backup, round |-> 0, verdict |-> "none"]
  /\ UNCHANGED <<target, orphan, runs>>

\* somebody ends the target an earlier run left
OrphanEnds ==
  /\ orphan # None /\ orphan' = None
  /\ UNCHANGED <<file, backup, fix, target, runs>>

Next ==
  \/ Begin \/ Before \/ BackUp \/ Throw \/ Audited \/ Rejected \/ GiveUp \/ After
  \/ Killed \/ Restore \/ OrphanEnds
  \/ \E v \in Versions : Patch(v)

Spec == Init /\ [][Next]_vars
-----------------------------------------------------------------------------
(* Whatever throws and whenever the run is killed, what the run found can be had
   back with --restore; a repair that failed has put it back itself ("Never leave
   a merchant running code that did not fix anything", agent/index.js:309). *)
NothingIsLost ==
  /\ fix.found \in {file, backup}
  /\ fix.at = "over" /\ fix.verdict = "failed" => file = fix.found
=============================================================================
