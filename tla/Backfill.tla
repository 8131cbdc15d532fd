------------------------------ MODULE Backfill -------------------------------
(***************************************************************************)
(* `raze backfill' (src/backfill-command.js): one reconciler               *)
(* (src/reconcile/index.js, runOnce) driven over a past span in chunks,    *)
(* each with the clock pinned to the chunk's end, while customers go on    *)
(* paying.  A failed request fails its chunk.  The command is run again    *)
(* until it reports no failure.  Time is in units of the settle time.      *)
(***************************************************************************)
EXTENDS Integers

CONSTANTS
  Payments,
  From, To,    \* the span asked for
  Chunk,       \* --chunk-hours
  ColdStart, Overlap, SettleTime,   \* the reconciler's configuration
  MaxFailures, \* bound: chunks that fail
  None

BackfillAssumption ==
  /\ From \in Int /\ To \in Int /\ From < To /\ None \notin Int
  /\ Chunk \in Nat \ {0}
  /\ {ColdStart, Overlap, SettleTime, MaxFailures} \subseteq Nat

VARIABLES
  paid,     \* paid[p]: when p was made, or None
  local,    \* payments whose order has a row in shop_orders
  requeued, \* inbox rows the command has queued
  cursor,   \* the run: its chunk's end, the reconciler's lastWindowTo, how many failed
  finished, \* what the last run exited with: 0, 1 or None
  failures

vars == <<paid, local, requeued, cursor, finished, failures>>

Off == [to |-> None, last |-> None, failed |-> 0]

TypeOK ==
  /\ paid \in [Payments -> {None} \cup (From - Chunk)..To]
  /\ local \subseteq Payments /\ requeued \subseteq Payments
  /\ cursor \in [to : {None} \cup From..To, last : {None} \cup From..To, failed : Nat]
  /\ finished \in {0, 1, None}

\* the span lies in the past: what was paid in it has been paid
Init ==
  /\ paid \in [Payments -> (From - Chunk)..To]
  /\ local \in SUBSET Payments
  /\ requeued = {} /\ cursor = Off /\ finished = None /\ failures = 0
-----------------------------------------------------------------------------
(* A faulty variant of the definition below: a run that covered
   some chunk has covered them all. *)
ExitCode_lenient(failed) == IF cursor.last = None THEN 1 ELSE 0
-----------------------------------------------------------------------------
Least(a, b) == IF a < b THEN a ELSE b

Begin ==
  /\ cursor.to = None /\ finished # 0
  /\ cursor' = [Off EXCEPT !.to = Least(To, From + Chunk)]
  /\ finished' = None
  /\ UNCHANGED <<paid, local, requeued, failures>>

\* runOnce's window: from the last one, or a cold start before the pinned clock
WindowFrom ==
  (IF cursor.last # None THEN cursor.last ELSE cursor.to + SettleTime - ColdStart) - Overlap
Window == {p \in Payments : paid[p] \in WindowFrom..cursor.to}

ExitCode(failed) == IF failed > 0 THEN 1 ELSE 0

\* on to the next chunk, or the command ends
Advance(last, failed) ==
  IF cursor.to < To
    THEN /\ cursor' = [to |-> Least(To, cursor.to + Chunk), last |-> last, failed |-> failed]
         /\ UNCHANGED finished
    ELSE cursor' = Off /\ finished' = ExitCode(failed)

Covered ==
  /\ cursor.to # None
  /\ requeued' = requeued \cup (Window \ local)
  /\ Advance(cursor.to, cursor.failed)
  /\ UNCHANGED <<paid, local, failures>>

\* a listing fails; what was queued before it failed stays queued
Failed ==
  /\ cursor.to # None /\ failures < MaxFailures
  /\ requeued' \in {requeued, requeued \cup (Window \ local)}
  /\ Advance(cursor.last, cursor.failed + 1)
  /\ failures' = failures + 1
  /\ UNCHANGED <<paid, local>>

\* the merchant's own webhook, or a drain, writes an order's row
Written(p) ==
  /\ p \notin local
  /\ local' = local \cup {p}
  /\ UNCHANGED <<paid, requeued, cursor, finished, failures>>

Next == Begin \/ Covered \/ Failed \/ \E p \in Payments : Written(p)

Spec == Init /\ [][Next]_vars
-----------------------------------------------------------------------------
(* A run that exits with 0 has asked Razorpay about the whole span, also after
   runs and chunks that failed ("rerun to cover them", backfill-command.js:110):
   every payment in it is queued or has its order's row.  A chunk must not be
   longer than the reconciler's cold start reaches. *)
BackfillCovers ==
  finished = 0 /\ Chunk + SettleTime <= ColdStart + Overlap =>
    \A p \in Payments : paid[p] \in From..To => p \in requeued \cup local
=============================================================================
