----------------------------- MODULE Reconciler -----------------------------
(***************************************************************************)
(* src/reconcile/index.js: windows over what Razorpay recorded, and the    *)
(* watermark that says how far they reach.                                 *)
(*                                                                         *)
(* Time is Razorpay's, in whole seconds (windows are cut to seconds).  A   *)
(* pass is one runOnce(); start()'s interval does not wait for the last    *)
(* one, so passes of one process overlap.  A restart forgets lastWindowTo; *)
(* src/loops builds a reconciler for every pass, which is a restart before *)
(* each.  Each payment has an order of its own.                            *)
(***************************************************************************)
EXTENDS Integers

CONSTANTS
  Payments, Refunds,
  PaymentOf,      \* PaymentOf[r]: the payment a refund returns
  ChecksRefunds,  \* whether localRefundIds was supplied
  SettleTime,     \* settleMs
  Overlap,        \* overlapMs
  ColdStart,      \* coldStartMs
  CaptureTime,    \* bound: how long after its creation a payment may be captured
  Passes,
  MaxTime,        \* bound: the clock stops here
  MaxFaults,      \* bound: requests and queries that fail in one behaviour
  None

Records == Payments \cup Refunds

ASSUME ReconcilerAssumption ==
  /\ Payments \cap Refunds = {}
  /\ PaymentOf \in [Refunds -> Payments]
  /\ ChecksRefunds \in BOOLEAN
  /\ {SettleTime, Overlap, ColdStart, CaptureTime, MaxTime, MaxFaults} \subseteq Nat
  /\ MaxTime > 0 /\ SettleTime > 0
  /\ None \notin Int

(* A payment is in no window after its own and the overlap: one that takes longer
   to be captured is never listed as settled. *)
ASSUME CaptureInWindow == CaptureTime <= SettleTime + Overlap

VARIABLES
  now,
  created,       \* created[r]: when Razorpay recorded r, or None
  settled,       \* the payments captured or refunded, and the refunds made
  known,         \* what the merchant's application knows (localOrderIds, localRefundIds)
  queued,        \* raze_inbox rows recon_<r>
  lastWindowTo,  \* in memory
  covered,       \* raze_reconcile_state.covered_through
  gap,           \* whether a cold start reached back less far than covered
  pass,          \* pass[i]: where a runOnce() stands
  faults

vars == <<now, created, settled, known, queued, lastWindowTo, covered, gap, pass, faults>>

(* left: what the pass has listed, then what of it is to be queued *)
Step == [pc : {"idle", "listing", "comparing", "queueing", "recording"},
         kind : {"payment", "refund"}, from : Int, to : Int, left : SUBSET Records]
Idle == [pc |-> "idle", kind |-> "payment", from |-> 0, to |-> 0, left |-> {}]

TypeOK ==
  /\ now \in 1..MaxTime
  /\ created \in [Records -> Int \cup {None}]
  /\ settled \subseteq Records /\ known \subseteq settled /\ queued \subseteq settled
  /\ lastWindowTo \in Int \cup {None}
  /\ covered \in Int
  /\ gap \in BOOLEAN
  /\ pass \in [Passes -> Step] /\ \A i \in Passes : pass[i].left \subseteq settled
  /\ faults \in 0..MaxFaults

\* Raze is installed at time 1, and covered 0: nothing yet
Init ==
  /\ now = 1
  /\ created = [r \in Records |-> None]
  /\ settled = {} /\ known = {} /\ queued = {}
  /\ lastWindowTo = None /\ covered = 0 /\ gap = FALSE
  /\ pass = [i \in Passes |-> Idle]
  /\ faults = 0

World == <<now, created, settled, known>>
Marks == <<lastWindowTo, covered, gap>>

Kind(r) == IF r \in Payments THEN "payment" ELSE "refund"
Goto(i, pc) == pass' = [pass EXCEPT ![i].pc = pc]
Rest(i) == pass' = [pass EXCEPT ![i] = Idle]
-----------------------------------------------------------------------------
(* Faulty variants of definitions below, one per property: each is a bug the
   property has to catch. *)

\* settledStatuses is not applied
List_anyStatus(i) ==
  /\ pass[i].pc = "listing"
  /\ pass' = [pass EXCEPT ![i].pc = "comparing",
       ![i].left = {r \in Records : /\ Kind(r) = pass[i].kind /\ created[r] # None
                                    /\ pass[i].from <= created[r] /\ created[r] <= pass[i].to}]
  /\ UNCHANGED <<World, queued, Marks, faults>>

\* windows that only touch
WindowFrom_touching == IF lastWindowTo = None THEN now - ColdStart - Overlap ELSE lastWindowTo

\* the watermark follows lastWindowTo, also when the refunds could not be listed
Fail_covers(i) ==
  /\ pass[i].pc # "idle"
  /\ faults < MaxFaults
  /\ faults' = faults + 1
  /\ Rest(i)
  /\ IF pass[i].kind = "refund" /\ pass[i].pc = "listing"
     THEN lastWindowTo' = pass[i].to /\ covered' = pass[i].to
     ELSE UNCHANGED <<lastWindowTo, covered>>
  /\ UNCHANGED <<World, queued, gap>>
-----------------------------------------------------------------------------
(* Outside: Razorpay, and what the merchant learns in other ways *)

Tick ==
  /\ now < MaxTime
  /\ now' = now + 1
  /\ UNCHANGED <<created, settled, known, queued, Marks, pass, faults>>

Create(p) ==
  /\ p \in Payments /\ created[p] = None
  /\ created' = [created EXCEPT ![p] = now]
  /\ UNCHANGED <<now, settled, known, queued, Marks, pass, faults>>

Capture(p) ==
  /\ p \in Payments \ settled /\ created[p] # None
  /\ now <= created[p] + CaptureTime
  /\ settled' = settled \cup {p}
  /\ UNCHANGED <<now, created, known, queued, Marks, pass, faults>>

Refund(r) ==
  /\ r \in Refunds /\ created[r] = None
  /\ PaymentOf[r] \in settled
  /\ created' = [created EXCEPT ![r] = now]
  /\ settled' = settled \cup {r}
  /\ UNCHANGED <<now, known, queued, Marks, pass, faults>>

(* A webhook, or a queued row, was processed. *)
Learn(r) ==
  /\ r \in settled \ known
  /\ known' = known \cup {r}
  /\ UNCHANGED <<now, created, settled, queued, Marks, pass, faults>>
-----------------------------------------------------------------------------
(* runOnce *)

WindowTo == now - SettleTime
WindowFrom == (IF lastWindowTo = None THEN now - ColdStart ELSE lastWindowTo) - Overlap

Begin(i) ==
  /\ pass[i].pc = "idle"
  /\ pass' = [pass EXCEPT ![i] = [Idle EXCEPT !.pc = "listing", !.from = WindowFrom, !.to = WindowTo]]
  /\ gap' = (gap \/ (lastWindowTo = None /\ WindowFrom + Overlap > covered))
  /\ UNCHANGED <<World, queued, lastWindowTo, covered, faults>>

InWindow(i, r) == created[r] # None /\ pass[i].from <= created[r] /\ created[r] <= pass[i].to

(* enumeratePayments, enumerateRefunds: what has settled by the time of asking *)
List(i) ==
  /\ pass[i].pc = "listing"
  /\ pass' = [pass EXCEPT ![i].pc = "comparing",
       ![i].left = {r \in settled : Kind(r) = pass[i].kind /\ InWindow(i, r)}]
  /\ UNCHANGED <<World, queued, Marks, faults>>

(* localOrderIds, localRefundIds *)
Compare(i) ==
  /\ pass[i].pc = "comparing"
  /\ pass' = [pass EXCEPT ![i].pc = "queueing", ![i].left = @ \ known]
  /\ UNCHANGED <<World, queued, Marks, faults>>

(* INSERT INTO raze_inbox ... ON CONFLICT DO NOTHING, one row after the other *)
Queue(i) ==
  /\ pass[i].pc = "queueing"
  /\ \E r \in pass[i].left :
       /\ queued' = queued \cup {r}
       /\ pass' = [pass EXCEPT ![i].left = @ \ {r}]
  /\ UNCHANGED <<World, Marks, faults>>

(* Payments done, refunds are next, if they are checked at all. *)
TurnToRefunds(i) ==
  /\ pass[i].pc = "queueing" /\ pass[i].left = {}
  /\ pass[i].kind = "payment" /\ ChecksRefunds
  /\ pass' = [pass EXCEPT ![i].pc = "listing", ![i].kind = "refund"]
  /\ UNCHANGED <<World, queued, Marks, faults>>

(* lastWindowTo = windowTo *)
AdvanceWindow(i) ==
  /\ pass[i].pc = "queueing" /\ pass[i].left = {}
  /\ pass[i].kind = "refund" \/ ~ChecksRefunds
  /\ lastWindowTo' = pass[i].to
  /\ Goto(i, "recording")
  /\ UNCHANGED <<World, queued, covered, gap, faults>>

(* UPDATE raze_reconcile_state SET covered_through *)
RecordCoverage(i) ==
  /\ pass[i].pc = "recording"
  /\ covered' = pass[i].to
  /\ Rest(i)
  /\ UNCHANGED <<World, queued, lastWindowTo, gap, faults>>

(* A request or a query fails: the pass is over.  (The failed UPDATE of the
   watermark is swallowed, with the same effect.) *)
Fail(i) ==
  /\ pass[i].pc # "idle"
  /\ faults < MaxFaults
  /\ faults' = faults + 1
  /\ Rest(i)
  /\ UNCHANGED <<World, queued, Marks>>

Restart ==
  /\ lastWindowTo' = None
  /\ pass' = [i \in Passes |-> Idle]
  /\ UNCHANGED <<World, queued, covered, gap, faults>>

RunOnce(i) ==
  \/ Begin(i) \/ List(i) \/ Compare(i) \/ Queue(i)
  \/ TurnToRefunds(i) \/ AdvanceWindow(i) \/ RecordCoverage(i)

Next ==
  \/ Tick
  \/ \E r \in Records : Create(r) \/ Capture(r) \/ Refund(r) \/ Learn(r)
  \/ \E i \in Passes : RunOnce(i) \/ Fail(i)
  \/ Restart

Spec == Init /\ [][Next]_vars
-----------------------------------------------------------------------------
(* Properties *)

Accounted(r) == r \in known \/ r \in queued

(* `Only a fully covered window advances the watermark' (lines 281-282).  Unless a
   cold start left a gap, a settled payment the watermark has passed by more than
   the overlap, and a refund it has passed at all, is known or queued: whatever
   failed, restarted or overlapped, and however late its capture. *)
PaymentIsAccounted ==
  ~gap => \A p \in Payments \cap settled :
            created[p] + Overlap < covered => Accounted(p)

RefundIsAccounted ==
  ~gap /\ ChecksRefunds =>
    \A r \in Refunds \cap settled : created[r] <= covered => Accounted(r)
=============================================================================
