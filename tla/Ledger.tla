------------------------------- MODULE Ledger -------------------------------
(***************************************************************************)
(* src/ledger/index.js: expectations whose deadline has passed, and the    *)
(* sweep that asks Razorpay what became of them.                           *)
(*                                                                         *)
(* start()'s interval does not wait for the previous sweep, and every      *)
(* caller has a ledger of its own, so several sweeps run at once.  Between *)
(* a sweep's SELECT, its lookups and its UPDATEs anybody may move: the     *)
(* customer, the runtime that fulfils the expectation, another sweep.      *)
(***************************************************************************)
EXTENDS Naturals, Sequences, SequencesExt, FiniteSets

CONSTANTS
  Orders,
  Sweepers,
  BatchSize,   \* SWEEP_BATCH
  HasRepair,   \* whether the caller passed opts.repair
  MaxFaults    \* bound: requests, queries and repairs that fail in one behaviour

ASSUME LedgerAssumption ==
  /\ IsFiniteSet(Orders)
  /\ BatchSize \in Nat \ {0}
  /\ HasRepair \in BOOLEAN
  /\ MaxFaults \in Nat

VARIABLES
  expectation,  \* expectation[o]: "none", "open", or the row's resolution
  deadline,     \* deadline[o]: o's place in the order of the deadlines
  passed,       \* how many deadlines have passed
  payments,     \* payments[o]: statuses of o's payments at Razorpay (external)
  inTime,       \* the orders paid for before their deadline
  misread,      \* the orders Razorpay once answered for with a 400, a 404 or a body
                \* that cannot be read
  repaired,     \* the orders whose payment went through the repair path
  sweep,        \* sweep[s]: where a sweepOnce() stands
  faults

vars == <<expectation, deadline, passed, payments, inTime, misread, repaired, sweep,
          faults>>

Armed == {o \in Orders : expectation[o] # "none"}
Overdue(o) == o \in Armed /\ deadline[o] <= passed

Resolutions == {"fulfilled", "recovered", "failed", "abandoned"}
Idle == [pc |-> "idle", batch |-> <<>>, verdict |-> "unknown"]

TypeOK ==
  /\ expectation \in [Orders -> {"none", "open"} \cup Resolutions]
  /\ deadline \in [Orders -> Nat]
  /\ passed \in Nat
  /\ payments \in [Orders -> SUBSET {"authorized", "failed", "captured"}]
  /\ inTime \subseteq Orders
  /\ misread \subseteq Orders
  /\ repaired \subseteq Orders
  /\ sweep \in [Sweepers -> [pc : {"idle", "asking", "repairing", "resolving"},
                             batch : Seq(Orders),
                             verdict : {"unknown", "captured", "failed", "none"}]]
  /\ faults \in 0..MaxFaults

Init ==
  /\ expectation = [o \in Orders |-> "none"]
  /\ deadline = [o \in Orders |-> 0]
  /\ passed = 0
  /\ payments = [o \in Orders |-> {}]
  /\ inTime = {}
  /\ misread = {}
  /\ repaired = {}
  /\ sweep = [s \in Sweepers |-> Idle]
  /\ faults = 0

World == <<deadline, passed, payments, inTime>>
Lookups == <<misread, repaired>>
Subject(s) == Head(sweep[s].batch)

(* On to the next due row, or the sweep is over. *)
Continue(s) ==
  LET rest == Tail(sweep[s].batch) IN
  sweep' = [sweep EXCEPT ![s] =
    IF rest = <<>> THEN Idle ELSE [Idle EXCEPT !.pc = "asking", !.batch = rest]]
-----------------------------------------------------------------------------
(* Faulty variants of definitions below, one per property: each is a bug the
   property has to catch. *)

\* asks for declined payments first
Verdict_failedFirst(statuses) ==
  CASE "failed" \in statuses -> "failed"
    [] "captured" \in statuses -> "captured"
    [] statuses = {} -> "none"
    [] OTHER -> "unknown"

\* the row updated is the batch's last, not the one looked up
Resolve_lastRow(s) ==
  /\ sweep[s].pc = "resolving"
  /\ expectation' = [expectation EXCEPT ![Last(sweep[s].batch)] =
                       CASE sweep[s].verdict = "captured" -> "recovered"
                         [] sweep[s].verdict = "failed" -> "failed"
                         [] sweep[s].verdict = "none" -> "abandoned"]
  /\ Continue(s)
  /\ UNCHANGED <<World, Lookups, faults>>

\* a repair that throws is logged, and the row resolved all the same
RepairThrows_swallowed(s) ==
  /\ sweep[s].pc = "repairing"
  /\ faults < MaxFaults
  /\ faults' = faults + 1
  /\ sweep' = [sweep EXCEPT ![s].pc = "resolving"]
  /\ UNCHANGED <<expectation, World, Lookups>>

\* an unknown row ends the sweep
LeaveOpen_returns(s) ==
  /\ sweep[s].pc = "asking"
  /\ payments[Subject(s)] = {"authorized"}
  /\ sweep' = [sweep EXCEPT ![s] = Idle]
  /\ UNCHANGED <<expectation, World, Lookups, faults>>
-----------------------------------------------------------------------------
(* Outside the ledger *)

(* expect(), in the transaction that writes the order.  Every order is given the
   same time. *)
Arm(o) ==
  /\ expectation[o] = "none" /\ payments[o] = {}
  /\ expectation' = [expectation EXCEPT ![o] = "open"]
  /\ deadline' = [deadline EXCEPT ![o] = Cardinality(Armed) + 1]
  /\ UNCHANGED <<passed, payments, inTime, Lookups, sweep, faults>>

(* `raze watch' arms by one INSERT ... SELECT whatever rows have no expectation by
   then: an order written and paid between two polls is armed late.  The others
   are not written yet. *)
Watch(rows) ==
  /\ rows # {} /\ rows \cap Armed = {}
  /\ \A o \in Orders \ rows : o \in Armed \/ payments[o] = {}
  /\ expectation' = [o \in Orders |-> IF o \in rows THEN "open" ELSE expectation[o]]
  /\ deadline' = [o \in Orders |-> IF o \in rows THEN Cardinality(Armed) + 1 ELSE deadline[o]]
  /\ UNCHANGED <<passed, payments, inTime, Lookups, sweep, faults>>

DeadlinePasses ==
  /\ passed < Cardinality(Armed)
  /\ passed' = passed + 1
  /\ UNCHANGED <<expectation, deadline, payments, inTime, Lookups, sweep, faults>>

(* The customer tries, is declined, tries again, pays. *)
Try(o) ==
  /\ payments[o] \cap {"authorized", "captured"} = {}
  /\ payments' = [payments EXCEPT ![o] = @ \cup {"authorized"}]
  /\ UNCHANGED <<expectation, deadline, passed, inTime, Lookups, sweep, faults>>

Decline(o) ==
  /\ "authorized" \in payments[o]
  /\ payments' = [payments EXCEPT ![o] = (@ \ {"authorized"}) \cup {"failed"}]
  /\ UNCHANGED <<expectation, deadline, passed, inTime, Lookups, sweep, faults>>

\* captured also stands for a payment refunded since
Capture(o) ==
  /\ "authorized" \in payments[o]
  /\ payments' = [payments EXCEPT ![o] = (@ \ {"authorized"}) \cup {"captured"}]
  /\ inTime' = IF Overdue(o) THEN inTime ELSE inTime \cup {o}
  /\ UNCHANGED <<expectation, deadline, passed, Lookups, sweep, faults>>

(* The runtime processes the payment's webhook, if that ever arrives; it resolves
   open expectations only (src/runtime/index.js 247-255). *)
Fulfil(o) ==
  /\ "captured" \in payments[o]
  /\ expectation[o] = "open"
  /\ expectation' = [expectation EXCEPT ![o] = "fulfilled"]
  /\ UNCHANGED <<World, Lookups, sweep, faults>>
-----------------------------------------------------------------------------
(* sweepOnce *)

(* WHERE resolved_at IS NULL AND deadline < now() *)
Due == {o \in Orders : expectation[o] = "open" /\ Overdue(o)}

(* ORDER BY deadline LIMIT batchSize: rows of one deadline come in any order. *)
IsBatch(rows) ==
  /\ IsInjective(rows)
  /\ Len(rows) = IF Cardinality(Due) < BatchSize THEN Cardinality(Due) ELSE BatchSize
  /\ \A i \in DOMAIN rows :
       \A o \in Due \ {rows[j] : j \in 1..i} : deadline[rows[i]] <= deadline[o]

Select(s) ==
  /\ sweep[s].pc = "idle"
  /\ \E n \in 1..BatchSize : \E rows \in [1..n -> Due] :
       /\ IsBatch(rows)
       /\ sweep' = [sweep EXCEPT ![s] = [Idle EXCEPT !.pc = "asking", !.batch = rows]]
  /\ UNCHANGED <<expectation, World, Lookups, faults>>

(* lookup(): money that moved first, then a decline; payments that are neither
   yet are no verdict. *)
Verdict(statuses) ==
  CASE "captured" \in statuses -> "captured"
    [] "captured" \notin statuses /\ "failed" \in statuses -> "failed"
    [] statuses = {} -> "none"
    [] statuses = {"authorized"} -> "unknown"

(* await lookup(): an unknown row is left open ... *)
LeaveOpen(s) ==
  /\ sweep[s].pc = "asking"
  /\ Verdict(payments[Subject(s)]) = "unknown"
  /\ Continue(s)
  /\ UNCHANGED <<expectation, World, Lookups, faults>>

(* ... also when Razorpay answered with an error other than 400 and 404 ... *)
Unanswered(s) ==
  /\ sweep[s].pc = "asking"
  /\ faults < MaxFaults
  /\ faults' = faults + 1
  /\ Continue(s)
  /\ UNCHANGED <<expectation, World, Lookups>>

(* ... but those two are taken for the word that there is no such order, and a 200
   whose body cannot be read for an order without payments ... *)
Misread(s) ==
  /\ sweep[s].pc = "asking"
  /\ faults < MaxFaults
  /\ faults' = faults + 1
  /\ misread' = misread \cup {Subject(s)}
  /\ sweep' = [sweep EXCEPT ![s].verdict = "none", ![s].pc = "resolving"]
  /\ UNCHANGED <<expectation, World, repaired>>

(* ... and a verdict is resolved, a capture after its repair. *)
Ask(s) ==
  LET verdict == Verdict(payments[Subject(s)]) IN
  /\ sweep[s].pc = "asking"
  /\ verdict # "unknown"
  /\ sweep' = [sweep EXCEPT ![s].verdict = verdict,
       ![s].pc = IF verdict = "captured" /\ HasRepair THEN "repairing" ELSE "resolving"]
  /\ UNCHANGED <<expectation, World, Lookups, faults>>

Repair(s) ==
  /\ sweep[s].pc = "repairing"
  /\ repaired' = repaired \cup {Subject(s)}
  /\ sweep' = [sweep EXCEPT ![s].pc = "resolving"]
  /\ UNCHANGED <<expectation, World, misread, faults>>

(* Nothing catches it here: the sweep ends, this row and the rest stay open. *)
RepairThrows(s) ==
  /\ sweep[s].pc = "repairing"
  /\ faults < MaxFaults
  /\ faults' = faults + 1
  /\ sweep' = [sweep EXCEPT ![s] = Idle]
  /\ UNCHANGED <<expectation, World, Lookups>>

Resolution(verdict) ==
  CASE verdict = "captured" -> "recovered"
    [] verdict = "failed" -> "failed"
    [] verdict = "none" -> "abandoned"

(* UPDATE raze_expectations ... WHERE id = $1: whatever the row says by now. *)
Resolve(s) ==
  /\ sweep[s].pc = "resolving"
  /\ expectation' = [expectation EXCEPT ![Subject(s)] = Resolution(sweep[s].verdict)]
  /\ Continue(s)
  /\ UNCHANGED <<World, Lookups, faults>>

(* A query or the network fails, or the process dies. *)
Abort(s) ==
  /\ sweep[s].pc # "idle"
  /\ faults < MaxFaults
  /\ faults' = faults + 1
  /\ sweep' = [sweep EXCEPT ![s] = Idle]
  /\ UNCHANGED <<expectation, World, Lookups>>

SweepOnce(s) == Select(s) \/ LeaveOpen(s) \/ Ask(s) \/ Repair(s) \/ Resolve(s)

Next ==
  \/ \E rows \in SUBSET Orders : Watch(rows)
  \/ \E o \in Orders : Arm(o) \/ Try(o) \/ Decline(o) \/ Capture(o) \/ Fulfil(o)
  \/ DeadlinePasses
  \/ \E s \in Sweepers :
       SweepOnce(s) \/ Unanswered(s) \/ Misread(s) \/ RepairThrows(s) \/ Abort(s)

Spec == Init /\ [][Next]_vars

(* The interval comes round and requests are answered; nobody owes a payment, a
   webhook or a fault. *)
Fairness == \A s \in Sweepers : WF_vars(SweepOnce(s))

FairSpec == Spec /\ Fairness
-----------------------------------------------------------------------------
(* Properties *)

(* A payment made before the deadline is a lost webhook at worst: no overlap of
   sweeps, declined attempts or failures has its order reported as declined (lookup,
   lines 68-77), and abandoned it is called only on an answer of Razorpay's that did
   not tell of its payments. *)
PaidInTimeIsNotLost ==
  \A o \in inTime :
    /\ expectation[o] # "failed"
    /\ expectation[o] = "abandoned" => o \in misread

(* `Leave it open. A verdict we cannot justify is worse than no verdict' (lines
   102-103): what the ledger names as declined or recovered happened. *)
VerdictHasEvidence ==
  \A o \in Orders :
    /\ expectation[o] = "failed" => "failed" \in payments[o]
    /\ expectation[o] = "recovered" => "captured" \in payments[o]

(* With a repair path, `recovered' is written only after the payment went through
   it (lines 111-115). *)
RecoveredWasRepaired ==
  HasRepair => \A o \in Orders : expectation[o] = "recovered" => o \in repaired

(* Only a deadline detects absence (lines 14-16): an overdue expectation is named,
   unless a payment for it is under way.  It takes a batch that holds every row. *)
AbsenceIsNamed ==
  \A o \in Orders :
    Overdue(o) ~> expectation[o] # "open" \/ Verdict(payments[o]) = "unknown"
=============================================================================
