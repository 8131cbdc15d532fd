------------------------------ MODULE Recovery ------------------------------
(***************************************************************************)
(* Unattended recovery: src/loops/index.js (webhook, poll and reconcile    *)
(* routes into handleDrift), the verdict of src/policy, the drifted        *)
(* payments src/reconcile queues, the write compiled by src/mapping, and   *)
(* the record src/actions keeps.                                           *)
(*                                                                         *)
(* A pass is one payment's way through a route.  Passes run concurrently:  *)
(* every webhook request is one, and the reconcile and poll timers neither *)
(* wait for each other nor for their own previous tick.  Each `await' of   *)
(* the code is a step, so what a pass has read may be stale when used.     *)
(*                                                                         *)
(* Draining is the runtime's processOne, exclusive and atomic (Runtime,    *)
(* Exclusive); all its rows here are payment.captured, so none is stale.   *)
(***************************************************************************)
EXTENDS Naturals, FiniteSets

CONSTANTS
  Orders, Payments,
  OrderOf,      \* OrderOf[p]: the order of a payment
  Amount,       \* Amount[p], in some unit
  Expected,     \* Expected[o]: what the order should cost, None if no column says
  RowsOf,       \* RowsOf[o]: how many rows carry the key, once there are any
  Fresh,        \* the statuses the merchant may give an order nobody has paid yet
  Merchant,     \* { mappingConfirmed, escalateOnly, autoRepair }
  Late,         \* orders whose row the merchant's application writes later
  Leaving,      \* bound: payments that may leave the page impact asks for
  Passes,       \* bound: passes at once
  MaxFaults,    \* bound: passes or handlers that fail in one behaviour
  None

Statuses == {"created", "unpaid", "paid", "refunded"}

(* What a repair is about: a payment, or the order's own word that it is paid
   (orderpaid_<order id>). *)
Refs == ({"payment"} \X Payments) \cup ({"orderpaid"} \X Orders)

ASSUME RecoveryAssumption ==
  /\ Fresh \subseteq {"created", "unpaid"}
  /\ OrderOf \in [Payments -> Orders]
  /\ Amount \in [Payments -> Nat \ {0}]
  /\ Expected \in [Orders -> Nat \cup {None}]
  /\ None \notin Nat /\ None \notin Payments /\ None \notin Refs
  /\ RowsOf \in [Orders -> Nat \ {0}]
  /\ Merchant \in [mappingConfirmed : BOOLEAN, escalateOnly : BOOLEAN, autoRepair : BOOLEAN]
  /\ Late \subseteq Orders /\ Leaving \subseteq Payments
  /\ MaxFaults \in Nat

VARIABLES
  payment,      \* payment[p]: its status at Razorpay (external)
  paidBy,       \* paidBy[o]: the payment that made Razorpay's order `paid' (external)
  onPage,       \* onPage[p]: it is among what impact's one request returns: the
                \* 100 newest payments of 72 hours
  row,          \* row[o]: the merchant's row(s) of the order
  inbox,        \* inbox[r]: the raze_inbox row recon_<r>
  pass,         \* pass[w]: one payment on its way through a route
  open,         \* open[o][rule]: unacknowledged escalations in raze_actions
  recovered,    \* recovered[o]: `recovered' rows in raze_actions
  faults

vars == <<payment, paidBy, onPage, row, inbox, pass, open, recovered, faults>>

OrderOfRef(r) == IF r[1] = "payment" THEN OrderOf[r[2]] ELSE r[2]
AmountOfRef(r) ==
  IF r[1] = "payment" THEN Amount[r[2]]
  ELSE IF paidBy[r[2]] = None THEN 0 ELSE Amount[paidBy[r[2]]]

Rules == {"payment-not-captured", "no-matching-order", "order-already-paid",
          "amount-mismatch", "amount-not-verifiable", "would-touch-multiple-rows",
          "mapping-not-confirmed", "merchant-has-side-effects", "auto-repair-declined",
          "write-did-not-land"}

(* drifted, listed: in reconcileOnce, before handleDrift; then handleDrift's
   awaits in order.  escalating asks for an open escalation, recording refreshes
   one, inserting adds one. *)
PassStates == {"idle", "drifted", "listed", "start", "auto", "draining", "applying",
               "drained", "escalating", "recording", "inserting", "recovering"}
Idle == [pc |-> "idle", ref |-> None, status |-> None, rule |-> None, held |-> None]

(* applied and missed are both resolution `applied': the UPDATE changed the
   order's rows, or none. *)
InboxStates == {"absent", "queued", "deferred", "applied", "missed"}

TypeOK ==
  /\ payment \in [Payments -> {"created", "captured", "refunded"}]
  /\ paidBy \in [Orders -> Payments \cup {None}]
  /\ onPage \in [Payments -> BOOLEAN]
  /\ row \in [Orders -> [here : BOOLEAN, status : Statuses, credited : Nat]]
  /\ inbox \in [Refs -> InboxStates]
  /\ pass \in [Passes -> [pc : PassStates, ref : Refs \cup {None},
                          status : {"captured", "refunded", None},
                          rule : Rules \cup {None}, held : Refs \cup {None}]]
  /\ open \in [Orders -> [Rules -> Nat]]
  /\ recovered \in [Orders -> Nat]
  /\ faults \in 0..MaxFaults

Init ==
  /\ payment = [p \in Payments |-> "created"]
  /\ paidBy = [o \in Orders |-> None]
  /\ onPage = [p \in Payments |-> TRUE]
  /\ row \in [Orders -> [here : BOOLEAN, status : Fresh, credited : {0}]]
  /\ \A o \in Orders : row[o].here = (o \notin Late)
  /\ inbox = [r \in Refs |-> "absent"]
  /\ pass = [w \in Passes |-> Idle]
  /\ open = [o \in Orders |-> [rule \in Rules |-> 0]]
  /\ recovered = [o \in Orders |-> 0]
  /\ faults = 0

Outside == <<payment, paidBy, onPage>>
Records == <<open, recovered>>

Goto(w, pc) == pass' = [pass EXCEPT ![w].pc = pc]
Rest(w) == pass' = [pass EXCEPT ![w] = Idle]
Begin(w, pc, r, status) ==
  pass' = [pass EXCEPT ![w] = [Idle EXCEPT !.pc = pc, !.ref = r, !.status = status]]

Held(r) == \E w \in Passes : pass[w].held = r
IsOpen(o) == \E rule \in Rules : open[o][rule] > 0
-----------------------------------------------------------------------------
(* Faulty variants of definitions below, one per property: each is a bug the
   property has to catch. *)

\* without the amount check
Tests_amountUnchecked(r, status, facts) ==
  << [holds |-> ~Merchant.autoRepair \/ Merchant.escalateOnly, rule |-> "auto-repair-declined"],
     [holds |-> status # "captured", rule |-> "payment-not-captured"],
     [holds |-> ~facts.here, rule |-> "no-matching-order"],
     [holds |-> facts.credited > 0, rule |-> "order-already-paid"] >>

\* without the already-applied check
Tests_appliedUnchecked(r, status, facts) ==
  << [holds |-> status # "captured", rule |-> "payment-not-captured"],
     [holds |-> ~facts.here, rule |-> "no-matching-order"],
     [holds |-> Expected[OrderOfRef(r)] # AmountOfRef(r), rule |-> "amount-mismatch"] >>

\* the drain takes rows another transaction holds
Drainable_unlocked(r) == inbox[r] = "queued"

\* no exception, so it worked
ReadBack_trusting(w) ==
  /\ pass[w].pc = "drained"
  /\ Goto(w, "recovering")
  /\ UNCHANGED <<Outside, row, inbox, Records, faults>>

\* a mapping without its guard
Writable_unguarded(o) == row[o].here

\* an order without a row is not unrecorded
Unrecorded_knownOnly(r) ==
  onPage[r[2]] /\ row[OrderOfRef(r)].here /\ row[OrderOfRef(r)].credited = 0
-----------------------------------------------------------------------------
(* /paid|refunded/i matches anywhere in a status. *)
SaysSettled(status) == status \in {"unpaid", "paid", "refunded"}

(* The tests of policy.decide, in their order.  facts is the merchant's row as
   readOrder returned it. *)
Tests(r, status, facts) ==
  LET o == OrderOfRef(r)
  IN << [holds |-> ~Merchant.autoRepair, rule |-> "auto-repair-declined"],
        [holds |-> Merchant.escalateOnly, rule |-> "merchant-has-side-effects"],
        [holds |-> ~Merchant.mappingConfirmed, rule |-> "mapping-not-confirmed"],
        [holds |-> status # "captured", rule |-> "payment-not-captured"],
        [holds |-> ~facts.here, rule |-> "no-matching-order"],
        [holds |-> RowsOf[o] # 1, rule |-> "would-touch-multiple-rows"],
        [holds |-> facts.credited > 0 \/ SaysSettled(facts.status),
         rule |-> "order-already-paid"],
        [holds |-> Expected[o] = None, rule |-> "amount-not-verifiable"],
        [holds |-> Expected[o] # AmountOfRef(r), rule |-> "amount-mismatch"] >>

(* The first test that holds decides; when none does the repair is automatic. *)
Decide(r, status, facts) ==
  LET tests == Tests(r, status, facts)
      First(i) == tests[i].holds /\ \A j \in 1..(i - 1) : ~tests[j].holds
  IN IF \E i \in DOMAIN tests : tests[i].holds
     THEN tests[CHOOSE i \in DOMAIN tests : First(i)].rule
     ELSE "clean-capture"
-----------------------------------------------------------------------------
(* Outside: Razorpay and the merchant's own application *)

Capture(p) ==
  /\ payment[p] = "created"
  /\ payment' = [payment EXCEPT ![p] = "captured"]
  /\ paidBy' = [paidBy EXCEPT ![OrderOf[p]] = IF @ = None THEN p ELSE @]
  /\ UNCHANGED <<onPage, row, inbox, pass, open, recovered, faults>>

Refund(p) ==
  /\ payment[p] = "captured"
  /\ payment' = [payment EXCEPT ![p] = "refunded"]
  /\ UNCHANGED <<paidBy, onPage, row, inbox, pass, open, recovered, faults>>

\* A hundred payments are newer, or 72 hours are over, captured or not.
LeavePage(p) ==
  /\ p \in Leaving /\ onPage[p]
  /\ onPage' = [onPage EXCEPT ![p] = FALSE]
  /\ UNCHANGED <<payment, paidBy, row, inbox, pass, open, recovered, faults>>

\* The row of a late order is written.
RowAppears(o) ==
  /\ ~row[o].here
  /\ row' = [row EXCEPT ![o].here = TRUE]
  /\ UNCHANGED <<Outside, inbox, pass, open, recovered, faults>>

\* The merchant's application learns of a refund by itself.
RowRefunded(o) ==
  /\ row[o].here /\ row[o].status # "refunded"
  /\ \E p \in Payments : OrderOf[p] = o /\ payment[p] = "refunded"
  /\ row' = [row EXCEPT ![o].status = "refunded"]
  /\ UNCHANGED <<Outside, inbox, pass, open, recovered, faults>>

\* The merchant acknowledges an order's escalations in the console.
Acknowledge(o) ==
  /\ IsOpen(o)
  /\ open' = [open EXCEPT ![o] = [rule \in Rules |-> 0]]
  /\ UNCHANGED <<Outside, row, inbox, pass, recovered, faults>>
-----------------------------------------------------------------------------
(* The three routes *)

(* POST /webhook, signature valid: payment.captured or order.paid.  Deliveries
   repeat, and arrive late: the status is the event's, not Razorpay's by now. *)
Webhook(w, p) ==
  /\ pass[w].pc = "idle"
  /\ payment[p] # "created"
  /\ Begin(w, "start", <<"payment", p>>, "captured")
  /\ UNCHANGED <<Outside, row, inbox, Records, faults>>

(* pollOpenOrders: an order whose row has nothing credited and that Razorpay
   calls paid, by the captured payment if Razorpay names one, else by the order. *)
Poll(w, o) ==
  /\ pass[w].pc = "idle"
  /\ row[o].here /\ row[o].credited = 0
  /\ paidBy[o] # None
  /\ \/ \E p \in Payments :
          /\ OrderOf[p] = o /\ payment[p] = "captured"
          /\ Begin(w, "start", <<"payment", p>>, "captured")
     \/ Begin(w, "start", <<"orderpaid", o>>, "captured")
  /\ UNCHANGED <<Outside, row, inbox, Records, faults>>

(* reconcileOnce, for one payment: the reconciler reads which of the orders in its
   window are known; the payment may lie outside that window ... *)
Enumerate(w, p) ==
  /\ pass[w].pc = "idle"
  /\ payment[p] # "created"
  /\ \/ Begin(w, "listed", <<"payment", p>>, None)
     \/ ~row[OrderOf[p]].here /\ Begin(w, "drifted", <<"payment", p>>, None)
  /\ UNCHANGED <<Outside, row, inbox, Records, faults>>

(* ... queues the payments of unknown orders (INSERT ... DO NOTHING) ... *)
QueueDrifted(w) ==
  LET r == pass[w].ref IN
  /\ pass[w].pc = "drifted"
  /\ inbox' = [inbox EXCEPT ![r] = IF @ = "absent" THEN "queued" ELSE @]
  /\ Goto(w, "listed")
  /\ UNCHANGED <<Outside, row, Records, faults>>

(* ... and what impact, by a request of its own, still finds unrecorded goes to
   handleDrift: one page, not followed by another. *)
Unrecorded(r) ==
  onPage[r[2]] /\ ~(row[OrderOfRef(r)].here /\ row[OrderOfRef(r)].credited > 0)

List(w) ==
  LET r == pass[w].ref IN
  /\ pass[w].pc = "listed"
  /\ IF Unrecorded(r) THEN Begin(w, "start", r, payment[r[2]]) ELSE Rest(w)
  /\ UNCHANGED <<Outside, row, inbox, Records, faults>>
-----------------------------------------------------------------------------
(* handleDrift *)

(* readOrder, then policy.decide on what it returned. *)
Judge(w) ==
  LET r == pass[w].ref
      rule == Decide(r, pass[w].status, row[OrderOfRef(r)])
  IN /\ pass[w].pc = "start"
     /\ pass' = [pass EXCEPT ![w] =
          IF rule = "clean-capture"
          THEN [Idle EXCEPT !.pc = "auto", !.ref = r]
          ELSE [Idle EXCEPT !.pc = "escalating", !.ref = r, !.rule = rule]]
     /\ UNCHANGED <<Outside, row, inbox, Records, faults>>

(* applyThroughHandler: INSERT INTO raze_inbox ... ON CONFLICT DO NOTHING *)
Queue(w) ==
  LET r == pass[w].ref IN
  /\ pass[w].pc = "auto"
  /\ inbox' = [inbox EXCEPT ![r] = IF @ = "absent" THEN "queued" ELSE @]
  /\ Goto(w, "draining")
  /\ UNCHANGED <<Outside, row, Records, faults>>

(* A row no other transaction holds (FOR UPDATE SKIP LOCKED) *)
Drainable(r) == inbox[r] = "queued" /\ ~Held(r)

(* rz.drain(): every queued row, whoever queued it; a row another pass holds is
   skipped.  Their order is left open. *)
DrainPick(w) ==
  /\ pass[w].pc = "draining"
  /\ \E r \in Refs :
       /\ Drainable(r)
       /\ pass' = [pass EXCEPT ![w].pc = "applying", ![w].held = r]
  /\ UNCHANGED <<Outside, row, inbox, Records, faults>>

(* The compiled UPDATE and its guard, with the inbox row, in one transaction. *)
Writable(o) == row[o].here /\ row[o].status # "refunded"

DrainApply(w) ==
  LET r == pass[w].held
      o == OrderOfRef(r)
  IN /\ pass[w].pc = "applying"
     /\ IF Writable(o)
        THEN /\ row' = [row EXCEPT ![o].status = "paid", ![o].credited = @ + AmountOfRef(r)]
             /\ inbox' = [inbox EXCEPT ![r] = "applied"]
        ELSE /\ inbox' = [inbox EXCEPT ![r] = "missed"]
             /\ UNCHANGED row
     /\ pass' = [pass EXCEPT ![w].pc = "draining", ![w].held = None]
     /\ UNCHANGED <<Outside, Records, faults>>

(* The handler throws; the row waits for next_attempt_at. *)
HandlerThrows(w) ==
  /\ pass[w].pc = "applying"
  /\ faults < MaxFaults
  /\ faults' = faults + 1
  /\ inbox' = [inbox EXCEPT ![pass[w].held] = "deferred"]
  /\ pass' = [pass EXCEPT ![w].pc = "draining", ![w].held = None]
  /\ UNCHANGED <<Outside, row, Records>>

DrainEnd(w) ==
  /\ pass[w].pc = "draining"
  /\ \A r \in Refs : ~Drainable(r)
  /\ Goto(w, "drained")
  /\ UNCHANGED <<Outside, row, inbox, Records, faults>>

BackoffEnds(r) ==
  /\ inbox[r] = "deferred"
  /\ inbox' = [inbox EXCEPT ![r] = "queued"]
  /\ UNCHANGED <<Outside, row, pass, Records, faults>>

(* Read the merchant's own table back: appliedAmount > 0. *)
Landed(o) == row[o].here /\ row[o].credited > 0

ReadBack(w) ==
  LET o == OrderOfRef(pass[w].ref) IN
  /\ pass[w].pc = "drained"
  /\ IF Landed(o)
     THEN Goto(w, "recovering")
     ELSE pass' = [pass EXCEPT ![w].pc = "recording", ![w].rule = "write-did-not-land"]
  /\ UNCHANGED <<Outside, row, inbox, Records, faults>>

(* actions.record of a recovery: an INSERT. *)
Recover(w) ==
  LET o == OrderOfRef(pass[w].ref) IN
  /\ pass[w].pc = "recovering"
  /\ recovered' = [recovered EXCEPT ![o] = @ + 1]
  /\ Rest(w)
  /\ UNCHANGED <<Outside, row, inbox, open, faults>>

(* `Only record it once': nothing more if the order has any open escalation. *)
Escalate(w) ==
  /\ pass[w].pc = "escalating"
  /\ IF IsOpen(OrderOfRef(pass[w].ref)) THEN Rest(w) ELSE Goto(w, "recording")
  /\ UNCHANGED <<Outside, row, inbox, Records, faults>>

(* actions.record of an escalation: an UPDATE that refreshes an open one of the
   same rule, and an INSERT when it found none. *)
Refresh(w) ==
  LET o == OrderOfRef(pass[w].ref) IN
  /\ pass[w].pc = "recording"
  /\ IF open[o][pass[w].rule] > 0 THEN Rest(w) ELSE Goto(w, "inserting")
  /\ UNCHANGED <<Outside, row, inbox, Records, faults>>

Insert(w) ==
  LET o == OrderOfRef(pass[w].ref) IN
  /\ pass[w].pc = "inserting"
  /\ open' = [open EXCEPT ![o][pass[w].rule] = @ + 1]
  /\ Rest(w)
  /\ UNCHANGED <<Outside, row, inbox, recovered, faults>>

(* A query or a request fails, or the process dies: the pass is over, what it
   committed stays, and a row it held is free again. *)
Abort(w) ==
  /\ pass[w].pc # "idle"
  /\ faults < MaxFaults
  /\ faults' = faults + 1
  /\ Rest(w)
  /\ UNCHANGED <<Outside, row, inbox, Records>>

Advance(w) ==
  \/ QueueDrifted(w) \/ List(w) \/ Judge(w) \/ Queue(w)
  \/ DrainPick(w) \/ DrainApply(w) \/ DrainEnd(w)
  \/ ReadBack(w) \/ Recover(w) \/ Escalate(w) \/ Refresh(w) \/ Insert(w)

Environment ==
  \/ \E p \in Payments : Capture(p) \/ Refund(p) \/ LeavePage(p)
  \/ \E o \in Orders : RowAppears(o) \/ RowRefunded(o) \/ Acknowledge(o)

Next ==
  \/ Environment
  \/ \E w \in Passes :
       \/ \E p \in Payments : Webhook(w, p) \/ Enumerate(w, p)
       \/ \E o \in Orders : Poll(w, o)
       \/ Advance(w) \/ HandlerThrows(w) \/ Abort(w)
  \/ \E r \in Refs : BackoffEnds(r)

Spec == Init /\ [][Next]_vars

(* A pass that has begun goes on (its awaits settle), backoffs end, and the
   reconcile timer comes round to every settled payment: what it finds of it depends
   on the page. *)
Fairness ==
  /\ \A w \in Passes : WF_vars(Advance(w))
  /\ \A r \in Refs : WF_vars(BackoffEnds(r))
  /\ \A p \in Payments : SF_vars(\E w \in Passes : Enumerate(w, p))

FairSpec == Spec /\ Fairness
-----------------------------------------------------------------------------
(* Properties *)

Credits(o) == {r \in Refs : OrderOfRef(r) = o /\ inbox[r] = "applied"}

(* Money is credited only where every fact policy asks for was there: the
   merchant's consent, one row, a payment Razorpay captured, the exact amount
   (policy lines 56-146), although the facts were read awaits earlier, by
   another pass than the one that writes. *)
Vetted(r) ==
  /\ Merchant.autoRepair /\ ~Merchant.escalateOnly /\ Merchant.mappingConfirmed
  /\ RowsOf[OrderOfRef(r)] = 1
  /\ Expected[OrderOfRef(r)] = AmountOfRef(r)
  /\ paidBy[OrderOfRef(r)] # None
CreditIsVetted == \A o \in Orders : \A r \in Credits(o) : Vetted(r)

(* No credit is lost or made twice, whichever pass drains a row and whatever fails
   meanwhile: an order's credit is the sum of the repairs that changed it
   (processOne's transaction under applyThroughHandler).  The sum is counted: the
   repairs' amounts, laid side by side unit by unit. *)
Units(r) == {r} \X (1..AmountOfRef(r))
CreditIsSum ==
  \A o \in Orders : row[o].credited = Cardinality(UNION {Units(r) : r \in Credits(o)})

(* `A repair is not reported until it has been read back' (lines 20-23). *)
RecoveredHasLanded == \A o \in Orders : recovered[o] > 0 => Landed(o)

(* `A refunded order is not a paid one': a refund the merchant recorded after
   the verdict still wins over the repair (the mapping's guard). *)
RefundStands ==
  [][\A o \in Orders : row[o].status = "refunded" => row'[o] = row[o]]_vars

(* `A payment arriving twice ... lands once' (src/web/server.js 380-382). *)
CreditedOnce ==
  \A o \in Orders : \A q, r \in Credits(o) : q = r

(* `If the verdict is escalate, nothing is written and the merchant is told why'
   (lines 16-17): a captured payment ends as a credit or as an open question, unless
   it leaves the one page that is asked for first: nothing here looks further. *)
SettledOrTold ==
  \A p \in Payments :
    payment[p] = "captured" ~>
      row[OrderOf[p]].credited > 0 \/ IsOpen(OrderOf[p]) \/ ~onPage[p]
=============================================================================
