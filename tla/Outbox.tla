------------------------------- MODULE Outbox -------------------------------
(***************************************************************************)
(* src/outbox/index.js and emit() of src/runtime/index.js: effects that    *)
(* cannot join the merchant's transaction are written as intents and       *)
(* delivered afterwards, at least once, by any number of drainers.         *)
(*                                                                         *)
(* A drainer is one loop over deliverOne(): drain() called by hand, or the *)
(* interval of one createOutbox() (two processes are two drainers).  Each  *)
(* query is a transaction of its own, so a claim's row lock is gone before *)
(* the sender is called.                                                   *)
(***************************************************************************)
EXTENDS Naturals, FiniteSets

CONSTANTS
  Effects,       \* idempotency keys
  Deliverable,   \* the effects whose type some on() registered a sender for
  Drainers,
  MaxAttempts,   \* OUTBOX_MAX_ATTEMPTS
  MaxFaults,     \* bound: process deaths and failed queries in one behaviour
  None

ASSUME OutboxAssumption ==
  /\ IsFiniteSet(Drainers)
  /\ Deliverable \subseteq Effects
  /\ MaxAttempts \in Nat \ {0}
  /\ MaxFaults \in Nat
  /\ None \notin Effects

VARIABLES
  row,        \* row[k]: the raze_outbox row of effect k
  clock,      \* source of created_at
  drainer,    \* drainer[d]: where its deliverOne() stands, and on which effect
  received,   \* received[k]: how often the receiver got k (external)
  faults

vars == <<row, clock, drainer, received, faults>>

Row == [state : {"absent", "pending", "delivered"},   \* delivered: delivered_at is set
        attempts : Nat,
        due : BOOLEAN,                                \* next_attempt_at IS NULL or has passed
        at : Nat]                                     \* created_at

NoRow == [state |-> "absent", attempts |-> 0, due |-> TRUE, at |-> 0]

(* claimed: about to call the sender; answered: the sender returned; refused: it
   threw, or the UPDATE after it did. *)
Idle == [pc |-> "idle", effect |-> None]
Step == {Idle} \cup [pc : {"claimed", "answered", "refused"}, effect : Effects]

TypeOK ==
  /\ row \in [Effects -> Row]
  /\ clock \in Nat
  /\ drainer \in [Drainers -> Step]
  /\ received \in [Effects -> Nat]
  /\ faults \in 0..MaxFaults

Init ==
  /\ row = [k \in Effects |-> NoRow]
  /\ clock = 0
  /\ drainer = [d \in Drainers |-> Idle]
  /\ received = [k \in Effects |-> 0]
  /\ faults = 0

Goto(d, pc) == drainer' = [drainer EXCEPT ![d].pc = pc]
Rest(d) == drainer' = [drainer EXCEPT ![d] = Idle]
-----------------------------------------------------------------------------
(* Faulty variants of definitions below, one per property: each is a bug the
   property has to catch. *)

\* without `attempts < $1'
Claimable_unbounded(k) == row[k].state = "pending" /\ row[k].due

\* attempts is counted when a delivery fails, not when it is claimed
Claim_uncounted(d) ==
  /\ drainer[d].pc = "idle"
  /\ \E k \in Effects :
       /\ row[k].state = "pending" /\ row[k].attempts < MaxAttempts /\ row[k].due
       /\ drainer' = [drainer EXCEPT ![d] = [pc |-> "claimed", effect |-> k]]
  /\ UNCHANGED <<row, clock, received, faults>>

\* the catch block clears what it is about to retry
Postpone_reopens(d) ==
  LET k == drainer[d].effect IN
  /\ drainer[d].pc = "refused"
  /\ row' = [row EXCEPT ![k].due = FALSE, ![k].state = "pending"]
  /\ Rest(d)
  /\ UNCHANGED <<clock, received, faults>>

\* the missing sender is noticed after the row is marked
NoSender_delivered(d) ==
  LET k == drainer[d].effect IN
  /\ drainer[d].pc = "claimed"
  /\ k \notin Deliverable
  /\ row' = [row EXCEPT ![k].state = "delivered"]
  /\ Rest(d)
  /\ UNCHANGED <<clock, received, faults>>
-----------------------------------------------------------------------------
(* emit(), at the commit of the handler's transaction: INSERT ... ON CONFLICT
   (idempotency_key) DO NOTHING.  A handler that rolls back emits nothing. *)
Emit(k) ==
  /\ row[k].state = "absent"
  /\ row' = [row EXCEPT ![k] = [NoRow EXCEPT !.state = "pending", !.at = clock]]
  /\ clock' = clock + 1
  /\ UNCHANGED <<drainer, received, faults>>

Claimable(k) ==
  /\ row[k].state = "pending"
  /\ row[k].attempts < MaxAttempts
  /\ row[k].due

(* UPDATE ... SET attempts = attempts + 1 WHERE id = (SELECT ... ORDER BY
   created_at FOR UPDATE SKIP LOCKED LIMIT 1): one statement, committed at once.
   next_attempt_at stays, so the row remains claimable while it is being sent. *)
Claim(d) ==
  /\ drainer[d].pc = "idle"
  /\ \E k \in Effects :
       /\ Claimable(k)
       /\ \A j \in Effects : Claimable(j) => row[k].at <= row[j].at
       /\ row' = [row EXCEPT ![k].attempts = @ + 1]
       /\ drainer' = [drainer EXCEPT ![d] = [pc |-> "claimed", effect |-> k]]
  /\ UNCHANGED <<clock, received, faults>>

(* No sender for the effect's type: `recorded', and due again in an hour. *)
NoSender(d) ==
  LET k == drainer[d].effect IN
  /\ drainer[d].pc = "claimed"
  /\ k \notin Deliverable
  /\ row' = [row EXCEPT ![k].due = FALSE]
  /\ Rest(d)
  /\ UNCHANGED <<clock, received, faults>>

(* await sender(...): the receiver gets the effect or not, and the sender
   returns or throws; it may throw although the receiver got it. *)
Send(d) ==
  LET k == drainer[d].effect IN
  /\ drainer[d].pc = "claimed"
  /\ k \in Deliverable
  /\ \/ received' = [received EXCEPT ![k] = @ + 1] /\ Goto(d, "answered")
     \/ received' = [received EXCEPT ![k] = @ + 1] /\ Goto(d, "refused")
     \/ UNCHANGED received /\ Goto(d, "refused")
  /\ UNCHANGED <<row, clock, faults>>

(* UPDATE ... SET delivered_at = now() *)
Confirm(d) ==
  /\ drainer[d].pc = "answered"
  /\ row' = [row EXCEPT ![drainer[d].effect].state = "delivered"]
  /\ Rest(d)
  /\ UNCHANGED <<clock, received, faults>>

(* That UPDATE is inside the try: when it fails, the delivery counts as failed. *)
ConfirmFails(d) ==
  /\ drainer[d].pc = "answered"
  /\ faults < MaxFaults
  /\ faults' = faults + 1
  /\ Goto(d, "refused")
  /\ UNCHANGED <<row, clock, received>>

(* The catch block: next_attempt_at = now() + backoff, WHERE id alone. *)
Postpone(d) ==
  /\ drainer[d].pc = "refused"
  /\ row' = [row EXCEPT ![drainer[d].effect].due = FALSE]
  /\ Rest(d)
  /\ UNCHANGED <<clock, received, faults>>

(* The drainer's process dies, or a query outside the try fails and the tick
   swallows it: nothing more is recorded for this claim. *)
Abandon(d) ==
  /\ drainer[d].pc # "idle"
  /\ faults < MaxFaults
  /\ faults' = faults + 1
  /\ Rest(d)
  /\ UNCHANGED <<row, clock, received>>

(* next_attempt_at has passed; of interest while k is undelivered. *)
BackoffEnds(k) ==
  /\ ~row[k].due
  /\ row[k].state = "pending" /\ row[k].attempts < MaxAttempts
  /\ row' = [row EXCEPT ![k].due = TRUE]
  /\ UNCHANGED <<clock, drainer, received, faults>>

DeliverOne(d) == Claim(d) \/ NoSender(d) \/ Send(d) \/ Confirm(d) \/ Postpone(d)

Next ==
  \/ \E k \in Effects : Emit(k) \/ BackoffEnds(k)
  \/ \E d \in Drainers : DeliverOne(d) \/ ConfirmFails(d) \/ Abandon(d)

Spec == Init /\ [][Next]_vars

(* start()'s interval keeps draining and the clock moves; a sender's promise
   settles.  Nobody owes an effect, a fault or a sender that succeeds. *)
Fairness ==
  /\ \A d \in Drainers : WF_vars(DeliverOne(d))
  /\ \A k \in Effects : WF_vars(BackoffEnds(k))

FairSpec == Spec /\ Fairness
-----------------------------------------------------------------------------
(* Properties *)

(* The drainers that have claimed k and not sent it yet *)
Underway(k) == {d \in Drainers : drainer[d].pc = "claimed" /\ drainer[d].effect = k}

(* Each copy a receiver gets, or is about to get, was paid for by an attempt
   counted before it was sent (lines 55-71): with crashes, several drainers and
   lost answers, a receiver gets at most maxAttempts copies of an effect. *)
CopiesAreCounted ==
  \A k \in Effects :
    /\ received[k] + Cardinality(Underway(k)) <= row[k].attempts
    /\ row[k].attempts <= MaxAttempts

(* An effect recorded as delivered has reached its receiver (lines 88-96). *)
DeliveredWasReceived ==
  \A k \in Effects : row[k].state = "delivered" => received[k] > 0

(* What is delivered stays delivered: neither a second emit() of the key nor
   another drainer's late failure reopens it. *)
DeliveredIsFinal ==
  [][\A k \in Effects : row[k].state = "delivered" => row'[k].state = "delivered"]_vars

(* A drainer that works ends every intent: delivered, or out of attempts. *)
Ended(k) == row[k].state = "delivered" \/ row[k].attempts = MaxAttempts
EveryIntentEnds == \A k \in Effects : row[k].state = "pending" ~> Ended(k)
=============================================================================
