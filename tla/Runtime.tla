------------------------------ MODULE Runtime -------------------------------
(***************************************************************************)
(* src/runtime/index.js: the webhook endpoint, the durable inbox and the   *)
(* workers that drain it.  Postgres runs READ COMMITTED, so a transaction  *)
(* sees what others have committed, and its row locks last until its end.  *)
(* A worker is one processOne() call at a time; several workers are several *)
(* processes, or several runtimes one process builds (src/loops does).     *)
(*                                                                         *)
(* A transaction's own writes are invisible until COMMIT, so everything    *)
(* processOne writes appears in the one action that commits; what other    *)
(* workers can see earlier, its locks, is the worker's pc.                 *)
(***************************************************************************)
EXTENDS Naturals, FiniteSets

CONSTANTS
  Deliveries,   \* HTTP requests the provider sends; several may carry one event
  Events,       \* x-razorpay-event-id values
  Subjects,     \* order ids
  Workers,      \* concurrent processOne() loops
  EventOf,      \* EventOf[d]: the event a delivery carries
  Genuine,      \* the deliveries whose signature and event id are in order
  TypeOf,       \* TypeOf[e]: the event's type
  SubjectOf,    \* SubjectOf[e]: the order it is about, or None
  Handled,      \* event types the merchant registered with on()
  Expected,     \* the event type expectations wait for
  MaxAttempts,  \* RAZE_MAX_ATTEMPTS
  MaxCrashes,   \* bound: process deaths in one behaviour
  None

EventTypes == {"payment.authorized", "payment.captured", "payment.failed",
               "order.paid", "refund.created", "refund.processed", "other"}

ASSUME RuntimeAssumption ==
  /\ EventOf \in [Deliveries -> Events]
  /\ Genuine \subseteq Deliveries
  /\ TypeOf \in [Events -> EventTypes]
  /\ SubjectOf \in [Events -> Subjects \cup {None}]
  /\ None \notin Subjects \cup Events
  /\ Handled \subseteq EventTypes
  /\ Expected \in EventTypes
  /\ MaxAttempts \in Nat \ {0}
  /\ MaxCrashes \in Nat

VARIABLES
  wire,         \* wire[d]: where a delivery is, as the provider and the endpoint see it
  inbox,        \* inbox[e]: the raze_inbox row of event e
  clock,        \* source of received_at
  subject,      \* subject[s]: the raze_subject_state row; rank 0 means no row
  expectation,  \* expectation[s]: the latest raze_expectations row for s
  tx,           \* tx[w]: what worker w's processOne() is doing
  effects,      \* effects[e]: committed runs of the merchant's handler for e
  crashes

vars == <<wire, inbox, clock, subject, expectation, tx, effects, crashes>>

(* The RANK table.  An unlisted type has rank 0 and is never ordered. *)
Rank(t) ==
  CASE t = "payment.authorized" -> 1
    [] t \in {"payment.captured", "payment.failed", "order.paid"} -> 2
    [] t = "refund.created" -> 3
    [] t = "refund.processed" -> 4
    [] OTHER -> 0

RankOf(e) == Rank(TypeOf[e])
HasHandler(e) == TypeOf[e] \in Handled

(* `if (subject && rank > 0)': whether the state machine looks at e at all. *)
Ordered(e) == SubjectOf[e] # None /\ RankOf(e) > 0

Settled == {"applied", "ignored_stale", "no_handler"}
Row == [state : {"absent", "pending"} \cup Settled,   \* pending: processed_at IS NULL
        attempts : Nat, attention : BOOLEAN,
        due : BOOLEAN,                                \* next_attempt_at has passed
        at : Nat]                                     \* received_at
NoRow == [state |-> "absent", attempts |-> 0, attention |-> FALSE, due |-> TRUE, at |-> 0]

(* A worker's pc: idle; picked holds the inbox row; checked has passed the rank
   test; handled has run the handler; rolledback has lost the transaction and
   still owes the failure UPDATE. *)
InTx == {"picked", "checked", "handled"}
Idle == [pc |-> "idle", ev |-> None, lock |-> FALSE]
Step == {Idle} \cup [pc : InTx \cup {"rolledback"}, ev : Events, lock : BOOLEAN]

TypeOK ==
  /\ wire \in [Deliveries -> {"unsent", "refused", "stored", "acked", "dropped"}]
  /\ inbox \in [Events -> Row]
  /\ clock \in Nat
  /\ subject \in [Subjects -> [rank : 0..4, type : EventTypes \cup {None}]]
  /\ expectation \in [Subjects -> {"none", "open", "fulfilled"}]
  /\ tx \in [Workers -> Step]
  /\ effects \in [Events -> Nat]
  /\ crashes \in 0..MaxCrashes

Init ==
  /\ wire = [d \in Deliveries |-> "unsent"]
  /\ inbox = [e \in Events |-> NoRow]
  /\ clock = 0
  /\ subject = [s \in Subjects |-> [rank |-> 0, type |-> None]]
  /\ expectation = [s \in Subjects |-> "none"]
  /\ tx = [w \in Workers |-> Idle]
  /\ effects = [e \in Events |-> 0]
  /\ crashes = 0

-----------------------------------------------------------------------------
(* Locks *)

(* Some worker's transaction holds the inbox row of e (FOR UPDATE). *)
RowLocked(e) == \E w \in Workers : tx[w].pc \in InTx /\ tx[w].ev = e

(* No other worker holds the lock on the raze_subject_state row of s. *)
SubjectFree(s, w) ==
  \A v \in Workers \ {w} : ~(tx[v].lock /\ SubjectOf[tx[v].ev] = s)

(* v's handler has written the merchant's row of s and not committed. *)
WroteMerchantRow(v, s) ==
  /\ tx[v].pc = "handled"
  /\ HasHandler(tx[v].ev)
  /\ SubjectOf[tx[v].ev] = s
  /\ s # None

MerchantRowFree(s, w) == \A v \in Workers \ {w} : ~WroteMerchantRow(v, s)

Move(w, pc) == tx' = [tx EXCEPT ![w].pc = pc]
Rest(w) == tx' = [tx EXCEPT ![w] = Idle]

\* Faulty variant: the failure is recorded before ROLLBACK, on another connection
Rollback_keepsLock(w) == tx' = [tx EXCEPT ![w].pc = "rolledback"]

Rollback(w) == tx' = [tx EXCEPT ![w].pc = "rolledback", ![w].lock = FALSE]
-----------------------------------------------------------------------------
(* Faulty variants of definitions below, one per property: each is a bug the
   property has to catch. *)

\* SELECT without FOR UPDATE SKIP LOCKED
Pickable_unlocked(e) == inbox[e].state = "pending" /\ ~inbox[e].attention /\ inbox[e].due

\* WHERE processed_at IS NULL alone, as before needs_attention and next_attempt_at
Pickable_anyPending(e) == inbox[e].state = "pending" /\ ~RowLocked(e)

\* 200 before the INSERT
Acknowledge_early(d) ==
  /\ wire[d] = "unsent"
  /\ wire' = [wire EXCEPT ![d] = "acked"]
  /\ UNCHANGED <<inbox, clock, subject, expectation, tx, effects, crashes>>

\* no state machine
Stale_never(e) == FALSE

\* EXCLUDED.rank instead of GREATEST(...)
Highest_last(a, b) == b

\* rank = rank + EXCLUDED.rank
Highest_sum(a, b) == a + b

\* the rank is advanced on a connection of its own and survives the rollback
HandlerThrows_advances(w) ==
  LET e == tx[w].ev IN
  /\ tx[w].pc = "checked"
  /\ HasHandler(e)
  /\ Rollback(w)
  /\ subject' = IF Ordered(e)
                THEN [subject EXCEPT ![SubjectOf[e]] = [rank |-> RankOf(e), type |-> TypeOf[e]]]
                ELSE subject
  /\ UNCHANGED <<wire, inbox, clock, expectation, effects, crashes>>

\* expectations resolved by subject_id alone
Fulfil_anyEvent(e) ==
  expectation' = [s \in Subjects |->
    IF s = SubjectOf[e] /\ expectation[s] = "open" THEN "fulfilled" ELSE expectation[s]]

\* the handler writes outside the inbox's transaction
CrashWorker_effectSurvives(w) ==
  /\ tx[w].pc = "handled"
  /\ crashes < MaxCrashes
  /\ crashes' = crashes + 1
  /\ effects' = [effects EXCEPT ![tx[w].ev] = @ + 1]
  /\ Rest(w)
  /\ UNCHANGED <<wire, inbox, clock, subject, expectation>>

\* process_attempts is not incremented
RecordFailure_uncounted(w) ==
  /\ tx[w].pc = "rolledback"
  /\ inbox' = [inbox EXCEPT ![tx[w].ev].due = FALSE]
  /\ Rest(w)
  /\ UNCHANGED <<wire, clock, subject, expectation, effects, crashes>>
-----------------------------------------------------------------------------
(* The endpoint *)

(* A forged or incomplete request is answered 401 or 400 and stores nothing. *)
Refuse(d) ==
  /\ wire[d] = "unsent"
  /\ d \notin Genuine
  /\ wire' = [wire EXCEPT ![d] = "refused"]
  /\ UNCHANGED <<inbox, clock, subject, expectation, tx, effects, crashes>>

(* INSERT ... ON CONFLICT (event_id) DO NOTHING, before any answer. *)
Store(d) ==
  LET e == EventOf[d] IN
  /\ wire[d] = "unsent"
  /\ d \in Genuine
  /\ wire' = [wire EXCEPT ![d] = "stored"]
  /\ IF inbox[e].state = "absent"
     THEN /\ inbox' = [inbox EXCEPT ![e] = [NoRow EXCEPT !.state = "pending", !.at = clock]]
          /\ clock' = clock + 1
     ELSE UNCHANGED <<inbox, clock>>
  /\ UNCHANGED <<subject, expectation, tx, effects, crashes>>

Acknowledge(d) ==
  /\ wire[d] = "stored"
  /\ wire' = [wire EXCEPT ![d] = "acked"]
  /\ UNCHANGED <<inbox, clock, subject, expectation, tx, effects, crashes>>

(* expect(), in the merchant's transaction that creates the order.  While one is
   open the partial unique index makes a second a no-op. *)
Expect(s) ==
  /\ expectation[s] # "open"
  /\ expectation' = [expectation EXCEPT ![s] = "open"]
  /\ UNCHANGED <<wire, inbox, clock, subject, tx, effects, crashes>>
-----------------------------------------------------------------------------
(* The worker *)

Pickable(e) ==
  /\ inbox[e].state = "pending"
  /\ ~inbox[e].attention
  /\ inbox[e].due
  /\ ~RowLocked(e)

(* ORDER BY received_at FOR UPDATE SKIP LOCKED LIMIT 1 *)
Pick(w) ==
  /\ tx[w].pc = "idle"
  /\ \E e \in Events :
       /\ Pickable(e)
       /\ \A f \in Events : Pickable(f) => inbox[e].at <= inbox[f].at
       /\ tx' = [tx EXCEPT ![w] = [pc |-> "picked", ev |-> e, lock |-> FALSE]]
  /\ UNCHANGED <<wire, inbox, clock, subject, expectation, effects, crashes>>

Stale(e) == Ordered(e) /\ RankOf(e) < subject[SubjectOf[e]].rank

(* SELECT rank ... FOR UPDATE finds a row: it waits for the row's lock, then keeps it. *)
MustLock(e) == Ordered(e) /\ subject[SubjectOf[e]].rank > 0

MayTest(w) ==
  /\ tx[w].pc = "picked"
  /\ MustLock(tx[w].ev) => SubjectFree(SubjectOf[tx[w].ev], w)

PassRank(w) ==
  LET e == tx[w].ev IN
  /\ MayTest(w)
  /\ ~Stale(e)
  /\ tx' = [tx EXCEPT ![w].pc = "checked", ![w].lock = MustLock(e)]
  /\ UNCHANGED <<wire, inbox, clock, subject, expectation, effects, crashes>>

(* A lower-ranked event after a higher one: processed, and nothing else is written. *)
IgnoreStale(w) ==
  LET e == tx[w].ev IN
  /\ MayTest(w)
  /\ Stale(e)
  /\ inbox' = [inbox EXCEPT ![e].state = "ignored_stale"]
  /\ Rest(w)
  /\ UNCHANGED <<wire, clock, subject, expectation, effects, crashes>>

(* The handler's writes lock the merchant's row of this order; without a handler
   there is nothing to run and nothing to lock. *)
MayHandle(w) ==
  /\ tx[w].pc = "checked"
  /\ HasHandler(tx[w].ev) => MerchantRowFree(SubjectOf[tx[w].ev], w)

RunHandler(w) ==
  /\ MayHandle(w)
  /\ Move(w, "handled")
  /\ UNCHANGED <<wire, inbox, clock, subject, expectation, effects, crashes>>

HandlerThrows(w) ==
  /\ tx[w].pc = "checked"
  /\ HasHandler(tx[w].ev)
  /\ Rollback(w)
  /\ UNCHANGED <<wire, inbox, clock, subject, expectation, effects, crashes>>

(* w wrote the merchant's row before any subject row existed and now needs the
   subject row v locked; v waits for the merchant's row.  Postgres aborts one. *)
Deadlocked(w, v) ==
  /\ WroteMerchantRow(w, SubjectOf[tx[w].ev])
  /\ ~tx[w].lock /\ Ordered(tx[w].ev)
  /\ tx[v].pc = "checked" /\ tx[v].lock /\ HasHandler(tx[v].ev)
  /\ SubjectOf[tx[v].ev] = SubjectOf[tx[w].ev]

MayAbort(w) == \E v \in Workers : Deadlocked(w, v) \/ Deadlocked(v, w)

BreakDeadlock(w) ==
  /\ MayAbort(w)
  /\ Rollback(w)
  /\ UNCHANGED <<wire, inbox, clock, subject, expectation, effects, crashes>>

Highest(a, b) == IF a >= b THEN a ELSE b

(* INSERT ... ON CONFLICT DO UPDATE SET rank = GREATEST(...), event_type = EXCLUDED.event_type *)
Advance(e) ==
  IF Ordered(e)
  THEN subject' = [subject EXCEPT ![SubjectOf[e]] =
                     [rank |-> Highest(@.rank, RankOf(e)), type |-> TypeOf[e]]]
  ELSE UNCHANGED subject

(* UPDATE raze_expectations ... WHERE subject_id, expected_event AND resolved_at IS NULL *)
Fulfil(e) ==
  LET s == SubjectOf[e] IN
  IF s # None /\ TypeOf[e] = Expected /\ expectation[s] = "open"
  THEN expectation' = [expectation EXCEPT ![s] = "fulfilled"]
  ELSE UNCHANGED expectation

MarkProcessed(e) ==
  inbox' = [inbox EXCEPT ![e].state = IF HasHandler(e) THEN "applied" ELSE "no_handler"]

CountEffect(e) ==
  effects' = [effects EXCEPT ![e] = IF HasHandler(e) THEN @ + 1 ELSE @]

(* The rest of the transaction and its COMMIT: rank, expectation, inbox row and
   the handler's writes become visible together. *)
MayCommit(w) ==
  /\ tx[w].pc = "handled"
  /\ Ordered(tx[w].ev) => SubjectFree(SubjectOf[tx[w].ev], w)

Commit(w) ==
  LET e == tx[w].ev IN
  /\ MayCommit(w)
  /\ Advance(e)
  /\ Fulfil(e)
  /\ MarkProcessed(e)
  /\ CountEffect(e)
  /\ Rest(w)
  /\ UNCHANGED <<wire, clock, crashes>>

(* The UPDATE outside the rolled-back transaction.  It waits for a row lock and
   has no condition on processed_at. *)
MayRecord(w) == tx[w].pc = "rolledback" /\ ~RowLocked(tx[w].ev)

RecordFailure(w) ==
  LET e == tx[w].ev IN
  /\ MayRecord(w)
  /\ inbox' = [inbox EXCEPT ![e].attempts = @ + 1,
                            ![e].attention = inbox[e].attempts + 1 >= MaxAttempts,
                            ![e].due = FALSE]
  /\ Rest(w)
  /\ UNCHANGED <<wire, clock, subject, expectation, effects, crashes>>

(* next_attempt_at <= now() again; only of interest while e is to be retried. *)
BackoffEnds(e) ==
  /\ ~inbox[e].due
  /\ inbox[e].state = "pending" /\ ~inbox[e].attention
  /\ inbox' = [inbox EXCEPT ![e].due = TRUE]
  /\ UNCHANGED <<wire, clock, subject, expectation, tx, effects, crashes>>

(* A worker's process dies: Postgres rolls its transaction back, and a failure
   it had not recorded yet is never counted. *)
CrashWorker(w) ==
  /\ tx[w].pc # "idle"
  /\ crashes < MaxCrashes
  /\ crashes' = crashes + 1
  /\ Rest(w)
  /\ UNCHANGED <<wire, inbox, clock, subject, expectation, effects>>

(* The endpoint's process dies between the INSERT and the answer. *)
CrashEndpoint ==
  /\ crashes < MaxCrashes
  /\ crashes' = crashes + 1
  /\ \E d \in Deliveries : wire[d] = "stored"
  /\ wire' = [d \in Deliveries |-> IF wire[d] = "stored" THEN "dropped" ELSE wire[d]]
  /\ UNCHANGED <<inbox, clock, subject, expectation, tx, effects>>
-----------------------------------------------------------------------------
Request(d) == Refuse(d) \/ Store(d) \/ Acknowledge(d)

(* One processOne() call, step by step *)
ProcessOne(w) ==
  \/ Pick(w) \/ PassRank(w) \/ IgnoreStale(w)
  \/ RunHandler(w) \/ HandlerThrows(w) \/ BreakDeadlock(w)
  \/ Commit(w) \/ RecordFailure(w)

Next ==
  \/ \E d \in Deliveries : Request(d)
  \/ \E s \in Subjects : Expect(s)
  \/ \E w \in Workers : ProcessOne(w) \/ CrashWorker(w)
  \/ \E e \in Events : BackoffEnds(e)
  \/ CrashEndpoint

Spec == Init /\ [][Next]_vars

(* startWorker's interval keeps calling drain(), and the clock moves.  Nobody
   owes a delivery, a crash, an order or a handler that succeeds. *)
Fairness ==
  /\ \A w \in Workers : WF_vars(ProcessOne(w))
  /\ \A e \in Events : WF_vars(BackoffEnds(e))

FairSpec == Spec /\ Fairness
-----------------------------------------------------------------------------
(* Properties *)

Outcome(e) ==
  CASE inbox[e].state = "absent" -> "unseen"
    [] inbox[e].state = "pending" -> IF inbox[e].attention THEN "parked" ELSE "queued"
    [] OTHER -> inbox[e].state

C == INSTANCE Contract WITH outcome <- [e \in Events |-> Outcome(e)]

(* Exactly-once business-state transition (lines 10-13): whatever the workers'
   interleaving, redeliveries, rollbacks and crashes, the endpoint and the
   workers implement the one-event contract. *)
ImplementsContract == C!ContractSpec

(* ... and with a live worker no stored event stays queued for ever (lines
   270-275: it is settled, or parked for attention). *)
ImplementsFairContract == C!FairContractSpec

(* What makes it so.  A row in a transaction is neither settled nor parked ... *)
HeldIsPending ==
  \A w \in Workers : tx[w].pc \in InTx =>
    inbox[tx[w].ev].state = "pending" /\ ~inbox[tx[w].ev].attention

(* ... one worker only holds it ... *)
HeldByOne ==
  \A v, w \in Workers :
    tx[v].pc \in InTx /\ tx[w].pc \in InTx /\ tx[v].ev = tx[w].ev => v = w

(* ... and a handler's writes are committed for exactly the rows marked `applied'. *)
EffectIffApplied ==
  \A e \in Events : effects[e] = IF inbox[e].state = "applied" THEN 1 ELSE 0

(* A failure is recorded on a row that exists. *)
FailedIsStored ==
  \A w \in Workers : tx[w].pc = "rolledback" => inbox[tx[w].ev].state # "absent"

(* Worker exclusion and the all-or-nothing commit of processOne (lines 174-268). *)
Exclusive == HeldIsPending /\ HeldByOne /\ EffectIffApplied /\ FailedIsStored

(* The provider is told 200 only about an event that is in the inbox (steps 5
   and 6 of the request path), whatever dies in between. *)
AckedIsDurable ==
  \A d \in Deliveries : wire[d] = "acked" => inbox[EventOf[d]].state # "absent"

(* Events of s that were processed and not set aside as stale *)
Counted(s) ==
  {e \in Events : SubjectOf[e] = s /\ inbox[e].state \in {"applied", "no_handler"}}

(* The recorded rank is the highest rank processed for the order, also when two
   workers race past an order that has no row yet (GREATEST, line 240). *)
RankIsHighest ==
  \A s \in Subjects :
    /\ \A e \in Counted(s) : RankOf(e) <= subject[s].rank
    /\ subject[s].rank > 0 => \E e \in Counted(s) : RankOf(e) = subject[s].rank

(* An event is set aside as stale only if one that outranks it was processed. *)
StaleIsOutranked ==
  \A e \in Events : inbox[e].state = "ignored_stale" =>
    \E f \in Counted(SubjectOf[e]) : RankOf(f) > RankOf(e)

(* An expectation is fulfilled only by the awaited event of its own order. *)
FulfilledByEvent ==
  \A s \in Subjects : expectation[s] = "fulfilled" =>
    \E e \in Counted(s) : TypeOf[e] = Expected

(* `Never regress state' (line 195): an order's recorded event is of its
   recorded rank, so no lower-ranked event was applied over a higher one. *)
NeverRegress ==
  \A s \in Subjects : subject[s].rank > 0 => Rank(subject[s].type) = subject[s].rank

(* An event marked for attention `is never marked processed' (lines 273-274). *)
AttentionIsUnprocessed ==
  \A e \in Events : inbox[e].attention => inbox[e].state = "pending"

(* The lock the next statement of w waits for is free, or Postgres will abort w for
   it.  That a handler may throw by itself does not count. *)
CanGoOn(w) == MayTest(w) \/ MayHandle(w) \/ MayCommit(w) \/ MayAbort(w) \/ MayRecord(w)

(* No worker waits for ever on another's locks: while a transaction is open, or
   a failure is still to be recorded, one of the workers concerned can go on. *)
NoStall == (\E w \in Workers : tx[w].pc # "idle") => \E w \in Workers : CanGoOn(w)
=============================================================================
