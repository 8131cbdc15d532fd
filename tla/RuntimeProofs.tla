--------------------------- MODULE RuntimeProofs ----------------------------
(***************************************************************************)
(* Proofs about Runtime, for any number of workers, events, deliveries and *)
(* orders.                                                                 *)
(***************************************************************************)
EXTENDS Runtime, TLAPS

(* The RANK table is a small number for every event type. *)
LEMMA RankType == ASSUME NEW t PROVE Rank(t) \in 0..4
  BY DEF Rank

(* A worker that is not idle holds an event. *)
LEMMA BusyHasEvent ==
  ASSUME tx \in [Workers -> Step], NEW w \in Workers, tx[w].pc # "idle"
  PROVE  tx[w] \in [pc : InTx \cup {"rolledback"}, ev : Events, lock : BOOLEAN]
  BY DEF Step, Idle

(* What the worker's moves do to tx keeps its type. *)
LEMMA MovesAreTyped ==
  ASSUME tx \in [Workers -> Step], NEW w \in Workers
  PROVE  /\ Rest(w) => tx' \in [Workers -> Step]
         /\ tx[w].pc # "idle" =>
              /\ \A pc \in InTx : Move(w, pc) => tx' \in [Workers -> Step]
              /\ Rollback(w) => tx' \in [Workers -> Step]
<1>1. Idle \in Step
  BY DEF Step
<1>2. ASSUME tx[w].pc # "idle", NEW pc \in InTx
      PROVE  /\ [tx[w] EXCEPT !.pc = pc] \in Step
             /\ [tx[w] EXCEPT !.pc = "rolledback", !.lock = FALSE] \in Step
  BY <1>2, BusyHasEvent DEF Step
<1>3. ASSUME tx[w].pc # "idle", NEW pc \in InTx, Move(w, pc)
      PROVE  tx' \in [Workers -> Step]
  <2>1. tx' = [tx EXCEPT ![w] = [tx[w] EXCEPT !.pc = pc]]
    BY <1>3 DEF Move
  <2>2. QED
    BY <1>2, <1>3, <2>1
<1>4. ASSUME Rest(w) PROVE tx' \in [Workers -> Step]
  BY <1>1, <1>4 DEF Rest
<1>5. ASSUME tx[w].pc # "idle", Rollback(w) PROVE tx' \in [Workers -> Step]
  <2>1. tx' = [tx EXCEPT ![w] = [tx[w] EXCEPT !.pc = "rolledback", !.lock = FALSE]]
    BY <1>5 DEF Rollback
  <2>2. "picked" \in InTx
    BY DEF InTx
  <2>3. QED
    BY <1>2, <1>5, <2>1, <2>2
<1>6. QED
  BY <1>3, <1>4, <1>5

(* Rewriting columns of one inbox row keeps the table's type. *)
LEMMA RowsAreTyped ==
  ASSUME inbox \in [Events -> Row], NEW e
  PROVE  /\ \A st \in {"absent", "pending"} \cup Settled :
              [inbox EXCEPT ![e].state = st] \in [Events -> Row]
         /\ [inbox EXCEPT ![e].due = TRUE] \in [Events -> Row]
         /\ [inbox EXCEPT ![e].attempts = @ + 1,
                           ![e].attention = inbox[e].attempts + 1 >= MaxAttempts,
                           ![e].due = FALSE] \in [Events -> Row]
<1>1. CASE e \notin Events
  BY <1>1
<1>2. CASE e \in Events
  <2>1. /\ \A st \in {"absent", "pending"} \cup Settled : [inbox[e] EXCEPT !.state = st] \in Row
        /\ [inbox[e] EXCEPT !.due = TRUE] \in Row
    BY <1>2 DEF Row
  <2>2. [inbox[e] EXCEPT !.attempts = @ + 1,
                         !.attention = inbox[e].attempts + 1 >= MaxAttempts,
                         !.due = FALSE] \in Row
    <3>1. inbox[e] \in Row /\ inbox[e].attempts + 1 \in Nat
      BY <1>2 DEF Row
    <3>2. \A n \in Nat, b \in BOOLEAN :
            [inbox[e] EXCEPT !.attempts = n, !.attention = b, !.due = FALSE] \in Row
      BY <3>1 DEF Row
    <3>3. (inbox[e].attempts + 1 >= MaxAttempts) \in BOOLEAN
      BY <3>1, RuntimeAssumption
    <3>4. QED
      BY <3>1, <3>2, <3>3
  <2>3. \A st : [inbox EXCEPT ![e].state = st] = [inbox EXCEPT ![e] = [inbox[e] EXCEPT !.state = st]]
    BY <1>2
  <2>4. [inbox EXCEPT ![e].due = TRUE] = [inbox EXCEPT ![e] = [inbox[e] EXCEPT !.due = TRUE]]
    BY <1>2
  <2>5. [inbox EXCEPT ![e].attempts = @ + 1,
                      ![e].attention = inbox[e].attempts + 1 >= MaxAttempts,
                      ![e].due = FALSE]
          = [inbox EXCEPT ![e] = [inbox[e] EXCEPT !.attempts = @ + 1,
                                  !.attention = inbox[e].attempts + 1 >= MaxAttempts,
                                  !.due = FALSE]]
    BY <1>2
  <2>6. \A r \in Row : [inbox EXCEPT ![e] = r] \in [Events -> Row]
    OBVIOUS
  <2>7. QED
    BY <2>1, <2>2, <2>3, <2>4, <2>5, <2>6
<1>3. QED
  BY <1>1, <1>2

(* Every variable keeps its type: src/runtime/index.js writes no other value. *)
THEOREM TypeCorrect == Spec => []TypeOK
<1> USE RuntimeAssumption
<1>1. Init => TypeOK
  BY DEF Init, TypeOK, Row, NoRow, Idle, InTx, Settled, Step
<1>2. TypeOK /\ [Next]_vars => TypeOK'
  <2> SUFFICES ASSUME TypeOK, [Next]_vars PROVE TypeOK'
    OBVIOUS
  <2> USE DEF TypeOK
  <2>0. /\ {"pending", "ignored_stale", "applied", "no_handler"}
             \subseteq {"absent", "pending"} \cup Settled
        /\ "handled" \in InTx
    BY DEF Settled, InTx
  <2>1. ASSUME NEW d \in Deliveries, Request(d) PROVE TypeOK'
    <3>1. CASE Refuse(d)
      BY <3>1 DEF Refuse
    <3>2. CASE Store(d)
      <4>1. [NoRow EXCEPT !.state = "pending", !.at = clock] \in Row
        BY DEF NoRow, Row
      <4>2. inbox' \in [Events -> Row] /\ clock' \in Nat
        BY <3>2, <4>1 DEF Store
      <4>3. QED
        BY <3>2, <4>2 DEF Store
    <3>3. CASE Acknowledge(d)
      BY <3>3 DEF Acknowledge
    <3>4. QED
      BY <2>1, <3>1, <3>2, <3>3 DEF Request
  <2>2. ASSUME NEW s \in Subjects, Expect(s) PROVE TypeOK'
    BY <2>2 DEF Expect
  <2>3. ASSUME NEW w \in Workers, ProcessOne(w) PROVE TypeOK'
    <3>1. CASE Pick(w)
      <4>1. \A e \in Events : [pc |-> "picked", ev |-> e, lock |-> FALSE] \in Step
        BY DEF Step, InTx
      <4>2. QED
        BY <3>1, <4>1 DEF Pick
    <3>2. CASE PassRank(w)
      <4> DEFINE l == MustLock(tx[w].ev)
      <4>1. tx' = [tx EXCEPT ![w] = [tx[w] EXCEPT !.pc = "checked", !.lock = l]]
        BY <3>2 DEF PassRank
      <4>2. l \in BOOLEAN
        BY DEF MustLock
      <4> HIDE DEF l
      <4>5. [tx[w] EXCEPT !.pc = "checked", !.lock = l] \in Step
        BY <3>2, <4>2, BusyHasEvent DEF PassRank, MayTest, Step, InTx
      <4>3. tx' \in [Workers -> Step]
        BY <4>1, <4>5
      <4>4. QED
        BY <3>2, <4>3 DEF PassRank
    <3>3. CASE IgnoreStale(w)
      <4>1. inbox' = [inbox EXCEPT ![tx[w].ev].state = "ignored_stale"] /\ Rest(w)
        BY <3>3 DEF IgnoreStale
      <4>2. inbox' \in [Events -> Row] /\ tx' \in [Workers -> Step]
        BY <2>0, <4>1, MovesAreTyped, RowsAreTyped
      <4>3. QED
        BY <3>3, <4>2 DEF IgnoreStale
    <3>4. CASE RunHandler(w)
      BY <2>0, <3>4, MovesAreTyped DEF RunHandler, MayHandle
    <3>5. CASE HandlerThrows(w)
      BY <3>5, MovesAreTyped DEF HandlerThrows
    <3>6. CASE BreakDeadlock(w)
      <4>1. tx[w].pc # "idle"
        BY <3>6 DEF BreakDeadlock, MayAbort, Deadlocked, WroteMerchantRow
      <4>2. QED
        BY <3>6, <4>1, MovesAreTyped DEF BreakDeadlock
    <3>7. CASE Commit(w)
      <4> DEFINE e == tx[w].ev
      <4>1. subject' \in [Subjects -> [rank : 0..4, type : EventTypes \cup {None}]]
        <5>1. CASE Ordered(e)
          <6>1. e \in Events /\ SubjectOf[e] \in Subjects
            BY <3>7, <5>1, BusyHasEvent DEF Ordered, Commit, MayCommit
          <6>2. TypeOf[e] \in EventTypes /\ RankOf(e) \in 0..4
            BY <6>1, RankType DEF RankOf
          <6>3. Highest(subject[SubjectOf[e]].rank, RankOf(e)) \in 0..4
            BY <6>1, <6>2 DEF Highest
          <6>4. subject' = [subject EXCEPT ![SubjectOf[e]] =
                     [rank |-> Highest(@.rank, RankOf(e)), type |-> TypeOf[e]]]
            BY <3>7, <5>1 DEF Commit, Advance
          <6>5. [rank |-> Highest(subject[SubjectOf[e]].rank, RankOf(e)), type |-> TypeOf[e]]
                  \in [rank : 0..4, type : EventTypes \cup {None}]
            BY <6>2, <6>3
          <6>6. QED
            BY <6>1, <6>4, <6>5
        <5>2. CASE ~Ordered(e)
          BY <3>7, <5>2 DEF Commit, Advance
        <5>3. QED
          BY <5>1, <5>2
      <4>2. expectation' \in [Subjects -> {"none", "open", "fulfilled"}]
        BY <3>7 DEF Commit, Fulfil
      <4>3. inbox' \in [Events -> Row]
        BY <2>0, <3>7, RowsAreTyped DEF Commit, MarkProcessed
      <4>4. effects' \in [Events -> Nat]
        <5>1. effects' = [effects EXCEPT ![e] = effects[e] + 1] \/ effects' = effects
          BY <3>7 DEF Commit, CountEffect
        <5>2. QED
          BY <3>7, <5>1, BusyHasEvent DEF Commit
      <4>5. tx' \in [Workers -> Step]
        BY <3>7, MovesAreTyped DEF Commit
      <4>6. UNCHANGED <<wire, clock, crashes>>
        BY <3>7 DEF Commit
      <4>7. QED
        BY <4>1, <4>2, <4>3, <4>4, <4>5, <4>6
    <3>8. CASE RecordFailure(w)
      <4>1. inbox' \in [Events -> Row]
        BY <3>8, RowsAreTyped DEF RecordFailure
      <4>2. tx' \in [Workers -> Step]
        BY <3>8, MovesAreTyped DEF RecordFailure
      <4>3. QED
        BY <3>8, <4>1, <4>2 DEF RecordFailure
    <3>9. QED
      BY <2>3, <3>1, <3>2, <3>3, <3>4, <3>5, <3>6, <3>7, <3>8 DEF ProcessOne
  <2>4. ASSUME NEW w \in Workers, CrashWorker(w) PROVE TypeOK'
    BY <2>4, MovesAreTyped DEF CrashWorker
  <2>5. ASSUME NEW e \in Events, BackoffEnds(e) PROVE TypeOK'
    BY <2>5, RowsAreTyped DEF BackoffEnds
  <2>6. CASE CrashEndpoint
    BY <2>6 DEF CrashEndpoint
  <2>7. CASE UNCHANGED vars
    BY <2>7 DEF vars
  <2>8. QED
    BY <2>1, <2>2, <2>3, <2>4, <2>5, <2>6, <2>7 DEF Next
<1>3. QED
  BY <1>1, <1>2, PTL DEF Spec
-----------------------------------------------------------------------------
(* Worker exclusion *)

(* Steps that touch neither the inbox's states nor the workers keep Exclusive. *)
LEMMA ExclusiveFrame ==
  ASSUME TypeOK, Exclusive, UNCHANGED <<tx, effects>>,
         \A e \in Events : inbox'[e].state = inbox[e].state /\ inbox'[e].attention = inbox[e].attention
  PROVE  Exclusive'
<1>1. \A w \in Workers : tx[w].pc # "idle" => tx[w].ev \in Events
  BY BusyHasEvent DEF TypeOK
<1>2. QED
  BY <1>1 DEF Exclusive, HeldIsPending, HeldByOne, EffectIffApplied, FailedIsStored, InTx

(* A worker that lets go of its row, or only moves on within its transaction. *)
LEMMA ExclusiveMove ==
  ASSUME TypeOK, Exclusive, UNCHANGED <<inbox, effects>>, NEW w \in Workers,
         tx'[w].ev = tx[w].ev \/ tx'[w].pc = "idle",
         tx'[w].pc \in InTx \cup {"rolledback"} => tx[w].pc \in InTx,
         \A v \in Workers \ {w} : tx'[v] = tx[v]
  PROVE  Exclusive'
<1>1. "idle" \notin InTx /\ "rolledback" \notin InTx
  BY DEF InTx
<1>2. QED
  BY <1>1 DEF Exclusive, HeldIsPending, HeldByOne, EffectIffApplied, FailedIsStored

(* A worker that writes its own row and ends its transaction. *)
LEMMA ExclusiveEnd ==
  ASSUME TypeOK, Exclusive, NEW w \in Workers, Rest(w),
         tx[w].pc # "idle",
         \A v \in Workers \ {w} : tx[v].pc \in InTx => tx[v].ev # tx[w].ev,
         \A e \in Events \ {tx[w].ev} : inbox'[e] = inbox[e] /\ effects'[e] = effects[e],
         inbox'[tx[w].ev].state # "absent",
         effects'[tx[w].ev] = IF inbox'[tx[w].ev].state = "applied" THEN 1 ELSE 0
  PROVE  Exclusive'
<1>1. tx'[w] = Idle /\ \A v \in Workers \ {w} : tx'[v] = tx[v]
  BY DEF Rest, TypeOK
<1>2. Idle.pc = "idle" /\ "idle" \notin InTx /\ "rolledback" \notin InTx
  BY DEF Idle, InTx
<1>3. \A v \in Workers : tx[v].pc # "idle" => tx[v].ev \in Events
  BY BusyHasEvent DEF TypeOK
<1>4. HeldIsPending'
  BY <1>1, <1>2, <1>3 DEF Exclusive, HeldIsPending
<1>5. HeldByOne'
  BY <1>1, <1>2 DEF Exclusive, HeldByOne
<1>6. EffectIffApplied'
  BY <1>3 DEF Exclusive, EffectIffApplied
<1>7. FailedIsStored'
  BY <1>1, <1>2, <1>3 DEF Exclusive, FailedIsStored
<1>8. QED
  BY <1>4, <1>5, <1>6, <1>7 DEF Exclusive

(* Nobody else holds the row a worker's transaction holds. *)
LEMMA HoldersDiffer ==
  ASSUME Exclusive, NEW w \in Workers, tx[w].pc \in InTx
  PROVE  \A v \in Workers \ {w} : tx[v].pc \in InTx => tx[v].ev # tx[w].ev
  BY DEF Exclusive, HeldByOne

LEMMA CommitExclusive ==
  ASSUME TypeOK, Exclusive, NEW w \in Workers, Commit(w)
  PROVE  Exclusive'
<1> DEFINE e == tx[w].ev
<1>1. tx[w].pc \in InTx /\ tx[w].pc # "idle" /\ e \in Events
  BY BusyHasEvent DEF Commit, MayCommit, InTx, TypeOK
<1>2. inbox[e].state = "pending" /\ effects[e] = 0
  BY <1>1 DEF Exclusive, HeldIsPending, EffectIffApplied
<1>3. inbox'[e].state = IF HasHandler(e) THEN "applied" ELSE "no_handler"
  BY <1>1 DEF Commit, MarkProcessed, TypeOK, Row
<1>4. effects'[e] = IF HasHandler(e) THEN 1 ELSE 0
  BY <1>1, <1>2 DEF Commit, CountEffect, TypeOK
<1>5. \A f \in Events \ {e} : inbox'[f] = inbox[f] /\ effects'[f] = effects[f]
  BY <1>1 DEF Commit, MarkProcessed, CountEffect, TypeOK
<1>6. Rest(w)
  BY DEF Commit
<1>7. QED
  BY <1>1, <1>3, <1>4, <1>5, <1>6, HoldersDiffer, ExclusiveEnd

LEMMA IgnoreStaleExclusive ==
  ASSUME TypeOK, Exclusive, NEW w \in Workers, IgnoreStale(w)
  PROVE  Exclusive'
<1> DEFINE e == tx[w].ev
<1>1. tx[w].pc \in InTx /\ tx[w].pc # "idle" /\ e \in Events
  BY BusyHasEvent DEF IgnoreStale, MayTest, InTx, TypeOK
<1>2. inbox[e].state = "pending" /\ effects[e] = 0
  BY <1>1 DEF Exclusive, HeldIsPending, EffectIffApplied
<1>3. inbox'[e].state = "ignored_stale"
  BY <1>1 DEF IgnoreStale, TypeOK, Row
<1>4. effects' = effects /\ \A f \in Events \ {e} : inbox'[f] = inbox[f]
  BY <1>1 DEF IgnoreStale, TypeOK
<1>5. Rest(w)
  BY DEF IgnoreStale
<1>6. QED
  BY <1>1, <1>2, <1>3, <1>4, <1>5, HoldersDiffer, ExclusiveEnd

LEMMA RecordFailureExclusive ==
  ASSUME TypeOK, Exclusive, NEW w \in Workers, RecordFailure(w)
  PROVE  Exclusive'
<1> DEFINE e == tx[w].ev
<1>1. tx[w].pc # "idle" /\ e \in Events
  BY BusyHasEvent DEF RecordFailure, MayRecord, TypeOK
<1>2. inbox'[e].state = inbox[e].state
  BY <1>1 DEF RecordFailure, TypeOK, Row
<1>3. effects' = effects /\ \A f \in Events \ {e} : inbox'[f] = inbox[f]
  BY <1>1 DEF RecordFailure, TypeOK
<1>4. inbox[e].state # "absent" /\ effects[e] = IF inbox[e].state = "applied" THEN 1 ELSE 0
  BY <1>1 DEF RecordFailure, MayRecord, Exclusive, FailedIsStored, EffectIffApplied
<1>5. \A v \in Workers \ {w} : tx[v].pc \in InTx => tx[v].ev # e
  BY DEF RecordFailure, MayRecord, RowLocked
<1>6. Rest(w)
  BY DEF RecordFailure
<1>7. QED
  BY <1>1, <1>2, <1>3, <1>4, <1>5, <1>6, ExclusiveEnd

LEMMA PickExclusive ==
  ASSUME TypeOK, Exclusive, NEW w \in Workers, Pick(w)
  PROVE  Exclusive'
<1>1. PICK e \in Events :
        /\ Pickable(e)
        /\ tx' = [tx EXCEPT ![w] = [pc |-> "picked", ev |-> e, lock |-> FALSE]]
  BY DEF Pick
<1>2. tx'[w].pc = "picked" /\ tx'[w].ev = e /\ \A v \in Workers \ {w} : tx'[v] = tx[v]
  BY <1>1 DEF TypeOK
<1>3. /\ inbox[e].state = "pending" /\ ~inbox[e].attention
      /\ \A v \in Workers : tx[v].pc \in InTx => tx[v].ev # e
  BY <1>1 DEF Pickable, RowLocked
<1>4. UNCHANGED <<inbox, effects>>
  BY DEF Pick
<1>5. QED
  BY <1>2, <1>3, <1>4 DEF Exclusive, HeldIsPending, HeldByOne, EffectIffApplied, FailedIsStored

LEMMA StoreExclusive ==
  ASSUME TypeOK, Exclusive, NEW d \in Deliveries, Store(d)
  PROVE  Exclusive'
<1> DEFINE e == EventOf[d]
<1>1. e \in Events
  BY RuntimeAssumption
<1>2. CASE inbox[e].state = "absent"
  <2>1. inbox' = [inbox EXCEPT ![e] = [NoRow EXCEPT !.state = "pending", !.at = clock]]
        /\ UNCHANGED <<tx, effects>>
    BY <1>2 DEF Store
  <2>2. inbox'[e].state = "pending" /\ \A f \in Events \ {e} : inbox'[f] = inbox[f]
    BY <1>1, <2>1 DEF NoRow, TypeOK
  <2>3. \A w \in Workers : tx[w].pc \in InTx => tx[w].ev # e
    BY <1>2 DEF Exclusive, HeldIsPending
  <2>4. \A w \in Workers : tx[w].pc # "idle" => tx[w].ev \in Events
    BY BusyHasEvent DEF TypeOK
  <2>5. effects[e] = 0
    BY <1>1, <1>2 DEF Exclusive, EffectIffApplied
  <2>6. QED
    BY <2>1, <2>2, <2>3, <2>4, <2>5
       DEF Exclusive, HeldIsPending, HeldByOne, EffectIffApplied, FailedIsStored, InTx
<1>3. CASE inbox[e].state # "absent"
  BY <1>3, ExclusiveFrame DEF Store
<1>4. QED
  BY <1>2, <1>3

LEMMA ExclusiveStep == TypeOK /\ Exclusive /\ [Next]_vars => Exclusive'
<1> SUFFICES ASSUME TypeOK, Exclusive, [Next]_vars PROVE Exclusive'
  OBVIOUS
<1>0. "picked" \in InTx /\ "checked" \in InTx /\ "handled" \in InTx
  BY DEF InTx
<1>1. ASSUME NEW d \in Deliveries, Request(d) PROVE Exclusive'
  <2>1. CASE Refuse(d)
    BY <2>1, ExclusiveFrame DEF Refuse
  <2>2. CASE Store(d)
    BY <2>2, StoreExclusive
  <2>3. CASE Acknowledge(d)
    BY <2>3, ExclusiveFrame DEF Acknowledge
  <2>4. QED
    BY <1>1, <2>1, <2>2, <2>3 DEF Request
<1>2. ASSUME NEW s \in Subjects, Expect(s) PROVE Exclusive'
  BY <1>2, ExclusiveFrame DEF Expect
<1>3. ASSUME NEW w \in Workers, ProcessOne(w) PROVE Exclusive'
  <2>1. CASE Pick(w)
    BY <2>1, PickExclusive
  <2>2. CASE PassRank(w)
    <3>1. /\ tx' = [tx EXCEPT ![w] = [tx[w] EXCEPT !.pc = "checked", !.lock = MustLock(tx[w].ev)]]
          /\ tx[w].pc = "picked" /\ UNCHANGED <<inbox, effects>>
      BY <2>2 DEF PassRank, MayTest
    <3>2. tx'[w].ev = tx[w].ev /\ \A v \in Workers \ {w} : tx'[v] = tx[v]
      BY <3>1, BusyHasEvent DEF TypeOK
    <3>3. QED
      BY <1>0, <3>1, <3>2, ExclusiveMove
  <2>3. CASE IgnoreStale(w)
    BY <2>3, IgnoreStaleExclusive
  <2>4. CASE RunHandler(w)
    <3>1. /\ tx' = [tx EXCEPT ![w] = [tx[w] EXCEPT !.pc = "handled"]]
          /\ tx[w].pc = "checked" /\ UNCHANGED <<inbox, effects>>
      BY <2>4 DEF RunHandler, MayHandle, Move
    <3>2. tx'[w].ev = tx[w].ev /\ \A v \in Workers \ {w} : tx'[v] = tx[v]
      BY <3>1, BusyHasEvent DEF TypeOK
    <3>3. QED
      BY <1>0, <3>1, <3>2, ExclusiveMove
  <2>5. CASE HandlerThrows(w) \/ BreakDeadlock(w)
    <3>1. tx[w].pc \in InTx
      BY <1>0, <2>5 DEF HandlerThrows, BreakDeadlock, MayAbort, Deadlocked, WroteMerchantRow
    <3>2. /\ tx' = [tx EXCEPT ![w] = [tx[w] EXCEPT !.pc = "rolledback", !.lock = FALSE]]
          /\ UNCHANGED <<inbox, effects>>
      BY <2>5 DEF HandlerThrows, BreakDeadlock, Rollback
    <3>3. tx'[w].ev = tx[w].ev /\ \A v \in Workers \ {w} : tx'[v] = tx[v]
      BY <3>1, <3>2, BusyHasEvent DEF TypeOK, InTx
    <3>4. QED
      BY <3>1, <3>2, <3>3, ExclusiveMove
  <2>6. CASE Commit(w)
    BY <2>6, CommitExclusive
  <2>7. CASE RecordFailure(w)
    BY <2>7, RecordFailureExclusive
  <2>8. QED
    BY <1>3, <2>1, <2>2, <2>3, <2>4, <2>5, <2>6, <2>7 DEF ProcessOne
<1>4. ASSUME NEW w \in Workers, CrashWorker(w) PROVE Exclusive'
  <2>1. tx' = [tx EXCEPT ![w] = Idle] /\ UNCHANGED <<inbox, effects>>
    BY <1>4 DEF CrashWorker, Rest
  <2>2. tx'[w].pc = "idle" /\ \A v \in Workers \ {w} : tx'[v] = tx[v]
    BY <2>1 DEF TypeOK, Idle
  <2>3. "idle" \notin InTx \cup {"rolledback"}
    BY DEF InTx
  <2>4. QED
    BY <2>1, <2>2, <2>3, ExclusiveMove
<1>5. ASSUME NEW e \in Events, BackoffEnds(e) PROVE Exclusive'
  <2>1. inbox' = [inbox EXCEPT ![e].due = TRUE] /\ UNCHANGED <<tx, effects>>
    BY <1>5 DEF BackoffEnds
  <2>2. \A f \in Events : inbox'[f].state = inbox[f].state /\ inbox'[f].attention = inbox[f].attention
    BY <2>1 DEF TypeOK, Row
  <2>3. QED
    BY <2>1, <2>2, ExclusiveFrame
<1>6. CASE CrashEndpoint
  BY <1>6, ExclusiveFrame DEF CrashEndpoint
<1>7. CASE UNCHANGED vars
  BY <1>7, ExclusiveFrame DEF vars
<1>8. QED
  BY <1>1, <1>2, <1>3, <1>4, <1>5, <1>6, <1>7 DEF Next

(* Whatever the interleaving, rollbacks, redeliveries and crashes: a row in a
   transaction is one worker's, unsettled and unparked, and a handler's writes
   are committed exactly for the rows marked applied (processOne). *)
THEOREM ExclusiveAlways == Spec => []Exclusive
<1>1. Init => Exclusive
  BY RuntimeAssumption
     DEF Init, Exclusive, HeldIsPending, HeldByOne, EffectIffApplied, FailedIsStored,
         NoRow, Idle, InTx
<1>2. QED
  BY <1>1, ExclusiveStep, TypeCorrect, PTL DEF Spec

-----------------------------------------------------------------------------
(* The contract *)

LEMMA OutcomeOf ==
  ASSUME NEW e \in Events
  PROVE  /\ inbox[e].state = "absent" => Outcome(e) = "unseen"
         /\ inbox[e].state = "pending" => Outcome(e) = IF inbox[e].attention THEN "parked" ELSE "queued"
         /\ inbox[e].state \notin {"absent", "pending"} => Outcome(e) = inbox[e].state
  BY DEF Outcome

(* A step that leaves the inbox's states and the effects alone is a stutter. *)
LEMMA ContractStutter ==
  ASSUME UNCHANGED effects,
         \A e \in Events : inbox'[e].state = inbox[e].state /\ inbox'[e].attention = inbox[e].attention
  PROVE  UNCHANGED C!contractVars
<1>1. \A e \in Events : Outcome(e)' = Outcome(e)
  BY DEF Outcome
<1>2. QED
  BY <1>1 DEF C!contractVars

(* A step that changes one event's outcome, the others' staying as they are. *)
LEMMA ContractUpdate ==
  ASSUME NEW e \in Events, \A f \in Events \ {e} : inbox'[f] = inbox[f]
  PROVE  [f \in Events |-> Outcome(f)]' = [[f \in Events |-> Outcome(f)] EXCEPT ![e] = Outcome(e)']
<1>1. \A f \in Events \ {e} : Outcome(f)' = Outcome(f)
  BY DEF Outcome
<1>2. QED
  BY <1>1

LEMMA SettleStep ==
  ASSUME TypeOK, Exclusive, NEW w \in Workers, Commit(w) \/ IgnoreStale(w)
  PROVE  C!ContractNext
<1>1. PICK e \in Events : tx[w].pc \in InTx /\ tx[w].ev = e
  BY BusyHasEvent DEF Commit, MayCommit, IgnoreStale, MayTest, InTx, TypeOK
<1>2. inbox[e].state = "pending" /\ ~inbox[e].attention
  BY <1>1 DEF Exclusive, HeldIsPending
<1>3. Outcome(e) = "queued"
  BY <1>1, <1>2, OutcomeOf
<1>4. PICK r \in C!Settlements :
        /\ inbox' = [inbox EXCEPT ![e].state = r]
        /\ effects' = [effects EXCEPT ![e] = IF r = "applied" THEN @ + 1 ELSE @]
  <2>1. CASE Commit(w)
    <3>1. CASE HasHandler(e)
      BY <1>1, <2>1, <3>1 DEF Commit, MarkProcessed, CountEffect, C!Settlements
    <3>2. CASE ~HasHandler(e)
      BY <1>1, <2>1, <3>2 DEF Commit, MarkProcessed, CountEffect, C!Settlements, TypeOK
    <3>3. QED
      BY <3>1, <3>2
  <2>2. CASE IgnoreStale(w)
    BY <1>1, <2>2 DEF IgnoreStale, C!Settlements, TypeOK
  <2>3. QED
    BY <2>1, <2>2
<1>5. inbox'[e].state = r /\ r \notin {"absent", "pending"}
  BY <1>1, <1>4 DEF TypeOK, Row, C!Settlements
<1>6. Outcome(e)' = r
  BY <1>5 DEF Outcome
<1>7. \A f \in Events \ {e} : inbox'[f] = inbox[f]
  BY <1>1, <1>4 DEF TypeOK
<1>8. [f \in Events |-> Outcome(f)]' = [[f \in Events |-> Outcome(f)] EXCEPT ![e] = r]
  BY <1>1, <1>6, <1>7, ContractUpdate
<1>9. C!Settle(e, r)
  BY <1>1, <1>3, <1>4, <1>8 DEF C!Settle
<1>10. QED
  BY <1>1, <1>9 DEF C!ContractNext, C!Finish

(* A row is parked only by the failure that reaches the limit, and attempts
   never decrease; so a failure another worker records later cannot unpark it. *)
ParkedAtLimit == \A e \in Events : inbox[e].attention => inbox[e].attempts >= MaxAttempts

LEMMA ParkedAtLimitStep == TypeOK /\ ParkedAtLimit /\ [Next]_vars => ParkedAtLimit'
<1> SUFFICES ASSUME TypeOK, ParkedAtLimit, [Next]_vars PROVE ParkedAtLimit'
  OBVIOUS
<1> USE DEF ParkedAtLimit
<1>1. ASSUME \A e \in Events : /\ inbox'[e].attention = inbox[e].attention
                                /\ inbox'[e].attempts = inbox[e].attempts
      PROVE  ParkedAtLimit'
  BY <1>1
<1>2. ASSUME NEW d \in Deliveries, Store(d) PROVE ParkedAtLimit'
  <2>1. \A e \in Events : inbox'[e] = inbox[e] \/ ~inbox'[e].attention
    BY <1>2 DEF Store, NoRow, TypeOK
  <2>2. QED
    BY <2>1
<1>3. ASSUME NEW w \in Workers, RecordFailure(w) PROVE ParkedAtLimit'
  <2> DEFINE e == tx[w].ev
  <2>1. e \in Events
    BY <1>3, BusyHasEvent DEF RecordFailure, MayRecord, TypeOK
  <2>2. /\ inbox'[e].attempts = inbox[e].attempts + 1
        /\ inbox'[e].attention = (inbox[e].attempts + 1 >= MaxAttempts)
        /\ \A f \in Events \ {e} : inbox'[f] = inbox[f]
    BY <1>3, <2>1 DEF RecordFailure, TypeOK, Row
  <2>3. QED
    BY <2>2
<1>4. ASSUME NEW w \in Workers, Commit(w) \/ IgnoreStale(w) PROVE ParkedAtLimit'
  BY <1>1, <1>4 DEF Commit, MarkProcessed, IgnoreStale, TypeOK, Row
<1>5. ASSUME NEW e \in Events, BackoffEnds(e) PROVE ParkedAtLimit'
  BY <1>1, <1>5 DEF BackoffEnds, TypeOK, Row
<1>6. CASE UNCHANGED inbox
  BY <1>1, <1>6
<1>7. QED
  BY <1>2, <1>3, <1>4, <1>5, <1>6
     DEF Next, Request, ProcessOne, vars, Refuse, Acknowledge, Expect, Pick, PassRank,
         RunHandler, HandlerThrows, BreakDeadlock, CrashWorker, CrashEndpoint

LEMMA FailureStep ==
  ASSUME TypeOK, Exclusive, ParkedAtLimit, NEW w \in Workers, RecordFailure(w)
  PROVE  C!ContractNext \/ UNCHANGED C!contractVars
<1>1. PICK e \in Events : tx[w].ev = e /\ inbox[e].state # "absent"
  BY BusyHasEvent DEF RecordFailure, MayRecord, TypeOK, Exclusive, FailedIsStored
<1>2. /\ inbox'[e].state = inbox[e].state
      /\ inbox'[e].attention = (inbox[e].attempts + 1 >= MaxAttempts)
      /\ \A f \in Events \ {e} : inbox'[f] = inbox[f]
  BY <1>1 DEF RecordFailure, TypeOK, Row
<1>3. UNCHANGED effects
  BY DEF RecordFailure
<1>4. inbox[e].attention => inbox'[e].attention
  BY <1>1, <1>2, RuntimeAssumption DEF ParkedAtLimit, TypeOK, Row
<1>5. ASSUME Outcome(e)' = Outcome(e) PROVE UNCHANGED C!contractVars
  <2>1. \A f \in Events : Outcome(f)' = Outcome(f)
    BY <1>2, <1>5 DEF Outcome
  <2>2. QED
    BY <1>3, <2>1 DEF C!contractVars
<1>6. CASE inbox[e].state # "pending"
  BY <1>1, <1>2, <1>5, <1>6 DEF Outcome
<1>7. CASE inbox[e].state = "pending" /\ inbox[e].attention
  <2>1. Outcome(e) = "parked" /\ Outcome(e)' = "parked"
    BY <1>2, <1>4, <1>7 DEF Outcome
  <2>2. QED
    BY <1>5, <2>1
<1>8. CASE inbox[e].state = "pending" /\ ~inbox[e].attention /\ ~inbox'[e].attention
  <2>1. Outcome(e) = "queued" /\ Outcome(e)' = "queued"
    BY <1>2, <1>8 DEF Outcome
  <2>2. QED
    BY <1>5, <2>1
<1>9. CASE inbox[e].state = "pending" /\ ~inbox[e].attention /\ inbox'[e].attention
  <2>1. Outcome(e) = "queued" /\ Outcome(e)' = "parked"
    BY <1>2, <1>9 DEF Outcome
  <2>2. C!Park(e)
    BY <1>2, <1>3, <2>1, ContractUpdate DEF C!Park
  <2>3. QED
    BY <2>2 DEF C!ContractNext, C!Finish
<1>10. QED
  BY <1>6, <1>7, <1>8, <1>9

LEMMA StoreStep ==
  ASSUME TypeOK, NEW d \in Deliveries, Store(d)
  PROVE  C!ContractNext \/ UNCHANGED C!contractVars
<1> DEFINE e == EventOf[d]
<1>1. e \in Events
  BY RuntimeAssumption
<1>2. CASE inbox[e].state = "absent"
  <2>1. inbox' = [inbox EXCEPT ![e] = [NoRow EXCEPT !.state = "pending", !.at = clock]]
        /\ UNCHANGED effects
    BY <1>2 DEF Store
  <2>2. /\ inbox'[e].state = "pending" /\ ~inbox'[e].attention
        /\ \A f \in Events \ {e} : inbox'[f] = inbox[f]
    BY <1>1, <2>1 DEF NoRow, TypeOK
  <2>3. Outcome(e) = "unseen" /\ Outcome(e)' = "queued"
    BY <1>2, <2>2 DEF Outcome
  <2>4. C!Accept(e)
    BY <1>1, <2>1, <2>2, <2>3, ContractUpdate DEF C!Accept
  <2>5. QED
    BY <1>1, <2>4 DEF C!ContractNext
<1>3. CASE inbox[e].state # "absent"
  BY <1>3, ContractStutter DEF Store
<1>4. QED
  BY <1>2, <1>3

(* Every step of the endpoint and the workers is a step of the contract, or
   shows nothing. *)
LEMMA ContractStep ==
  TypeOK /\ Exclusive /\ ParkedAtLimit /\ [Next]_vars => [C!ContractNext]_(C!contractVars)
<1> SUFFICES ASSUME TypeOK, Exclusive, ParkedAtLimit, [Next]_vars
             PROVE  C!ContractNext \/ UNCHANGED C!contractVars
  OBVIOUS
<1>1. ASSUME NEW d \in Deliveries, Store(d) PROVE C!ContractNext \/ UNCHANGED C!contractVars
  BY <1>1, StoreStep
<1>2. ASSUME NEW w \in Workers, Commit(w) \/ IgnoreStale(w) PROVE C!ContractNext
  BY <1>2, SettleStep
<1>3. ASSUME NEW w \in Workers, RecordFailure(w)
      PROVE  C!ContractNext \/ UNCHANGED C!contractVars
  BY <1>3, FailureStep
<1>4. ASSUME NEW e \in Events, BackoffEnds(e) PROVE UNCHANGED C!contractVars
  BY <1>4, ContractStutter DEF BackoffEnds, TypeOK, Row
<1>5. CASE UNCHANGED <<inbox, effects>>
  BY <1>5, ContractStutter
<1>6. QED
  BY <1>1, <1>2, <1>3, <1>4, <1>5
     DEF Next, Request, ProcessOne, vars, Refuse, Acknowledge, Expect, Pick, PassRank,
         RunHandler, HandlerThrows, BreakDeadlock, CrashWorker, CrashEndpoint

(* Exactly-once business-state transition (src/runtime/index.js lines 10-13):
   the runtime implements the one-event contract, for any number of workers,
   redeliveries, failures and crashes. *)
THEOREM ContractImplemented == Spec => ImplementsContract
<1>1. Init => C!ContractInit
  BY DEF Init, C!ContractInit, Outcome, NoRow
<1>2. Init => ParkedAtLimit
  BY DEF Init, ParkedAtLimit, NoRow
<1>3. Spec => []ParkedAtLimit
  BY <1>2, ParkedAtLimitStep, TypeCorrect, PTL DEF Spec
<1>4. Spec => C!ContractSpec
  BY <1>1, <1>3, ContractStep, TypeCorrect, ExclusiveAlways, PTL DEF Spec, C!ContractSpec
<1>5. QED
  BY <1>4 DEF ImplementsContract
-----------------------------------------------------------------------------
(* Ordering and durability: what raze_subject_state and raze_expectations  *)
(* say is backed by rows of the inbox, and so is every 200.                *)
(*                                                                         *)
(* The properties are inductive together, on top of the types and of the   *)
(* exclusion above: without it a row could leave the processed ones again. *)
(* A delivery that is stored, and not answered yet, has to be durable as   *)
(* well (StoredIsDurable).                                                 *)

StoredIsDurable ==
  \A d \in Deliveries : wire[d] \in {"stored", "acked"} => inbox[EventOf[d]].state # "absent"

OrderInv == StoredIsDurable /\ RankIsHighest /\ StaleIsOutranked /\ FulfilledByEvent

(* The initial states satisfy the invariant. *)
LEMMA OrderInit == Init => OrderInv
BY RuntimeAssumption
DEF Init, OrderInv, StoredIsDurable, RankIsHighest, StaleIsOutranked, FulfilledByEvent, Counted, NoRow

(* Ranks are numbers, the recorded ones too. *)
LEMMA RanksAreNumbers ==
  ASSUME TypeOK
  PROVE  /\ \A e \in Events : RankOf(e) \in 0..4
         /\ \A s \in Subjects : subject[s].rank \in 0..4
BY RankType DEF RankOf, TypeOK
-----------------------------------------------------------------------------
(* A step that processes no row: rows are stored at most, expectations armed. *)
Quiet ==
  /\ \A e \in Events : \/ inbox'[e].state = inbox[e].state
                       \/ inbox[e].state = "absent" /\ inbox'[e].state = "pending"
  /\ UNCHANGED subject
  /\ \A s \in Subjects : expectation'[s] = "fulfilled" => expectation[s] = "fulfilled"
  /\ \A d \in Deliveries : wire'[d] \in {"stored", "acked"} =>
       wire[d] \in {"stored", "acked"} \/ inbox'[EventOf[d]].state # "absent"

LEMMA QuietKeeps ==
  ASSUME OrderInv, Quiet
  PROVE  OrderInv'
<1>1. \A s : Counted(s)' = Counted(s)
  BY DEF Quiet, Counted
<1>2. StoredIsDurable'
  BY RuntimeAssumption DEF OrderInv, StoredIsDurable, Quiet
<1>3. RankIsHighest' /\ FulfilledByEvent'
  BY <1>1 DEF OrderInv, RankIsHighest, FulfilledByEvent, Quiet
<1>4. StaleIsOutranked'
  BY <1>1 DEF OrderInv, StaleIsOutranked, Quiet
<1> QED BY <1>2, <1>3, <1>4 DEF OrderInv

(* Every step is quiet but the two that process a row. *)
LEMMA OthersAreQuiet ==
  ASSUME TypeOK, [Next]_vars, \A w \in Workers : ~Commit(w) /\ ~IgnoreStale(w)
  PROVE  Quiet
<1>1. ASSUME NEW d \in Deliveries, Request(d) PROVE Quiet
  <2>1. CASE Refuse(d)
    BY <2>1 DEF Refuse, Quiet, TypeOK
  <2>2. CASE Store(d)
    <3>1. EventOf[d] \in Events
      BY RuntimeAssumption
    <3>2. /\ inbox'[EventOf[d]].state = IF inbox[EventOf[d]].state = "absent" THEN "pending"
                                        ELSE inbox[EventOf[d]].state
          /\ \A e \in Events \ {EventOf[d]} : inbox'[e] = inbox[e]
      BY <2>2, <3>1 DEF Store, TypeOK, NoRow
    <3>3. \A c \in Deliveries \ {d} : wire'[c] = wire[c]
      BY <2>2 DEF Store, TypeOK
    <3> QED BY <2>2, <3>1, <3>2, <3>3 DEF Store, Quiet
  <2>3. CASE Acknowledge(d)
    BY <2>3 DEF Acknowledge, Quiet, TypeOK
  <2> QED BY <1>1, <2>1, <2>2, <2>3 DEF Request
<1>2. ASSUME NEW s \in Subjects, Expect(s) PROVE Quiet
  BY <1>2 DEF Expect, Quiet, TypeOK
<1>3. ASSUME NEW w \in Workers, ProcessOne(w) PROVE Quiet
  <2>1. CASE RecordFailure(w)
    <3>1. tx[w].ev \in Events
      BY <2>1, BusyHasEvent DEF RecordFailure, MayRecord, TypeOK
    <3>2. \A e \in Events : inbox'[e].state = inbox[e].state
      BY <2>1, <3>1 DEF RecordFailure, TypeOK, Row
    <3> QED BY <2>1, <3>2 DEF RecordFailure, Quiet
  <2>2. CASE Pick(w) \/ PassRank(w) \/ RunHandler(w) \/ HandlerThrows(w) \/ BreakDeadlock(w)
    BY <2>2 DEF Pick, PassRank, RunHandler, HandlerThrows, BreakDeadlock, Quiet
  <2> QED BY <1>3, <2>1, <2>2 DEF ProcessOne
<1>4. ASSUME NEW w \in Workers, CrashWorker(w) PROVE Quiet
  BY <1>4 DEF CrashWorker, Quiet
<1>5. ASSUME NEW e \in Events, BackoffEnds(e) PROVE Quiet
  BY <1>5 DEF BackoffEnds, Quiet, TypeOK, Row
<1>6. CASE CrashEndpoint
  BY <1>6 DEF CrashEndpoint, Quiet
<1>7. CASE UNCHANGED vars
  BY <1>7 DEF vars, Quiet
<1> QED BY <1>1, <1>2, <1>3, <1>4, <1>5, <1>6, <1>7 DEF Next
-----------------------------------------------------------------------------
(* A row that a transaction holds is pending, and the transaction's event is one. *)
LEMMA HeldRow ==
  ASSUME TypeOK, Exclusive, NEW w \in Workers, tx[w].pc \in InTx
  PROVE  tx[w].ev \in Events /\ inbox[tx[w].ev].state = "pending"
BY BusyHasEvent DEF TypeOK, InTx, Exclusive, HeldIsPending

(* An event set aside as stale is outranked by the row that gave the order its rank. *)
LEMMA IgnoreStaleKeeps ==
  ASSUME TypeOK, Exclusive, OrderInv, NEW w \in Workers, IgnoreStale(w)
  PROVE  OrderInv'
<1> DEFINE e == tx[w].ev
<1>1. e \in Events /\ inbox[e].state = "pending" /\ Stale(e)
  BY HeldRow DEF IgnoreStale, MayTest, InTx
<1>2. /\ inbox'[e].state = "ignored_stale"
      /\ \A f \in Events \ {e} : inbox'[f] = inbox[f]
      /\ UNCHANGED <<wire, subject, expectation>>
  BY <1>1 DEF IgnoreStale, TypeOK, Row
<1> HIDE DEF e
<1>3. \A s : Counted(s)' = Counted(s)
  BY <1>1, <1>2 DEF Counted
<1>4. StoredIsDurable'
  BY <1>1, <1>2, RuntimeAssumption DEF OrderInv, StoredIsDurable
<1>5. RankIsHighest' /\ FulfilledByEvent'
  BY <1>2, <1>3 DEF OrderInv, RankIsHighest, FulfilledByEvent
<1>6. \E f \in Counted(SubjectOf[e]) : RankOf(f) > RankOf(e)
  <2>1. SubjectOf[e] \in Subjects /\ RankOf(e) < subject[SubjectOf[e]].rank /\ RankOf(e) > 0
    BY <1>1, RuntimeAssumption DEF Stale, Ordered
  <2>2. subject[SubjectOf[e]].rank > 0
    BY <1>1, <2>1, RanksAreNumbers
  <2>3. PICK f \in Counted(SubjectOf[e]) : RankOf(f) = subject[SubjectOf[e]].rank
    BY <2>1, <2>2 DEF OrderInv, RankIsHighest
  <2>4. f \in Events
    BY DEF Counted
  <2> QED BY <1>1, <2>1, <2>3, <2>4, RanksAreNumbers
<1>7. StaleIsOutranked'
  BY <1>2, <1>3, <1>6 DEF OrderInv, StaleIsOutranked
<1> QED BY <1>4, <1>5, <1>7 DEF OrderInv

(* A committed event joins the processed ones of its order, and the order's rank is
   the highest of what it was and the event's. *)
LEMMA CommitKeeps ==
  ASSUME TypeOK, Exclusive, OrderInv, NEW w \in Workers, Commit(w)
  PROVE  OrderInv'
<1> DEFINE e == tx[w].ev
           o == SubjectOf[e]
<1>1. e \in Events /\ inbox[e].state = "pending"
  BY HeldRow DEF Commit, MayCommit, InTx
<1>2. /\ inbox'[e].state \in {"applied", "no_handler"}
      /\ \A f \in Events \ {e} : inbox'[f] = inbox[f]
      /\ UNCHANGED wire
  BY <1>1 DEF Commit, MarkProcessed, TypeOK, Row
<1>3. /\ \A s \in Subjects : s # o => subject'[s] = subject[s]
      /\ ~Ordered(e) => subject' = subject
      /\ Ordered(e) => o \in Subjects /\ subject'[o].rank = Highest(subject[o].rank, RankOf(e))
  <2>1. Advance(e) /\ (Ordered(e) => o \in Subjects)
    BY <1>1, RuntimeAssumption DEF Commit, Ordered
  <2>2. CASE Ordered(e)
    <3>1. subject' = [subject EXCEPT ![o] = [rank |-> Highest(subject[o].rank, RankOf(e)),
                                             type |-> TypeOf[e]]]
      BY <2>1, <2>2 DEF Advance
    <3> QED BY <2>1, <2>2, <3>1 DEF TypeOK
  <2>3. CASE ~Ordered(e)
    BY <2>1, <2>3 DEF Advance
  <2> QED BY <2>2, <2>3
<1>4. \A s \in Subjects : expectation'[s] = "fulfilled" =>
        expectation[s] = "fulfilled" \/ (s = o /\ TypeOf[e] = Expected)
  <2>1. Fulfil(e)
    BY DEF Commit
  <2> HIDE DEF e
  <2>2. \/ expectation' = expectation
        \/ TypeOf[e] = Expected /\ expectation' = [expectation EXCEPT ![o] = "fulfilled"]
    BY <2>1 DEF Fulfil
  <2>3. expectation \in [Subjects -> {"none", "open", "fulfilled"}]
    BY DEF TypeOK
  <2> QED BY <2>2, <2>3
<1> HIDE DEF e
<1>5. \A s : Counted(s)' = IF s = o THEN Counted(s) \cup {e} ELSE Counted(s)
  BY <1>1, <1>2 DEF Counted
<1>6. StoredIsDurable'
  BY <1>1, <1>2, RuntimeAssumption DEF OrderInv, StoredIsDurable
<1>7. FulfilledByEvent'
  BY <1>4, <1>5 DEF OrderInv, FulfilledByEvent
<1>8. StaleIsOutranked'
  BY <1>1, <1>2, <1>5 DEF OrderInv, StaleIsOutranked
<1>9. RankIsHighest'
  <2> SUFFICES ASSUME NEW s \in Subjects
               PROVE  /\ \A f \in Counted(s)' : RankOf(f) <= subject'[s].rank
                      /\ subject'[s].rank > 0 => \E f \in Counted(s)' : RankOf(f) = subject'[s].rank
    BY DEF RankIsHighest
  <2>1. /\ \A f \in Counted(s) : f \in Events /\ RankOf(f) <= subject[s].rank
        /\ subject[s].rank > 0 => \E f \in Counted(s) : RankOf(f) = subject[s].rank
    BY DEF OrderInv, RankIsHighest, Counted
  <2>2. CASE s # o
    BY <1>3, <1>5, <2>1, <2>2
  <2>3. CASE s = o /\ ~Ordered(e)
    <3>1. RankOf(e) = 0
      BY <1>1, <2>3, RanksAreNumbers, RuntimeAssumption DEF Ordered
    <3> QED BY <1>3, <1>5, <2>1, <2>3, <3>1, RanksAreNumbers
  <2>4. CASE s = o /\ Ordered(e)
    <3>1. /\ RankOf(e) \in 0..4 /\ subject[s].rank \in 0..4
          /\ subject'[s].rank = Highest(subject[s].rank, RankOf(e))
          /\ \A f \in Counted(s) : RankOf(f) \in 0..4
      BY <1>1, <1>3, <2>1, <2>4, RanksAreNumbers
    <3>2. RankOf(e) > 0
      BY <2>4 DEF Ordered
    <3> QED BY <1>5, <2>1, <2>4, <3>1, <3>2 DEF Highest
  <2> QED BY <2>2, <2>3, <2>4
<1> QED BY <1>6, <1>7, <1>8, <1>9 DEF OrderInv

(* Every step keeps the invariant, and so every behaviour has it. *)
LEMMA OrderInvariant == Spec => []OrderInv
<1>1. TypeOK /\ Exclusive /\ OrderInv /\ [Next]_vars => OrderInv'
  BY OthersAreQuiet, QuietKeeps, CommitKeeps, IgnoreStaleKeeps
<1> QED BY <1>1, OrderInit, TypeCorrect, ExclusiveAlways, PTL DEF Spec
-----------------------------------------------------------------------------
(* The provider is told 200 about stored events only, whatever dies in between. *)
THEOREM AcknowledgedIsStored == Spec => []AckedIsDurable
<1>1. OrderInv => AckedIsDurable
  BY DEF OrderInv, StoredIsDurable, AckedIsDurable
<1> QED BY <1>1, OrderInvariant, PTL

(* The recorded rank is the highest one processed, however many workers race past an
   order that has no row yet. *)
THEOREM RankIsTheHighest == Spec => []RankIsHighest
<1>1. OrderInv => RankIsHighest
  BY DEF OrderInv
<1> QED BY <1>1, OrderInvariant, PTL

(* No event is dropped as stale unless one that outranks it was processed. *)
THEOREM StaleWasOutranked == Spec => []StaleIsOutranked
<1>1. OrderInv => StaleIsOutranked
  BY DEF OrderInv
<1> QED BY <1>1, OrderInvariant, PTL

(* No expectation is fulfilled but by the awaited event of its own order. *)
THEOREM FulfilledByItsEvent == Spec => []FulfilledByEvent
<1>1. OrderInv => FulfilledByEvent
  BY DEF OrderInv
<1> QED BY <1>1, OrderInvariant, PTL
-----------------------------------------------------------------------------
(* One worker *)

OneWorker == \A v, w \in Workers : v = w

(* With one worker nothing is written between the rank test and the commit, nor
   between a rollback and the UPDATE that records it. *)
SerialInv ==
  /\ NeverRegress /\ AttentionIsUnprocessed
  /\ \A w \in Workers : tx[w].pc \in {"checked", "handled"} => ~Stale(tx[w].ev)
  /\ \A w \in Workers : tx[w].pc = "rolledback" => inbox[tx[w].ev].state = "pending"

LEMMA SerialInit == Init => SerialInv
BY DEF Init, SerialInv, NeverRegress, AttentionIsUnprocessed, NoRow, Idle

(* Steps of a worker that write no row. *)
LEMMA SerialMoves ==
  ASSUME OneWorker, TypeOK, Exclusive, SerialInv, NEW w \in Workers,
         Pick(w) \/ PassRank(w) \/ RunHandler(w) \/ HandlerThrows(w) \/ BreakDeadlock(w) \/ CrashWorker(w)
  PROVE  SerialInv'
<1>1. UNCHANGED <<inbox, subject>>
  BY DEF Pick, PassRank, RunHandler, HandlerThrows, BreakDeadlock, CrashWorker
<1>2. \A v \in Workers : v = w
  BY DEF OneWorker
<1>3. /\ tx'[w].pc \in {"checked", "handled"} =>
           tx'[w].ev = tx[w].ev /\ ~Stale(tx[w].ev)
      /\ tx'[w].pc = "rolledback" => tx'[w].ev = tx[w].ev /\ tx[w].pc \in InTx
  <2> USE DEF TypeOK
  <2>1. CASE Pick(w)
    BY <2>1 DEF Pick
  <2>2. CASE PassRank(w)
    BY <2>2 DEF PassRank
  <2>3. CASE RunHandler(w)
    BY <2>3 DEF RunHandler, MayHandle, Move, SerialInv
  <2>4. CASE HandlerThrows(w)
    BY <2>4 DEF HandlerThrows, Rollback, InTx
  <2>5. CASE BreakDeadlock(w)
    BY <2>5, <1>2 DEF BreakDeadlock, MayAbort, Deadlocked, WroteMerchantRow
  <2>6. CASE CrashWorker(w)
    BY <2>6 DEF CrashWorker, Rest, Idle
  <2> QED BY <2>1, <2>2, <2>3, <2>4, <2>5, <2>6
<1>4. tx[w].pc \in InTx => inbox[tx[w].ev].state = "pending"
  BY DEF Exclusive, HeldIsPending
<1> QED BY <1>1, <1>2, <1>3, <1>4 DEF SerialInv, NeverRegress, AttentionIsUnprocessed, Stale

(* What the one worker commits is not outranked. *)
LEMMA SerialCommit ==
  ASSUME OneWorker, TypeOK, Exclusive, SerialInv, NEW w \in Workers, Commit(w)
  PROVE  SerialInv'
<1> DEFINE e == tx[w].ev
           o == SubjectOf[e]
<1>1. e \in Events /\ inbox[e].state = "pending" /\ ~inbox[e].attention /\ ~Stale(e)
  BY HeldRow DEF Commit, MayCommit, InTx, Exclusive, HeldIsPending, SerialInv
<1>2. inbox'[e].attention = inbox[e].attention /\ \A f \in Events \ {e} : inbox'[f] = inbox[f]
  BY <1>1 DEF Commit, MarkProcessed, TypeOK, Row
<1>3. \A v \in Workers : tx'[v] = Idle
  BY DEF OneWorker, Commit, Rest, TypeOK
<1>4. Advance(e) /\ (Ordered(e) => o \in Subjects)
  BY <1>1, RuntimeAssumption DEF Commit, Ordered
<1> HIDE DEF e
<1>5. NeverRegress'
  <2>1. CASE Ordered(e)
    <3>1. subject' = [subject EXCEPT ![o] = [rank |-> Highest(subject[o].rank, RankOf(e)),
                                             type |-> TypeOf[e]]]
      BY <1>4, <2>1 DEF Advance
    <3>2. RankOf(e) >= subject[o].rank /\ RankOf(e) \in 0..4 /\ subject[o].rank \in 0..4
      BY <1>1, <1>4, <2>1, RanksAreNumbers DEF Stale
    <3>3. Highest(subject[o].rank, RankOf(e)) = Rank(TypeOf[e])
      BY <3>2 DEF Highest, RankOf
    <3> QED BY <3>1, <3>3 DEF SerialInv, NeverRegress, TypeOK
  <2>2. CASE ~Ordered(e)
    BY <1>4, <2>2 DEF Advance, SerialInv, NeverRegress
  <2> QED BY <2>1, <2>2
<1>6. AttentionIsUnprocessed'
  BY <1>1, <1>2 DEF SerialInv, AttentionIsUnprocessed
<1> QED BY <1>3, <1>5, <1>6 DEF SerialInv, Idle

LEMMA SerialWrites ==
  ASSUME OneWorker, TypeOK, Exclusive, SerialInv, NEW w \in Workers,
         IgnoreStale(w) \/ RecordFailure(w)
  PROVE  SerialInv'
<1> DEFINE e == tx[w].ev
<1>1. \A v \in Workers : tx'[v] = Idle
  BY DEF OneWorker, IgnoreStale, RecordFailure, Rest, TypeOK
<1>2. UNCHANGED subject
  BY DEF IgnoreStale, RecordFailure
<1>3. AttentionIsUnprocessed'
  <2>1. CASE IgnoreStale(w)
    <3>1. e \in Events /\ ~inbox[e].attention
      BY <2>1, HeldRow DEF IgnoreStale, MayTest, InTx, Exclusive, HeldIsPending
    <3>2. inbox'[e].attention = inbox[e].attention /\ \A f \in Events \ {e} : inbox'[f] = inbox[f]
      BY <2>1, <3>1 DEF IgnoreStale, TypeOK, Row
    <3> QED BY <3>1, <3>2 DEF SerialInv, AttentionIsUnprocessed
  <2>2. CASE RecordFailure(w)
    <3>1. e \in Events /\ inbox[e].state = "pending"
      BY <2>2, BusyHasEvent DEF RecordFailure, MayRecord, SerialInv, TypeOK
    <3>2. inbox'[e].state = inbox[e].state /\ \A f \in Events \ {e} : inbox'[f] = inbox[f]
      BY <2>2, <3>1 DEF RecordFailure, TypeOK, Row
    <3> QED BY <3>1, <3>2 DEF SerialInv, AttentionIsUnprocessed
  <2> QED BY <2>1, <2>2
<1> QED BY <1>1, <1>2, <1>3 DEF SerialInv, NeverRegress, Idle

(* The endpoint, the clock and the merchant. *)
LEMMA SerialOutside ==
  ASSUME TypeOK, SerialInv,
         \/ \E d \in Deliveries : Request(d)
         \/ \E s \in Subjects : Expect(s)
         \/ \E e \in Events : BackoffEnds(e)
         \/ CrashEndpoint
  PROVE  SerialInv'
<1>1. UNCHANGED <<subject, tx>>
  BY DEF Request, Refuse, Store, Acknowledge, Expect, BackoffEnds, CrashEndpoint
<1>2. \A e \in Events :
        \/ inbox'[e].state = inbox[e].state /\ inbox'[e].attention = inbox[e].attention
        \/ inbox[e].state = "absent" /\ inbox'[e].state = "pending"
  <2>1. ASSUME NEW d \in Deliveries, Store(d)
        PROVE  \A e \in Events :
                 \/ inbox'[e] = inbox[e]
                 \/ inbox[e].state = "absent" /\ inbox'[e].state = "pending"
    <3>1. EventOf[d] \in Events
      BY RuntimeAssumption
    <3>2. CASE inbox[EventOf[d]].state = "absent"
      BY <2>1, <3>1, <3>2 DEF Store, TypeOK, NoRow
    <3>3. CASE inbox[EventOf[d]].state # "absent"
      BY <2>1, <3>3 DEF Store
    <3> QED BY <3>2, <3>3
  <2>2. ASSUME NEW f \in Events, BackoffEnds(f)
        PROVE  \A e \in Events :
                 inbox'[e].state = inbox[e].state /\ inbox'[e].attention = inbox[e].attention
    BY <2>2 DEF BackoffEnds, TypeOK, Row
  <2>3. ASSUME UNCHANGED inbox
        PROVE  \A e \in Events :
                 inbox'[e].state = inbox[e].state /\ inbox'[e].attention = inbox[e].attention
    BY <2>3
  <2> QED BY <2>1, <2>2, <2>3 DEF Request, Refuse, Acknowledge, Expect, CrashEndpoint
<1>3. \A w \in Workers : tx[w].pc = "rolledback" => tx[w].ev \in Events
  BY BusyHasEvent DEF TypeOK
<1> QED BY <1>1, <1>2, <1>3 DEF SerialInv, NeverRegress, AttentionIsUnprocessed, Stale

(* With one worker the rules hold in every behaviour. *)
LEMMA SerialInvariant == ASSUME OneWorker PROVE Spec => []SerialInv
<1>1. TypeOK /\ Exclusive /\ SerialInv /\ [Next]_vars => SerialInv'
  <2> SUFFICES ASSUME TypeOK, Exclusive, SerialInv, [Next]_vars PROVE SerialInv'
    OBVIOUS
  <2>1. CASE UNCHANGED vars
    BY <2>1 DEF vars, SerialInv, NeverRegress, AttentionIsUnprocessed, Stale
  <2> QED BY <2>1, SerialMoves, SerialCommit, SerialWrites, SerialOutside DEF Next, ProcessOne
<1> QED BY <1>1, SerialInit, TypeCorrect, ExclusiveAlways, PTL DEF Spec

(* `Never regress state' holds of a runtime with one worker (line 195). *)
THEOREM SerialNeverRegresses == ASSUME OneWorker PROVE Spec => []NeverRegress
<1>1. SerialInv => NeverRegress
  BY DEF SerialInv
<1> QED BY <1>1, SerialInvariant, PTL

(* ... and so does that a parked event is never marked processed (lines 273-274). *)
THEOREM SerialParkedStays == ASSUME OneWorker PROVE Spec => []AttentionIsUnprocessed
<1>1. SerialInv => AttentionIsUnprocessed
  BY DEF SerialInv
<1> QED BY <1>1, SerialInvariant, PTL
-----------------------------------------------------------------------------
(* Waiting.  A worker waits for the inbox row, the subject row or the      *)
(* merchant's row of another.  The subject rows are what could close a     *)
(* circle: only a worker that passed the rank test keeps one, and no two   *)
(* keep the same one.                                                      *)

LocksAreHeld == \A w \in Workers : tx[w].lock => tx[w].pc \in {"checked", "handled"}

LockedByOne ==
  \A v, w \in Workers :
    tx[v].lock /\ tx[w].lock /\ SubjectOf[tx[v].ev] = SubjectOf[tx[w].ev] => v = w

LockInv == LocksAreHeld /\ LockedByOne

(* A worker that keeps its event and takes no lock, or rests, disturbs no lock. *)
LEMMA LocksKept ==
  ASSUME LockInv, NEW w \in Workers,
         \A v \in Workers \ {w} : tx'[v] = tx[v],
         tx'[w].lock => /\ tx[w].lock /\ tx'[w].ev = tx[w].ev
                        /\ tx'[w].pc \in {"checked", "handled"}
  PROVE  LockInv'
<1>1. LocksAreHeld'
  BY DEF LockInv, LocksAreHeld
<1>2. LockedByOne'
  <2>1. \A v \in Workers : tx'[v].lock => tx[v].lock /\ tx'[v].ev = tx[v].ev
    OBVIOUS
  <2> QED BY <2>1 DEF LockInv, LockedByOne
<1> QED BY <1>1, <1>2 DEF LockInv

(* The rank test takes the lock only when nobody else has it. *)
LEMMA TestLocks ==
  ASSUME TypeOK, LockInv, NEW w \in Workers, PassRank(w)
  PROVE  LockInv'
<1> DEFINE e == tx[w].ev
<1>1. /\ tx[w].pc = "picked" /\ tx \in [Workers -> Step]
      /\ MustLock(e) => SubjectFree(SubjectOf[e], w)
      /\ tx' = [tx EXCEPT ![w].pc = "checked", ![w].lock = MustLock(e)]
  BY DEF PassRank, MayTest, TypeOK
<1>2. tx[w] \in [pc : InTx \cup {"rolledback"}, ev : Events, lock : BOOLEAN]
  BY <1>1, BusyHasEvent
<1>3. tx' = [tx EXCEPT ![w] = [tx[w] EXCEPT !.pc = "checked", !.lock = MustLock(e)]]
  BY <1>1
<1>4. \A v \in Workers \ {w} : tx'[v] = tx[v]
  BY ONLY <1>1, <1>3
<1>5. tx'[w] = [tx[w] EXCEPT !.pc = "checked", !.lock = MustLock(e)]
  BY <1>1, <1>3
<1>6. tx'[w].pc = "checked" /\ tx'[w].ev = e /\ tx'[w].lock = MustLock(e)
  BY ONLY <1>2, <1>5
<1>7. LocksAreHeld'
  BY <1>4, <1>6 DEF LockInv, LocksAreHeld
<1>8. ASSUME NEW v \in Workers \ {w}, tx'[v].lock, tx'[w].lock
      PROVE  SubjectOf[tx'[v].ev] # SubjectOf[tx'[w].ev]
  BY <1>1, <1>4, <1>6, <1>8 DEF SubjectFree
<1>9. LockedByOne'
  BY <1>4, <1>8 DEF LockInv, LockedByOne
<1> QED BY <1>7, <1>9 DEF LockInv

LEMMA LockStep == TypeOK /\ LockInv /\ [Next]_vars => LockInv'
<1> SUFFICES ASSUME TypeOK, LockInv, [Next]_vars PROVE LockInv'
  OBVIOUS
<1>0. tx \in [Workers -> Step]
  BY DEF TypeOK
<1>1. CASE UNCHANGED tx
  BY <1>1 DEF LockInv, LocksAreHeld, LockedByOne
<1>2. ASSUME NEW w \in Workers, Pick(w)
      PROVE  LockInv'
  <2>1. PICK e \in Events : tx' = [tx EXCEPT ![w] = [pc |-> "picked", ev |-> e, lock |-> FALSE]]
    BY <1>2 DEF Pick
  <2>2. ~tx'[w].lock /\ \A v \in Workers \ {w} : tx'[v] = tx[v]
    BY ONLY <1>0, <1>2, <2>1
  <2> QED BY <2>2, LocksKept
<1>3. ASSUME NEW w \in Workers, Rest(w)
      PROVE  LockInv'
  <2>1. ~tx'[w].lock /\ \A v \in Workers \ {w} : tx'[v] = tx[v]
    BY ONLY <1>0, <1>3 DEF Rest, Idle
  <2> QED BY <2>1, LocksKept
<1>4. ASSUME NEW w \in Workers, RunHandler(w)
      PROVE  LockInv'
  <2>1. tx[w].pc = "checked" /\ tx' = [tx EXCEPT ![w] = [tx[w] EXCEPT !.pc = "handled"]]
    BY <1>4 DEF RunHandler, MayHandle, Move
  <2>2. tx[w] \in [pc : InTx \cup {"rolledback"}, ev : Events, lock : BOOLEAN]
    BY <1>0, <2>1, BusyHasEvent
  <2>3. /\ \A v \in Workers \ {w} : tx'[v] = tx[v]
        /\ tx'[w] = [tx[w] EXCEPT !.pc = "handled"]
    BY ONLY <1>0, <1>4, <2>1
  <2>4. tx'[w].pc = "handled" /\ tx'[w].ev = tx[w].ev /\ tx'[w].lock = tx[w].lock
    BY ONLY <2>2, <2>3
  <2> QED BY <2>3, <2>4, LocksKept
<1>5. ASSUME NEW w \in Workers, Rollback(w), tx[w].pc \in InTx
      PROVE  LockInv'
  <2>1. tx' = [tx EXCEPT ![w] = [tx[w] EXCEPT !.pc = "rolledback", !.lock = FALSE]]
    BY <1>5 DEF Rollback
  <2>2. tx[w] \in [pc : InTx \cup {"rolledback"}, ev : Events, lock : BOOLEAN]
    BY <1>0, <1>5, BusyHasEvent DEF InTx
  <2>3. /\ \A v \in Workers \ {w} : tx'[v] = tx[v]
        /\ tx'[w] = [tx[w] EXCEPT !.pc = "rolledback", !.lock = FALSE]
    BY ONLY <1>0, <1>5, <2>1
  <2>4. ~tx'[w].lock
    BY ONLY <2>2, <2>3
  <2> QED BY <2>3, <2>4, LocksKept
<1>6. ASSUME NEW w \in Workers, HandlerThrows(w) \/ BreakDeadlock(w)
      PROVE  LockInv'
  <2>1. Rollback(w) /\ tx[w].pc \in InTx
    BY <1>6 DEF HandlerThrows, BreakDeadlock, MayAbort, Deadlocked, WroteMerchantRow, InTx
  <2> QED BY <2>1, <1>5
<1>7. ASSUME NEW w \in Workers, ProcessOne(w) \/ CrashWorker(w)
      PROVE  LockInv'
  <2>1. IgnoreStale(w) \/ Commit(w) \/ RecordFailure(w) \/ CrashWorker(w) => Rest(w)
    BY DEF IgnoreStale, Commit, RecordFailure, CrashWorker
  <2> QED BY <1>2, <1>3, <1>4, <1>6, <1>7, <2>1, TestLocks DEF ProcessOne
<1> QED
  BY <1>1, <1>7
     DEF Next, vars, Request, Refuse, Store, Acknowledge, Expect, BackoffEnds, CrashEndpoint

(* Somebody always can go on.  A failure waits for the row's transaction, the rank
   test for the one who has the subject row; that one, or any worker past the test,
   waits only for a handler that wrote the merchant's row, whose worker commits
   unless it needs that subject row itself: then Postgres sees the circle. *)
LEMMA LocksEnd == TypeOK /\ LockInv => NoStall
<1> SUFFICES ASSUME TypeOK, LockInv, NEW b \in Workers, tx[b].pc # "idle",
                    \A w \in Workers : ~CanGoOn(w)
             PROVE  FALSE
  BY DEF NoStall
<1>0. ASSUME NEW w \in Workers, tx[w].pc # "idle"
      PROVE  tx[w].pc \in {"picked", "checked", "handled", "rolledback"}
  BY <1>0, BusyHasEvent DEF TypeOK, InTx
<1>1. PICK x \in Workers : tx[x].pc \in {"picked", "checked", "handled"}
  <2>1. CASE tx[b].pc = "rolledback"
    BY <2>1 DEF CanGoOn, MayRecord, RowLocked, InTx
  <2> QED BY <1>0, <2>1
<1>2. ASSUME NEW w \in Workers, tx[w].lock
      PROVE  /\ tx[w].pc \in {"checked", "handled"}
             /\ \A v \in Workers \ {w} : ~(tx[v].lock /\ SubjectOf[tx[v].ev] = SubjectOf[tx[w].ev])
  BY <1>2 DEF LockInv, LocksAreHeld, LockedByOne
<1>3. PICK y \in Workers : tx[y].pc \in {"checked", "handled"}
  <2>1. CASE tx[x].pc = "picked"
    <3>1. \E v \in Workers : tx[v].lock
      BY <2>1 DEF CanGoOn, MayTest, SubjectFree
    <3> QED BY <3>1, <1>2
  <2> QED BY <1>1, <2>1
(* a handled worker waits for one that has its subject row *)
<1>4. ASSUME NEW u \in Workers, tx[u].pc = "handled"
      PROVE  /\ Ordered(tx[u].ev) /\ ~tx[u].lock
             /\ \E v \in Workers : tx[v].lock /\ SubjectOf[tx[v].ev] = SubjectOf[tx[u].ev]
  <2>1. Ordered(tx[u].ev) /\ ~SubjectFree(SubjectOf[tx[u].ev], u)
    BY <1>4 DEF CanGoOn, MayCommit
  <2> QED BY <2>1, <1>2 DEF SubjectFree
(* a checked worker waits for a handler that wrote the merchant's row *)
<1>5. ASSUME NEW v \in Workers, tx[v].pc = "checked"
      PROVE  HasHandler(tx[v].ev) /\ \E u \in Workers : WroteMerchantRow(u, SubjectOf[tx[v].ev])
  BY <1>5 DEF CanGoOn, MayHandle, MerchantRowFree
<1>6. PICK z \in Workers : tx[z].lock
  <2>1. CASE tx[y].pc = "handled"
    BY <2>1, <1>4
  <2>2. CASE tx[y].pc = "checked"
    BY <2>2, <1>4, <1>5 DEF WroteMerchantRow
  <2> QED BY <1>3, <2>1, <2>2
<1>7. tx[z].pc = "checked"
  <2>1. tx[z].pc # "handled"
    BY <1>4, <1>6
  <2> QED BY <1>2, <1>6, <2>1
<1>8. PICK u \in Workers : WroteMerchantRow(u, SubjectOf[tx[z].ev])
  BY <1>5, <1>7
<1>9. /\ tx[u].pc = "handled" /\ Ordered(tx[u].ev) /\ ~tx[u].lock
      /\ SubjectOf[tx[u].ev] = SubjectOf[tx[z].ev]
  BY <1>4, <1>8 DEF WroteMerchantRow
<1>10. Deadlocked(u, z)
  BY <1>5, <1>6, <1>7, <1>8, <1>9 DEF Deadlocked
<1> QED BY <1>10 DEF CanGoOn, MayAbort

(* However many workers, and whatever the database's row locks and the handlers make
   them wait for, one of the busy ones can go on: processOne's transactions (lines
   174-268) and the failure UPDATE after them never all wait for one another. *)
THEOREM NobodyStalls == Spec => []NoStall
<1>1. Init => LockInv
  BY DEF Init, Idle, LockInv, LocksAreHeld, LockedByOne
<1>2. Spec => []LockInv
  BY <1>1, LockStep, TypeCorrect, PTL DEF Spec
<1> QED BY <1>2, LocksEnd, TypeCorrect, PTL
=============================================================================
