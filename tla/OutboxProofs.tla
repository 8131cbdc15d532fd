---------------------------- MODULE OutboxProofs ----------------------------
(***************************************************************************)
(* Proofs about Outbox, for any number of drainers, effects, attempts and  *)
(* failures.                                                               *)
(***************************************************************************)
EXTENDS Outbox, FiniteSetTheorems, TLAPS

(* A drainer that is not idle holds an effect. *)
LEMMA BusyHasEffect ==
  ASSUME drainer \in [Drainers -> Step], NEW d \in Drainers, drainer[d].pc # "idle"
  PROVE  drainer[d] \in [pc : {"claimed", "answered", "refused"}, effect : Effects]
  BY DEF Step, Idle

(* Every variable keeps its type. *)
THEOREM TypeCorrect == Spec => []TypeOK
<1>0. Idle \in Step /\ NoRow \in Row
  BY DEF Step, NoRow, Row
<1>1. Init => TypeOK
  BY <1>0, OutboxAssumption DEF Init, TypeOK
<1>2. TypeOK /\ [Next]_vars => TypeOK'
  <2> SUFFICES ASSUME TypeOK, [Next]_vars PROVE TypeOK'
    OBVIOUS
  <2> USE OutboxAssumption DEF TypeOK
  <2>1. ASSUME NEW k \in Effects, Emit(k) PROVE TypeOK'
    <3>1. [NoRow EXCEPT !.state = "pending", !.at = clock] \in Row
      BY DEF NoRow, Row
    <3>2. QED
      BY <2>1, <3>1 DEF Emit
  <2>2. ASSUME NEW k \in Effects, BackoffEnds(k) PROVE TypeOK'
    BY <2>2 DEF BackoffEnds, Row
  <2>3. ASSUME NEW d \in Drainers, DeliverOne(d) \/ ConfirmFails(d) \/ Abandon(d)
        PROVE  TypeOK'
    <3>1. CASE Claim(d)
      BY <3>1 DEF Claim, Step, Row
    <3>2. CASE NoSender(d)
      <4>1. drainer[d].effect \in Effects
        BY <3>2, BusyHasEffect DEF NoSender
      <4>2. QED
        BY <1>0, <3>2, <4>1 DEF NoSender, Rest, Row
    <3>3. CASE Send(d)
      <4>1. drainer[d] \in [pc : {"claimed", "answered", "refused"}, effect : Effects]
        BY <3>3, BusyHasEffect DEF Send
      <4>2. \A pc \in {"answered", "refused"} : Goto(d, pc) => drainer' \in [Drainers -> Step]
        BY <4>1 DEF Goto, Step
      <4>3. received' \in [Effects -> Nat]
        BY <3>3, <4>1 DEF Send
      <4>4. QED
        BY <3>3, <4>2, <4>3 DEF Send
    <3>4. CASE Confirm(d)
      <4>1. drainer[d].effect \in Effects
        BY <3>4, BusyHasEffect DEF Confirm
      <4>2. QED
        BY <1>0, <3>4, <4>1 DEF Confirm, Rest, Row
    <3>5. CASE Postpone(d)
      <4>1. drainer[d].effect \in Effects
        BY <3>5, BusyHasEffect DEF Postpone
      <4>2. QED
        BY <1>0, <3>5, <4>1 DEF Postpone, Rest, Row
    <3>6. CASE ConfirmFails(d)
      <4>1. drainer[d] \in [pc : {"claimed", "answered", "refused"}, effect : Effects]
        BY <3>6, BusyHasEffect DEF ConfirmFails
      <4>2. drainer' \in [Drainers -> Step]
        BY <3>6, <4>1 DEF ConfirmFails, Goto, Step
      <4>3. QED
        BY <3>6, <4>2 DEF ConfirmFails
    <3>7. CASE Abandon(d)
      BY <1>0, <3>7 DEF Abandon, Rest
    <3>8. QED
      BY <2>3, <3>1, <3>2, <3>3, <3>4, <3>5, <3>6, <3>7 DEF DeliverOne
  <2>4. CASE UNCHANGED vars
    BY <2>4 DEF vars
  <2>5. QED
    BY <2>1, <2>2, <2>3, <2>4 DEF Next
<1>3. QED
  BY <1>1, <1>2, PTL DEF Spec
(* What is delivered stays delivered: an emit of the same key finds its row there,
   and the catch block's UPDATE leaves delivered_at alone. *)
THEOREM DeliveryIsFinal == Spec => DeliveredIsFinal
<1>1. TypeOK /\ [Next]_vars =>
        [\A k \in Effects : row[k].state = "delivered" => row'[k].state = "delivered"]_vars
  <2> SUFFICES ASSUME TypeOK, Next, NEW k \in Effects, row[k].state = "delivered"
               PROVE  row'[k].state = "delivered"
    OBVIOUS
  <2> USE DEF TypeOK, Row
  <2>1. ASSUME NEW j \in Effects, Emit(j) \/ BackoffEnds(j) PROVE row'[k] = row[k]
    BY <2>1 DEF Emit, BackoffEnds
  <2>2. ASSUME NEW d \in Drainers, DeliverOne(d) \/ ConfirmFails(d) \/ Abandon(d)
        PROVE  row'[k].state = "delivered"
    <3>1. CASE Claim(d)
      BY <3>1 DEF Claim
    <3>2. CASE NoSender(d) \/ Confirm(d) \/ Postpone(d)
      BY <3>2 DEF NoSender, Confirm, Postpone
    <3>3. CASE Send(d) \/ ConfirmFails(d) \/ Abandon(d)
      BY <3>3 DEF Send, ConfirmFails, Abandon
    <3>4. QED
      BY <2>2, <3>1, <3>2, <3>3 DEF DeliverOne
  <2>3. QED
    BY <2>1, <2>2 DEF Next
<1>2. QED
  BY <1>1, TypeCorrect, PTL DEF Spec, DeliveredIsFinal

(* A drainer about to record a delivery has made one. *)
AnsweredWasReceived ==
  \A d \in Drainers : drainer[d].pc = "answered" => received[drainer[d].effect] > 0

(* No row is marked delivered unless the receiver got the effect. *)
THEOREM DeliveryIsReal == Spec => []DeliveredWasReceived
<1> DEFINE Real == DeliveredWasReceived /\ AnsweredWasReceived
<1>1. Init => Real
  BY DEF Init, NoRow, Idle, DeliveredWasReceived, AnsweredWasReceived
<1>2. TypeOK /\ TypeOK' /\ Real /\ [Next]_vars => Real'
  <2> SUFFICES ASSUME TypeOK, TypeOK', Real, [Next]_vars PROVE Real'
    OBVIOUS
  <2> USE DEF TypeOK, DeliveredWasReceived, AnsweredWasReceived
  <2>1. ASSUME NEW k \in Effects, Emit(k) \/ BackoffEnds(k) PROVE Real'
    <3>1. \A j \in Effects : row'[j].state = "delivered" => row[j].state = "delivered"
      BY <2>1, ZenonT(40) DEF Emit, BackoffEnds, Row, NoRow
    <3>2. UNCHANGED <<drainer, received>>
      BY <2>1 DEF Emit, BackoffEnds
    <3>3. QED
      BY <3>1, <3>2
  <2>2. ASSUME NEW d \in Drainers, DeliverOne(d) \/ ConfirmFails(d) \/ Abandon(d)
        PROVE  Real'
    <3>1. CASE Claim(d) \/ NoSender(d) \/ Postpone(d) \/ ConfirmFails(d) \/ Abandon(d)
      <4>1. UNCHANGED received
        BY <3>1 DEF Claim, NoSender, Postpone, ConfirmFails, Abandon
      <4>2. \A j \in Effects : row'[j].state = row[j].state
        BY <3>1 DEF Claim, NoSender, Postpone, ConfirmFails, Abandon, Row
      <4>3. \A c \in Drainers : drainer'[c].pc = "answered" => drainer'[c] = drainer[c]
        BY <3>1 DEF Claim, NoSender, Postpone, ConfirmFails, Abandon, Goto, Rest, Idle, Step
      <4>4. QED
        BY <4>1, <4>2, <4>3
    <3>2. CASE Send(d)
      <4>1. \A j \in Effects : received[j] <= received'[j]
        BY <3>2 DEF Send
      <4>2. drainer[d] \in [pc : {"claimed", "answered", "refused"}, effect : Effects]
        BY <3>2, BusyHasEffect DEF Send
      <4>3. drainer'[d].pc = "answered" => received'[drainer'[d].effect] > 0
        BY <3>2, <4>2 DEF Send, Goto
      <4>4. \A c \in Drainers \ {d} : drainer'[c] = drainer[c]
        BY <3>2 DEF Send, Goto
      <4>5. \A c \in Drainers : drainer[c].pc = "answered" => drainer[c].effect \in Effects
        BY BusyHasEffect
      <4>6. AnsweredWasReceived'
        BY <4>1, <4>3, <4>4, <4>5
      <4>7. DeliveredWasReceived'
        BY <3>2, <4>1 DEF Send
      <4>8. QED
        BY <4>6, <4>7
    <3>3. CASE Confirm(d)
      <4>1. received[drainer[d].effect] > 0 /\ UNCHANGED received
        BY <3>3 DEF Confirm
      <4>2. \A j \in Effects \ {drainer[d].effect} : row'[j] = row[j]
        BY <3>3 DEF Confirm
      <4>3. \A c \in Drainers : drainer'[c].pc = "answered" => drainer'[c] = drainer[c]
        BY <3>3 DEF Confirm, Rest, Idle
      <4>4. QED
        BY <4>1, <4>2, <4>3
    <3>4. QED
      BY <2>2, <3>1, <3>2, <3>3 DEF DeliverOne
  <2>3. CASE UNCHANGED vars
    BY <2>3 DEF vars
  <2>4. QED
    BY <2>1, <2>2, <2>3 DEF Next
<1>3. QED
  BY <1>1, <1>2, TypeCorrect, PTL DEF Spec

(* Nobody has claimed an intent that is not written. *)
AbsentIsUnclaimed == \A k \in Effects : row[k].state = "absent" => row[k].attempts = 0

LEMMA UnderwayIsFinite ==
  ASSUME NEW k
  PROVE  /\ IsFiniteSet(Underway(k)) /\ Cardinality(Underway(k)) \in Nat
         /\ IsFiniteSet(Underway(k)') /\ Cardinality(Underway(k)') \in Nat
<1>1. Underway(k) \subseteq Drainers /\ Underway(k)' \subseteq Drainers
  BY DEF Underway
<1>2. QED
  BY <1>1, FS_Subset, FS_CardinalityType, OutboxAssumption

(* A drainer that sends, or gives up, is one copy less under way. *)
LEMMA OneLess ==
  ASSUME TypeOK, NEW d \in Drainers, drainer[d].pc = "claimed", drainer'[d].pc # "claimed",
         \A c \in Drainers \ {d} : drainer'[c] = drainer[c]
  PROVE  \A k \in Effects :
           Cardinality(Underway(k)') =
             IF k = drainer[d].effect THEN Cardinality(Underway(k)) - 1
             ELSE Cardinality(Underway(k))
<1> SUFFICES ASSUME NEW k \in Effects
             PROVE  Cardinality(Underway(k)') =
                      IF k = drainer[d].effect THEN Cardinality(Underway(k)) - 1
                      ELSE Cardinality(Underway(k))
  OBVIOUS
<1>1. CASE k = drainer[d].effect
  <2>1. Underway(k)' = Underway(k) \ {d} /\ d \in Underway(k)
    BY <1>1 DEF Underway
  <2>2. QED
    BY <1>1, <2>1, UnderwayIsFinite, FS_RemoveElement
<1>2. CASE k # drainer[d].effect
  <2>1. Underway(k)' = Underway(k)
    BY <1>2 DEF Underway
  <2>2. QED
    BY <1>2, <2>1
<1>3. QED
  BY <1>1, <1>2

(* A step that claims nothing and puts no more copies under way keeps the count. *)
LEMMA CountKept ==
  ASSUME TypeOK, TypeOK', CopiesAreCounted, AbsentIsUnclaimed,
         \A k \in Effects :
           /\ row'[k].attempts = row[k].attempts
           /\ row'[k].state = "absent" => row[k].state = "absent"
           /\ received'[k] + Cardinality(Underway(k)') <= received[k] + Cardinality(Underway(k))
  PROVE  CopiesAreCounted' /\ AbsentIsUnclaimed'
<1>1. ASSUME NEW k \in Effects
      PROVE  /\ received'[k] + Cardinality(Underway(k)') <= row'[k].attempts
             /\ row'[k].attempts <= MaxAttempts
  <2>1. received[k] \in Nat /\ row[k].attempts \in Nat /\ received'[k] \in Nat
    BY DEF TypeOK, Row
  <2>2. Cardinality(Underway(k)) \in Nat /\ Cardinality(Underway(k)') \in Nat
    BY UnderwayIsFinite
  <2>3. /\ received[k] + Cardinality(Underway(k)) <= row[k].attempts
        /\ row[k].attempts <= MaxAttempts
    BY DEF CopiesAreCounted
  <2>4. QED
    BY <2>1, <2>2, <2>3, OutboxAssumption
<1>2. CopiesAreCounted'
  BY <1>1 DEF CopiesAreCounted
<1>3. QED
  BY <1>2 DEF AbsentIsUnclaimed

(* The claim adds one copy under way and counts one attempt. *)
LEMMA ClaimCounts ==
  ASSUME TypeOK, TypeOK', CopiesAreCounted, AbsentIsUnclaimed, NEW d \in Drainers, Claim(d)
  PROVE  CopiesAreCounted' /\ AbsentIsUnclaimed'
<1>1. PICK k \in Effects :
        /\ Claimable(k)
        /\ row' = [row EXCEPT ![k].attempts = @ + 1]
        /\ drainer' = [drainer EXCEPT ![d] = [pc |-> "claimed", effect |-> k]]
  BY DEF Claim
<1>2. received' = received /\ drainer[d].pc = "idle"
  BY DEF Claim
<1>3. /\ row'[k].attempts = row[k].attempts + 1 /\ row[k].attempts < MaxAttempts
      /\ \A j \in Effects : row'[j].state = row[j].state
      /\ \A j \in Effects \ {k} : row'[j] = row[j]
      /\ row[k].state = "pending"
  BY <1>1 DEF TypeOK, Row, Claimable
<1>4. ASSUME NEW j \in Effects
      PROVE  /\ received'[j] + Cardinality(Underway(j)') <= row'[j].attempts
             /\ row'[j].attempts <= MaxAttempts
  <2>1. received[j] \in Nat /\ row[j].attempts \in Nat
    BY DEF TypeOK, Row
  <2>2. /\ received[j] + Cardinality(Underway(j)) <= row[j].attempts
        /\ row[j].attempts <= MaxAttempts
    BY DEF CopiesAreCounted
  <2>3. Cardinality(Underway(j)) \in Nat /\ IsFiniteSet(Underway(j))
    BY UnderwayIsFinite
  <2>4. CASE j = k
    <3>1. Underway(j)' = Underway(j) \cup {d} /\ d \notin Underway(j)
      BY <1>1, <1>2, <2>4 DEF Underway, TypeOK
    <3>2. Cardinality(Underway(j)') = Cardinality(Underway(j)) + 1
      BY <2>3, <3>1, FS_AddElement
    <3>3. QED
      BY <1>2, <1>3, <2>1, <2>2, <2>3, <2>4, <3>2, OutboxAssumption
  <2>5. CASE j # k
    <3>1. Underway(j)' = Underway(j)
      BY <1>1, <1>2, <2>5 DEF Underway, TypeOK
    <3>2. QED
      BY <1>2, <1>3, <2>2, <2>5, <3>1
  <2>6. QED
    BY <2>4, <2>5
<1>5. CopiesAreCounted'
  BY <1>4 DEF CopiesAreCounted
<1>6. AbsentIsUnclaimed'
  BY <1>3 DEF AbsentIsUnclaimed
<1>7. QED
  BY <1>5, <1>6

(* The count survives every step. *)
LEMMA CountStays ==
  ASSUME TypeOK, TypeOK', CopiesAreCounted, AbsentIsUnclaimed, [Next]_vars
  PROVE  CopiesAreCounted' /\ AbsentIsUnclaimed'
<1>1. \A k : Cardinality(Underway(k)) \in Nat /\ Cardinality(Underway(k)') \in Nat
  BY UnderwayIsFinite
<1>2. \A k \in Effects : received[k] \in Nat
  BY DEF TypeOK
<1>3. ASSUME NEW k \in Effects, Emit(k) \/ BackoffEnds(k)
      PROVE  CopiesAreCounted' /\ AbsentIsUnclaimed'
  <2>1. \A j \in Effects : /\ row'[j].attempts = row[j].attempts
                           /\ row'[j].state = "absent" => row[j].state = "absent"
    <3>1. CASE Emit(k)
      <4>1. row' = [row EXCEPT ![k] = [NoRow EXCEPT !.state = "pending", !.at = clock]]
        BY <3>1 DEF Emit
      <4>2. row'[k].attempts = 0 /\ row'[k].state = "pending" /\ row[k].attempts = 0
        BY <3>1, <4>1 DEF Emit, AbsentIsUnclaimed, NoRow, TypeOK
      <4>3. \A j \in Effects \ {k} : row'[j] = row[j]
        BY <4>1 DEF TypeOK
      <4>4. QED
        BY <4>2, <4>3
    <3>2. CASE BackoffEnds(k)
      BY <3>2 DEF BackoffEnds, TypeOK, Row
    <3>3. QED
      BY <1>3, <3>1, <3>2
  <2>2. received' = received /\ drainer' = drainer
    BY <1>3 DEF Emit, BackoffEnds
  <2>3. \A j : Underway(j)' = Underway(j)
    BY <2>2 DEF Underway
  <2>4. \A j \in Effects : received'[j] + Cardinality(Underway(j)')
                             <= received[j] + Cardinality(Underway(j))
    BY <1>1, <1>2, <2>2, <2>3
  <2>5. QED
    BY <2>1, <2>4, CountKept
<1>4. ASSUME NEW d \in Drainers, NoSender(d) \/ Send(d)
      PROVE  CopiesAreCounted' /\ AbsentIsUnclaimed'
  <2>1. drainer[d].pc = "claimed" /\ drainer[d].effect \in Effects
    BY <1>4, BusyHasEffect DEF NoSender, Send, TypeOK
  <2>2. drainer'[d].pc # "claimed" /\ \A c \in Drainers \ {d} : drainer'[c] = drainer[c]
    BY <1>4, <2>1, BusyHasEffect DEF NoSender, Send, Goto, Rest, Idle, TypeOK
  <2>3. \A k \in Effects : row'[k].attempts = row[k].attempts /\ row'[k].state = row[k].state
    BY <1>4 DEF NoSender, Send, TypeOK, Row
  <2>4. \A k \in Effects :
          received'[k] <= received[k] + (IF k = drainer[d].effect THEN 1 ELSE 0)
    BY <1>2, <1>4, <2>1 DEF NoSender, Send, TypeOK
  <2>5. \A k \in Effects : received'[k] + Cardinality(Underway(k)')
                             <= received[k] + Cardinality(Underway(k))
    <3>1. ASSUME NEW k \in Effects
          PROVE  received'[k] + Cardinality(Underway(k)') <= received[k] + Cardinality(Underway(k))
      <4>1. Cardinality(Underway(k)') =
              IF k = drainer[d].effect THEN Cardinality(Underway(k)) - 1
              ELSE Cardinality(Underway(k))
        BY <2>1, <2>2, OneLess
      <4>2. received[k] \in Nat /\ received'[k] \in Nat
        BY DEF TypeOK
      <4>3. QED
        BY <1>1, <2>4, <4>1, <4>2
    <3>2. QED
      BY <3>1
  <2>6. QED
    BY <2>3, <2>5, CountKept
<1>5. ASSUME NEW d \in Drainers, Confirm(d) \/ Postpone(d) \/ ConfirmFails(d) \/ Abandon(d)
      PROVE  CopiesAreCounted' /\ AbsentIsUnclaimed'
  <2>1. drainer'[d].pc # "claimed" /\ \A c \in Drainers \ {d} : drainer'[c] = drainer[c]
    BY <1>5 DEF Confirm, Postpone, ConfirmFails, Abandon, Goto, Rest, Idle, TypeOK, Step
  <2>2. received' = received
    BY <1>5 DEF Confirm, Postpone, ConfirmFails, Abandon
  <2>3. \A k \in Effects : /\ row'[k].attempts = row[k].attempts
                           /\ row'[k].state = "absent" => row[k].state = "absent"
    BY <1>5 DEF Confirm, Postpone, ConfirmFails, Abandon, TypeOK, Row
  <2>4. \A k : Underway(k)' \subseteq Underway(k)
    BY <2>1 DEF Underway
  <2>5. \A k : Cardinality(Underway(k)') <= Cardinality(Underway(k))
    BY <2>4, UnderwayIsFinite, FS_Subset
  <2>6. \A k \in Effects : received'[k] + Cardinality(Underway(k)')
                             <= received[k] + Cardinality(Underway(k))
    BY <1>1, <1>2, <2>2, <2>5
  <2>7. QED
    BY <2>3, <2>6, CountKept
<1>6. CASE UNCHANGED vars
  BY <1>6 DEF vars, CopiesAreCounted, AbsentIsUnclaimed, Underway
<1>7. QED
  BY <1>3, <1>4, <1>5, <1>6, ClaimCounts DEF Next, DeliverOne

(* At least once, but bounded: with any number of drainers, deaths, lost answers and
   failed confirmations, a receiver gets no more copies of an effect than attempts
   were counted, and no more than maxAttempts (lines 55-71). *)
THEOREM CopiesBounded == Spec => []CopiesAreCounted
<1> DEFINE Count == CopiesAreCounted /\ AbsentIsUnclaimed
<1>1. Init => Count
  <2> SUFFICES ASSUME Init PROVE Count
    OBVIOUS
  <2>1. \A k : Underway(k) = {}
    BY DEF Init, Idle, Underway
  <2>2. \A k \in Effects : received[k] = 0 /\ row[k] = NoRow
    BY DEF Init
  <2>3. QED
    BY <2>1, <2>2, FS_EmptySet, OutboxAssumption DEF NoRow, CopiesAreCounted, AbsentIsUnclaimed
<1>2. TypeOK /\ TypeOK' /\ Count /\ [Next]_vars => Count'
  BY CountStays
<1>3. QED
  BY <1>1, <1>2, TypeCorrect, PTL DEF Spec
=============================================================================
