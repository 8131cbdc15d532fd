-------------------------- MODULE ReconcilerProofs --------------------------
(***************************************************************************)
(* Proofs about Reconciler: the watermark never passes a settled record by *)
(* in silence, for any number of overlapping passes and any window sizes   *)
(* that meet CaptureInWindow.                                              *)
(***************************************************************************)
EXTENDS Reconciler, TLAPS

(* A time a window may have reached: at least SettleTime ago. *)
Past(t) == t <= 0 \/ t + SettleTime <= now

(* Everything settled that a watermark at t has passed is accounted for. *)
DonePayments(t) ==
  \A p \in Payments \cap settled : created[p] + Overlap < t => Accounted(p)
DoneRefunds(t) ==
  ChecksRefunds => \A r \in Refunds \cap settled : created[r] <= t => Accounted(r)
Done(t) == DonePayments(t) /\ DoneRefunds(t)

(* What a pass has listed of its window is accounted for or still on its list. *)
PaymentsListed(i) ==
  pass[i].kind = "refund" \/ pass[i].pc \in {"comparing", "queueing"} =>
    \A p \in Payments \cap settled :
      pass[i].from <= created[p] /\ created[p] + Overlap < pass[i].to =>
        Accounted(p) \/ (pass[i].kind = "payment" /\ p \in pass[i].left)
RefundsListed(i) ==
  pass[i].kind = "refund" /\ pass[i].pc \in {"comparing", "queueing"} =>
    \A r \in Refunds \cap settled :
      pass[i].from <= created[r] /\ created[r] <= pass[i].to =>
        Accounted(r) \/ r \in pass[i].left

Clocked ==
  /\ \A r \in Records : created[r] # None => 1 <= created[r] /\ created[r] <= now
  /\ \A r \in settled : created[r] # None
  /\ Past(covered)
  /\ lastWindowTo # None => Past(lastWindowTo)
  /\ \A i \in Passes : pass[i].pc # "idle" => pass[i].to + SettleTime <= now

Underway(i) ==
  /\ Past(pass[i].from + Overlap) /\ Done(pass[i].from + Overlap)
  /\ PaymentsListed(i) /\ RefundsListed(i)
  /\ pass[i].pc = "recording" => Done(pass[i].to)

(* The watermark, the window in memory and every pass under way start from where
   everything is accounted for. *)
Reached ==
  /\ Done(covered)
  /\ lastWindowTo # None => Done(lastWindowTo)
  /\ \A i \in Passes : pass[i].pc # "idle" => Underway(i)

Coverage == TypeOK /\ Clocked /\ (~gap => Reached)
-----------------------------------------------------------------------------
LEMMA Bounds ==
  /\ SettleTime \in Nat /\ Overlap \in Nat /\ ColdStart \in Nat /\ CaptureTime \in Nat
  /\ MaxTime \in Nat /\ MaxFaults \in Nat
  /\ SettleTime > 0 /\ MaxTime > 0
  BY ReconcilerAssumption

LEMMA StartsTyped == Init => TypeOK
<1> SUFFICES ASSUME Init PROVE TypeOK
  OBVIOUS
<1>0. Idle \in Step
  BY DEF Idle, Step
<1>1. now \in 1..MaxTime /\ faults \in 0..MaxFaults
  BY Bounds DEF Init
<1>2. created \in [Records -> Int \cup {None}] /\ lastWindowTo \in Int \cup {None}
  BY DEF Init
<1>3. pass \in [Passes -> Step] /\ \A i \in Passes : pass[i].left \subseteq settled
  BY <1>0 DEF Init, Idle
<1>4. settled \subseteq Records /\ known \subseteq settled /\ queued \subseteq settled
  BY DEF Init
<1>5. covered \in Int
  BY DEF Init
<1>6. gap \in BOOLEAN
  BY DEF Init
<1>7. QED
  BY <1>1, <1>2, <1>3, <1>4, <1>5, <1>6 DEF TypeOK

(* Every variable keeps its type; nothing unsettled is listed, queued or known. *)
THEOREM TypeCorrect == Spec => []TypeOK
<1>0. Idle \in Step
  BY DEF Idle, Step
<1>1. Init => TypeOK
  BY StartsTyped
<1>2. TypeOK /\ [Next]_vars => TypeOK'
  <2> SUFFICES ASSUME TypeOK, [Next]_vars PROVE TypeOK'
    OBVIOUS
  <2> USE Bounds DEF TypeOK
  <2>1. CASE Tick
    <3>1. now' \in 1..MaxTime
      BY <2>1 DEF Tick
    <3>2. QED
      BY <2>1, <3>1 DEF Tick, Marks
  <2>2. ASSUME NEW r \in Records, Create(r) \/ Capture(r) \/ Refund(r) \/ Learn(r)
        PROVE  TypeOK'
    <3>1. CASE Create(r)
      BY <3>1 DEF Create, Marks
    <3>2. CASE Capture(r)
      BY <3>2 DEF Capture, Marks, Records
    <3>3. CASE Refund(r)
      BY <3>3 DEF Refund, Marks, Records
    <3>4. CASE Learn(r)
      BY <3>4 DEF Learn, Marks
    <3>5. QED
      BY <2>2, <3>1, <3>2, <3>3, <3>4
  <2>3. ASSUME NEW i \in Passes, RunOnce(i) PROVE TypeOK'
    <3> USE DEF World, Marks
    <3>0. pass[i] \in Step /\ pass[i].left \subseteq settled
      OBVIOUS
    <3>1. CASE Begin(i)
      <4>1. now \in Int /\ (lastWindowTo # None => lastWindowTo \in Int)
        OBVIOUS
      <4>2. WindowFrom \in Int /\ WindowTo \in Int
        BY <4>1 DEF WindowFrom, WindowTo
      <4>3. [Idle EXCEPT !.pc = "listing", !.from = WindowFrom, !.to = WindowTo] \in Step
        BY <4>2 DEF Idle, Step
      <4>4. QED
        BY <3>1, <4>3 DEF Begin, Idle
    <3>2. CASE List(i)
      <4> DEFINE listed == {r \in settled : Kind(r) = pass[i].kind /\ InWindow(i, r)}
      <4>1. pass' = [pass EXCEPT ![i] = [pass[i] EXCEPT !.pc = "comparing", !.left = listed]]
        BY <3>2 DEF List
      <4>2. listed \subseteq settled
        OBVIOUS
      <4> HIDE DEF listed
      <4>3. [pass[i] EXCEPT !.pc = "comparing", !.left = listed] \in Step
        BY <3>0, <4>2 DEF Step
      <4>4. pass' \in [Passes -> Step] /\ \A j \in Passes : pass'[j].left \subseteq settled
        BY <3>0, <4>1, <4>2, <4>3
      <4>5. QED
        BY <3>2, <4>4 DEF List
    <3>3. CASE Compare(i)
      BY <3>0, <3>3 DEF Compare, Step
    <3>4. CASE Queue(i)
      BY <3>0, <3>4 DEF Queue, Step
    <3>5. CASE TurnToRefunds(i)
      BY <3>0, <3>5 DEF TurnToRefunds, Step
    <3>6. CASE AdvanceWindow(i)
      BY <3>0, <3>6 DEF AdvanceWindow, Goto, Step
    <3>7. CASE RecordCoverage(i)
      BY <3>0, <3>7, <1>0 DEF RecordCoverage, Rest, Idle, Step
    <3>8. QED
      BY <2>3, <3>1, <3>2, <3>3, <3>4, <3>5, <3>6, <3>7 DEF RunOnce
  <2>4. ASSUME NEW i \in Passes, Fail(i) PROVE TypeOK'
    BY <1>0, <2>4 DEF Fail, Rest, Idle, World, Marks
  <2>5. CASE Restart
    BY <1>0, <2>5 DEF Restart, Idle, World
  <2>6. CASE UNCHANGED vars
    BY <2>6 DEF vars
  <2>7. QED
    BY <2>1, <2>2, <2>3, <2>4, <2>5, <2>6 DEF Next
<1>3. QED
  BY <1>1, <1>2, PTL DEF Spec

(* What any step does to the world: the clock and knowledge only grow, and a record
   settles while its time allows. *)
Moved ==
  /\ now <= now'
  /\ \A r \in Records : created[r] # None => created'[r] = created[r]
  /\ \A r \in Records : created[r] = None /\ created'[r] # None => created'[r] = now
  /\ \A p \in Payments \cap (settled' \ settled) :
       created[p] # None /\ now <= created[p] + CaptureTime
  /\ \A r \in Refunds \cap (settled' \ settled) : created'[r] = now
  /\ settled \subseteq settled' /\ known \subseteq known' /\ queued \subseteq queued'

LEMMA WorldMoves ==
  ASSUME TypeOK, [Next]_vars
  PROVE  Moved
<1> USE ReconcilerAssumption DEF TypeOK, Moved, Records
<1>1. CASE Tick
  BY <1>1 DEF Tick
<1>2. ASSUME NEW r \in Records, Create(r) \/ Capture(r) \/ Refund(r) \/ Learn(r)
      PROVE  Moved
  <2>1. CASE Create(r)
    BY <2>1 DEF Create
  <2>2. CASE Capture(r)
    BY <2>2 DEF Capture
  <2>3. CASE Refund(r)
    BY <2>3 DEF Refund
  <2>4. CASE Learn(r)
    BY <2>4 DEF Learn
  <2>5. QED
    BY <1>2, <2>1, <2>2, <2>3, <2>4
<1>3. ASSUME NEW i \in Passes, RunOnce(i) \/ Fail(i) PROVE Moved
  <2>1. UNCHANGED World /\ queued \subseteq queued'
    BY <1>3 DEF RunOnce, Fail, Begin, List, Compare, Queue, TurnToRefunds,
                AdvanceWindow, RecordCoverage
  <2>2. QED
    BY <2>1 DEF World
<1>4. CASE Restart
  BY <1>4 DEF Restart, World
<1>5. CASE UNCHANGED vars
  BY <1>5 DEF vars
<1>6. QED
  BY <1>1, <1>2, <1>3, <1>4, <1>5 DEF Next

(* A time passed stays passed. *)
LEMMA PastStays ==
  ASSUME TypeOK, TypeOK', Moved, NEW t \in Int, Past(t)
  PROVE  Past(t)'
  BY Bounds DEF Moved, Past, TypeOK

(* What is done stays done: a record that settles later than t + SettleTime was
   created too late to be passed by t. *)
LEMMA DoneStays ==
  ASSUME TypeOK, TypeOK', Clocked, Moved, NEW t \in Int, Past(t), Done(t)
  PROVE  Done(t)'
<1> USE Bounds
<1>0. now \in Int /\ now' \in Int /\ now >= 1
  BY DEF TypeOK
<1>1. ASSUME NEW p \in Payments, p \in settled', created'[p] + Overlap < t
      PROVE  Accounted(p)'
  <2>1. CASE p \in settled
    <3>1. created[p] # None /\ created'[p] = created[p]
      BY <1>1, <2>1 DEF Clocked, Moved, Records
    <3>2. QED
      BY <1>1, <2>1, <3>1 DEF Done, DonePayments, Accounted, Moved
  <2>2. CASE p \notin settled
    <3>1. created[p] # None /\ created'[p] = created[p] /\ now <= created[p] + CaptureTime
      BY <1>1, <2>2 DEF Moved, Records
    <3>2. created[p] \in Int /\ created[p] >= 1
      BY <1>1, <3>1 DEF TypeOK, Clocked, Records
    <3>3. QED
      BY <1>0, <1>1, <3>1, <3>2, CaptureInWindow DEF Past
  <2>3. QED
    BY <2>1, <2>2
<1>2. ASSUME ChecksRefunds, NEW r \in Refunds, r \in settled', created'[r] <= t
      PROVE  Accounted(r)'
  <2>1. CASE r \in settled
    <3>1. created[r] # None /\ created'[r] = created[r]
      BY <1>2, <2>1 DEF Clocked, Moved, Records
    <3>2. QED
      BY <1>2, <2>1, <3>1 DEF Done, DoneRefunds, Accounted, Moved
  <2>2. CASE r \notin settled
    BY <1>0, <1>2, <2>2 DEF Moved, Past
  <2>3. QED
    BY <2>1, <2>2
<1>3. QED
  BY <1>1, <1>2 DEF Done, DonePayments, DoneRefunds

(* Less is done when more is. *)
LEMMA DoneBefore ==
  ASSUME TypeOK, NEW t \in Int, NEW u \in Int, u <= t, Done(t), Clocked
  PROVE  Done(u)
<1>1. \A r \in settled : created[r] \in Int
  BY DEF TypeOK, Clocked
<1>2. QED
  BY <1>1, Bounds DEF Done, DonePayments, DoneRefunds

(* The lists of a pass a step leaves alone are as complete as they were. *)
LEMMA ListedStays ==
  ASSUME TypeOK, TypeOK', Clocked, Moved, NEW i \in Passes,
         pass[i].pc # "idle", pass'[i] = pass[i]
  PROVE  /\ PaymentsListed(i) => PaymentsListed(i)'
         /\ RefundsListed(i) => RefundsListed(i)'
<1> USE Bounds
<1>0. /\ now \in Int /\ pass[i].to \in Int /\ pass[i].to + SettleTime <= now
      /\ pass[i].left \subseteq settled
  BY DEF TypeOK, Step, Clocked
<1>1. ASSUME PaymentsListed(i), pass[i].kind = "refund" \/ pass[i].pc \in {"comparing", "queueing"},
             NEW p \in Payments, p \in settled',
             pass[i].from <= created'[p], created'[p] + Overlap < pass[i].to
      PROVE  Accounted(p)' \/ (pass[i].kind = "payment" /\ p \in pass[i].left)
  <2>1. CASE p \in settled
    <3>1. created[p] # None /\ created'[p] = created[p]
      BY <1>1, <2>1 DEF Clocked, Moved, Records
    <3>2. QED
      BY <1>1, <2>1, <3>1 DEF PaymentsListed, Accounted, Moved
  <2>2. CASE p \notin settled
    <3>1. created[p] # None /\ created'[p] = created[p] /\ now <= created[p] + CaptureTime
      BY <1>1, <2>2 DEF Moved, Records
    <3>2. created[p] \in Int
      BY <1>1, <3>1 DEF TypeOK, Records
    <3>3. QED
      BY <1>0, <1>1, <3>1, <3>2, CaptureInWindow
  <2>3. QED
    BY <2>1, <2>2
<1>2. ASSUME RefundsListed(i), pass[i].kind = "refund", pass[i].pc \in {"comparing", "queueing"},
             NEW r \in Refunds, r \in settled',
             pass[i].from <= created'[r], created'[r] <= pass[i].to
      PROVE  Accounted(r)' \/ r \in pass[i].left
  <2>1. CASE r \in settled
    <3>1. created[r] # None /\ created'[r] = created[r]
      BY <1>2, <2>1 DEF Clocked, Moved, Records
    <3>2. QED
      BY <1>2, <2>1, <3>1 DEF RefundsListed, Accounted, Moved
  <2>2. CASE r \notin settled
    <3>1. created'[r] = now
      BY <1>2, <2>2 DEF Moved
    <3>2. pass[i].to < now
      BY <1>0
    <3>3. QED
      BY <1>0, <1>2, <3>1, <3>2
  <2>3. QED
    BY <2>1, <2>2
<1>3. QED
  BY <1>1, <1>2 DEF PaymentsListed, RefundsListed

(* A pass a step leaves alone is as sound as it was. *)
LEMMA UnderwayStays ==
  ASSUME TypeOK, TypeOK', Clocked, Moved, NEW i \in Passes,
         pass[i].pc # "idle", pass'[i] = pass[i], Underway(i)
  PROVE  Underway(i)'
<1>0. /\ pass[i].from + Overlap \in Int /\ pass[i].to \in Int
      /\ Past(pass[i].to)
  BY Bounds DEF TypeOK, Step, Clocked, Past
<1>1. Past(pass[i].from + Overlap)' /\ Done(pass[i].from + Overlap)'
  <2> DEFINE t == pass[i].from + Overlap
  <2>1. PICK u \in Int : u = t
    BY <1>0
  <2>2. Past(u) /\ Done(u)
    BY <2>1 DEF Underway
  <2>3. Past(u)' /\ Done(u)'
    BY <2>2, PastStays, DoneStays
  <2>4. QED
    BY <2>1, <2>3
<1>2. PaymentsListed(i)' /\ RefundsListed(i)'
  BY ListedStays DEF Underway
<1>3. pass[i].pc = "recording" => Done(pass[i].to)'
  <2> SUFFICES ASSUME pass[i].pc = "recording" PROVE Done(pass[i].to)'
    OBVIOUS
  <2>1. PICK u \in Int : u = pass[i].to
    BY <1>0
  <2>2. Past(u) /\ Done(u)
    BY <1>0, <2>1 DEF Underway
  <2>3. Done(u)'
    BY <2>2, DoneStays
  <2>4. QED
    BY <2>1, <2>3
<1>4. QED
  BY <1>1, <1>2, <1>3 DEF Underway

(* A step of one pass leaves the others, and the world, alone. *)
LEMMA OthersStay ==
  ASSUME TypeOK, NEW i \in Passes, RunOnce(i) \/ Fail(i)
  PROVE  UNCHANGED World /\ \A j \in Passes \ {i} : pass'[j] = pass[j]
  BY DEF TypeOK, RunOnce, Begin, List, Compare, Queue, TurnToRefunds, AdvanceWindow,
         RecordCoverage, Fail, Goto, Rest

(* Where each step of runOnce() leaves its pass. *)
LEMMA PassAfter ==
  ASSUME TypeOK, NEW i \in Passes
  PROVE  /\ Begin(i) => pass'[i] = [Idle EXCEPT !.pc = "listing", !.from = WindowFrom, !.to = WindowTo]
         /\ List(i) \/ Compare(i) \/ Queue(i) =>
              /\ pass'[i].kind = pass[i].kind
              /\ pass'[i].from = pass[i].from /\ pass'[i].to = pass[i].to
         /\ List(i) =>
              /\ pass'[i].pc = "comparing"
              /\ pass'[i].left = {r \in settled : Kind(r) = pass[i].kind /\ InWindow(i, r)}
         /\ Compare(i) => pass'[i].pc = "queueing" /\ pass'[i].left = pass[i].left \ known
         /\ Queue(i) =>
              /\ pass'[i].pc = "queueing" /\ pass'[i].left \subseteq pass[i].left
              /\ queued' = queued \cup (pass[i].left \ pass'[i].left)
         /\ TurnToRefunds(i) => pass'[i] = [pass[i] EXCEPT !.pc = "listing", !.kind = "refund"]
         /\ AdvanceWindow(i) => pass'[i] = [pass[i] EXCEPT !.pc = "recording"]
         /\ RecordCoverage(i) \/ Fail(i) => pass'[i] = Idle
<1> USE DEF TypeOK
<1>0. pass[i] \in Step /\ DOMAIN pass = Passes
  OBVIOUS
<1>1. ASSUME Begin(i)
      PROVE  pass'[i] = [Idle EXCEPT !.pc = "listing", !.from = WindowFrom, !.to = WindowTo]
  BY <1>1 DEF Begin
<1>2. ASSUME List(i)
      PROVE  pass'[i] = [pass[i] EXCEPT !.pc = "comparing",
                           !.left = {r \in settled : Kind(r) = pass[i].kind /\ InWindow(i, r)}]
  BY <1>2 DEF List
<1>3. ASSUME Compare(i)
      PROVE  pass'[i] = [pass[i] EXCEPT !.pc = "queueing", !.left = pass[i].left \ known]
  BY <1>3 DEF Compare
<1>4. ASSUME Queue(i)
      PROVE  \E r \in pass[i].left :
               /\ pass[i].pc = "queueing" /\ queued' = queued \cup {r}
               /\ pass'[i] = [pass[i] EXCEPT !.left = pass[i].left \ {r}]
  BY <1>4 DEF Queue
<1>5. TurnToRefunds(i) => pass'[i] = [pass[i] EXCEPT !.pc = "listing", !.kind = "refund"]
  BY DEF TurnToRefunds
<1>6. AdvanceWindow(i) => pass'[i] = [pass[i] EXCEPT !.pc = "recording"]
  BY DEF AdvanceWindow, Goto
<1>7. RecordCoverage(i) \/ Fail(i) => pass'[i] = Idle
  BY DEF RecordCoverage, Fail, Rest
<1>8. List(i) =>
        /\ pass'[i].kind = pass[i].kind /\ pass'[i].from = pass[i].from /\ pass'[i].to = pass[i].to
        /\ pass'[i].pc = "comparing"
        /\ pass'[i].left = {r \in settled : Kind(r) = pass[i].kind /\ InWindow(i, r)}
  BY <1>0, <1>2 DEF Step
<1>9. Compare(i) =>
        /\ pass'[i].kind = pass[i].kind /\ pass'[i].from = pass[i].from /\ pass'[i].to = pass[i].to
        /\ pass'[i].pc = "queueing" /\ pass'[i].left = pass[i].left \ known
  BY <1>0, <1>3 DEF Step
<1>10. ASSUME Queue(i)
       PROVE  /\ pass'[i].kind = pass[i].kind /\ pass'[i].from = pass[i].from
              /\ pass'[i].to = pass[i].to /\ pass'[i].pc = "queueing"
              /\ pass'[i].left \subseteq pass[i].left
              /\ queued' = queued \cup (pass[i].left \ pass'[i].left)
  <2>1. PICK r \in pass[i].left :
          /\ pass[i].pc = "queueing" /\ queued' = queued \cup {r}
          /\ pass'[i] = [pass[i] EXCEPT !.left = pass[i].left \ {r}]
    BY <1>4, <1>10
  <2>2. /\ pass'[i].kind = pass[i].kind /\ pass'[i].from = pass[i].from
        /\ pass'[i].to = pass[i].to /\ pass'[i].pc = "queueing"
        /\ pass'[i].left = pass[i].left \ {r}
    BY <1>0, <2>1 DEF Step
  <2>3. pass[i].left \ (pass[i].left \ {r}) = {r}
    OBVIOUS
  <2>4. QED
    BY <2>1, <2>2, <2>3
<1>11. QED
  BY <1>1, <1>5, <1>6, <1>7, <1>8, <1>9, <1>10

(* No record, mark or pass is ahead of the clock. *)
LEMMA ClockedStays ==
  ASSUME TypeOK, TypeOK', Clocked, [Next]_vars
  PROVE  Clocked'
<1> USE Bounds
<1>0. Moved
  BY WorldMoves
<1>1. /\ \A r \in Records : created'[r] # None => 1 <= created'[r] /\ created'[r] <= now'
      /\ \A r \in settled' : created'[r] # None
  <2>1. now \in Int /\ now' \in Int /\ now >= 1
    BY DEF TypeOK
  <2>2. ASSUME NEW r \in Records, created'[r] # None
        PROVE  1 <= created'[r] /\ created'[r] <= now'
    <3>1. CASE created[r] = None
      BY <1>0, <2>1, <2>2, <3>1 DEF Moved
    <3>2. CASE created[r] # None
      <4>1. created'[r] = created[r] /\ created[r] \in Int
        BY <1>0, <3>2 DEF Moved, TypeOK
      <4>2. QED
        BY <1>0, <2>1, <3>2, <4>1 DEF Moved, Clocked
    <3>3. QED
      BY <3>1, <3>2
  <2>3. ASSUME NEW r \in settled' PROVE created'[r] # None
    <3>1. r \in Records
      BY DEF TypeOK
    <3>2. CASE r \in settled
      BY <1>0, <3>1, <3>2 DEF Moved, Clocked
    <3>3. CASE r \notin settled /\ r \in Payments
      BY <1>0, <3>1, <3>3 DEF Moved
    <3>4. CASE r \notin settled /\ r \in Refunds
      <4>1. created'[r] = now
        BY <1>0, <3>4 DEF Moved
      <4>2. QED
        BY <2>1, <4>1, ReconcilerAssumption
    <3>5. QED
      BY <3>1, <3>2, <3>3, <3>4 DEF Records
  <2>4. QED
    BY <2>2, <2>3
<1>2. \A t \in Int : Past(t) => Past(t)'
  BY <1>0, PastStays
<1>3. Past(covered)' /\ (lastWindowTo' # None => Past(lastWindowTo)')
  <2>1. /\ covered' \in Int
        /\ covered' = covered \/ \E i \in Passes : pass[i].pc # "idle" /\ covered' = pass[i].to
        /\ \/ lastWindowTo' = lastWindowTo \/ lastWindowTo' = None
           \/ \E i \in Passes : pass[i].pc # "idle" /\ lastWindowTo' = pass[i].to
    BY DEF TypeOK, Next, vars, Tick, Create, Capture, Refund, Learn, Marks, RunOnce, Begin,
           List, Compare, Queue, TurnToRefunds, AdvanceWindow, RecordCoverage, Fail, Restart
  <2>2. \A i \in Passes : pass[i].pc # "idle" => pass[i].to \in Int /\ Past(pass[i].to)
    BY DEF TypeOK, Step, Clocked, Past
  <2>3. Past(covered) /\ covered \in Int
    BY DEF Clocked, TypeOK
  <2>4. PICK t \in Int : t = covered' /\ Past(t)
    BY <2>1, <2>2, <2>3
  <2>5. Past(covered)'
    BY <1>2, <2>4 DEF Past
  <2>6. ASSUME lastWindowTo' # None PROVE Past(lastWindowTo)'
    <3>1. PICK u \in Int : u = lastWindowTo' /\ Past(u)
      BY <2>1, <2>2, <2>6 DEF Clocked, TypeOK
    <3>2. QED
      BY <1>2, <3>1 DEF Past
  <2>7. QED
    BY <2>5, <2>6
<1>4. \A i \in Passes : pass'[i].pc # "idle" => pass'[i].to + SettleTime <= now'
  <2> SUFFICES ASSUME NEW i \in Passes, pass'[i].pc # "idle"
               PROVE  pass'[i].to + SettleTime <= now'
    OBVIOUS
  <2>0. pass'[i].pc # "idle"
    OBVIOUS
  <2>1. \/ pass[i].pc # "idle" /\ pass'[i].to = pass[i].to
        \/ pass'[i].to = now - SettleTime
    <3>1. CASE Tick \/ UNCHANGED vars
      BY <3>1 DEF Tick, vars
    <3>2. ASSUME NEW r \in Records, Create(r) \/ Capture(r) \/ Refund(r) \/ Learn(r)
          PROVE  pass' = pass
      BY <3>2 DEF Create, Capture, Refund, Learn
    <3>3. ASSUME NEW j \in Passes, RunOnce(j) \/ Fail(j)
          PROVE  \/ pass[i].pc # "idle" /\ pass'[i].to = pass[i].to
                 \/ pass'[i].to = now - SettleTime
      <4>1. pass[i] \in Step
        BY DEF TypeOK
      <4>2. CASE i # j
        BY <2>0, <3>3, <4>2, OthersStay
      <4>3. CASE i = j
        <5>1. CASE Begin(i)
          BY <5>1, PassAfter DEF Idle, WindowTo
        <5>2. CASE List(i) \/ Compare(i) \/ Queue(i)
          BY <5>2, PassAfter DEF List, Compare, Queue
        <5>3. CASE TurnToRefunds(i) \/ AdvanceWindow(i)
          <6>1. pass[i].pc # "idle"
            BY <5>3 DEF TurnToRefunds, AdvanceWindow
          <6>2. \/ pass'[i] = [pass[i] EXCEPT !.pc = "listing", !.kind = "refund"]
                \/ pass'[i] = [pass[i] EXCEPT !.pc = "recording"]
            BY <5>3, PassAfter
          <6>3. QED
            BY <4>1, <6>1, <6>2 DEF Step
        <5>4. CASE RecordCoverage(i) \/ Fail(i)
          <6>1. pass'[i] = Idle
            BY <5>4, PassAfter
          <6>2. QED
            BY <2>0, <6>1 DEF Idle
        <5>5. QED
          BY <3>3, <4>3, <5>1, <5>2, <5>3, <5>4 DEF RunOnce
      <4>4. QED
        BY <4>2, <4>3
    <3>4. CASE Restart
      BY <3>4 DEF Restart, Idle
    <3>5. QED
      BY <3>1, <3>2, <3>3, <3>4 DEF Next
  <2>2. now \in Int /\ now' \in Int /\ now <= now'
    BY <1>0 DEF TypeOK, Moved
  <2>3. pass[i].to \in Int
    BY DEF TypeOK, Step
  <2>4. QED
    BY <2>1, <2>2, <2>3 DEF Clocked
<1>5. QED
  BY <1>1, <1>3, <1>4 DEF Clocked

(* A window is covered once everything listed of it is queued: what it starts
   after was accounted for, the rest was on the lists. *)
LEMMA WindowCovered ==
  ASSUME TypeOK, Clocked, NEW i \in Passes, Underway(i),
         pass[i].pc = "queueing", pass[i].left = {}, pass[i].kind = "refund" \/ ~ChecksRefunds
  PROVE  Done(pass[i].to)
<1>0. pass[i].from \in Int /\ pass[i].to \in Int /\ Overlap \in Nat
  BY Bounds DEF TypeOK, Step
<1>1. ASSUME NEW p \in Payments \cap settled, created[p] + Overlap < pass[i].to
      PROVE  Accounted(p)
  <2>1. created[p] \in Int
    BY DEF TypeOK, Clocked, Records
  <2>2. CASE created[p] < pass[i].from
    BY <1>0, <2>1, <2>2 DEF Underway, Done, DonePayments
  <2>3. CASE pass[i].from <= created[p]
    BY <1>1, <2>3 DEF Underway, PaymentsListed
  <2>4. QED
    BY <1>0, <2>1, <2>2, <2>3
<1>2. ASSUME ChecksRefunds, NEW r \in Refunds \cap settled, created[r] <= pass[i].to
      PROVE  Accounted(r)
  <2>1. created[r] \in Int
    BY DEF TypeOK, Clocked, Records
  <2>2. CASE created[r] < pass[i].from
    BY <1>0, <1>2, <2>1, <2>2 DEF Underway, Done, DoneRefunds
  <2>3. CASE pass[i].from <= created[r]
    BY <1>2, <2>3 DEF Underway, RefundsListed
  <2>4. QED
    BY <1>0, <2>1, <2>2, <2>3
<1>3. QED
  BY <1>1, <1>2 DEF Done, DonePayments, DoneRefunds

(* A pass starts where the last window ended, or no later than the watermark. *)
LEMMA BeginIsSound ==
  ASSUME TypeOK, TypeOK', Clocked, Moved, Reached, NEW i \in Passes, Begin(i), ~gap'
  PROVE  Underway(i)'
<1> USE Bounds
<1>0. now \in Int /\ covered \in Int /\ (lastWindowTo # None => lastWindowTo \in Int)
  BY DEF TypeOK
<1>1. pass'[i] = [Idle EXCEPT !.pc = "listing", !.from = WindowFrom, !.to = WindowTo]
  BY PassAfter
<1>2. /\ pass'[i].pc = "listing" /\ pass'[i].kind = "payment" /\ pass'[i].from = WindowFrom
  BY <1>1 DEF Idle
<1>3. PICK u \in Int : /\ u = WindowFrom + Overlap
                       /\ lastWindowTo = None => u = now - ColdStart
                       /\ lastWindowTo # None => u = lastWindowTo
  <2>1. CASE lastWindowTo = None
    BY <1>0, <2>1 DEF WindowFrom
  <2>2. CASE lastWindowTo # None
    BY <1>0, <2>2 DEF WindowFrom
  <2>3. QED
    BY <2>1, <2>2
<1>4. Past(u) /\ Done(u)
  <2>1. CASE lastWindowTo = None
    <3>1. u <= covered
      <4>1. ~(WindowFrom + Overlap > covered)
        BY <2>1 DEF Begin
      <4>2. QED
        BY <1>0, <1>3, <4>1
    <3>2. Past(u)
      BY <1>0, <3>1 DEF Past, Clocked
    <3>3. QED
      BY <1>0, <3>1, <3>2, DoneBefore DEF Reached
  <2>2. CASE lastWindowTo # None
    BY <1>3, <2>2 DEF Clocked, Reached
  <2>3. QED
    BY <2>1, <2>2
<1>5. Past(u)' /\ Done(u)'
  BY <1>4, PastStays, DoneStays
<1>6. u = pass'[i].from + Overlap
  BY <1>2, <1>3
<1>7. Past(pass[i].from + Overlap)' /\ Done(pass[i].from + Overlap)'
  BY <1>5, <1>6
<1>8. PaymentsListed(i)' /\ RefundsListed(i)'
  BY <1>2 DEF PaymentsListed, RefundsListed
<1>9. QED
  BY <1>2, <1>7, <1>8 DEF Underway

(* Listing, comparing, queueing and advancing lose nothing of the window. *)
LEMMA WorkIsSound ==
  ASSUME TypeOK, TypeOK', Clocked, Moved, NEW i \in Passes, Underway(i), UNCHANGED World,
         List(i) \/ Compare(i) \/ Queue(i) \/ TurnToRefunds(i) \/ AdvanceWindow(i)
  PROVE  Underway(i)'
<1> USE Bounds
<1>0. /\ pass[i] \in Step /\ pass[i].from + Overlap \in Int /\ pass[i].to \in Int
      /\ pass[i].pc # "idle"
  BY DEF TypeOK, Step, List, Compare, Queue, TurnToRefunds, AdvanceWindow
<1>1. pass'[i].from = pass[i].from /\ pass'[i].to = pass[i].to
  <2>1. CASE List(i) \/ Compare(i) \/ Queue(i)
    BY <2>1, PassAfter
  <2>2. CASE TurnToRefunds(i)
    <3>1. pass'[i] = [pass[i] EXCEPT !.pc = "listing", !.kind = "refund"]
      BY <2>2, PassAfter
    <3>2. QED
      BY <1>0, <3>1 DEF Step
  <2>3. CASE AdvanceWindow(i)
    <3>1. pass'[i] = [pass[i] EXCEPT !.pc = "recording"]
      BY <2>3, PassAfter
    <3>2. QED
      BY <1>0, <3>1 DEF Step
  <2>4. QED
    BY <2>1, <2>2, <2>3
<1>2. Past(pass[i].from + Overlap)' /\ Done(pass[i].from + Overlap)'
  <2>1. PICK u \in Int : u = pass[i].from + Overlap
    BY <1>0
  <2>2. Past(u)' /\ Done(u)'
    BY <2>1, PastStays, DoneStays DEF Underway
  <2>3. QED
    BY <1>1, <2>1, <2>2
<1>3. /\ created' = created /\ settled' = settled /\ known' = known
      /\ \A r \in settled : Accounted(r) => Accounted(r)'
      /\ \A r \in settled : created[r] \in Int
  BY DEF World, Moved, Accounted, TypeOK, Clocked
<1>4. CASE List(i)
  <2>1. /\ pass'[i].kind = pass[i].kind /\ pass'[i].pc = "comparing"
        /\ pass'[i].left = {r \in settled : Kind(r) = pass[i].kind /\ InWindow(i, r)}
    BY <1>4, PassAfter
  <2>2. PaymentsListed(i)'
    <3> SUFFICES ASSUME NEW p \in Payments, p \in settled, pass[i].from <= created[p],
                        created[p] + Overlap < pass[i].to
                 PROVE  Accounted(p)' \/ (pass'[i].kind = "payment" /\ p \in pass'[i].left)
      BY <1>1, <1>3 DEF PaymentsListed
    <3>1. CASE pass[i].kind = "payment"
      <4>1. created[p] <= pass[i].to /\ created[p] # None
        BY <1>0, <1>3 DEF Clocked
      <4>2. QED
        BY <2>1, <3>1, <4>1 DEF Kind, InWindow
    <3>2. CASE pass[i].kind = "refund"
      BY <1>3, <3>2 DEF Underway, PaymentsListed
    <3>3. QED
      BY <1>0, <3>1, <3>2 DEF Step
  <2>3. RefundsListed(i)'
    <3> SUFFICES ASSUME NEW r \in Refunds, r \in settled, pass[i].kind = "refund",
                        pass[i].from <= created[r], created[r] <= pass[i].to
                 PROVE  r \in pass'[i].left
      BY <1>1, <1>3, <2>1 DEF RefundsListed
    <3>1. Kind(r) = "refund" /\ created[r] # None
      BY ReconcilerAssumption DEF Kind, Clocked
    <3>2. QED
      BY <2>1, <3>1 DEF InWindow
  <2>4. QED
    BY <1>2, <2>1, <2>2, <2>3 DEF Underway
<1>5. CASE Compare(i) \/ Queue(i)
  <2>1. /\ pass'[i].kind = pass[i].kind /\ pass'[i].pc = "queueing"
        /\ pass[i].pc \in {"comparing", "queueing"}
        /\ \A r \in pass[i].left : r \in pass'[i].left \/ Accounted(r)'
    <3>1. CASE Compare(i)
      <4>1. pass'[i].pc = "queueing" /\ pass'[i].left = pass[i].left \ known
        BY <3>1, PassAfter
      <4>2. QED
        BY <1>3, <3>1, <4>1, PassAfter DEF Compare, Accounted
    <3>2. CASE Queue(i)
      <4>1. /\ pass'[i].pc = "queueing"
            /\ queued' = queued \cup (pass[i].left \ pass'[i].left)
        BY <3>2, PassAfter
      <4>2. QED
        BY <3>2, <4>1, PassAfter DEF Queue, Accounted
    <3>3. QED
      BY <1>5, <3>1, <3>2
  <2>2. PaymentsListed(i)' /\ RefundsListed(i)'
    BY <1>1, <1>3, <2>1 DEF Underway, PaymentsListed, RefundsListed
  <2>3. QED
    BY <1>2, <2>1, <2>2 DEF Underway
<1>6. CASE TurnToRefunds(i)
  <2>1. pass'[i] = [pass[i] EXCEPT !.pc = "listing", !.kind = "refund"]
    BY <1>6, PassAfter
  <2>2. pass'[i].pc = "listing" /\ pass'[i].kind = "refund"
    BY <1>0, <2>1 DEF Step
  <2>3. pass[i].pc = "queueing" /\ pass[i].left = {}
    BY <1>6 DEF TurnToRefunds
  <2>4. PaymentsListed(i)'
    BY <1>1, <1>3, <2>2, <2>3 DEF Underway, PaymentsListed
  <2>5. RefundsListed(i)'
    BY <2>2 DEF RefundsListed
  <2>6. QED
    BY <1>2, <2>2, <2>4, <2>5 DEF Underway
<1>7. CASE AdvanceWindow(i)
  <2>1. pass'[i] = [pass[i] EXCEPT !.pc = "recording"]
    BY <1>7, PassAfter
  <2>2. pass'[i].pc = "recording" /\ pass'[i].kind = pass[i].kind
    BY <1>0, <2>1 DEF Step
  <2>3. PaymentsListed(i)'
    BY <1>1, <1>3, <2>2 DEF Underway, PaymentsListed
  <2>4. RefundsListed(i)'
    BY <2>2 DEF RefundsListed
  <2>5. Done(pass[i].to) /\ Past(pass[i].to)
    BY <1>7, WindowCovered, <1>0 DEF AdvanceWindow, Clocked, Past
  <2>6. PICK u \in Int : u = pass[i].to
    BY <1>0
  <2>7. Done(u)'
    BY <2>5, <2>6, DoneStays
  <2>8. Done(pass[i].to)'
    BY <1>1, <2>6, <2>7
  <2>9. QED
    BY <1>2, <2>3, <2>4, <2>8 DEF Underway
<1>8. QED
  BY <1>4, <1>5, <1>6, <1>7

(* Whatever a step does, the marks and the passes stay where all is accounted for. *)
LEMMA ReachedStays ==
  ASSUME TypeOK, TypeOK', Clocked, Reached, [Next]_vars, ~gap'
  PROVE  Reached'
<1> USE Bounds
<1>0. Moved
  BY WorldMoves
<1>1. \A t \in Int : Past(t) /\ Done(t) => Done(t)'
  BY <1>0, DoneStays
<1>2. Done(covered)'
  <2>1. \/ covered' = covered
        \/ \E i \in Passes : pass[i].pc = "recording" /\ covered' = pass[i].to
    BY DEF Next, vars, Tick, Create, Capture, Refund, Learn, Marks, RunOnce, Begin,
           List, Compare, Queue, TurnToRefunds, AdvanceWindow, RecordCoverage, Fail, Restart
  <2>2. PICK t \in Int : t = covered' /\ Past(t) /\ Done(t)
    <3>1. CASE covered' = covered
      BY <3>1 DEF TypeOK, Clocked, Reached
    <3>2. ASSUME NEW i \in Passes, pass[i].pc = "recording", covered' = pass[i].to
          PROVE  covered' \in Int /\ Past(pass[i].to) /\ Done(pass[i].to)
      <4>1. Done(pass[i].to)
        BY <3>2 DEF Reached, Underway
      <4>2. QED
        BY <3>2, <4>1 DEF TypeOK, Clocked, Past
    <3>3. QED
      BY <2>1, <3>1, <3>2
  <2>3. QED
    BY <1>1, <2>2
<1>3. lastWindowTo' # None => Done(lastWindowTo)'
  <2> SUFFICES ASSUME lastWindowTo' # None PROVE Done(lastWindowTo)'
    OBVIOUS
  <2>1. \/ lastWindowTo' = lastWindowTo
        \/ \E i \in Passes : AdvanceWindow(i) /\ lastWindowTo' = pass[i].to
    BY DEF Next, vars, Tick, Create, Capture, Refund, Learn, Marks, RunOnce, Begin,
           List, Compare, Queue, TurnToRefunds, AdvanceWindow, RecordCoverage, Fail, Restart
  <2>2. PICK t \in Int : t = lastWindowTo' /\ Past(t) /\ Done(t)
    <3>1. CASE lastWindowTo' = lastWindowTo
      BY <3>1 DEF TypeOK, Clocked, Reached
    <3>2. ASSUME NEW i \in Passes, AdvanceWindow(i), lastWindowTo' = pass[i].to
          PROVE  lastWindowTo' \in Int /\ Past(pass[i].to) /\ Done(pass[i].to)
      <4>1. /\ pass[i].pc = "queueing" /\ pass[i].left = {}
            /\ pass[i].kind = "refund" \/ ~ChecksRefunds
        BY <3>2 DEF AdvanceWindow
      <4>2. Done(pass[i].to)
        BY <4>1, WindowCovered DEF Reached
      <4>3. pass[i].to \in Int /\ Past(pass[i].to)
        BY <4>1 DEF TypeOK, Step, Clocked, Past
      <4>4. QED
        BY <3>2, <4>2, <4>3
    <3>3. QED
      BY <2>1, <3>1, <3>2
  <2>3. QED
    BY <1>1, <2>2
<1>4. ASSUME NEW i \in Passes, pass'[i].pc # "idle" PROVE Underway(i)'
  <2>1. CASE pass'[i] = pass[i]
    <3>1. pass[i].pc # "idle" /\ Underway(i)
      BY <1>4, <2>1 DEF Reached
    <3>2. QED
      BY <1>0, <2>1, <3>1, UnderwayStays
  <2>2. ASSUME RunOnce(i) PROVE Underway(i)'
    <3>1. CASE Begin(i)
      BY <1>0, <3>1, BeginIsSound
    <3>2. CASE List(i) \/ Compare(i) \/ Queue(i) \/ TurnToRefunds(i) \/ AdvanceWindow(i)
      <4>1. pass[i].pc # "idle"
        BY <3>2 DEF List, Compare, Queue, TurnToRefunds, AdvanceWindow
      <4>2. Underway(i)
        BY <4>1 DEF Reached
      <4>3. UNCHANGED World
        BY <2>2, OthersStay
      <4>4. QED
        BY <1>0, <3>2, <4>2, <4>3, WorkIsSound
    <3>3. CASE RecordCoverage(i)
      <4>1. pass'[i] = Idle
        BY <3>3, PassAfter
      <4>2. QED
        BY <1>4, <4>1 DEF Idle
    <3>4. QED
      BY <2>2, <3>1, <3>2, <3>3 DEF RunOnce
  <2>3. ASSUME Fail(i) PROVE Underway(i)'
    <3>1. pass'[i] = Idle
      BY <2>3, PassAfter
    <3>2. QED
      BY <1>4, <3>1 DEF Idle
  <2>4. ASSUME NEW j \in Passes \ {i}, RunOnce(j) \/ Fail(j) PROVE pass'[i] = pass[i]
    BY <2>4, OthersStay
  <2>5. ASSUME NEW r \in Records, Create(r) \/ Capture(r) \/ Refund(r) \/ Learn(r)
        PROVE  pass'[i] = pass[i]
    BY <2>5 DEF Create, Capture, Refund, Learn
  <2>6. CASE Tick \/ UNCHANGED vars
    <3>1. pass'[i] = pass[i]
      BY <2>6 DEF Tick, vars
    <3>2. QED
      BY <2>1, <3>1
  <2>7. CASE Restart
    BY <1>4, <2>7 DEF Restart, Idle
  <2>8. QED
    BY <2>1, <2>2, <2>3, <2>4, <2>5, <2>6, <2>7 DEF Next
<1>5. QED
  BY <1>2, <1>3, <1>4 DEF Reached

(* A gap, once seen, stays seen. *)
LEMMA GapStays ==
  ASSUME TypeOK, [Next]_vars, gap
  PROVE  gap'
  BY DEF Next, vars, Tick, Create, Capture, Refund, Learn, Marks, RunOnce, Begin,
         List, Compare, Queue, TurnToRefunds, AdvanceWindow, RecordCoverage, Fail, Restart

(* The inductive invariant.  PaymentIsAccounted and RefundIsAccounted speak of the
   watermark alone; it is set from a window, the window from the watermark or from
   memory, so all of them, and the passes between, have to be sound together. *)
THEOREM CoverageHolds == Spec => []Coverage
<1>1. Init => Coverage
  <2> SUFFICES ASSUME Init PROVE Coverage
    OBVIOUS
  <2>1. now = 1 /\ covered = 0 /\ lastWindowTo = None /\ settled = {}
    BY DEF Init
  <2>2. \A i \in Passes : pass[i].pc = "idle"
    BY DEF Init, Idle
  <2>3. TypeOK
    BY StartsTyped
  <2>4. Clocked
    BY <2>1, <2>2 DEF Init, Clocked, Past
  <2>5. Reached
    BY <2>1, <2>2 DEF Reached, Done, DonePayments, DoneRefunds
  <2>6. QED
    BY <2>3, <2>4, <2>5 DEF Coverage
<1>2. Coverage /\ TypeOK' /\ [Next]_vars => Coverage'
  <2> SUFFICES ASSUME Coverage, TypeOK', [Next]_vars PROVE Coverage'
    OBVIOUS
  <2>1. TypeOK /\ Clocked
    BY DEF Coverage
  <2>2. Clocked'
    BY <2>1, ClockedStays
  <2>3. ASSUME ~gap' PROVE Reached'
    <3>1. ~gap
      BY <2>1, <2>3, GapStays
    <3>2. Reached
      BY <3>1 DEF Coverage
    <3>3. QED
      BY <2>1, <2>3, <3>2, ReachedStays
  <2>4. QED
    BY <2>2, <2>3 DEF Coverage
<1>3. QED
  BY <1>1, <1>2, TypeCorrect, PTL DEF Spec

(* `Only a fully covered window advances the watermark' (lines 281-282): no failure,
   restart, overlap of passes or late capture moves the watermark past a settled
   payment that is neither known nor queued. *)
THEOREM PaymentsAccounted == Spec => []PaymentIsAccounted
<1>1. Coverage => PaymentIsAccounted
  BY DEF Coverage, Reached, Done, DonePayments, PaymentIsAccounted
<1>2. QED
  BY <1>1, CoverageHolds, PTL

(* The same of refunds, which settle as they are made. *)
THEOREM RefundsAccounted == Spec => []RefundIsAccounted
<1>1. Coverage => RefundIsAccounted
  BY DEF Coverage, Reached, Done, DoneRefunds, RefundIsAccounted
<1>2. QED
  BY <1>1, CoverageHolds, PTL
=============================================================================
