----------------------------- MODULE LedgerProofs -----------------------------
(***************************************************************************)
(* What the sweeps write is justified, for any number of orders, sweepers, *)
(* failures and any batch size.                                            *)
(*                                                                         *)
(* None of the properties is inductive: a sweep writes a verdict some      *)
(* steps after the lookup, and a batch some sweeps after the SELECT.  The  *)
(* invariant says what both still mean by then (Selected, Justified):      *)
(* deadlines that have passed stay passed, and neither a capture nor a     *)
(* decline is ever taken back.                                             *)
(***************************************************************************)
EXTENDS Ledger, FiniteSetTheorems, TLAPS

Steps == [pc : {"idle", "asking", "repairing", "resolving"}, batch : Seq(Orders),
          verdict : {"unknown", "captured", "failed", "none"}]

(* Who paid in time has paid. *)
PaidHasCapture == \A o \in inTime : "captured" \in payments[o]

(* Only an overdue expectation is given a verdict. *)
NamedIsOverdue ==
  \A o \in Orders : expectation[o] \in {"recovered", "failed", "abandoned"} => Overdue(o)

(* The rows of a sweep are overdue, and a sweep under way has one. *)
Selected(s) ==
  /\ \A i \in 1..Len(sweep[s].batch) : Overdue(sweep[s].batch[i])
  /\ sweep[s].pc # "idle" => sweep[s].batch # <<>>

(* What a sweep is about to write about its row holds of it. *)
Justified(s) ==
  sweep[s].pc \in {"repairing", "resolving"} =>
    /\ sweep[s].verdict # "unknown"
    /\ sweep[s].verdict = "captured" => "captured" \in payments[Subject(s)]
    /\ sweep[s].verdict = "failed" => "failed" \in payments[Subject(s)]
    /\ sweep[s].verdict = "failed" => Subject(s) \notin inTime
    /\ sweep[s].verdict = "none" => Subject(s) \notin inTime \/ Subject(s) \in misread
    /\ sweep[s].pc = "repairing" => sweep[s].verdict = "captured"
    /\ sweep[s].pc = "resolving" /\ HasRepair /\ sweep[s].verdict = "captured" =>
         Subject(s) \in repaired

Promised == PaidInTimeIsNotLost /\ VerdictHasEvidence /\ RecoveredWasRepaired

IInv ==
  /\ TypeOK /\ PaidHasCapture /\ NamedIsOverdue
  /\ \A s \in Sweepers : Selected(s) /\ Justified(s)
  /\ Promised
-----------------------------------------------------------------------------
LEMMA IdleIsAStep == Idle \in Steps /\ Idle.pc = "idle" /\ Idle.batch = <<>>
BY DEF Idle, Steps

(* The initial states satisfy the invariant. *)
LEMMA InitHolds == Init => IInv
BY IdleIsAStep, LedgerAssumption
DEF Init, IInv, TypeOK, PaidHasCapture, NamedIsOverdue, Selected, Justified, Promised,
    PaidInTimeIsNotLost, VerdictHasEvidence, RecoveredWasRepaired, Idle, Resolutions

(* The number of armed orders is a number. *)
LEMMA ArmedIsCounted == Cardinality(Armed) \in Nat
BY FS_Subset, FS_CardinalityType, LedgerAssumption DEF Armed

(* A sweep under way is about an order whose deadline has passed. *)
LEMMA SubjectIsOverdue ==
  ASSUME IInv, NEW s \in Sweepers, sweep[s].pc # "idle"
  PROVE  /\ Subject(s) \in Orders /\ Overdue(Subject(s))
         /\ sweep[s] \in Steps /\ sweep[s].batch \in Seq(Orders) /\ sweep[s].batch # <<>>
<1>1. sweep[s] \in Steps /\ sweep[s].batch \in Seq(Orders) /\ sweep[s].batch # <<>>
  BY DEF IInv, TypeOK, Selected, Steps
<1>2. Subject(s) = sweep[s].batch[1] /\ 1 \in 1..Len(sweep[s].batch)
  BY <1>1 DEF Subject
<1> QED BY <1>1, <1>2 DEF IInv, Selected

(* On to the next row: still overdue rows, or none and idle. *)
LEMMA ContinueKeeps ==
  ASSUME IInv, NEW s \in Sweepers, sweep[s].pc # "idle", Continue(s)
  PROVE  /\ sweep' \in [Sweepers -> Steps]
         /\ \A t \in Sweepers : t # s => sweep'[t] = sweep[t]
         /\ sweep'[s].pc \in {"idle", "asking"}
         /\ sweep'[s].pc # "idle" => sweep'[s].batch # <<>>
         /\ \A i \in 1..Len(sweep'[s].batch) : Overdue(sweep'[s].batch[i])
<1> DEFINE rest == Tail(sweep[s].batch)
           next == IF rest = <<>> THEN Idle ELSE [Idle EXCEPT !.pc = "asking", !.batch = rest]
<1>1. rest \in Seq(Orders) /\ \A i \in 1..Len(rest) : Overdue(rest[i])
  <2>1. sweep[s].batch \in Seq(Orders) /\ sweep[s].batch # <<>>
    BY SubjectIsOverdue
  <2>2. \A i \in 1..Len(sweep[s].batch) : Overdue(sweep[s].batch[i])
    BY DEF IInv, Selected
  <2>3. rest \in Seq(Orders) /\ \A i \in 1..Len(rest) :
          i + 1 \in 1..Len(sweep[s].batch) /\ rest[i] = sweep[s].batch[i + 1]
    BY <2>1
  <2> QED BY <2>2, <2>3
<1>2. next \in Steps /\ next.pc \in {"idle", "asking"} /\ (next.pc # "idle" => next.batch # <<>>)
      /\ \A i \in 1..Len(next.batch) : Overdue(next.batch[i])
  BY <1>1, IdleIsAStep DEF Steps, Idle
<1>3. sweep' = [sweep EXCEPT ![s] = next]
  BY DEF Continue
<1>4. sweep \in [Sweepers -> Steps]
  BY DEF IInv, TypeOK, Steps
<1> HIDE DEF next
<1>5. sweep' \in [Sweepers -> Steps] /\ sweep'[s] = next /\ \A t \in Sweepers : t # s => sweep'[t] = sweep[t]
  BY <1>2, <1>3, <1>4
<1> QED BY <1>2, <1>5
-----------------------------------------------------------------------------
(* What happens outside the sweeps takes nothing back: deadlines, payments, the
   orders not paid in time, repairs. *)
Forward ==
  /\ \A o \in Orders : Overdue(o) => Overdue(o)'
  /\ \A o \in Orders : payments[o] \cap {"captured", "failed"} \subseteq payments'[o]
  /\ \A o \in Orders : Overdue(o) /\ o \notin inTime => o \notin inTime'
  /\ misread \subseteq misread' /\ repaired \subseteq repaired'

(* A sweep that does not move means what it meant. *)
LEMMA SweepStays ==
  ASSUME IInv, Forward, NEW s \in Sweepers, sweep'[s] = sweep[s]
  PROVE  Selected(s)' /\ Justified(s)'
<1>1. Selected(s)'
  <2>1. \A i \in 1..Len(sweep[s].batch) : sweep[s].batch[i] \in Orders
    BY DEF IInv, TypeOK
  <2> QED BY <2>1 DEF IInv, Selected, Forward
<1>2. CASE sweep[s].pc \in {"repairing", "resolving"}
  <2>1. Subject(s)' = Subject(s) /\ Subject(s) \in Orders /\ Overdue(Subject(s))
    BY <1>2, SubjectIsOverdue DEF Subject
  <2>2. Justified(s)
    BY DEF IInv
  <2> QED BY <1>1, <2>1, <2>2 DEF Justified, Forward
<1>3. CASE sweep[s].pc \notin {"repairing", "resolving"}
  BY <1>1, <1>3 DEF Justified
<1> QED BY <1>2, <1>3

(* The customer's, the runtime's and the clock's steps keep the invariant. *)
LEMMA OutsideKeeps ==
  ASSUME IInv,
         \/ \E o \in Orders : Arm(o) \/ Try(o) \/ Decline(o) \/ Capture(o) \/ Fulfil(o)
         \/ \E rows \in SUBSET Orders : Watch(rows)
         \/ DeadlinePasses
  PROVE  IInv'
<1>1. /\ TypeOK' /\ PaidHasCapture' /\ NamedIsOverdue' /\ Promised' /\ Forward
  <2> USE DEF IInv, TypeOK, PaidHasCapture, NamedIsOverdue, Promised, Forward, PaidInTimeIsNotLost,
              VerdictHasEvidence, RecoveredWasRepaired, Overdue, Armed, World, Lookups, Resolutions
  <2>1. ASSUME NEW o \in Orders, Arm(o)
        PROVE  TypeOK' /\ PaidHasCapture' /\ NamedIsOverdue' /\ Promised' /\ Forward
    BY <2>1, ArmedIsCounted DEF Arm
  <2>2. ASSUME NEW rows \in SUBSET Orders, Watch(rows)
        PROVE  TypeOK' /\ PaidHasCapture' /\ NamedIsOverdue' /\ Promised' /\ Forward
    <3>1. expectation' \in [Orders -> {"none", "open"} \cup Resolutions] /\ deadline' \in [Orders -> Nat]
      <4> DEFINE n == Cardinality(Armed)
      <4>1. /\ expectation' = [o \in Orders |-> IF o \in rows THEN "open" ELSE expectation[o]]
            /\ deadline' = [o \in Orders |-> IF o \in rows THEN n + 1 ELSE deadline[o]]
        BY <2>2 DEF Watch
      <4>2. n + 1 \in Nat
        BY ArmedIsCounted
      <4>3. /\ expectation \in [Orders -> {"none", "open"} \cup Resolutions]
            /\ deadline \in [Orders -> Nat]
        OBVIOUS
      <4> HIDE DEF n
      <4> QED BY ONLY <4>1, <4>2, <4>3
    <3>2. /\ \A o \in rows : expectation[o] = "none" /\ expectation'[o] = "open"
          /\ \A o \in Orders \ rows : expectation'[o] = expectation[o] /\ deadline'[o] = deadline[o]
          /\ UNCHANGED <<passed, payments, inTime, misread, repaired, sweep, faults>>
      BY <2>2 DEF Watch
    <3>3. NamedIsOverdue' /\ Forward
      BY <3>2
    <3>4. TypeOK' /\ PaidHasCapture' /\ Promised'
      BY <3>1, <3>2
    <3> QED BY <3>3, <3>4
  <2>3. ASSUME DeadlinePasses
        PROVE  TypeOK' /\ PaidHasCapture' /\ NamedIsOverdue' /\ Promised' /\ Forward
    BY <2>3 DEF DeadlinePasses
  <2>4. ASSUME NEW o \in Orders, Try(o)
        PROVE  TypeOK' /\ PaidHasCapture' /\ NamedIsOverdue' /\ Promised' /\ Forward
    BY <2>4 DEF Try
  <2>5. ASSUME NEW o \in Orders, Decline(o)
        PROVE  TypeOK' /\ PaidHasCapture' /\ NamedIsOverdue' /\ Promised' /\ Forward
    BY <2>5 DEF Decline
  <2>6. ASSUME NEW o \in Orders, Capture(o)
        PROVE  TypeOK' /\ PaidHasCapture' /\ NamedIsOverdue' /\ Promised' /\ Forward
    BY <2>6 DEF Capture
  <2>7. ASSUME NEW o \in Orders, Fulfil(o)
        PROVE  TypeOK' /\ PaidHasCapture' /\ NamedIsOverdue' /\ Promised' /\ Forward
    BY <2>7 DEF Fulfil
  <2> QED BY <2>1, <2>2, <2>3, <2>4, <2>5, <2>6, <2>7
<1>2. UNCHANGED sweep
  BY DEF Arm, Watch, DeadlinePasses, Try, Decline, Capture, Fulfil
<1> QED BY <1>1, <1>2, SweepStays DEF IInv
-----------------------------------------------------------------------------
(* A sweep's own step leaves the world alone, and the other sweeps. *)
LEMMA OthersStay ==
  ASSUME IInv, NEW s \in Sweepers, UNCHANGED World, misread \subseteq misread',
         repaired \subseteq repaired',
         \A o \in Orders : o \in Armed => expectation'[o] # "none",
         \A t \in Sweepers : t # s => sweep'[t] = sweep[t],
         Selected(s)', Justified(s)'
  PROVE  \A t \in Sweepers : Selected(t)' /\ Justified(t)'
<1>1. Forward
  BY DEF Forward, Overdue, Armed, World
<1> QED BY <1>1, SweepStays

(* The next row, once one is done with. *)
LEMMA NextRow ==
  ASSUME IInv, NEW s \in Sweepers, sweep[s].pc # "idle", Continue(s), UNCHANGED World,
         \A o \in Orders : o \in Armed => expectation'[o] # "none"
  PROVE  /\ sweep' \in [Sweepers -> Steps]
         /\ \A t \in Sweepers : t # s => sweep'[t] = sweep[t]
         /\ Selected(s)' /\ Justified(s)'
<1>1. /\ sweep' \in [Sweepers -> Steps]
      /\ \A t \in Sweepers : t # s => sweep'[t] = sweep[t]
      /\ sweep'[s].pc \in {"idle", "asking"}
      /\ sweep'[s].pc # "idle" => sweep'[s].batch # <<>>
      /\ \A i \in 1..Len(sweep'[s].batch) : Overdue(sweep'[s].batch[i])
  BY ContinueKeeps
<1>2. \A o \in Orders : Overdue(o) => Overdue(o)'
  BY DEF Overdue, Armed, World
<1>3. \A i \in 1..Len(sweep'[s].batch) : sweep'[s].batch[i] \in Orders
  BY <1>1 DEF Steps
<1> QED BY <1>1, <1>2, <1>3 DEF Selected, Justified
(* A step that writes no verdict. *)
LEMMA NothingWritten ==
  ASSUME IInv, NEW s \in Sweepers, UNCHANGED <<expectation, World>>,
         sweep' \in [Sweepers -> Steps], faults' \in 0..MaxFaults,
         misread \subseteq misread', misread' \subseteq Orders,
         repaired \subseteq repaired', repaired' \subseteq Orders,
         \A t \in Sweepers : t # s => sweep'[t] = sweep[t],
         Selected(s)', Justified(s)'
  PROVE  IInv'
<1>1. \A t \in Sweepers : Selected(t)' /\ Justified(t)'
  BY OthersStay DEF Armed
<1>2. TypeOK'
  BY DEF IInv, TypeOK, World, Steps
<1>3. PaidHasCapture' /\ NamedIsOverdue' /\ Promised'
  BY DEF IInv, PaidHasCapture, NamedIsOverdue, Promised, PaidInTimeIsNotLost, VerdictHasEvidence,
         RecoveredWasRepaired, Overdue, Armed, World
<1> QED BY <1>1, <1>2, <1>3 DEF IInv

(* The SELECT takes rows that are due. *)
LEMMA SelectKeeps == ASSUME IInv, NEW s \in Sweepers, Select(s) PROVE IInv'
<1>1. PICK n \in 1..BatchSize : \E rows \in [1..n -> Due] :
        sweep' = [sweep EXCEPT ![s] = [Idle EXCEPT !.pc = "asking", !.batch = rows]]
  BY DEF Select
<1>2. PICK rows \in [1..n -> Due] :
        sweep' = [sweep EXCEPT ![s] = [Idle EXCEPT !.pc = "asking", !.batch = rows]]
  BY <1>1
<1>3. n \in Nat \ {0}
  BY LedgerAssumption
<1>4. rows \in Seq(Orders) /\ Len(rows) = n /\ rows # <<>>
  BY <1>3 DEF Due
<1> DEFINE next == [Idle EXCEPT !.pc = "asking", !.batch = rows]
<1>5. next \in Steps /\ next.pc = "asking" /\ next.batch = rows
  BY <1>4 DEF Idle, Steps
<1>6. sweep' = [sweep EXCEPT ![s] = next] /\ sweep \in [Sweepers -> Steps]
  BY <1>2 DEF IInv, TypeOK, Steps
<1> HIDE DEF next
<1>7. sweep' \in [Sweepers -> Steps] /\ sweep'[s] = next /\ \A t \in Sweepers : t # s => sweep'[t] = sweep[t]
  BY <1>5, <1>6
<1>8. UNCHANGED <<expectation, World, misread, repaired, faults>>
  BY DEF Select, Lookups
<1>9. \A i \in 1..Len(rows) : Overdue(rows[i]) /\ Overdue(rows[i])'
  BY <1>4, <1>8 DEF Due, Overdue, Armed, World
<1>10. Selected(s)' /\ Justified(s)'
  BY <1>4, <1>5, <1>7, <1>9 DEF Selected, Justified
<1> QED BY <1>7, <1>8, <1>10, NothingWritten DEF IInv, TypeOK

(* Rows left open, and sweeps that end. *)
LEMMA GoOnKeeps ==
  ASSUME IInv, NEW s \in Sweepers,
         LeaveOpen(s) \/ Unanswered(s) \/ RepairThrows(s) \/ Abort(s)
  PROVE  IInv'
<1>1. UNCHANGED <<expectation, World, misread, repaired>> /\ faults' \in 0..MaxFaults /\ sweep[s].pc # "idle"
  BY LedgerAssumption DEF LeaveOpen, Unanswered, RepairThrows, Abort, Lookups, IInv, TypeOK
<1>2. CASE Continue(s)
  BY <1>1, <1>2, NextRow, NothingWritten DEF Armed, IInv, TypeOK
<1>3. CASE sweep' = [sweep EXCEPT ![s] = Idle]
  <2>1. sweep' \in [Sweepers -> Steps] /\ sweep'[s] = Idle /\ \A t \in Sweepers : t # s => sweep'[t] = sweep[t]
    BY <1>3, IdleIsAStep DEF IInv, TypeOK, Steps
  <2>2. Selected(s)' /\ Justified(s)'
    BY <2>1, IdleIsAStep DEF Selected, Justified
  <2> QED BY <1>1, <2>1, <2>2, NothingWritten DEF IInv, TypeOK
<1> QED BY <1>2, <1>3 DEF LeaveOpen, Unanswered, RepairThrows, Abort
-----------------------------------------------------------------------------
(* What the lookup answers is so, and whoever paid in time is not called declined or
   gone. *)
LEMMA VerdictIsSo ==
  ASSUME IInv, NEW o \in Orders
  PROVE  /\ Verdict(payments[o]) \in {"unknown", "captured", "failed", "none"}
         /\ Verdict(payments[o]) = "captured" => "captured" \in payments[o]
         /\ Verdict(payments[o]) = "failed" => "failed" \in payments[o]
         /\ Verdict(payments[o]) \in {"failed", "none"} => o \notin inTime
<1>1. payments[o] \in SUBSET {"authorized", "failed", "captured"}
  BY DEF IInv, TypeOK
<1>2. o \in inTime => "captured" \in payments[o]
  BY DEF IInv, PaidHasCapture
<1>3. CASE "captured" \in payments[o]
  BY <1>3 DEF Verdict
<1>4. CASE "captured" \notin payments[o] /\ "failed" \in payments[o]
  BY <1>2, <1>4 DEF Verdict
<1>5. CASE payments[o] = {}
  BY <1>2, <1>5 DEF Verdict
<1>6. CASE payments[o] = {"authorized"}
  BY <1>2, <1>6 DEF Verdict
<1> QED BY <1>1, <1>3, <1>4, <1>5, <1>6

(* The lookup. *)
LEMMA AskKeeps == ASSUME IInv, NEW s \in Sweepers, Ask(s) PROVE IInv'
<1> DEFINE o == Subject(s)
           verdict == Verdict(payments[o])
           pc == IF verdict = "captured" /\ HasRepair THEN "repairing" ELSE "resolving"
           next == [[sweep[s] EXCEPT !.verdict = verdict] EXCEPT !.pc = pc]
<1>1. /\ sweep[s].pc = "asking" /\ verdict # "unknown"
      /\ sweep' = [sweep EXCEPT ![s] = next]
      /\ UNCHANGED <<expectation, World, misread, repaired, faults>>
  BY DEF Ask, Lookups
<1>2. o \in Orders /\ Overdue(o) /\ sweep[s] \in Steps /\ sweep[s].batch # <<>>
  BY <1>1, SubjectIsOverdue
<1>3. /\ verdict \in {"captured", "failed", "none"}
      /\ verdict = "captured" => "captured" \in payments[o]
      /\ verdict = "failed" => "failed" \in payments[o]
      /\ verdict \in {"failed", "none"} => o \notin inTime
  BY <1>1, <1>2, VerdictIsSo
<1>4. /\ next \in Steps /\ next.batch = sweep[s].batch /\ next.verdict = verdict /\ next.pc = pc
  BY <1>2, <1>3 DEF Steps
<1> HIDE DEF next
<1>5. sweep' \in [Sweepers -> Steps] /\ sweep'[s] = next /\ \A t \in Sweepers : t # s => sweep'[t] = sweep[t]
  BY <1>1, <1>4 DEF IInv, TypeOK, Steps
<1>6. Subject(s)' = o
  BY <1>4, <1>5 DEF Subject
<1>7. Selected(s)'
  <2>1. Selected(s) /\ \A i \in 1..Len(sweep[s].batch) : sweep[s].batch[i] \in Orders
    BY <1>2 DEF IInv, Steps
  <2> QED BY <1>1, <1>2, <1>4, <1>5, <2>1 DEF Selected, Overdue, Armed, World
<1>8. Justified(s)'
  <2> HIDE DEF verdict, o
  <2> QED BY <1>1, <1>3, <1>4, <1>5, <1>6 DEF Justified, World
<1> QED BY <1>1, <1>5, <1>7, <1>8, NothingWritten DEF IInv, TypeOK

(* An answer that did not tell of the payments. *)
LEMMA MisreadKeeps == ASSUME IInv, NEW s \in Sweepers, Misread(s) PROVE IInv'
<1> DEFINE o == Subject(s)
           next == [[sweep[s] EXCEPT !.verdict = "none"] EXCEPT !.pc = "resolving"]
<1>1. /\ sweep[s].pc = "asking" /\ misread' = misread \cup {o}
      /\ sweep' = [sweep EXCEPT ![s] = next]
      /\ UNCHANGED <<expectation, World, repaired>> /\ faults < MaxFaults /\ faults' = faults + 1
  BY DEF Misread
<1>2. o \in Orders /\ sweep[s] \in Steps /\ sweep[s].batch # <<>>
  BY <1>1, SubjectIsOverdue
<1>3. /\ next \in Steps /\ next.batch = sweep[s].batch /\ next.verdict = "none"
      /\ next.pc = "resolving"
  BY <1>2 DEF Steps
<1> HIDE DEF next
<1>4. sweep' \in [Sweepers -> Steps] /\ sweep'[s] = next /\ \A t \in Sweepers : t # s => sweep'[t] = sweep[t]
  BY <1>1, <1>3 DEF IInv, TypeOK, Steps
<1>5. Subject(s)' = o
  BY <1>3, <1>4 DEF Subject
<1>6. Selected(s)'
  <2>1. Selected(s) /\ \A i \in 1..Len(sweep[s].batch) : sweep[s].batch[i] \in Orders
    BY <1>2 DEF IInv, Steps
  <2> QED BY <1>1, <1>2, <1>3, <1>4, <2>1 DEF Selected, Overdue, Armed, World
<1>7. Justified(s)'
  <2> HIDE DEF o
  <2> QED BY <1>1, <1>3, <1>4, <1>5 DEF Justified
<1>8. misread' \subseteq Orders
  BY <1>1, <1>2 DEF IInv, TypeOK
<1>9. faults' \in 0..MaxFaults
  BY <1>1, LedgerAssumption DEF IInv, TypeOK
<1> QED BY <1>1, <1>4, <1>6, <1>7, <1>8, <1>9, NothingWritten DEF IInv, TypeOK

(* The repair, before the row is resolved. *)
LEMMA RepairKeeps == ASSUME IInv, NEW s \in Sweepers, Repair(s) PROVE IInv'
<1> DEFINE next == [sweep[s] EXCEPT !.pc = "resolving"]
<1>1. /\ sweep[s].pc = "repairing" /\ repaired' = repaired \cup {Subject(s)}
      /\ sweep' = [sweep EXCEPT ![s] = next]
      /\ UNCHANGED <<expectation, World, misread, faults>>
  BY DEF Repair
<1>2. Subject(s) \in Orders /\ sweep[s] \in Steps /\ Selected(s) /\ Justified(s)
  BY <1>1, SubjectIsOverdue DEF IInv
<1>3. next \in Steps /\ next.batch = sweep[s].batch /\ next.verdict = sweep[s].verdict
      /\ next.pc = "resolving"
  BY <1>2 DEF Steps
<1> HIDE DEF next
<1>4. sweep' \in [Sweepers -> Steps] /\ sweep'[s] = next /\ \A t \in Sweepers : t # s => sweep'[t] = sweep[t]
  BY <1>1, <1>3 DEF IInv, TypeOK, Steps
<1>5. Subject(s)' = Subject(s)
  BY <1>3, <1>4 DEF Subject
<1>6. Selected(s)'
  <2>1. \A i \in 1..Len(sweep[s].batch) : sweep[s].batch[i] \in Orders
    BY <1>2 DEF Steps
  <2> QED BY <1>1, <1>2, <1>3, <1>4, <2>1 DEF Selected, Overdue, Armed, World
<1>7. Justified(s)'
  BY <1>1, <1>2, <1>3, <1>4, <1>5 DEF Justified, World
<1>8. repaired' \subseteq Orders
  BY <1>1, <1>2 DEF IInv, TypeOK
<1> QED BY <1>1, <1>4, <1>6, <1>7, <1>8, NothingWritten DEF IInv, TypeOK

(* The UPDATE writes what the lookup said, over whatever the row says by now. *)
LEMMA ResolveKeeps == ASSUME IInv, NEW s \in Sweepers, Resolve(s) PROVE IInv'
<1> DEFINE o == Subject(s)
           verdict == sweep[s].verdict
<1>1. /\ sweep[s].pc = "resolving" /\ Continue(s)
      /\ expectation' = [expectation EXCEPT ![o] = Resolution(verdict)]
      /\ UNCHANGED <<World, misread, repaired, faults>>
  BY DEF Resolve, Lookups
<1>2. o \in Orders /\ Overdue(o) /\ sweep[s] \in Steps
  BY <1>1, SubjectIsOverdue
<1>3. /\ verdict \in {"captured", "failed", "none"}
      /\ verdict = "captured" => "captured" \in payments[o]
      /\ verdict = "failed" => "failed" \in payments[o]
      /\ verdict = "failed" => o \notin inTime
      /\ verdict = "none" => o \notin inTime \/ o \in misread
      /\ HasRepair /\ verdict = "captured" => o \in repaired
  BY <1>1, <1>2 DEF IInv, Justified, Steps
<1>4. Resolution(verdict) = IF verdict = "captured" THEN "recovered"
                            ELSE IF verdict = "failed" THEN "failed" ELSE "abandoned"
  BY <1>3 DEF Resolution
<1> HIDE DEF verdict, o
<1>5. /\ expectation' \in [Orders -> {"none", "open"} \cup Resolutions]
      /\ expectation'[o] = Resolution(verdict)
      /\ \A q \in Orders : q # o => expectation'[q] = expectation[q]
  BY <1>1, <1>2, <1>3, <1>4 DEF IInv, TypeOK, Resolutions
<1>6. \A q \in Orders : q \in Armed => expectation'[q] # "none"
  BY <1>4, <1>5 DEF Armed
<1>7. /\ sweep' \in [Sweepers -> Steps] /\ Selected(s)' /\ Justified(s)'
      /\ \A t \in Sweepers : t # s => sweep'[t] = sweep[t]
  BY <1>1, <1>6, NextRow
<1>8. \A t \in Sweepers : Selected(t)' /\ Justified(t)'
  BY <1>1, <1>6, <1>7, OthersStay
<1>9. TypeOK' /\ PaidHasCapture'
  BY <1>1, <1>5, <1>7 DEF IInv, TypeOK, PaidHasCapture, World, Steps
<1>10. NamedIsOverdue'
  BY <1>1, <1>2, <1>5, <1>6 DEF IInv, NamedIsOverdue, Overdue, Armed, World
<1>11. Promised'
  BY <1>1, <1>3, <1>4, <1>5
  DEF IInv, TypeOK, Promised, PaidInTimeIsNotLost, VerdictHasEvidence, RecoveredWasRepaired, World
<1> QED BY <1>8, <1>9, <1>10, <1>11 DEF IInv
-----------------------------------------------------------------------------
(* Every step keeps the invariant. *)
LEMMA StepKeeps == IInv /\ [Next]_vars => IInv'
<1> SUFFICES ASSUME IInv, [Next]_vars PROVE IInv'
  OBVIOUS
<1>1. ASSUME NEW s \in Sweepers, SweepOnce(s) PROVE IInv'
  BY <1>1, SelectKeeps, GoOnKeeps, AskKeeps, RepairKeeps, ResolveKeeps DEF SweepOnce
<1>2. CASE UNCHANGED vars
  BY <1>2 DEF vars, IInv, TypeOK, PaidHasCapture, NamedIsOverdue, Selected, Justified, Promised,
      PaidInTimeIsNotLost, VerdictHasEvidence, RecoveredWasRepaired, Overdue, Armed, Subject
<1> QED BY <1>1, <1>2, OutsideKeeps, GoOnKeeps, MisreadKeeps DEF Next

(* Every behaviour satisfies the invariant. *)
LEMMA Invariant == Spec => []IInv
BY InitHolds, StepKeeps, PTL DEF Spec

(* Every variable keeps its type. *)
THEOREM TypeCorrect == Spec => []TypeOK
<1>1. IInv => TypeOK
  BY DEF IInv
<1> QED BY Invariant, <1>1, PTL

(* No sweep calls an order that was paid before its deadline declined, and abandoned
   only if Razorpay's answer did not tell of its payments. *)
THEOREM PaidIsNeverLost == Spec => []PaidInTimeIsNotLost
<1>1. IInv => PaidInTimeIsNotLost
  BY DEF IInv, Promised
<1> QED BY Invariant, <1>1, PTL

(* A verdict the ledger wrote has its payment at Razorpay. *)
THEOREM VerdictsHaveEvidence == Spec => []VerdictHasEvidence
<1>1. IInv => VerdictHasEvidence
  BY DEF IInv, Promised
<1> QED BY Invariant, <1>1, PTL

(* With a repair, only what was repaired is called recovered. *)
THEOREM RecoveriesWereRepaired == Spec => []RecoveredWasRepaired
<1>1. IInv => RecoveredWasRepaired
  BY DEF IInv, Promised
<1> QED BY Invariant, <1>1, PTL
=============================================================================
