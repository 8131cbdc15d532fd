--------------------------- MODULE RecoveryProofs ---------------------------
(***************************************************************************)
(* Type correctness of Recovery, and its safety properties: a reported     *)
(* repair has landed, a recorded refund stands, credits add up, and what   *)
(* is credited was vetted - the last for merchants whose orders have their *)
(* rows from the start.                                                    *)
(*                                                                         *)
(* None is inductive.  A pass works on what it read awaits ago, so the     *)
(* invariants say what still holds of it: the order it is about is paid    *)
(* (Working), a read-back that succeeded stays true (Landing), a verdict   *)
(* covers the row it queued and every row that is queued has one (Vetting),*)
(* a row is drained by the one pass that holds it (Holding).               *)
(***************************************************************************)
EXTENDS Recovery, FiniteSetTheorems, TLAPS

USE RecoveryAssumption

\* A captured payment has made its order paid, and a paid order stays paid.
PaidHasPayer == \A p \in Payments : payment[p] # "created" => paidBy[OrderOf[p]] # None

PassRecord == [pc : PassStates, ref : Refs \cup {None}, status : {"captured", "refunded", None},
               rule : Rules \cup {None}, held : Refs \cup {None}]

\* What a pass under way is about
Fits(q) ==
  /\ q.pc # "idle" => q.ref \in Refs /\ paidBy[OrderOfRef(q.ref)] # None
  /\ q.pc \in {"drifted", "listed"} =>
       q.ref[1] = "payment" /\ payment[q.ref[2]] # "created"
  /\ q.pc = "applying" => q.held \in Refs
  /\ q.pc \in {"escalating", "recording", "inserting"} => q.rule \in Rules

Working == \A w \in Passes : pass[w] \in PassRecord /\ Fits(pass[w])

\* The types of everything but the passes
Tables ==
  /\ payment \in [Payments -> {"created", "captured", "refunded"}]
  /\ paidBy \in [Orders -> Payments \cup {None}]
  /\ onPage \in [Payments -> BOOLEAN]
  /\ row \in [Orders -> [here : BOOLEAN, status : Statuses, credited : Nat]]
  /\ inbox \in [Refs -> InboxStates]
  /\ open \in [Orders -> [Rules -> Nat]]
  /\ recovered \in [Orders -> Nat]
  /\ faults \in 0..MaxFaults

Typed == Tables /\ pass \in [Passes -> PassRecord] /\ PaidHasPayer /\ Working

Landing ==
  /\ \A o \in Orders : recovered[o] > 0 => Landed(o)
  /\ \A w \in Passes : pass[w].pc = "recovering" => Landed(OrderOfRef(pass[w].ref))
  /\ \A o \in Orders : row[o].status = "refunded" => row[o].here

Vetting ==
  /\ \A o \in Orders : row[o].here
  /\ \A w \in Passes :
       /\ pass[w].pc # "drifted"
       /\ pass[w].pc = "auto" => Vetted(pass[w].ref)
       /\ pass[w].pc = "applying" => inbox[pass[w].held] # "absent"
  /\ \A r \in Refs : inbox[r] # "absent" => Vetted(r)
-----------------------------------------------------------------------------
(* A repair is about an order, and about some money. *)
LEMMA RefFacts ==
  ASSUME Tables, NEW r \in Refs
  PROVE  /\ OrderOfRef(r) \in Orders
         /\ AmountOfRef(r) \in Nat
         /\ r[1] = "payment" => r[2] \in Payments
BY DEF Tables, Refs, OrderOfRef, AmountOfRef

(* What pays for an order does not change once it is paid, nor then what its own
   word is worth. *)
LEMMA PaidStays ==
  ASSUME Tables, NEW r \in Refs, paidBy[OrderOfRef(r)] # None,
         \/ paidBy' = paidBy
         \/ \E p \in Payments : Capture(p)
  PROVE  paidBy'[OrderOfRef(r)] = paidBy[OrderOfRef(r)] /\ AmountOfRef(r)' = AmountOfRef(r)
<1>1. paidBy'[OrderOfRef(r)] = paidBy[OrderOfRef(r)]
  BY RefFacts DEF Capture, Tables
<1>2. r[1] = "payment" \/ OrderOfRef(r) = r[2]
  BY DEF OrderOfRef
<1> QED BY <1>1, <1>2 DEF AmountOfRef

(* The verdict: automatic only when no test holds, one of the rules otherwise. *)
LEMMA DecideFacts ==
  ASSUME NEW r, NEW status, NEW facts
  PROVE  LET tests == Tests(r, status, facts)
             rule == Decide(r, status, facts)
         IN /\ rule \in Rules \cup {"clean-capture"}
            /\ rule = "clean-capture" => \A i \in 1..9 : ~tests[i].holds
<1> DEFINE tests == Tests(r, status, facts)
           First(i) == tests[i].holds /\ \A j \in 1..(i - 1) : ~tests[j].holds
           i0 == CHOOSE i \in DOMAIN tests : First(i)
<1>1. DOMAIN tests = 1..9 /\ \A i \in 1..9 : tests[i].rule \in Rules
  BY DEF Tests, Rules
<1>2. ASSUME \E i \in 1..9 : tests[i].holds
      PROVE  Decide(r, status, facts) \in Rules
  <2> HIDE DEF tests
  <2>1. \E i \in 1..9 : First(i)
    BY <1>2
  <2>2. i0 \in 1..9
    BY <2>1, <1>1
  <2>3. tests[i0].rule \in Rules
    BY <2>2, <1>1
  <2>4. Decide(r, status, facts) = tests[i0].rule
    BY <1>1, <1>2 DEF Decide, tests
  <2> QED BY <2>3, <2>4
<1>3. ASSUME ~\E i \in 1..9 : tests[i].holds
      PROVE  Decide(r, status, facts) = "clean-capture"
  BY <1>1, <1>3 DEF Decide
<1>4. "clean-capture" \notin Rules
  BY DEF Rules
<1> QED BY <1>2, <1>3, <1>4

-----------------------------------------------------------------------------
LEMMA TypedInit == Init => Typed
<1> SUFFICES ASSUME Init
             PROVE  Typed
  OBVIOUS
<1>1. row \in [Orders -> [here : BOOLEAN, status : Statuses, credited : Nat]]
  <2>1. Fresh \subseteq Statuses /\ {0} \subseteq Nat
    BY DEF Statuses
  <2>2. \A o \in Orders : row[o] \in [here : BOOLEAN, status : Statuses, credited : Nat]
    BY <2>1 DEF Init
  <2> QED BY <2>2 DEF Init
<1>4. open \in [Orders -> [Rules -> Nat]] /\ recovered \in [Orders -> Nat]
  BY DEF Init
<1>5. Tables
  BY <1>1, <1>4 DEF Init, Tables, InboxStates
<1>2. Idle \in PassRecord /\ Fits(Idle)
  BY DEF Idle, PassRecord, PassStates, Fits
<1>3. PaidHasPayer /\ Working /\ pass \in [Passes -> PassRecord]
  BY <1>2 DEF Init, PaidHasPayer, Working
<1> QED BY <1>5, <1>3 DEF Typed

(* A step that gives one pass a record that fits and leaves Razorpay alone *)
LEMMA PassMoves ==
  ASSUME Typed, NEW w \in Passes, NEW q \in PassRecord, Fits(q),
         pass' = [pass EXCEPT ![w] = q], UNCHANGED Outside
  PROVE  pass' \in [Passes -> PassRecord] /\ PaidHasPayer' /\ Working'
<1>1. pass' \in [Passes -> PassRecord] /\ PaidHasPayer'
  BY DEF Typed, Outside, PaidHasPayer
<1>2. ASSUME NEW v \in Passes
      PROVE  pass'[v] \in PassRecord /\ Fits(pass[v])'
  <2>1. CASE v = w
    <3>1. pass'[v] = q
      BY <2>1 DEF Typed
    <3> QED BY <3>1 DEF Fits, Outside, OrderOfRef
  <2>2. CASE v # w
    <3>1. pass'[v] = pass[v]
      BY <2>2 DEF Typed
    <3> QED BY <3>1 DEF Fits, Outside, OrderOfRef, Typed, Working
  <2> QED BY <2>1, <2>2
<1> QED BY <1>1, <1>2 DEF Working

(* What the records are that passes get *)
LEMMA IdleFits == Idle \in PassRecord /\ Fits(Idle)
BY DEF Idle, PassRecord, PassStates, Fits

LEMMA BeginFits ==
  ASSUME NEW pc \in {"drifted", "listed", "start", "auto"},
         NEW r \in Refs, paidBy[OrderOfRef(r)] # None,
         pc \in {"drifted", "listed"} => r[1] = "payment" /\ payment[r[2]] # "created",
         NEW status \in {"captured", "refunded", None}
  PROVE  LET q == [Idle EXCEPT !.pc = pc, !.ref = r, !.status = status]
         IN q \in PassRecord /\ Fits(q)
BY DEF Idle, PassRecord, PassStates, Fits

LEMMA GotoFits ==
  ASSUME Typed, NEW w \in Passes, pass[w].pc # "idle",
         NEW pc \in PassStates \ {"drifted", "applying", "escalating", "recording", "inserting"},
         pc = "listed" => pass[w].pc = "drifted"
  PROVE  LET q == [pass[w] EXCEPT !.pc = pc]
         IN q \in PassRecord /\ Fits(q)
<1>1. pass[w] \in PassRecord /\ Fits(pass[w])
  BY DEF Typed, Working
<1> QED BY <1>1 DEF PassRecord, PassStates, Fits

(* What a drained row does to the merchant's: nothing, or one credit. *)
LEMMA OneCredit ==
  ASSUME Typed, NEW w \in Passes, DrainApply(w)
  PROVE  LET r == pass[w].held
             o == OrderOfRef(r)
         IN /\ r \in Refs /\ o \in Orders /\ AmountOfRef(r) \in Nat
            /\ row' \in [Orders -> [here : BOOLEAN, status : Statuses, credited : Nat]]
            /\ \/ UNCHANGED row
               \/ /\ Writable(o)
                  /\ row'[o].here = row[o].here /\ row'[o].status = "paid"
                  /\ row'[o].credited = row[o].credited + AmountOfRef(r)
                  /\ \A q \in Orders \ {o} : row'[q] = row[q]
<1> DEFINE r == pass[w].held
           o == OrderOfRef(r)
           a == AmountOfRef(r)
           x == [row[o] EXCEPT !.status = "paid", !.credited = @ + a]
<1>1. r \in Refs /\ o \in Orders /\ a \in Nat
  BY RefFacts DEF DrainApply, Typed, Working, Fits
<1>2. UNCHANGED row \/ (Writable(o) /\ row' = [row EXCEPT ![o] = x])
  BY DEF DrainApply
<1> HIDE DEF r, o, a
<1>3. /\ row \in [Orders -> [here : BOOLEAN, status : Statuses, credited : Nat]]
      /\ row[o] \in [here : BOOLEAN, status : Statuses, credited : Nat]
  BY <1>1 DEF Typed, Tables
<1>4. x.here = row[o].here /\ x.status = "paid" /\ x.credited = row[o].credited + a
  BY <1>3
<1>5. x \in [here : BOOLEAN, status : Statuses, credited : Nat]
  <2>1. row[o].credited + a \in Nat
    BY <1>1, <1>3
  <2>2. \A c \in Nat : [row[o] EXCEPT !.status = "paid", !.credited = c]
                         \in [here : BOOLEAN, status : Statuses, credited : Nat]
    BY <1>3 DEF Statuses
  <2> QED BY <2>1, <2>2
<1> HIDE DEF x
<1>6. CASE UNCHANGED row
  BY <1>1, <1>3, <1>6 DEF r, o, a
<1>7. CASE Writable(o) /\ row' = [row EXCEPT ![o] = x]
  <2>1. row' \in [Orders -> [here : BOOLEAN, status : Statuses, credited : Nat]]
    BY <1>3, <1>5, <1>7
  <2>2. row'[o] = x /\ \A q \in Orders \ {o} : row'[q] = row[q]
    BY <1>1, <1>3, <1>7
  <2> QED BY <1>1, <1>4, <1>7, <2>1, <2>2 DEF r, o, a
<1> QED BY <1>2, <1>6, <1>7

(* Every step keeps the types, and what passes are about. *)
LEMMA TypedStep == Typed /\ [Next]_vars => Typed'
<1> SUFFICES ASSUME Typed, [Next]_vars
             PROVE  Typed'
  OBVIOUS
<1> USE DEF Typed
<1>0. \A w \in Passes : pass[w] \in PassRecord /\ Fits(pass[w])
  BY DEF Working
<1>1. ASSUME NEW p \in Payments, Capture(p)
      PROVE  Typed'
  <2>1. \A r \in Refs : paidBy[OrderOfRef(r)] # None =>
           paidBy'[OrderOfRef(r)] # None /\ OrderOfRef(r)' = OrderOfRef(r)
    BY <1>1, PaidStays DEF OrderOfRef
  <2>2. Tables' /\ PaidHasPayer' /\ pass' \in [Passes -> PassRecord]
    BY <1>1 DEF Capture, Tables, PaidHasPayer
  <2>3. Working'
    <3>1. \A v \in Passes : Fits(pass[v])'
      BY <1>0, <1>1, <2>1, RefFacts DEF Capture, Fits, Tables
    <3> QED BY <1>0, <1>1, <3>1 DEF Capture, Working
  <2> QED BY <2>2, <2>3
<1>2. ASSUME NEW p \in Payments, Refund(p)
      PROVE  Typed'
  <2>1. Tables' /\ PaidHasPayer' /\ pass' \in [Passes -> PassRecord]
    BY <1>2 DEF Refund, Tables, PaidHasPayer
  <2>2. \A v \in Passes : Fits(pass[v])'
    BY <1>0, <1>2, RefFacts DEF Refund, Fits, Tables, OrderOfRef
  <2> QED BY <1>0, <1>2, <2>1, <2>2 DEF Refund, Working
<1>3. ASSUME UNCHANGED <<payment, paidBy, pass>>, Tables'
      PROVE  Typed'
  <2>1. \A v \in Passes : Fits(pass[v])'
    BY <1>0, <1>3 DEF Fits, OrderOfRef
  <2> QED BY <1>0, <1>3, <2>1 DEF Working, PaidHasPayer
<1>4. ASSUME NEW o \in Orders, RowAppears(o) \/ RowRefunded(o)
      PROVE  Typed'
  <2>1. row' \in [Orders -> [here : BOOLEAN, status : Statuses, credited : Nat]]
    <3>1. row[o] \in [here : BOOLEAN, status : Statuses, credited : Nat]
      BY DEF Tables
    <3>2. /\ [row[o] EXCEPT !.here = TRUE] \in [here : BOOLEAN, status : Statuses, credited : Nat]
          /\ [row[o] EXCEPT !.status = "refunded"]
               \in [here : BOOLEAN, status : Statuses, credited : Nat]
      BY <3>1 DEF Statuses
    <3>3. \/ row' = [row EXCEPT ![o] = [row[o] EXCEPT !.here = TRUE]]
          \/ row' = [row EXCEPT ![o] = [row[o] EXCEPT !.status = "refunded"]]
      BY <1>4 DEF RowAppears, RowRefunded
    <3> QED BY <3>2, <3>3 DEF Tables
  <2> QED BY <1>3, <1>4, <2>1 DEF RowAppears, RowRefunded, Outside, Tables
<1>5. ASSUME NEW o \in Orders, Acknowledge(o)
      PROVE  Typed'
  <2>1. open' \in [Orders -> [Rules -> Nat]]
    BY <1>5 DEF Acknowledge, Tables
  <2> QED BY <1>3, <1>5, <2>1 DEF Acknowledge, Outside, Tables
<1>21. ASSUME NEW p \in Payments, LeavePage(p)
       PROVE  Typed'
  <2>1. onPage' \in [Payments -> BOOLEAN]
    BY <1>21 DEF LeavePage, Tables
  <2> QED BY <1>3, <1>21, <2>1 DEF LeavePage, Tables
<1>6. ASSUME NEW r \in Refs, BackoffEnds(r)
      PROVE  Typed'
  <2>1. inbox' \in [Refs -> InboxStates]
    BY <1>6 DEF BackoffEnds, Tables, InboxStates
  <2> QED BY <1>3, <1>6, <2>1 DEF BackoffEnds, Tables, Outside, Records
<1>7. CASE UNCHANGED vars
  BY <1>3, <1>7 DEF vars, Tables
<1>8. ASSUME NEW w \in Passes, NEW q \in PassRecord, Fits(q),
             pass' = [pass EXCEPT ![w] = q], UNCHANGED Outside, Tables'
      PROVE  Typed'
  BY <1>8, PassMoves
<1>9. ASSUME NEW w \in Passes, NEW p \in Payments, Webhook(w, p) \/ Enumerate(w, p)
      PROVE  Typed'
  <2>1. <<"payment", p>> \in Refs /\ OrderOfRef(<<"payment", p>>) = OrderOf[p]
    BY DEF Refs, OrderOfRef
  <2>2. payment[p] # "created" /\ paidBy[OrderOf[p]] # None
    BY <1>9 DEF Webhook, Enumerate, PaidHasPayer
  <2>3. PICK pc \in {"drifted", "listed", "start"}, status \in {"captured", None} :
          Begin(w, pc, <<"payment", p>>, status)
    BY <1>9 DEF Webhook, Enumerate
  <2> DEFINE q == [Idle EXCEPT !.pc = pc, !.ref = <<"payment", p>>, !.status = status]
  <2>4. q \in PassRecord /\ Fits(q)
    BY <2>1, <2>2, BeginFits
  <2>5. pass' = [pass EXCEPT ![w] = q] /\ UNCHANGED Outside /\ Tables'
    BY <1>9, <2>3 DEF Begin, Webhook, Enumerate, Outside, Records, Tables
  <2> QED BY <1>8, <2>4, <2>5
<1>10. ASSUME NEW w \in Passes, NEW o \in Orders, Poll(w, o)
       PROVE  Typed'
  <2>1. PICK r \in Refs : Begin(w, "start", r, "captured") /\ paidBy[OrderOfRef(r)] # None
    <3>1. CASE Begin(w, "start", <<"orderpaid", o>>, "captured")
      <4>1. <<"orderpaid", o>> \in Refs /\ OrderOfRef(<<"orderpaid", o>>) = o
        BY DEF Refs, OrderOfRef
      <4> QED BY <1>10, <3>1, <4>1 DEF Poll
    <3>2. ASSUME NEW p \in Payments, OrderOf[p] = o,
                 Begin(w, "start", <<"payment", p>>, "captured")
          PROVE  \E r \in Refs :
                   Begin(w, "start", r, "captured") /\ paidBy[OrderOfRef(r)] # None
      <4>1. <<"payment", p>> \in Refs /\ OrderOfRef(<<"payment", p>>) = o
        BY <3>2 DEF Refs, OrderOfRef
      <4> QED BY <1>10, <3>2, <4>1 DEF Poll
    <3> QED BY <1>10, <3>1, <3>2 DEF Poll
  <2> DEFINE q == [Idle EXCEPT !.pc = "start", !.ref = r, !.status = "captured"]
  <2>2. q \in PassRecord /\ Fits(q)
    BY <2>1, BeginFits
  <2>3. pass' = [pass EXCEPT ![w] = q] /\ UNCHANGED Outside /\ Tables'
    BY <1>10, <2>1 DEF Begin, Poll, Outside, Records, Tables
  <2> QED BY <1>8, <2>2, <2>3
<1>11. ASSUME NEW w \in Passes, Abort(w)
       PROVE  Typed'
  <2>1. pass' = [pass EXCEPT ![w] = Idle] /\ UNCHANGED Outside /\ Tables'
    BY <1>11 DEF Abort, Rest, Outside, Records, Tables
  <2> QED BY <1>8, <2>1, IdleFits
<1>12. ASSUME NEW w \in Passes, QueueDrifted(w) \/ Queue(w)
       PROVE  Typed'
  <2>1. PICK pc \in {"listed", "draining"} :
          /\ Goto(w, pc) /\ pass[w].pc # "idle"
          /\ pc = "listed" => pass[w].pc = "drifted"
    BY <1>12 DEF QueueDrifted, Queue
  <2> DEFINE q == [pass[w] EXCEPT !.pc = pc]
  <2>2. q \in PassRecord /\ Fits(q)
    BY <2>1, GotoFits DEF PassStates
  <2>3. inbox' \in [Refs -> InboxStates]
    BY <1>12 DEF QueueDrifted, Queue, Tables, InboxStates
  <2>4. pass' = [pass EXCEPT ![w] = q] /\ UNCHANGED Outside /\ Tables'
    BY <1>12, <2>1, <2>3 DEF Goto, QueueDrifted, Queue, Outside, Records, Tables
  <2> QED BY <1>8, <2>2, <2>4
<1>13. ASSUME NEW w \in Passes, List(w)
       PROVE  Typed'
  <2> DEFINE r == pass[w].ref
  <2>1. /\ r \in Refs /\ paidBy[OrderOfRef(r)] # None
        /\ r[2] \in Payments /\ payment[r[2]] \in {"captured", "refunded"}
    BY <1>0, <1>13, RefFacts DEF List, Fits, Tables
  <2> DEFINE q == [Idle EXCEPT !.pc = "start", !.ref = r, !.status = payment[r[2]]]
  <2>2. q \in PassRecord /\ Fits(q)
    BY <2>1, BeginFits
  <2>3. \/ pass' = [pass EXCEPT ![w] = q]
        \/ pass' = [pass EXCEPT ![w] = Idle]
    BY <1>13 DEF List, Begin, Rest
  <2>4. UNCHANGED Outside /\ Tables'
    BY <1>13 DEF List, Outside, Records, Tables
  <2> QED BY <1>8, <2>2, <2>3, <2>4, IdleFits
<1>14. ASSUME NEW w \in Passes, Judge(w)
       PROVE  Typed'
  <2> DEFINE r == pass[w].ref
             rule == Decide(r, pass[w].status, row[OrderOfRef(r)])
             auto == [Idle EXCEPT !.pc = "auto", !.ref = r]
             told == [Idle EXCEPT !.pc = "escalating", !.ref = r, !.rule = rule]
  <2>1. rule \in Rules \cup {"clean-capture"}
    BY DecideFacts
  <2>2. r \in Refs /\ paidBy[OrderOfRef(r)] # None
    BY <1>0, <1>14 DEF Judge, Fits
  <2>3. pass' = [pass EXCEPT ![w] = IF rule = "clean-capture" THEN auto ELSE told]
    BY <1>14 DEF Judge
  <2>4. UNCHANGED Outside /\ Tables'
    BY <1>14 DEF Judge, Outside, Records, Tables
  <2> HIDE DEF rule
  <2>5. auto \in PassRecord /\ Fits(auto)
    BY <2>2 DEF Idle, PassRecord, PassStates, Fits
  <2>6. rule # "clean-capture" => told \in PassRecord /\ Fits(told)
    BY <2>1, <2>2 DEF Idle, PassRecord, PassStates, Fits
  <2> QED BY <1>8, <2>3, <2>4, <2>5, <2>6
<1>15. ASSUME NEW w \in Passes, DrainPick(w)
       PROVE  Typed'
  <2>1. PICK r \in Refs : pass' = [pass EXCEPT ![w].pc = "applying", ![w].held = r]
    BY <1>15 DEF DrainPick
  <2> DEFINE q == [pass[w] EXCEPT !.pc = "applying", !.held = r]
  <2>2. q \in PassRecord /\ Fits(q)
    <3>1. /\ pass[w] \in PassRecord
          /\ pass[w].ref \in Refs /\ paidBy[OrderOfRef(pass[w].ref)] # None
      BY <1>0, <1>15 DEF DrainPick, Fits
    <3>2. q \in PassRecord
      BY <3>1 DEF PassRecord, PassStates
    <3>3. q.pc = "applying" /\ q.ref = pass[w].ref /\ q.held = r
      BY <3>1 DEF PassRecord
    <3> HIDE DEF q
    <3> QED BY <3>1, <3>2, <3>3 DEF Fits
  <2>3. pass' = [pass EXCEPT ![w] = q] /\ UNCHANGED Outside /\ Tables'
    BY <1>15, <2>1 DEF DrainPick, Outside, Records, Tables
  <2> QED BY <1>8, <2>2, <2>3
<1>16. ASSUME NEW w \in Passes, DrainApply(w) \/ HandlerThrows(w)
       PROVE  Typed'
  <2> DEFINE r == pass[w].held
             q == [pass[w] EXCEPT !.pc = "draining", !.held = None]
  <2>1. q \in PassRecord /\ Fits(q)
    <3>1. /\ pass[w] \in PassRecord
          /\ pass[w].ref \in Refs /\ paidBy[OrderOfRef(pass[w].ref)] # None
      BY <1>0, <1>16 DEF DrainApply, HandlerThrows, Fits
    <3>2. q \in PassRecord
      BY <3>1 DEF PassRecord, PassStates
    <3>3. q.pc = "draining" /\ q.ref = pass[w].ref
      BY <3>1 DEF PassRecord
    <3> HIDE DEF q
    <3> QED BY <3>1, <3>2, <3>3 DEF Fits
  <2>2. r \in Refs /\ OrderOfRef(r) \in Orders /\ AmountOfRef(r) \in Nat
    BY <1>0, <1>16, RefFacts DEF DrainApply, HandlerThrows, Fits
  <2>3. row' \in [Orders -> [here : BOOLEAN, status : Statuses, credited : Nat]]
    <3>1. CASE DrainApply(w)
      BY <3>1, OneCredit DEF Tables
    <3>2. CASE HandlerThrows(w)
      BY <3>2 DEF HandlerThrows, Tables
    <3> QED BY <1>16, <3>1, <3>2
  <2>4. inbox' \in [Refs -> InboxStates]
    BY <1>16, <2>2 DEF DrainApply, HandlerThrows, Tables, InboxStates
  <2>5. pass' = [pass EXCEPT ![w] = q] /\ UNCHANGED Outside
    BY <1>16 DEF DrainApply, HandlerThrows, Outside
  <2>6. Tables'
    BY <1>16, <2>3, <2>4 DEF DrainApply, HandlerThrows, Outside, Records, Tables
  <2> QED BY <1>8, <2>1, <2>5, <2>6
<1>17. ASSUME NEW w \in Passes, DrainEnd(w)
       PROVE  Typed'
  <2> DEFINE q == [pass[w] EXCEPT !.pc = "drained"]
  <2>1. q \in PassRecord /\ Fits(q)
    BY <1>17, GotoFits DEF DrainEnd, PassStates
  <2>2. pass' = [pass EXCEPT ![w] = q] /\ UNCHANGED Outside /\ Tables'
    BY <1>17 DEF DrainEnd, Goto, Outside, Records, Tables
  <2> QED BY <1>8, <2>1, <2>2
<1>18. ASSUME NEW w \in Passes, ReadBack(w)
       PROVE  Typed'
  <2> DEFINE good == [pass[w] EXCEPT !.pc = "recovering"]
             bad == [pass[w] EXCEPT !.pc = "recording", !.rule = "write-did-not-land"]
  <2>1. good \in PassRecord /\ Fits(good)
    BY <1>18, GotoFits DEF ReadBack, PassStates
  <2>2. bad \in PassRecord /\ Fits(bad)
    BY <1>0, <1>18, ZenonT(40) DEF ReadBack, PassRecord, PassStates, Rules, Fits
  <2>3. \/ pass' = [pass EXCEPT ![w] = good]
        \/ pass' = [pass EXCEPT ![w] = bad]
    BY <1>18 DEF ReadBack, Goto
  <2>4. UNCHANGED Outside /\ Tables'
    BY <1>18 DEF ReadBack, Outside, Records, Tables
  <2> QED BY <1>8, <2>1, <2>2, <2>3, <2>4
<1>19. ASSUME NEW w \in Passes, Escalate(w) \/ Refresh(w)
       PROVE  Typed'
  <2>1. PICK pc \in {"recording", "inserting"} : Goto(w, pc) \/ Rest(w)
    BY <1>19 DEF Escalate, Refresh
  <2> DEFINE q == [pass[w] EXCEPT !.pc = pc]
  <2>2. q \in PassRecord /\ Fits(q)
    BY <1>0, <1>19 DEF Escalate, Refresh, PassRecord, PassStates, Fits
  <2>3. \/ pass' = [pass EXCEPT ![w] = q]
        \/ pass' = [pass EXCEPT ![w] = Idle]
    BY <2>1 DEF Goto, Rest
  <2>4. UNCHANGED Outside /\ Tables'
    BY <1>19 DEF Escalate, Refresh, Outside, Records, Tables
  <2> QED BY <1>8, <2>2, <2>3, <2>4, IdleFits
<1>20. ASSUME NEW w \in Passes, Recover(w) \/ Insert(w)
       PROVE  Typed'
  <2>1. OrderOfRef(pass[w].ref) \in Orders
    BY <1>0, <1>20, RefFacts DEF Recover, Insert, Fits
  <2>2. recovered' \in [Orders -> Nat] /\ open' \in [Orders -> [Rules -> Nat]]
    <3>1. CASE Recover(w)
      BY <2>1, <3>1 DEF Recover, Tables
    <3>2. CASE Insert(w)
      <4>1. pass[w].rule \in Rules
        BY <1>0, <3>2 DEF Insert, Fits
      <4> QED BY <2>1, <3>2, <4>1 DEF Insert, Tables
    <3> QED BY <1>20, <3>1, <3>2
  <2>3. pass' = [pass EXCEPT ![w] = Idle] /\ UNCHANGED Outside /\ Tables'
    BY <1>20, <2>2 DEF Recover, Insert, Rest, Outside, Tables
  <2> QED BY <1>8, <2>3, IdleFits
<1> QED
  BY <1>1, <1>2, <1>4, <1>5, <1>21, <1>6, <1>7, <1>9, <1>10, <1>11, <1>12, <1>13, <1>14, <1>15, <1>16,
     <1>17, <1>18, <1>19, <1>20
  DEF Next, Environment, Advance

LEMMA TypedAlways == Spec => []Typed
BY TypedInit, TypedStep, PTL DEF Spec

(* Every variable of Recovery keeps its type. *)
THEOREM TypeCorrect == Spec => []TypeOK
<1>1. Typed => TypeOK
  BY DEF Typed, Tables, TypeOK, PassRecord
<1> QED BY TypedAlways, <1>1, PTL
-----------------------------------------------------------------------------
(* What only changes where a pass stands leaves the rows as they are. *)
LEMMA RowChanges ==
  ASSUME Typed, [Next]_vars
  PROVE  \/ UNCHANGED row
         \/ \E o \in Orders : RowAppears(o) \/ RowRefunded(o)
         \/ \E w \in Passes : DrainApply(w)
BY DEF Next, vars, Environment, Advance, Capture, Refund, LeavePage, Acknowledge, Webhook, Enumerate, Poll,
       QueueDrifted, List, Judge, Queue, DrainPick, DrainEnd, ReadBack, Recover, Escalate, Refresh,
       Insert, HandlerThrows, Abort, BackoffEnds

(* A row that is there stays, its credit does not shrink, and a refund recorded in
   it is the last word. *)
LEMMA RowKept ==
  ASSUME Typed, [Next]_vars, NEW o \in Orders,
         row[o].status = "refunded" => row[o].here
  PROVE  /\ row[o].here => row'[o].here
         /\ Landed(o) => Landed(o)'
         /\ row[o].status = "refunded" => row'[o] = row[o]
         /\ row'[o].status = "refunded" => row'[o].here
<1> row[o] \in [here : BOOLEAN, status : Statuses, credited : Nat]
  BY DEF Typed, Tables
<1>1. CASE UNCHANGED row
  BY <1>1 DEF Landed
<1>2. ASSUME NEW q \in Orders, RowAppears(q) \/ RowRefunded(q)
      PROVE  /\ row[o].here => row'[o].here
             /\ Landed(o) => Landed(o)'
             /\ row[o].status = "refunded" => row'[o] = row[o]
             /\ row'[o].status = "refunded" => row'[o].here
  <2>1. CASE q = o
    <3>1. /\ row'[o].here /\ row'[o].credited = row[o].credited
          /\ ~row[o].here => row'[o].status = row[o].status
      BY <1>2, <2>1 DEF RowAppears, RowRefunded, Typed, Tables
    <3>2. row[o].status # "refunded"
      BY <1>2, <2>1 DEF RowAppears, RowRefunded
    <3> QED BY <3>1, <3>2 DEF Landed
  <2>2. CASE q # o
    <3>1. row'[o] = row[o]
      BY <1>2, <2>2 DEF RowAppears, RowRefunded, Typed, Tables
    <3> QED BY <3>1 DEF Landed
  <2> QED BY <2>1, <2>2
<1>3. ASSUME NEW w \in Passes, DrainApply(w)
      PROVE  /\ row[o].here => row'[o].here
             /\ Landed(o) => Landed(o)'
             /\ row[o].status = "refunded" => row'[o] = row[o]
             /\ row'[o].status = "refunded" => row'[o].here
  <2> DEFINE q == OrderOfRef(pass[w].held)
             a == AmountOfRef(pass[w].held)
  <2>1. /\ q \in Orders /\ a \in Nat
        /\ \/ UNCHANGED row
           \/ /\ Writable(q)
              /\ row'[q].here = row[q].here /\ row'[q].status = "paid"
              /\ row'[q].credited = row[q].credited + a
              /\ \A other \in Orders \ {q} : row'[other] = row[other]
    BY <1>3, OneCredit
  <2> HIDE DEF q, a
  <2>2. CASE row'[o] = row[o]
    BY <2>2 DEF Landed
  <2>3. CASE row'[o] # row[o]
    BY <2>1, <2>3 DEF Landed, Writable
  <2> QED BY <2>2, <2>3
<1> QED BY <1>1, <1>2, <1>3, RowChanges

(* What Begin, Goto and Rest leave *)
LEMMA Moved ==
  ASSUME Typed, NEW w \in Passes
  PROVE  /\ \A pc, r, status : Begin(w, pc, r, status) =>
              /\ pass'[w].pc = pc /\ pass'[w].ref = r
              /\ \A v \in Passes \ {w} : pass'[v] = pass[v]
         /\ \A pc : Goto(w, pc) =>
              /\ pass'[w].pc = pc /\ pass'[w].ref = pass[w].ref
              /\ \A v \in Passes \ {w} : pass'[v] = pass[v]
         /\ Rest(w) =>
              /\ pass'[w].pc = "idle"
              /\ \A v \in Passes \ {w} : pass'[v] = pass[v]
<1>1. pass \in [Passes -> PassRecord]
  BY DEF Typed
<1>2. ASSUME NEW pc, NEW r, NEW status, Begin(w, pc, r, status)
      PROVE  /\ pass'[w].pc = pc /\ pass'[w].ref = r
             /\ \A v \in Passes \ {w} : pass'[v] = pass[v]
  BY <1>1, <1>2 DEF Begin, Idle
<1>3. ASSUME NEW pc, Goto(w, pc)
      PROVE  /\ pass'[w].pc = pc /\ pass'[w].ref = pass[w].ref
             /\ \A v \in Passes \ {w} : pass'[v] = pass[v]
  BY <1>1, <1>3 DEF Goto, PassRecord
<1>4. ASSUME Rest(w)
      PROVE  /\ pass'[w].pc = "idle"
             /\ \A v \in Passes \ {w} : pass'[v] = pass[v]
  BY <1>1, <1>4 DEF Rest, Idle
<1> QED BY <1>2, <1>3, <1>4

(* ... and Judge: its record is one of two. *)
LEMMA Judged ==
  ASSUME Typed, NEW w \in Passes, Judge(w)
  PROVE  /\ pass'[w].pc \in {"auto", "escalating"} /\ pass'[w].ref = pass[w].ref
         /\ pass'[w].pc = "auto" =>
              Decide(pass[w].ref, pass[w].status, row[OrderOfRef(pass[w].ref)]) = "clean-capture"
         /\ \A v \in Passes \ {w} : pass'[v] = pass[v]
<1> DEFINE rule == Decide(pass[w].ref, pass[w].status, row[OrderOfRef(pass[w].ref)])
<1>1. pass' = [pass EXCEPT ![w] =
                 IF rule = "clean-capture"
                 THEN [Idle EXCEPT !.pc = "auto", !.ref = pass[w].ref]
                 ELSE [Idle EXCEPT !.pc = "escalating", !.ref = pass[w].ref, !.rule = rule]]
  BY DEF Judge
<1> HIDE DEF rule
<1>2. pass'[w] = IF rule = "clean-capture"
                 THEN [Idle EXCEPT !.pc = "auto", !.ref = pass[w].ref]
                 ELSE [Idle EXCEPT !.pc = "escalating", !.ref = pass[w].ref, !.rule = rule]
  BY <1>1 DEF Typed
<1>3. \A v \in Passes \ {w} : pass'[v] = pass[v]
  BY <1>1 DEF Typed
<1>4. CASE rule = "clean-capture"
  BY <1>2, <1>3, <1>4 DEF Idle, rule
<1>5. CASE rule # "clean-capture"
  BY <1>2, <1>3, <1>5 DEF Idle, rule
<1> QED BY <1>4, <1>5

LEMMA LandingInit == Init => Landing
BY DEF Init, Landing, Idle

LEMMA LandingStep == Typed /\ Landing /\ [Next]_vars => Landing'
<1> SUFFICES ASSUME Typed, Landing, [Next]_vars
             PROVE  Landing'
  OBVIOUS
<1>1. \A o \in Orders :
        /\ Landed(o) => Landed(o)'
        /\ row'[o].status = "refunded" => row'[o].here
  BY RowKept DEF Landing
<1>2. \A w \in Passes : pass[w].pc # "idle" => OrderOfRef(pass[w].ref) \in Orders
  BY RefFacts DEF Typed, Working, Fits
<1>3. ASSUME NEW w \in Passes, Recover(w)
      PROVE  Landing'
  <2>1. \A o \in Orders : recovered'[o] > 0 => Landed(o)'
    BY <1>1, <1>2, <1>3 DEF Recover, Landing, Typed, Tables
  <2>2. \A v \in Passes : pass'[v].pc = "recovering" => pass'[v] = pass[v]
    BY <1>3 DEF Recover, Rest, Idle, Typed
  <2> QED BY <1>1, <1>2, <2>1, <2>2 DEF Landing, OrderOfRef
<1>4. ASSUME NEW w \in Passes, ReadBack(w)
      PROVE  Landing'
  <2>1. UNCHANGED recovered
    BY <1>4 DEF ReadBack, Records
  <2>2. \A v \in Passes : pass'[v].pc = "recovering" =>
          /\ pass'[v].ref = pass[v].ref /\ pass[v].pc # "idle"
          /\ Landed(OrderOfRef(pass[v].ref))
    BY <1>4 DEF ReadBack, Goto, Landing, Typed, PassRecord
  <2> QED BY <1>1, <1>2, <2>1, <2>2 DEF Landing, OrderOfRef
<1>5. ASSUME UNCHANGED recovered,
             \A v \in Passes : pass'[v].pc = "recovering" => pass'[v] = pass[v]
      PROVE  Landing'
  BY <1>1, <1>2, <1>5 DEF Landing, OrderOfRef
<1>6. ASSUME NEW w \in Passes,
             \/ \E p \in Payments : Webhook(w, p) \/ Enumerate(w, p)
             \/ \E o \in Orders : Poll(w, o)
      PROVE  Landing'
  <2>1. \A v \in Passes : pass'[v].pc = "recovering" => pass'[v] = pass[v]
    <3>1. \E pc \in {"drifted", "listed", "start"} : \E r, status : Begin(w, pc, r, status)
      BY <1>6 DEF Webhook, Enumerate, Poll
    <3> QED BY <3>1, Moved
  <2> QED BY <1>5, <1>6, <2>1 DEF Webhook, Enumerate, Poll, Records
<1>7. ASSUME NEW w \in Passes, QueueDrifted(w) \/ List(w) \/ Judge(w) \/ Queue(w)
      PROVE  Landing'
  <2>1. \A v \in Passes : pass'[v].pc = "recovering" => pass'[v] = pass[v]
    BY <1>7, Moved, Judged DEF QueueDrifted, List, Queue
  <2> QED BY <1>5, <1>7, <2>1 DEF QueueDrifted, List, Judge, Queue, Records
<1>8. ASSUME NEW w \in Passes, DrainPick(w) \/ DrainApply(w) \/ DrainEnd(w) \/ HandlerThrows(w)
      PROVE  Landing'
  <2>1. \A v \in Passes : pass'[v].pc = "recovering" => pass'[v] = pass[v]
    BY <1>8 DEF DrainPick, DrainApply, DrainEnd, HandlerThrows, Goto, Typed, PassRecord
  <2> QED BY <1>5, <1>8, <2>1 DEF DrainPick, DrainApply, DrainEnd, HandlerThrows, Records
<1>10. ASSUME NEW w \in Passes, Escalate(w) \/ Refresh(w) \/ Insert(w) \/ Abort(w)
       PROVE  Landing'
  <2>1. \A v \in Passes : pass'[v].pc = "recovering" => pass'[v] = pass[v]
    BY <1>10, Moved DEF Escalate, Refresh, Insert, Abort
  <2> QED BY <1>5, <1>10, <2>1 DEF Escalate, Refresh, Insert, Abort, Records
<1>9. CASE Environment \/ (\E r \in Refs : BackoffEnds(r)) \/ UNCHANGED vars
  BY <1>5, <1>9 DEF Environment, Capture, Refund, LeavePage, RowAppears, RowRefunded, Acknowledge, BackoffEnds,
                    vars, Records
<1> QED BY <1>3, <1>4, <1>6, <1>7, <1>8, <1>9, <1>10 DEF Next, Advance

LEMMA LandingAlways == Spec => []Landing
BY TypedInit, TypedStep, LandingInit, LandingStep, PTL DEF Spec

(* A repair is reported only when the merchant's row shows it, whatever other
   passes, refunds and failures came in between. *)
THEOREM ReportedHasLanded == Spec => []RecoveredHasLanded
<1>1. Landing => RecoveredHasLanded
  BY DEF Landing, RecoveredHasLanded
<1> QED BY LandingAlways, <1>1, PTL

(* No repair, however old its verdict, changes a row whose refund is recorded. *)
THEOREM RefundIsLastWord == Spec => RefundStands
<1>1. Typed /\ Landing /\ [Next]_vars =>
        [\A o \in Orders : row[o].status = "refunded" => row'[o] = row[o]]_vars
  BY RowKept DEF Landing
<1> QED BY TypedAlways, LandingAlways, <1>1, PTL DEF Spec, RefundStands
-----------------------------------------------------------------------------
(* A verdict does not grow old: what it asked for of a repair stays so. *)
LEMMA VettedStays ==
  ASSUME Typed, [Next]_vars, NEW r \in Refs, Vetted(r)
  PROVE  Vetted(r)'
<1>1. paidBy' = paidBy \/ \E p \in Payments : Capture(p)
  BY DEF Next, vars, Environment, Advance, Refund, LeavePage, RowAppears, RowRefunded, Acknowledge, Webhook,
         Enumerate, Poll, QueueDrifted, List, Judge, Queue, DrainPick, DrainApply, DrainEnd, ReadBack,
         Recover, Escalate, Refresh, Insert, HandlerThrows, Abort, BackoffEnds, Outside
<1>2. paidBy'[OrderOfRef(r)] = paidBy[OrderOfRef(r)] /\ AmountOfRef(r)' = AmountOfRef(r)
  BY <1>1, PaidStays DEF Typed, Vetted
<1> QED BY <1>2 DEF Vetted, OrderOfRef

(* An automatic verdict vets what it is about. *)
LEMMA JudgeVets ==
  ASSUME Typed, NEW w \in Passes, Judge(w), pass'[w].pc = "auto"
  PROVE  pass[w].ref \in Refs /\ Vetted(pass[w].ref)
<1> DEFINE r == pass[w].ref
           facts == row[OrderOfRef(r)]
<1>1. r \in Refs /\ paidBy[OrderOfRef(r)] # None
  BY DEF Judge, Typed, Working, Fits
<1>2. \A i \in 1..9 : ~Tests(r, pass[w].status, facts)[i].holds
  BY Judged, DecideFacts
<1> HIDE DEF r, facts
<1>3. /\ Merchant.autoRepair /\ ~Merchant.escalateOnly /\ Merchant.mappingConfirmed
      /\ RowsOf[OrderOfRef(r)] = 1 /\ Expected[OrderOfRef(r)] = AmountOfRef(r)
  <2> DEFINE tests == Tests(r, pass[w].status, facts)
  <2>1. /\ tests[1].holds = ~Merchant.autoRepair /\ tests[2].holds = Merchant.escalateOnly
        /\ tests[3].holds = ~Merchant.mappingConfirmed
        /\ tests[6].holds = (RowsOf[OrderOfRef(r)] # 1)
        /\ tests[9].holds = (Expected[OrderOfRef(r)] # AmountOfRef(r))
    BY DEF Tests
  <2>2. /\ ~tests[1].holds /\ ~tests[2].holds /\ ~tests[3].holds /\ ~tests[6].holds
        /\ ~tests[9].holds
    BY <1>2
  <2> HIDE DEF tests
  <2> QED BY <2>1, <2>2
<1> QED BY <1>1, <1>3 DEF Vetted, r

(* A row enters the inbox by a verdict, where every order has its row, and does
   not leave it. *)
LEMMA InboxGrows ==
  ASSUME Typed, Vetting, [Next]_vars, NEW r \in Refs
  PROVE  /\ inbox[r] # "absent" => inbox'[r] # "absent"
         /\ inbox'[r] # "absent" => inbox[r] # "absent" \/ Vetted(r)
<1> USE DEF Typed, Tables
<1>1. CASE UNCHANGED inbox
  BY <1>1
<1>2. ASSUME NEW w \in Passes, QueueDrifted(w) \/ Queue(w)
      PROVE  /\ inbox[r] # "absent" => inbox'[r] # "absent"
             /\ inbox'[r] # "absent" => inbox[r] # "absent" \/ Vetted(r)
  <2>1. pass[w].pc = "auto" /\ Vetted(pass[w].ref)
    BY <1>2 DEF Vetting, QueueDrifted, Queue
  <2>2. inbox' = [inbox EXCEPT ![pass[w].ref] =
                    IF inbox[pass[w].ref] = "absent" THEN "queued" ELSE inbox[pass[w].ref]]
    BY <1>2 DEF QueueDrifted, Queue
  <2> QED BY <2>1, <2>2
<1>3. ASSUME NEW w \in Passes, DrainApply(w) \/ HandlerThrows(w)
      PROVE  /\ inbox[r] # "absent" => inbox'[r] # "absent"
             /\ inbox'[r] # "absent" => inbox[r] # "absent" \/ Vetted(r)
  <2>1. inbox[pass[w].held] # "absent"
    BY <1>3 DEF Vetting, DrainApply, HandlerThrows
  <2>2. \E x \in {"applied", "missed", "deferred"} : inbox' = [inbox EXCEPT ![pass[w].held] = x]
    BY <1>3 DEF DrainApply, HandlerThrows
  <2> QED BY <2>1, <2>2
<1>4. ASSUME NEW q \in Refs, BackoffEnds(q)
      PROVE  /\ inbox[r] # "absent" => inbox'[r] # "absent"
             /\ inbox'[r] # "absent" => inbox[r] # "absent" \/ Vetted(r)
  BY <1>4 DEF BackoffEnds
<1>5. \/ UNCHANGED inbox
      \/ \E w \in Passes : QueueDrifted(w) \/ Queue(w) \/ DrainApply(w) \/ HandlerThrows(w)
      \/ \E q \in Refs : BackoffEnds(q)
  BY DEF Next, vars, Environment, Advance, Capture, Refund, LeavePage, RowAppears, RowRefunded, Acknowledge,
         Webhook, Enumerate, Poll, List, Judge, DrainPick, DrainEnd, ReadBack, Recover, Escalate,
         Refresh, Insert, Abort
<1> QED BY <1>1, <1>2, <1>3, <1>4, <1>5

LEMMA VettingInit == ASSUME Late = {} PROVE Init => Vetting
BY DEF Init, Vetting, Idle

LEMMA VettingStep == Typed /\ Vetting /\ [Next]_vars => Vetting'
<1> SUFFICES ASSUME Typed, Vetting, [Next]_vars
             PROVE  Vetting'
  OBVIOUS
<1>1. \A o \in Orders : row'[o].here
  BY RowKept DEF Vetting
<1>2. \A r \in Refs : inbox'[r] # "absent" => Vetted(r)'
  BY InboxGrows, VettedStays DEF Vetting
<1> DEFINE Good(v) == /\ pass'[v].pc # "drifted"
                      /\ pass'[v].pc = "auto" => Vetted(pass[v].ref)'
                      /\ pass'[v].pc = "applying" => inbox'[pass'[v].held] # "absent"
<1>3. ASSUME NEW v \in Passes, pass'[v] = pass[v]
      PROVE  Good(v)
  <2>1. pass[v].pc \in {"auto", "applying"} =>
          (pass[v].pc = "auto" => pass[v].ref \in Refs /\ Vetted(pass[v].ref))
          /\ (pass[v].pc = "applying" => pass[v].held \in Refs /\ inbox[pass[v].held] # "absent")
    BY DEF Typed, Working, Fits, Vetting
  <2>2. ASSUME pass[v].pc = "auto"
        PROVE  Vetted(pass[v].ref)'
    <3>1. PICK r \in Refs : r = pass[v].ref /\ Vetted(r)
      BY <2>1, <2>2
    <3>2. Vetted(r)'
      BY <3>1, VettedStays
    <3>3. pass'[v].ref = r
      BY <1>3, <3>1
    <3> QED BY <3>2, <3>3 DEF Vetted, OrderOfRef, AmountOfRef
  <2>3. pass[v].pc = "applying" => inbox'[pass[v].held] # "absent"
    BY <2>1, InboxGrows
  <2> QED BY <1>3, <2>2, <2>3 DEF Vetting
<1>4. ASSUME \A v \in Passes : \/ pass'[v] = pass[v]
                              \/ pass'[v].pc \notin {"drifted", "auto", "applying"}
      PROVE  \A v \in Passes : Good(v)
  BY <1>3, <1>4
<1>5. ASSUME NEW w \in Passes, NEW p \in Payments, Webhook(w, p) \/ Enumerate(w, p)
      PROVE  \A v \in Passes : Good(v)
  <2>1. \E pc \in {"listed", "start"} : \E r, status : Begin(w, pc, r, status)
    BY <1>5 DEF Webhook, Enumerate, Vetting
  <2> QED BY <1>4, <2>1, Moved
<1>6. ASSUME NEW w \in Passes, NEW o \in Orders, Poll(w, o)
      PROVE  \A v \in Passes : Good(v)
  <2>1. \E r : Begin(w, "start", r, "captured")
    BY <1>6 DEF Poll
  <2> QED BY <1>4, <2>1, Moved
<1>7. ASSUME NEW w \in Passes, QueueDrifted(w) \/ List(w) \/ Queue(w)
      PROVE  \A v \in Passes : Good(v)
  BY <1>4, <1>7, Moved DEF QueueDrifted, List, Queue
<1>8. ASSUME NEW w \in Passes, Judge(w)
      PROVE  \A v \in Passes : Good(v)
  <2>1. pass'[w].pc \in {"auto", "escalating"} /\ pass'[w].ref = pass[w].ref
    BY <1>8, Judged
  <2>2. ASSUME pass'[w].pc = "auto"
        PROVE  Vetted(pass[w].ref)'
    <3>1. PICK r \in Refs : r = pass[w].ref /\ Vetted(r)
      BY <1>8, <2>2, JudgeVets
    <3>2. Vetted(r)'
      BY <3>1, VettedStays
    <3>3. pass'[w].ref = r
      BY <2>1, <3>1
    <3> QED BY <3>2, <3>3 DEF Vetted, OrderOfRef, AmountOfRef
  <2>3. Good(w)
    BY <2>1, <2>2
  <2> QED BY <1>3, <1>8, <2>3, Judged
<1>9. ASSUME NEW w \in Passes, DrainPick(w)
      PROVE  \A v \in Passes : Good(v)
  <2>1. PICK r \in Refs : Drainable(r) /\ pass' = [pass EXCEPT ![w].pc = "applying", ![w].held = r]
    BY <1>9 DEF DrainPick
  <2>2. pass'[w].pc = "applying" /\ pass'[w].held = r
    BY <2>1 DEF Typed, PassRecord
  <2>3. inbox'[r] # "absent"
    BY <1>9, <2>1 DEF DrainPick, Drainable
  <2>4. \A v \in Passes \ {w} : pass'[v] = pass[v]
    BY <2>1 DEF Typed
  <2> QED BY <1>3, <2>2, <2>3, <2>4
<1>10. ASSUME NEW w \in Passes, DrainApply(w) \/ HandlerThrows(w)
       PROVE  \A v \in Passes : Good(v)
  <2>1. pass'[w].pc = "draining" /\ \A v \in Passes \ {w} : pass'[v] = pass[v]
    BY <1>10 DEF DrainApply, HandlerThrows, Typed, PassRecord
  <2> QED BY <1>4, <2>1
<1>11. ASSUME NEW w \in Passes, DrainEnd(w) \/ Recover(w) \/ Escalate(w) \/ Refresh(w) \/ Insert(w)
                                \/ Abort(w)
       PROVE  \A v \in Passes : Good(v)
  BY <1>4, <1>11, Moved DEF DrainEnd, Recover, Escalate, Refresh, Insert, Abort
<1>12. ASSUME NEW w \in Passes, ReadBack(w)
       PROVE  \A v \in Passes : Good(v)
  <2>1. /\ pass'[w].pc \in {"recovering", "recording"}
        /\ \A v \in Passes \ {w} : pass'[v] = pass[v]
    BY <1>12 DEF ReadBack, Goto, Typed, PassRecord
  <2> QED BY <1>4, <2>1
<1>13. ASSUME Environment \/ (\E r \in Refs : BackoffEnds(r)) \/ UNCHANGED vars
       PROVE  \A v \in Passes : Good(v)
  <2>1. UNCHANGED pass
    BY <1>13 DEF Environment, Capture, Refund, LeavePage, RowAppears, RowRefunded, Acknowledge, BackoffEnds, vars
  <2> QED BY <1>4, <2>1
<1>14. \A v \in Passes : Good(v)
  BY <1>5, <1>6, <1>7, <1>8, <1>9, <1>10, <1>11, <1>12, <1>13 DEF Next, Advance
<1> QED BY <1>1, <1>2, <1>14 DEF Vetting

(* Where every order has its row from the start, money is credited only on a verdict
   that allowed it, whichever pass queued it and whichever drains it.  (An order that
   gets its row late may be credited with what the reconciler queued.) *)
THEOREM CreditsAreVetted == ASSUME Late = {} PROVE Spec => []CreditIsVetted
<1>1. Vetting => CreditIsVetted
  BY DEF Vetting, CreditIsVetted, Credits
<1> QED BY TypedAlways, TypedInit, TypedStep, VettingInit, VettingStep, <1>1, PTL DEF Spec
-----------------------------------------------------------------------------
(* Credits add up.  A row of the inbox is drained once: the pass that has  *)
(* picked it is the only one that holds it, and it is queued until then.   *)
(* What its repair is worth does not change afterwards, for its order was  *)
(* paid before the row was written.                                        *)

Holding ==
  \A w \in Passes :
    /\ pass[w].pc # "applying" => pass[w].held = None
    /\ pass[w].pc = "applying" =>
         /\ inbox[pass[w].held] = "queued"
         /\ \A v \in Passes \ {w} : pass[v].held # pass[w].held

PaidFirst == \A r \in Refs : inbox[r] # "absent" => paidBy[OrderOfRef(r)] # None

\* all the units of some repairs
Laid(S) == UNION {Units(r) : r \in S}

Summing ==
  \A o \in Orders :
    IsFiniteSet(Laid(Credits(o))) /\ row[o].credited = Cardinality(Laid(Credits(o)))

LEMMA UnitsCount ==
  ASSUME Tables, NEW r \in Refs
  PROVE  IsFiniteSet(Units(r)) /\ Cardinality(Units(r)) = AmountOfRef(r)
<1> DEFINE a == AmountOfRef(r)
           f == [n \in 1..a |-> <<r, n>>]
<1>1. a \in Nat
  BY RefFacts
<1>2. Units(r) = {r} \X (1..a)
  BY DEF Units
<1> HIDE DEF a
<1>3. f \in Bijection(1..a, Units(r))
  <2>1. f \in [1..a -> Units(r)] /\ \A m, n \in 1..a : f[m] = f[n] => m = n
    BY <1>2
  <2>2. \A u \in Units(r) : \E n \in 1..a : f[n] = u
    BY <1>2
  <2> HIDE DEF f
  <2>3. f \in Injection(1..a, Units(r)) /\ f \in Surjection(1..a, Units(r))
    BY <2>1, <2>2 DEF Injection, Surjection, IsInjective
  <2> QED BY <2>3 DEF Bijection
<1>4. ExistsBijection(1..a, Units(r))
  BY <1>3 DEF ExistsBijection
<1>5. IsFiniteSet(1..a) /\ Cardinality(1..a) = a
  BY <1>1, FS_Interval
<1> QED BY <1>4, <1>5, FS_Bijection DEF a

LEMMA DisjointCounts ==
  ASSUME NEW A, NEW B, IsFiniteSet(A), IsFiniteSet(B), A \cap B = {}
  PROVE  IsFiniteSet(A \cup B) /\ Cardinality(A \cup B) = Cardinality(A) + Cardinality(B)
<1>1. Cardinality(A \cap B) = 0
  BY FS_EmptySet
<1>2. Cardinality(A) \in Nat /\ Cardinality(B) \in Nat
  BY FS_CardinalityType
<1>3. /\ IsFiniteSet(A \cup B)
      /\ Cardinality(A \cup B) = Cardinality(A) + Cardinality(B) - Cardinality(A \cap B)
  BY FS_Union
<1> QED BY ONLY <1>1, <1>2, <1>3

(* One more repair adds what it is worth. *)
LEMMA UnitsAdd ==
  ASSUME Tables, NEW S \in SUBSET Refs, NEW r \in Refs, r \notin S, IsFiniteSet(Laid(S))
  PROVE  /\ IsFiniteSet(Laid(S \cup {r}))
         /\ Cardinality(Laid(S \cup {r})) = Cardinality(Laid(S)) + AmountOfRef(r)
<1>1. Laid(S \cup {r}) = Laid(S) \cup Units(r)
  BY DEF Laid
<1>2. Laid(S) \cap Units(r) = {}
  BY DEF Laid, Units
<1>3. IsFiniteSet(Units(r)) /\ Cardinality(Units(r)) = AmountOfRef(r)
  BY UnitsCount
<1>4. /\ IsFiniteSet(Laid(S) \cup Units(r))
      /\ Cardinality(Laid(S) \cup Units(r)) = Cardinality(Laid(S)) + Cardinality(Units(r))
  BY <1>2, <1>3, DisjointCounts
<1> QED BY ONLY <1>1, <1>3, <1>4, Zenon

LEMMA SummingInit == Init => Holding /\ PaidFirst /\ Summing
<1> SUFFICES ASSUME Init PROVE Holding /\ PaidFirst /\ Summing
  OBVIOUS
<1>1. Holding /\ PaidFirst
  BY DEF Init, Idle, Holding, PaidFirst
<1>2. ASSUME NEW o \in Orders PROVE Laid(Credits(o)) = {} /\ row[o].credited = 0
  BY DEF Init, Credits, Laid
<1> QED BY <1>1, <1>2, FS_EmptySet DEF Summing

(* A step that leaves the inbox alone, and after which the pass that moved holds
   nothing *)
LEMMA HoldingKept ==
  ASSUME Holding, UNCHANGED inbox,
         \A v \in Passes : \/ pass'[v] = pass[v]
                           \/ pass'[v].pc # "applying" /\ pass'[v].held = None,
         \A v \in Passes : pass[v].pc = "applying" => pass[v].held # None
  PROVE  Holding'
BY DEF Holding

LEMMA HoldingStep == Typed /\ Holding /\ [Next]_vars => Holding'
<1> SUFFICES ASSUME Typed, Holding, [Next]_vars
             PROVE  Holding'
  OBVIOUS
<1>0. /\ pass \in [Passes -> PassRecord] /\ inbox \in [Refs -> InboxStates]
      /\ \A v \in Passes : pass[v].pc = "applying" => pass[v].held \in Refs /\ pass[v].held # None
  BY DEF Typed, Tables, Working, Fits
<1>1. ASSUME NEW w \in Passes, UNCHANGED inbox,
             \A v \in Passes \ {w} : pass'[v] = pass[v],
             pass'[w].pc # "applying", pass'[w].held = None
      PROVE  Holding'
  BY <1>0, <1>1, HoldingKept
<1>2. ASSUME NEW w \in Passes, NEW pc, NEW r, NEW status, Begin(w, pc, r, status),
             UNCHANGED inbox, pc # "applying"
      PROVE  Holding'
  <2>1. pass'[w].pc # "applying" /\ pass'[w].held = None
    BY <1>0, <1>2 DEF Begin, Idle
  <2>2. \A v \in Passes \ {w} : pass'[v] = pass[v]
    BY <1>0, <1>2 DEF Begin
  <2> QED BY <1>1, <1>2, <2>1, <2>2
<1>3. ASSUME NEW w \in Passes, Rest(w), UNCHANGED inbox
      PROVE  Holding'
  <2>1. pass'[w].pc # "applying" /\ pass'[w].held = None
    BY <1>0, <1>3 DEF Rest, Idle
  <2>2. \A v \in Passes \ {w} : pass'[v] = pass[v]
    BY <1>0, <1>3 DEF Rest
  <2> QED BY <1>1, <1>3, <2>1, <2>2
<1>4. ASSUME NEW w \in Passes, NEW pc, Goto(w, pc), pc # "applying", pass[w].pc # "applying"
      PROVE  /\ pass'[w].pc # "applying" /\ pass'[w].held = None
             /\ \A v \in Passes \ {w} : pass'[v] = pass[v]
  <2>1. pass[w] \in PassRecord /\ pass[w].held = None
    BY <1>0, <1>4 DEF Holding
  <2>2. pass'[w] = [pass[w] EXCEPT !.pc = pc]
    BY <1>0, <1>4 DEF Goto
  <2>3. pass'[w].pc = pc /\ pass'[w].held = None
    BY <2>1, <2>2 DEF PassRecord
  <2> QED BY <1>0, <1>4, <2>3 DEF Goto
<1>5. ASSUME NEW w \in Passes, NEW p \in Payments, Webhook(w, p) \/ Enumerate(w, p)
      PROVE  Holding'
  <2>1. UNCHANGED inbox /\ \E pc \in {"start", "listed", "drifted"} : \E r, status : Begin(w, pc, r, status)
    BY <1>5 DEF Webhook, Enumerate
  <2> QED BY <1>2, <2>1
<1>6. ASSUME NEW w \in Passes, NEW o \in Orders, Poll(w, o)
      PROVE  Holding'
  <2>1. UNCHANGED inbox /\ \E r : Begin(w, "start", r, "captured")
    BY <1>6 DEF Poll
  <2> QED BY <1>2, <2>1
<1>7. ASSUME NEW w \in Passes, List(w) \/ Recover(w) \/ Escalate(w) \/ Refresh(w) \/ Insert(w)
                               \/ DrainEnd(w) \/ Abort(w)
      PROVE  Holding'
  <2>1. UNCHANGED inbox
    BY <1>7 DEF List, Recover, Escalate, Refresh, Insert, DrainEnd, Abort
  <2>2. \/ Rest(w)
        \/ \E r, status : Begin(w, "start", r, status)
        \/ pass[w].pc # "applying" /\ \E pc \in {"recording", "inserting", "drained"} : Goto(w, pc)
    BY <1>7 DEF List, Recover, Escalate, Refresh, Insert, DrainEnd, Abort
  <2>3. CASE Rest(w)
    BY <1>3, <2>1, <2>3
  <2>4. CASE \E r, status : Begin(w, "start", r, status)
    BY <1>2, <2>1, <2>4
  <2>5. CASE pass[w].pc # "applying" /\ \E pc \in {"recording", "inserting", "drained"} : Goto(w, pc)
    BY <1>1, <1>4, <2>1, <2>5
  <2> QED BY <2>2, <2>3, <2>4, <2>5
<1>8. ASSUME NEW w \in Passes, Judge(w)
      PROVE  Holding'
  <2>1. pass'[w].pc # "applying" /\ \A v \in Passes \ {w} : pass'[v] = pass[v]
    BY <1>8, Judged
  <2>2. pass'[w].held = None /\ UNCHANGED inbox
    <3> DEFINE rule == Decide(pass[w].ref, pass[w].status, row[OrderOfRef(pass[w].ref)])
    <3>1. pass'[w] = IF rule = "clean-capture"
                     THEN [Idle EXCEPT !.pc = "auto", !.ref = pass[w].ref]
                     ELSE [Idle EXCEPT !.pc = "escalating", !.ref = pass[w].ref, !.rule = rule]
      BY <1>0, <1>8 DEF Judge
    <3> HIDE DEF rule
    <3>2. pass'[w].held = None
      BY ONLY <3>1 DEF Idle
    <3> QED BY <1>8, <3>2 DEF Judge
  <2> QED BY <1>1, <2>1, <2>2
<1>9. ASSUME NEW w \in Passes, ReadBack(w)
      PROVE  Holding'
  <2>1. pass[w] \in PassRecord /\ pass[w].held = None /\ UNCHANGED inbox
    BY <1>0, <1>9 DEF ReadBack, Holding
  <2>2. /\ pass'[w].pc \in {"recovering", "recording"} /\ pass'[w].held = None
        /\ \A v \in Passes \ {w} : pass'[v] = pass[v]
    BY <1>0, <1>9, <2>1 DEF ReadBack, Goto, PassRecord
  <2> QED BY <1>1, <2>1, <2>2
\* a row that is queued stays so, and a new one is held by nobody
<1>10. ASSUME NEW w \in Passes, QueueDrifted(w) \/ Queue(w)
       PROVE  Holding'
  <2>1. \A r \in Refs : inbox[r] = "queued" => inbox'[r] = "queued"
    BY <1>0, <1>10 DEF QueueDrifted, Queue
  <2>2. /\ pass'[w].pc # "applying" /\ pass'[w].held = None
        /\ \A v \in Passes \ {w} : pass'[v] = pass[v]
    <3>1. pass[w].pc # "applying" /\ \E pc \in {"listed", "draining"} : Goto(w, pc)
      BY <1>10 DEF QueueDrifted, Queue
    <3> QED BY <1>4, <3>1
  <2> QED BY <1>0, <2>1, <2>2 DEF Holding
<1>11. ASSUME NEW w \in Passes, DrainPick(w)
       PROVE  Holding'
  <2>1. PICK r \in Refs : Drainable(r) /\ pass' = [pass EXCEPT ![w].pc = "applying", ![w].held = r]
    BY <1>11 DEF DrainPick
  <2>2. pass'[w].pc = "applying" /\ pass'[w].held = r /\ \A v \in Passes \ {w} : pass'[v] = pass[v]
    BY <1>0, <2>1 DEF PassRecord
  <2>3. inbox' = inbox /\ inbox[r] = "queued" /\ \A v \in Passes : pass[v].held # r
    BY <1>11, <2>1 DEF DrainPick, Drainable, Held
  <2> QED BY <1>0, <2>2, <2>3 DEF Holding
<1>12. ASSUME NEW w \in Passes, DrainApply(w) \/ HandlerThrows(w)
       PROVE  Holding'
  <2>1. /\ pass'[w].pc = "draining" /\ pass'[w].held = None
        /\ \A v \in Passes \ {w} : pass'[v] = pass[v]
    BY <1>0, <1>12 DEF DrainApply, HandlerThrows, PassRecord
  <2>2. pass[w].pc = "applying" /\ \A q \in Refs : q # pass[w].held => inbox'[q] = inbox[q]
    BY <1>0, <1>12 DEF DrainApply, HandlerThrows
  <2> QED BY <1>0, <2>1, <2>2 DEF Holding
<1>13. ASSUME Environment \/ UNCHANGED vars
       PROVE  Holding'
  <2>1. UNCHANGED <<pass, inbox>>
    BY <1>13 DEF Environment, Capture, Refund, LeavePage, RowAppears, RowRefunded, Acknowledge, vars
  <2> QED BY <2>1 DEF Holding
<1>14. ASSUME NEW r \in Refs, BackoffEnds(r)
       PROVE  Holding'
  <2>1. UNCHANGED pass /\ \A q \in Refs : inbox[q] = "queued" => inbox'[q] = "queued"
    BY <1>0, <1>14 DEF BackoffEnds
  <2> QED BY <1>0, <2>1 DEF Holding
<1> QED BY <1>5, <1>6, <1>7, <1>8, <1>9, <1>10, <1>11, <1>12, <1>13, <1>14 DEF Next, Advance

(* The routes write rows about paid orders only. *)
LEMMA PaidFirstStep == Typed /\ PaidFirst /\ Holding /\ [Next]_vars => PaidFirst'
<1> SUFFICES ASSUME Typed, PaidFirst, Holding, [Next]_vars, NEW r \in Refs, inbox'[r] # "absent"
             PROVE  paidBy'[OrderOfRef(r)] # None
  BY DEF PaidFirst, OrderOfRef
<1>1. paidBy' = paidBy \/ \E p \in Payments : Capture(p)
  BY DEF Next, vars, Environment, Advance, Refund, LeavePage, RowAppears, RowRefunded, Acknowledge, Webhook,
         Enumerate, Poll, QueueDrifted, List, Judge, Queue, DrainPick, DrainApply, DrainEnd, ReadBack,
         Recover, Escalate, Refresh, Insert, HandlerThrows, Abort, BackoffEnds, Outside
<1>2. inbox[r] # "absent" \/ \E w \in Passes : pass[w].pc # "idle" /\ pass[w].ref = r
  <2>1. CASE UNCHANGED inbox
    BY <2>1
  <2>2. ASSUME NEW w \in Passes, QueueDrifted(w) \/ Queue(w)
        PROVE  inbox[r] # "absent" \/ (pass[w].pc # "idle" /\ pass[w].ref = r)
    BY <2>2 DEF QueueDrifted, Queue, Typed, Tables
  <2>3. ASSUME NEW w \in Passes, DrainApply(w) \/ HandlerThrows(w)
        PROVE  inbox[r] # "absent"
    <3>1. inbox[pass[w].held] = "queued"
      BY <2>3 DEF Holding, DrainApply, HandlerThrows
    <3>2. r # pass[w].held => inbox'[r] = inbox[r]
      BY <2>3 DEF DrainApply, HandlerThrows, Typed, Tables
    <3> QED BY <3>1, <3>2
  <2>4. ASSUME NEW q \in Refs, BackoffEnds(q)
        PROVE  inbox[r] # "absent"
    BY <2>4 DEF BackoffEnds, Typed, Tables
  <2>5. \/ UNCHANGED inbox
        \/ \E w \in Passes : QueueDrifted(w) \/ Queue(w) \/ DrainApply(w) \/ HandlerThrows(w)
        \/ \E q \in Refs : BackoffEnds(q)
    BY DEF Next, vars, Environment, Advance, Capture, Refund, LeavePage, RowAppears, RowRefunded, Acknowledge,
           Webhook, Enumerate, Poll, List, Judge, DrainPick, DrainEnd, ReadBack, Recover, Escalate,
           Refresh, Insert, Abort
  <2> QED BY <2>1, <2>2, <2>3, <2>4, <2>5
<1>3. paidBy[OrderOfRef(r)] # None
  BY <1>2 DEF PaidFirst, Typed, Working, Fits
<1> QED BY <1>1, <1>3, PaidStays DEF Typed

(* What is credited changes by a drained row only, and so does what an order shows. *)
LEMMA CreditsKept ==
  ASSUME Typed, Holding, [Next]_vars, \A w \in Passes : ~DrainApply(w)
  PROVE  \A o \in Orders : Credits(o)' = Credits(o) /\ row'[o].credited = row[o].credited
<1>1. \A o \in Orders : row'[o].credited = row[o].credited
  <2>1. CASE UNCHANGED row
    BY <2>1
  <2>2. ASSUME NEW q \in Orders, RowAppears(q) \/ RowRefunded(q)
        PROVE  \A o \in Orders : row'[o].credited = row[o].credited
    <3>1. row \in [Orders -> [here : BOOLEAN, status : Statuses, credited : Nat]]
      BY DEF Typed, Tables
    <3>2. \/ row' = [row EXCEPT ![q].here = TRUE]
          \/ row' = [row EXCEPT ![q].status = "refunded"]
      BY <2>2 DEF RowAppears, RowRefunded
    <3>3. /\ [row[q] EXCEPT !.here = TRUE].credited = row[q].credited
          /\ [row[q] EXCEPT !.status = "refunded"].credited = row[q].credited
      BY <3>1
    <3> QED BY ONLY <3>1, <3>2, <3>3
  <2> QED BY <2>1, <2>2, RowChanges
<1>2. \A r \in Refs : inbox'[r] = "applied" <=> inbox[r] = "applied"
  <2>1. CASE UNCHANGED inbox
    BY <2>1
  <2>2. ASSUME NEW w \in Passes, QueueDrifted(w) \/ Queue(w)
        PROVE  \A r \in Refs : inbox'[r] = "applied" <=> inbox[r] = "applied"
    BY <2>2 DEF QueueDrifted, Queue, Typed, Tables
  <2>3. ASSUME NEW w \in Passes, HandlerThrows(w)
        PROVE  \A r \in Refs : inbox'[r] = "applied" <=> inbox[r] = "applied"
    BY <2>3 DEF HandlerThrows, Holding, Typed, Tables
  <2>4. ASSUME NEW q \in Refs, BackoffEnds(q)
        PROVE  \A r \in Refs : inbox'[r] = "applied" <=> inbox[r] = "applied"
    BY <2>4 DEF BackoffEnds, Typed, Tables
  <2>5. \/ UNCHANGED inbox
        \/ \E w \in Passes : QueueDrifted(w) \/ Queue(w) \/ HandlerThrows(w)
        \/ \E q \in Refs : BackoffEnds(q)
    BY DEF Next, vars, Environment, Advance, Capture, Refund, LeavePage, RowAppears, RowRefunded, Acknowledge,
           Webhook, Enumerate, Poll, List, Judge, DrainPick, DrainEnd, ReadBack, Recover, Escalate,
           Refresh, Insert, Abort
  <2> QED BY <2>1, <2>2, <2>3, <2>4, <2>5
<1> QED BY <1>1, <1>2 DEF Credits, OrderOfRef

LEMMA SummingStep == Typed /\ Holding /\ PaidFirst /\ Summing /\ [Next]_vars => Summing'
<1> SUFFICES ASSUME Typed, Holding, PaidFirst, Summing, [Next]_vars, NEW o \in Orders
             PROVE  /\ IsFiniteSet(Laid(Credits(o)))'
                    /\ row'[o].credited = Cardinality(Laid(Credits(o)))'
  BY DEF Summing
<1>0. /\ IsFiniteSet(Laid(Credits(o))) /\ row[o].credited = Cardinality(Laid(Credits(o)))
      /\ Tables /\ Credits(o) \in SUBSET Refs
  BY DEF Summing, Typed, Credits
<1>1. CASE \A w \in Passes : ~DrainApply(w)
  <2>1. Credits(o)' = Credits(o) /\ row'[o].credited = row[o].credited
    BY <1>1, CreditsKept
  <2>2. ASSUME NEW r \in Credits(o) PROVE Units(r)' = Units(r)
    <3>1. r \in Refs /\ paidBy[OrderOfRef(r)] # None
      BY DEF Credits, PaidFirst
    <3>2. paidBy' = paidBy \/ \E p \in Payments : Capture(p)
      BY DEF Next, vars, Environment, Advance, Refund, LeavePage, RowAppears, RowRefunded, Acknowledge, Webhook,
             Enumerate, Poll, QueueDrifted, List, Judge, Queue, DrainPick, DrainApply, DrainEnd,
             ReadBack, Recover, Escalate, Refresh, Insert, HandlerThrows, Abort, BackoffEnds, Outside
    <3>3. AmountOfRef(r)' = AmountOfRef(r)
      BY <1>0, <3>1, <3>2, PaidStays
    <3> QED BY <3>3 DEF Units
  <2>3. Laid(Credits(o))' = Laid(Credits(o))
    BY <2>1, <2>2 DEF Laid
  <2> QED BY <1>0, <2>1, <2>3
<1>2. ASSUME NEW w \in Passes, DrainApply(w)
      PROVE  /\ IsFiniteSet(Laid(Credits(o)))'
             /\ row'[o].credited = Cardinality(Laid(Credits(o)))'
  <2> DEFINE r == pass[w].held
  <2>1. r \in Refs /\ inbox[r] = "queued" /\ OrderOfRef(r) \in Orders
    BY <1>2, OneCredit DEF Holding, DrainApply
  <2>2. \A S : Laid(S)' = Laid(S)
    BY <1>2 DEF DrainApply, Outside, Laid, Units, AmountOfRef
  <2>3. \/ /\ row' = row /\ inbox' = [inbox EXCEPT ![r] = "missed"]
        \/ /\ row' = [row EXCEPT ![OrderOfRef(r)].status = "paid",
                                 ![OrderOfRef(r)].credited = @ + AmountOfRef(r)]
           /\ inbox' = [inbox EXCEPT ![r] = "applied"]
    BY <1>2 DEF DrainApply
  <2> HIDE DEF r
  <2>4. CASE row' = row /\ inbox' = [inbox EXCEPT ![r] = "missed"]
    <3>1. Credits(o)' = Credits(o)
      BY <1>0, <2>1, <2>4 DEF Credits, OrderOfRef, Tables
    <3> QED BY <1>0, <2>2, <2>4, <3>1
  <2>5. CASE /\ row' = [row EXCEPT ![OrderOfRef(r)].status = "paid",
                                   ![OrderOfRef(r)].credited = @ + AmountOfRef(r)]
             /\ inbox' = [inbox EXCEPT ![r] = "applied"]
    <3>1. CASE OrderOfRef(r) = o
      <4>1. Credits(o)' = Credits(o) \cup {r} /\ r \notin Credits(o)
        BY <1>0, <2>1, <2>5, <3>1 DEF Credits, OrderOfRef, Tables
      <4>2. row'[o].credited = row[o].credited + AmountOfRef(r)
        BY <1>0, <2>1, <2>5, <3>1 DEF Tables
      <4>3. /\ IsFiniteSet(Laid(Credits(o) \cup {r}))
            /\ Cardinality(Laid(Credits(o) \cup {r})) = Cardinality(Laid(Credits(o))) + AmountOfRef(r)
        BY <1>0, <2>1, <4>1, UnitsAdd
      <4> QED BY <1>0, <2>2, <4>1, <4>2, <4>3
    <3>2. CASE OrderOfRef(r) # o
      <4>1. Credits(o)' = Credits(o) /\ row'[o] = row[o]
        BY <1>0, <2>1, <2>5, <3>2 DEF Credits, OrderOfRef, Tables
      <4> QED BY <1>0, <2>2, <4>1
    <3> QED BY <3>1, <3>2
  <2> QED BY <2>3, <2>4, <2>5
<1> QED BY <1>1, <1>2

(* No credit is lost or made twice: what an order's row shows is the sum of the
   repairs that changed it, for any number of passes that drain the same rows,
   fail and are taken up again (processOne's transaction under applyThroughHandler). *)
THEOREM CreditsAddUp == Spec => []CreditIsSum
<1>1. Summing => CreditIsSum
  BY DEF Summing, CreditIsSum, Laid
<1> QED BY TypedAlways, SummingInit, HoldingStep, PaidFirstStep, SummingStep, <1>1, PTL DEF Spec
=============================================================================
