--------------------------- MODULE ApprovalsProofs ---------------------------
(***************************************************************************)
(* A payment is credited once, for any number of payments, tokens and      *)
(* calls (RecoveryCreditsOnce).                                            *)
(*                                                                         *)
(* The property is not inductive: a second pending row for a payment that  *)
(* is credited already would break it.  What excludes that row is that a   *)
(* payment's row is the one under its own id (OneRow): whoever queues it   *)
(* names it alike, and a row leaves `pending' once.                        *)
(***************************************************************************)
EXTENDS Approvals, TLAPS

(* A call that has asked Razorpay knows a payment, and only those that took a token
   hold a plan. *)
Informed ==
  \A c \in Requests : request[c].pc \in {"asked", "checked", "draining"} => request[c].payment \in Payments

(* The row under a payment's id tells of that payment; no row has a token's id. *)
OneRow ==
  /\ \A p \in Payments : inbox[p].state # "none" => inbox[p].payment = p
  /\ \A t \in Tokens : inbox[t].state = "none"

(* A payment whose row is still to be processed is not credited yet. *)
Uncredited == \A p \in Payments : inbox[p].state \in {"none", "pending"} => credits[p] = 0

IInv == TypeOK /\ Informed /\ OneRow /\ Uncredited /\ RecoveryCreditsOnce
-----------------------------------------------------------------------------
(* A refund's id is neither a payment nor a token. *)
LEMMA IdsApart ==
  /\ \A p \in Payments : p \notin Tokens /\ p # None /\ p \in Ids
  /\ \A p \in Payments : Refund(p) \notin Payments /\ Refund(p) \notin Tokens /\ Refund(p) \in Ids
  /\ \A t \in Tokens : t \in Ids
BY ApprovalsAssumption DEF Ids

(* The initial states satisfy the invariant. *)
LEMMA InitHolds == Init => IInv
BY IdsApart
DEF Init, IInv, TypeOK, Informed, OneRow, Uncredited, RecoveryCreditsOnce, Rows, Waiting

Pending(i, p) == [inbox EXCEPT ![i] = [state |-> "pending", payment |-> p]]

(* Queueing a payment under its own id, or its refund, keeps what is said of rows. *)
LEMMA InsertKeeps ==
  ASSUME IInv, NEW i \in Ids, NEW p \in Payments, Insert(i, p),
         i = p \/ i = Refund(p), UNCHANGED credits
  PROVE  /\ inbox' \in [Ids -> [state : {"none", "pending", "applied", "no_handler", "ignored_stale"},
                                payment : Payments \cup {None}]]
         /\ OneRow' /\ Uncredited' /\ RecoveryCreditsOnce'
<1>1. CASE inbox' = inbox
  BY <1>1 DEF IInv, TypeOK, OneRow, Uncredited, RecoveryCreditsOnce
<1>2. CASE inbox' = Pending(i, p) /\ inbox[i].state = "none"
  <2>1. inbox' \in [Ids -> [state : {"none", "pending", "applied", "no_handler", "ignored_stale"},
                            payment : Payments \cup {None}]]
    BY <1>2 DEF IInv, TypeOK, Pending
  <2>2. \A j \in Ids : j # i => inbox'[j] = inbox[j]
    BY <1>2 DEF IInv, TypeOK, Pending
  <2>3. inbox'[i] = [state |-> "pending", payment |-> p]
    BY <1>2 DEF IInv, TypeOK, Pending
  <2>4. i \notin Tokens /\ (i \in Payments => i = p)
    BY IdsApart
  <2>5. OneRow'
    BY <2>2, <2>3, <2>4, IdsApart DEF IInv, OneRow
  <2>6. Uncredited' /\ RecoveryCreditsOnce'
    BY <1>2, <2>2, <2>3, <2>4, IdsApart DEF IInv, Uncredited, RecoveryCreditsOnce
  <2> QED BY <2>1, <2>5, <2>6
<1> QED BY <1>1, <1>2 DEF Insert, Pending
-----------------------------------------------------------------------------
(* Processing a row keeps the types of what it changes, and credits a payment only
   out of its own pending row. *)
LEMMA ProcessKeeps ==
  ASSUME IInv, NEW i \in Ids, NEW handled, Process(i, handled)
  PROVE  /\ inbox' \in [Ids -> [state : {"none", "pending", "applied", "no_handler", "ignored_stale"},
                                payment : Payments \cup {None}]]
         /\ rank' \in {0, 2, 3} /\ order' \in Rows /\ credits' \in [Payments -> Nat]
         /\ OneRow' /\ Uncredited' /\ RecoveryCreditsOnce'
<1>1. PICK as \in {"applied", "no_handler", "ignored_stale"} :
        inbox' = [inbox EXCEPT ![i].state = as]
  BY DEF Process
<1>2. /\ inbox' \in [Ids -> [state : {"none", "pending", "applied", "no_handler", "ignored_stale"},
                             payment : Payments \cup {None}]]
      /\ \A j \in Ids : inbox'[j].payment = inbox[j].payment
      /\ \A j \in Ids : j # i => inbox'[j].state = inbox[j].state
      /\ inbox'[i].state = as
  BY <1>1, ZenonT(40) DEF IInv, TypeOK
<1>3. inbox[i].state = "pending" /\ i \notin Tokens
  BY DEF Process, IInv, OneRow
<1>4. OneRow'
  BY <1>2, <1>3, IdsApart DEF IInv, OneRow
<1>5. \/ UNCHANGED credits
      \/ i \in Payments /\ credits' = [credits EXCEPT ![i] = @ + 1]
  <2>1. CASE \E p \in Payments : i = Refund(p)
    BY <2>1 DEF Process
  <2>2. CASE ~\E p \in Payments : i = Refund(p)
    <3>1. i \in Payments
      BY <2>2, <1>3 DEF Ids
    <3>2. inbox[i].payment = i
      BY <3>1, <1>3 DEF IInv, OneRow
    <3> QED BY <2>2, <3>1, <3>2 DEF Process
  <2> QED BY <2>1, <2>2
<1>6. credits' \in [Payments -> Nat]
  BY <1>5 DEF IInv, TypeOK
<1>7. Uncredited' /\ RecoveryCreditsOnce'
  <2>1. \A p \in Payments : inbox[p].state = "pending" => credits[p] = 0
    BY DEF IInv, Uncredited
  <2>2. \A p \in Payments : p # i => credits'[p] = credits[p] /\ inbox'[p].state = inbox[p].state
    BY <1>2, <1>5, IdsApart DEF IInv, TypeOK
  <2>3. i \in Payments => credits'[i] \in {0, 1} /\ inbox'[i].state \notin {"none", "pending"}
    <3> SUFFICES ASSUME i \in Payments PROVE credits'[i] \in {0, 1} /\ inbox'[i].state \notin {"none", "pending"}
      OBVIOUS
    <3>1. credits[i] = 0 /\ credits \in [Payments -> Nat]
      BY <1>3, <2>1 DEF IInv, TypeOK
    <3>2. credits'[i] \in {0, 1}
      BY <1>5, <3>1
    <3> QED BY <1>2, <3>2
  <2> QED BY <2>2, <2>3 DEF IInv, Uncredited, RecoveryCreditsOnce
<1>8. rank' \in {0, 2, 3} /\ order' \in Rows
  <2>1. rank' \in {rank, 2, 3}
    BY DEF Process
  <2>2. \/ UNCHANGED order
        \/ order' = [status |-> "refunded", credited |-> FALSE]
        \/ order' = [status |-> "paid", credited |-> TRUE]
    <3>1. CASE \E p \in Payments : i = Refund(p)
      BY <3>1 DEF Process
    <3>2. CASE ~\E p \in Payments : i = Refund(p)
      BY <3>2 DEF Process
    <3> QED BY <3>1, <3>2
  <2>3. /\ [status |-> "refunded", credited |-> FALSE] \in Rows
        /\ [status |-> "paid", credited |-> TRUE] \in Rows
    BY DEF Rows
  <2>4. order \in Rows /\ rank \in {0, 2, 3}
    BY DEF IInv, TypeOK
  <2> QED BY <2>1, <2>2, <2>3, <2>4
<1> QED BY <1>2, <1>4, <1>6, <1>7, <1>8
-----------------------------------------------------------------------------
(* Every step keeps the invariant. *)
LEMMA StepKeeps == IInv /\ [Next]_vars => IInv'
<1> SUFFICES ASSUME IInv, [Next]_vars PROVE IInv'
  OBVIOUS
<1>0. Waiting \in [pc : {"waiting", "taken", "asked", "checked", "draining"}, token : Tokens \cup {None},
                   plan : Plans \cup {None}, payment : Payments \cup {None}]
  BY DEF Waiting
<1>1. ASSUME NEW p \in Payments, Capture(p) PROVE IInv'
  BY <1>1 DEF Capture, IInv, TypeOK, Informed, OneRow, Uncredited, RecoveryCreditsOnce
<1>2. ASSUME NEW p \in Payments, RefundPayment(p) PROVE IInv'
  <2>1. Refund(p) \in Ids /\ UNCHANGED credits /\ Insert(Refund(p), p)
    BY <1>2, IdsApart DEF RefundPayment
  <2> QED BY <1>2, <2>1, InsertKeeps DEF RefundPayment, IInv, TypeOK, Informed
<1>3. ASSUME NEW p \in Payments, Reconcile(p) PROVE IInv'
  <2>1. p \in Ids /\ UNCHANGED credits /\ Insert(p, p)
    BY <1>3, IdsApart DEF Reconcile, World
  <2> QED BY <1>3, <2>1, InsertKeeps DEF Reconcile, World, IInv, TypeOK, Informed
<1>4. ASSUME NEW i \in Ids, MerchantWorks(i) PROVE IInv'
  BY <1>4, ProcessKeeps DEF MerchantWorks, IInv, TypeOK, Informed
<1>5. ASSUME NEW c \in Requests, Ask(c) PROVE IInv'
  <2>1. First(Settled) \in Payments
    BY <1>5 DEF Ask, First, Settled
  <2>2. request[c] \in [pc : {"waiting", "taken", "asked", "checked", "draining"},
                        token : Tokens \cup {None}, plan : Plans \cup {None},
                        payment : Payments \cup {None}]
    BY DEF IInv, TypeOK
  <2> DEFINE new == [[request[c] EXCEPT !.pc = "asked"] EXCEPT !.payment = First(Settled)]
  <2>3. /\ request' \in [Requests -> [pc : {"waiting", "taken", "asked", "checked", "draining"},
                                      token : Tokens \cup {None}, plan : Plans \cup {None},
                                      payment : Payments \cup {None}]]
        /\ Informed'
    <3>1. new \in [pc : {"asked"}, token : Tokens \cup {None}, plan : Plans \cup {None},
                   payment : Payments]
      BY <2>1, <2>2
    <3>2. request' = [request EXCEPT ![c] = new]
      BY <1>5 DEF Ask
    <3> HIDE DEF new
    <3> QED BY <3>1, <3>2 DEF IInv, TypeOK, Informed
  <2>4. UNCHANGED <<provider, rank, order, credits, inbox, plan>>
    BY <1>5 DEF Ask, World
  <2>5. TypeOK'
    BY <2>3, <2>4 DEF IInv, TypeOK
  <2>6. OneRow' /\ Uncredited' /\ RecoveryCreditsOnce'
    BY <2>4 DEF IInv, OneRow, Uncredited, RecoveryCreditsOnce
  <2> QED
    BY <2>3, <2>5, <2>6 DEF IInv
<1>6. ASSUME NEW c \in Requests, NEW t \in Tokens, Propose(c, t) PROVE IInv'
  <2>1. [payment |-> request[c].payment, row |-> order] \in Plans
    BY <1>6 DEF Propose, IInv, TypeOK, Informed, Plans
  <2> QED
    BY <1>0, <1>6, <2>1
    DEF Propose, End, World, Waiting, IInv, TypeOK, Informed, OneRow, Uncredited, RecoveryCreditsOnce
<1>7. ASSUME NEW c \in Requests, NEW t \in Tokens, Take(c, t) PROVE IInv'
  BY <1>0, <1>7
  DEF Take, World, Waiting, IInv, TypeOK, Informed, OneRow, Uncredited, RecoveryCreditsOnce
<1>8. ASSUME NEW t \in Tokens, Expire(t) PROVE IInv'
  <2>1. UNCHANGED <<provider, inbox, rank, order, credits, request>>
    BY <1>8 DEF Expire, World
  <2>2. plan' \in [Tokens -> Plans \cup {None}]
    BY <1>8 DEF Expire, IInv, TypeOK
  <2>3. TypeOK'
    BY <2>1, <2>2 DEF IInv, TypeOK
  <2> QED
    BY <2>1, <2>3 DEF IInv, Informed, OneRow, Uncredited, RecoveryCreditsOnce
<1>9. ASSUME NEW c \in Requests, Check(c) PROVE IInv'
  <2>1. UNCHANGED <<provider, inbox, rank, order, credits>>
    BY <1>9 DEF Check, World
  <2>2. plan' \in [Tokens -> Plans \cup {None}]
    BY <1>9 DEF Check, IInv, TypeOK
  <2>3. CASE Goto(c, "checked")
    <3>1. request[c].pc = "asked"
      BY <1>9 DEF Check
    <3> QED
      BY <2>1, <2>2, <2>3, <3>1
      DEF Goto, IInv, TypeOK, Informed, OneRow, Uncredited, RecoveryCreditsOnce
  <2>4. CASE End(c)
    BY <1>0, <2>1, <2>2, <2>4
    DEF End, Waiting, IInv, TypeOK, Informed, OneRow, Uncredited, RecoveryCreditsOnce
  <2> QED BY <1>9, <2>3, <2>4 DEF Check
<1>10. ASSUME NEW c \in Requests, Queue(c) PROVE IInv'
  <2>1. PICK p \in Payments : p = request[c].payment
    BY <1>10 DEF Queue, IInv, Informed
  <2>2. p \in Ids /\ UNCHANGED credits /\ Insert(p, p)
    BY <1>10, <2>1, IdsApart DEF Queue, EventId, World
  <2> QED BY <1>10, <2>1, <2>2, InsertKeeps DEF Queue, Goto, World, IInv, TypeOK, Informed
<1>11. ASSUME NEW c \in Requests, NEW i \in Ids, Drain(c, i) PROVE IInv'
  BY <1>11, ProcessKeeps DEF Drain, IInv, TypeOK, Informed
<1>12. ASSUME NEW c \in Requests, Finish(c) PROVE IInv'
  BY <1>0, <1>12
  DEF Finish, End, World, Waiting, IInv, TypeOK, Informed, OneRow, Uncredited, RecoveryCreditsOnce
<1>13. ASSUME NEW c \in Requests, Fail(c) PROVE IInv'
  BY <1>0, <1>13
  DEF Fail, End, World, Waiting, IInv, TypeOK, Informed, OneRow, Uncredited, RecoveryCreditsOnce
<1>14. CASE Restart
  BY <1>0, <1>14
  DEF Restart, World, Waiting, IInv, TypeOK, Informed, OneRow, Uncredited, RecoveryCreditsOnce
<1>15. CASE UNCHANGED vars
  BY <1>15 DEF vars, IInv, TypeOK, Informed, OneRow, Uncredited, RecoveryCreditsOnce
<1> QED
  BY <1>1, <1>2, <1>3, <1>4, <1>5, <1>6, <1>7, <1>8, <1>9, <1>10, <1>11, <1>12, <1>13, <1>14, <1>15
  DEF Next

(* Every variable keeps its type. *)
THEOREM TypeCorrect == Spec => []TypeOK
<1>1. IInv => TypeOK
  BY DEF IInv
<1> QED BY InitHolds, StepKeeps, <1>1, PTL DEF Spec

(* No payment is added to the merchant's row twice, whatever tokens are drawn, taken
   again, expire or die with the tool server, and whoever else queues and drains. *)
THEOREM CreditedAtMostOnce == Spec => []RecoveryCreditsOnce
<1>1. IInv => RecoveryCreditsOnce
  BY DEF IInv
<1> QED BY InitHolds, StepKeeps, <1>1, PTL DEF Spec
=============================================================================
