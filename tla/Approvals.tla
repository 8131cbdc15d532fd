------------------------------ MODULE Approvals ------------------------------
(***************************************************************************)
(* src/mcp/server.js: raze_propose_recovery issues a token for a plan,     *)
(* raze_apply_recovery takes it and drains the inbox, beside the           *)
(* merchant's own worker and the reconciliation.  One order; payments,     *)
(* refunds and the events that tell of them are known by the payment.      *)
(*                                                                         *)
(* The tool server answers its calls concurrently.  A call reads Razorpay  *)
(* first and the merchant's row afterwards (orderTrail).                   *)
(***************************************************************************)
EXTENDS Integers, FiniteSets

CONSTANTS
  Payments,    \* the order's payments: a customer may pay twice
  Tokens,      \* approval tokens that can be drawn
  Requests,    \* bound: calls of the two tools under way at a time
  None

Refund(p) == <<"refund", p>>

\* the three kinds of event ids do not meet: pay_..., a token, rfnd_...
ASSUME ApprovalsAssumption ==
  /\ None \notin Payments \cup Tokens /\ Payments \cap Tokens = {}
  /\ \A p \in Payments : Refund(p) \notin Payments \cup Tokens

Ids == Payments \cup Tokens \cup {Refund(p) : p \in Payments}

VARIABLES
  provider, \* provider[p]: none, captured or refunded
  inbox,    \* inbox[i]: the row with event id i, and the payment it tells of
  rank,     \* raze_subject_state
  order,    \* the merchant's row: its status, and whether it is credited
  credits,  \* credits[p]: how often p was added to the row
  plan,     \* PENDING[t]: payment and row the token's plan was derived from
  request   \* request[c]: where a call stands, and what it holds

vars == <<provider, inbox, rank, order, credits, plan, request>>

Rows == [status : {"created", "paid", "refunded"}, credited : BOOLEAN]
Plans == [payment : Payments, row : Rows]
Waiting == [pc |-> "waiting", token |-> None, plan |-> None, payment |-> None]

TypeOK ==
  /\ provider \in [Payments -> {"none", "captured", "refunded"}]
  /\ inbox \in [Ids -> [state : {"none", "pending", "applied", "no_handler", "ignored_stale"},
                        payment : Payments \cup {None}]]
  /\ rank \in {0, 2, 3}
  /\ order \in Rows
  /\ credits \in [Payments -> Nat]
  /\ plan \in [Tokens -> Plans \cup {None}]
  /\ request \in [Requests -> [pc : {"waiting", "taken", "asked", "checked", "draining"},
                               token : Tokens \cup {None}, plan : Plans \cup {None},
                               payment : Payments \cup {None}]]

Init ==
  /\ provider = [p \in Payments |-> "none"]
  /\ inbox = [i \in Ids |-> [state |-> "none", payment |-> None]]
  /\ rank = 0
  /\ order = [status |-> "created", credited |-> FALSE]
  /\ credits = [p \in Payments |-> 0]
  /\ plan = [t \in Tokens |-> None]
  /\ request = [c \in Requests |-> Waiting]
-----------------------------------------------------------------------------
(* A faulty variant of the definition below. *)

\* every approval is an event of its own
EventId_perToken(p, t) == t
-----------------------------------------------------------------------------
Settled == {p \in Payments : provider[p] \in {"captured", "refunded"}}
First(S) == CHOOSE p \in S : TRUE  \* the first one listed
World == <<provider, rank, order, credits>>
Goto(c, pc) == request' = [request EXCEPT ![c].pc = pc]
End(c) == request' = [request EXCEPT ![c] = Waiting]

(* eventId = 'recon_' + payment.id, as the reconciliation's *)
EventId(p, t) == p

(* INSERT ... ON CONFLICT DO NOTHING *)
Insert(i, p) ==
  inbox' = IF inbox[i].state = "none" THEN [inbox EXCEPT ![i] = [state |-> "pending", payment |-> p]]
           ELSE inbox
-----------------------------------------------------------------------------
(* Outside: Razorpay, the merchant's endpoint, and the reconciliation *)

Capture(p) ==
  /\ provider[p] = "none"
  /\ provider' = [provider EXCEPT ![p] = "captured"]
  /\ UNCHANGED <<inbox, rank, order, credits, plan, request>>

(* The refund's webhook is delivered; the capture's is the one that got lost. *)
RefundPayment(p) ==
  /\ provider[p] = "captured"
  /\ provider' = [provider EXCEPT ![p] = "refunded"]
  /\ Insert(Refund(p), p)
  /\ UNCHANGED <<rank, order, credits, plan, request>>

Reconcile(p) ==
  /\ p \in Settled /\ ~order.credited
  /\ Insert(p, p)
  /\ UNCHANGED <<World, plan, request>>
-----------------------------------------------------------------------------
(* processOne of event i (module Runtime has its steps), by a runtime that has the
   handlers `handled'. *)
Process(i, handled) ==
  LET kind == IF \E p \in Payments : i = Refund(p) THEN "refund" ELSE "capture"
      new == IF kind = "refund" THEN 3 ELSE 2
      p == inbox[i].payment
      Resolve(as) == inbox' = [inbox EXCEPT ![i].state = as]
  IN
  /\ inbox[i].state = "pending"
  /\ IF new < rank
     THEN Resolve("ignored_stale") /\ UNCHANGED <<rank, order, credits>>
     ELSE /\ rank' = new
          /\ Resolve(IF kind \in handled THEN "applied" ELSE "no_handler")
          /\ CASE kind \notin handled -> UNCHANGED <<order, credits>>
               [] kind \in handled /\ kind = "refund" ->
                    order' = [status |-> "refunded", credited |-> FALSE] /\ UNCHANGED credits
               [] OTHER ->
                    IF order.status = "refunded" THEN UNCHANGED <<order, credits>>
                    ELSE /\ order' = [status |-> "paid", credited |-> TRUE]
                         /\ credits' = [credits EXCEPT ![p] = @ + 1]

MerchantWorks(i) ==
  /\ Process(i, {"capture", "refund"})
  /\ UNCHANGED <<provider, plan, request>>
-----------------------------------------------------------------------------
(* The tools *)

(* raze_propose_recovery, and raze_apply_recovery once it has the plan, ask Razorpay
   for the order's payments. *)
Ask(c) ==
  /\ request[c].pc \in {"waiting", "taken"} /\ Settled # {}
  /\ request' = [request EXCEPT ![c].pc = "asked", ![c].payment = First(Settled)]
  /\ UNCHANGED <<World, inbox, plan>>

(* issuePlan, unless the row is credited already.  Tokens are random: t is new. *)
Propose(c, t) ==
  /\ request[c].pc = "asked" /\ request[c].token = None
  /\ ~order.credited
  /\ plan[t] = None /\ \A d \in Requests : request[d].token # t
  /\ plan' = [plan EXCEPT ![t] = [payment |-> request[c].payment, row |-> order]]
  /\ End(c)
  /\ UNCHANGED <<World, inbox>>

(* takePlan: the token is looked up and stays. *)
Take(c, t) ==
  /\ request[c].pc = "waiting" /\ plan[t] # None
  /\ request' = [request EXCEPT ![c] = [Waiting EXCEPT !.pc = "taken", !.token = t, !.plan = plan[t]]]
  /\ UNCHANGED <<World, inbox, plan>>

(* Ten minutes are over. *)
Expire(t) ==
  /\ plan[t] # None
  /\ plan' = [plan EXCEPT ![t] = None]
  /\ UNCHANGED <<World, inbox, request>>

(* The fingerprint of order, payment, amount and row, against the plan's: a plan that
   no longer fits is deleted. *)
Check(c) ==
  /\ request[c].pc = "asked" /\ request[c].token # None
  /\ IF request[c].plan = [payment |-> request[c].payment, row |-> order]
     THEN Goto(c, "checked") /\ UNCHANGED plan
     ELSE End(c) /\ plan' = [plan EXCEPT ![request[c].token] = None]
  /\ UNCHANGED <<World, inbox>>

(* The repair goes in as a delivery. *)
Queue(c) ==
  /\ request[c].pc = "checked"
  /\ Insert(EventId(request[c].payment, request[c].token), request[c].payment)
  /\ Goto(c, "draining")
  /\ UNCHANGED <<World, plan>>

(* rz.drain() takes whatever is pending; payment.captured is the one event this
   runtime has a handler for. *)
Drain(c, i) ==
  /\ request[c].pc = "draining"
  /\ Process(i, {"capture"})
  /\ UNCHANGED <<provider, plan, request>>

(* Nothing more to drain, but what others hold locked or what is backing off: the
   token is spent. *)
Finish(c) ==
  /\ request[c].pc = "draining"
  /\ plan' = [plan EXCEPT ![request[c].token] = None]
  /\ End(c)
  /\ UNCHANGED <<World, inbox>>

(* A call fails: nothing settled, a row credited already, an answer that does not
   come, no mapping to be derived.  What it queued stays queued, its token valid. *)
Fail(c) ==
  /\ request[c].pc # "waiting"
  /\ End(c)
  /\ UNCHANGED <<World, inbox, plan>>

(* The tokens are in memory on purpose. *)
Restart ==
  /\ plan' = [t \in Tokens |-> None]
  /\ request' = [c \in Requests |-> Waiting]
  /\ UNCHANGED <<World, inbox>>

Next ==
  \/ \E p \in Payments : Capture(p) \/ RefundPayment(p) \/ Reconcile(p)
  \/ \E i \in Ids : MerchantWorks(i)
  \/ \E c \in Requests :
       \/ Ask(c) \/ Check(c) \/ Queue(c) \/ Finish(c) \/ Fail(c)
       \/ \E t \in Tokens : Propose(c, t) \/ Take(c, t)
       \/ \E i \in Ids : Drain(c, i)
  \/ \E t \in Tokens : Expire(t)
  \/ Restart

Spec == Init /\ [][Next]_vars
-----------------------------------------------------------------------------
(* A payment is added to the merchant's row once, however many tokens were drawn
   for it, taken twice, or raced by the reconciliation and the merchant's worker:
   a token is not consumed before its plan has run (mcp/server.js:103-121), so one
   identity per payment is all that holds. *)
RecoveryCreditsOnce == \A p \in Payments : credits[p] <= 1

(* mcp/server.js:620-621: "Drain it through the runtime the merchant already runs, so
   the mapping, the state machine and the guards all apply."  A delivery the
   merchant has a handler for is not resolved without it. *)
DrainedIsHandled == \A i \in Ids : inbox[i].state # "no_handler"
=============================================================================
