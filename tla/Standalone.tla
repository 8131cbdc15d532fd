----------------------------- MODULE Standalone ------------------------------
(***************************************************************************)
(* `raze up` (src/up-command.js): the runtime with the mappings inferred   *)
(* from the merchant's schema (src/infer, src/mapping), the reconciler and *)
(* the worker, in one process and with no code of the merchant's;          *)
(* and `raze setup` (src/setup-command.js), which registers the webhook.   *)
(*                                                                         *)
(* One order and its payment.  Razorpay's events are delivered late, again *)
(* and in any order, or never; the reconciler's rows have names of their   *)
(* own.  A row of the inbox that fails waits while later ones are taken,   *)
(* so any waiting row may be the next, and one that has failed often       *)
(* enough is parked (bound: one is).  A payment is captured within the     *)
(* reconciler's window (CaptureInWindow of Reconciler), and there are      *)
(* Razorpay credentials.                                                   *)
(***************************************************************************)
EXTENDS Integers

CONSTANTS
  Schemas,      \* what there may be to derive from, see Tables
  MaxOutages,  \* bound: times the process dies
  MaxSecrets,   \* bound: secrets `raze setup' generates
  None

Events == {"failed", "authorized", "captured", "order_paid", "refunded"}
\* the orders table, its mappings and the options of the command
Tables ==
  [status : BOOLEAN,           \* a status column
   adds : BOOLEAN,             \* a column a capture adds to: an amount, or a count
   counted : BOOLEAN,          \* ... whose name says count
   null : SUBSET {"status", "adds"},             \* NULL in a row that is written without them
   inserts : {{}, {"captured"}, Events},         \* the mappings that may insert a row
   own : SUBSET Events,        \* the mappings that no other table's has replaced
   orders : BOOLEAN, url : BOOLEAN]              \* --orders with --key; --url

StandaloneAssumption ==
  /\ Schemas \subseteq {s \in Tables : s.counted => s.adds}
  /\ {MaxOutages, MaxSecrets} \subseteq Nat /\ None \notin Int

Recons == {"recon_payment", "recon_refund"}
Ids == Events \cup Recons
TypeOf(i) == CASE i = "recon_payment" -> "captured" [] i = "recon_refund" -> "refunded" [] OTHER -> i

VARIABLES
  schema,    \* what `raze up' finds, of Schemas
  happened,  \* the events that took place at Razorpay
  hook,      \* the secret the registered webhook is signed with, or None
  env,       \* the secret in .env, or None
  up,        \* the secret the running process verifies with, or None
  entry,     \* entry[i]: none, waiting, done or parked, in raze_inbox
  bare,      \* the reconciled refund lacks its payment entity
  standing,  \* raze_subject_state's rank
  shop,      \* the merchant's row
  listed,    \* a pass of this process's reconciler has covered the payment's window
  secrets, outages

vars == <<schema, happened, hook, env, up, entry, bare, standing, shop, listed,
          secrets, outages>>
rest == <<entry, bare, standing, shop>>

NoShop == [there |-> FALSE, status |-> None, sum |-> None]

TypeOK ==
  /\ schema \in Schemas /\ happened \subseteq Events
  /\ {hook, env, up} \subseteq 1..MaxSecrets \cup {None}
  /\ entry \in [Ids -> {"none", "waiting", "done", "parked"}]
  /\ {bare, listed} \subseteq BOOLEAN
  /\ standing \in 0..3
  /\ shop \in [there : BOOLEAN, sum : 0..2 \cup {None},
               status : {None, "created", "authorized", "paid", "failed", "refunded"}]

Init ==
  /\ schema \in Schemas
  /\ happened = {} /\ hook = None /\ env = None /\ up = None
  /\ entry = [i \in Ids |-> "none"] /\ bare = FALSE /\ standing = 0
  /\ shop = NoShop /\ listed = FALSE
  /\ secrets = 0 /\ outages = 0
-----------------------------------------------------------------------------
(* A faulty variant of the definition below: an order that exists is known. *)
Known_exists == schema.orders /\ shop.there
-----------------------------------------------------------------------------
(* Razorpay, and the merchant's checkout *)

\* a row that says nothing of status and sums
Unsaid ==
  [there |-> TRUE,
   status |-> IF ~schema.status \/ "status" \in schema.null THEN None ELSE "created",
   sum |-> IF ~schema.adds \/ "adds" \in schema.null THEN None ELSE 0]

Checkout ==
  /\ ~shop.there /\ happened = {}
  /\ shop' = Unsaid
  /\ UNCHANGED <<schema, happened, hook, env, up, entry, bare, standing, listed,
                 secrets, outages>>

\* an attempt fails, money is captured (which pays the order), a refund is made
Steps == {{"failed"}, {"authorized"}, {"captured", "order_paid"}, {"refunded"}}

Occur(es) ==
  /\ es \cap happened = {}
  /\ es = {"failed"} => happened = {}
  /\ "captured" \in es => "authorized" \in happened
  /\ es = {"refunded"} => "captured" \in happened
  /\ happened' = happened \cup es
  /\ UNCHANGED <<schema, hook, env, up, rest, listed, secrets, outages>>

\* a delivery that verifies is stored under its event id; again, it changes nothing
Deliver(e) ==
  /\ e \in happened /\ entry[e] = "none" /\ up # None /\ hook = up
  /\ entry' = [entry EXCEPT ![e] = "waiting"]
  /\ UNCHANGED <<schema, happened, hook, env, up, bare, standing, shop, listed,
                 secrets, outages>>
-----------------------------------------------------------------------------
(* The mappings *)

Rank == [failed |-> 2, authorized |-> 1, captured |-> 2, order_paid |-> 2, refunded |-> 3]
StatusFor == [failed |-> "failed", authorized |-> "authorized", captured |-> "paid",
              order_paid |-> "paid", refunded |-> "refunded"]
GuardFor == [failed |-> {"paid", "refunded"}, authorized |-> {"paid", "refunded"},
             captured |-> {"refunded"}, order_paid |-> {"refunded"}, refunded |-> {}]

\* proposeFor and Map.set: what the orders table has a handler for
Mapped(e) == e \in schema.own /\ (schema.status \/ (e = "captured" /\ schema.adds))

Adds(e) == e = "captured" /\ schema.adds

\* compile: status <> ALL (...) is not true of NULL
Refuses(e) == schema.status /\ GuardFor[e] # {} /\ shop.status \in GuardFor[e] \cup {None}

\* ... an upsert, or an update; NULL and 1 are NULL
Upsert(e) ==
  IF IF shop.there THEN Refuses(e) ELSE e \notin schema.inserts THEN shop
  ELSE LET old == IF shop.there THEN shop
                  ELSE [Unsaid EXCEPT !.sum = IF Adds(e) THEN 0 ELSE @]
       IN  [old EXCEPT !.status = IF schema.status THEN StatusFor[e] ELSE @,
                       !.sum = IF Adds(e) /\ @ # None THEN @ + 1 ELSE @]

\* processOne: a bare refund is about no order the mapping can address
Process(i) ==
  LET e == TypeOf(i)
      addressed == i = "recon_refund" => ~bare
      fresh == addressed /\ Rank[e] >= standing
  IN  /\ up # None /\ entry[i] = "waiting"
      /\ entry' = [entry EXCEPT ![i] = "done"]
      /\ standing' = IF fresh THEN Rank[e] ELSE standing
      /\ shop' = IF fresh /\ Mapped(e) THEN Upsert(e) ELSE shop
      /\ UNCHANGED <<schema, happened, hook, env, up, bare, listed, secrets, outages>>

\* ... or the mapping's statement fails, MAX_ATTEMPTS times
Park(i) ==
  /\ up # None /\ entry[i] = "waiting" /\ Mapped(TypeOf(i))
  /\ \A j \in Ids : entry[j] # "parked"
  /\ entry' = [entry EXCEPT ![i] = "parked"]
  /\ UNCHANGED <<schema, happened, hook, env, up, bare, standing, shop, listed,
                 secrets, outages>>
-----------------------------------------------------------------------------
(* The reconciler raze up builds *)

\* the test localOrderIds puts to a row, if there is anything to test
Tested == schema.status \/ schema.counted
Settled ==
  \/ schema.status /\ shop.status \in {"paid", "refunded"}
  \/ schema.counted /\ shop.sum \notin {None, 0}

\* localOrderIds: the orders a payment was applied to - or all there are
Known == schema.orders /\ shop.there /\ (Tested => Settled)

\* rows that are not in the inbox yet, of what the reconciler would list and find
\* missing: localRefundIds knows no refund
Missing == {i \in Recons :
              entry[i] = "none" /\ TypeOf(i) \in happened /\ (i = "recon_payment" => ~Known)}

\* one pass that answers.  What an earlier one has covered is listed again within
\* the overlap only
Pass ==
  /\ up # None
  /\ \E found \in SUBSET Missing :
       /\ listed \/ "recon_payment" \notin Missing \/ "recon_payment" \in found
       /\ entry' = [i \in Ids |-> IF i \in found THEN "waiting" ELSE entry[i]]
       /\ bare' \in IF "recon_refund" \in found THEN BOOLEAN ELSE {bare}
  /\ listed' = (listed \/ "captured" \in happened)
  /\ UNCHANGED <<schema, happened, hook, env, up, standing, shop, secrets, outages>>
-----------------------------------------------------------------------------
(* The two commands *)

\* raze setup: the webhook first, .env after it; the command may end in between
SetUp ==
  /\ LET generated == env = None
         secret == IF generated THEN secrets + 1 ELSE env
     IN  /\ secret <= MaxSecrets
         /\ secrets' = IF generated THEN secret ELSE secrets
         /\ hook' = secret
         /\ env' \in IF generated THEN {None, secret} ELSE {env}
  /\ UNCHANGED <<schema, happened, up, rest, listed, outages>>

\* raze up: create() needs a secret; the webhook, if there is a --url, gets it
Start ==
  /\ up = None /\ env # None
  /\ up' = env
  /\ hook' = IF schema.url THEN env ELSE hook
  /\ listed' = FALSE
  /\ UNCHANGED <<schema, happened, env, entry, bare, standing, shop, secrets, outages>>

Die ==
  /\ up # None /\ outages < MaxOutages
  /\ up' = None /\ outages' = outages + 1
  /\ UNCHANGED <<schema, happened, hook, env, rest, listed, secrets>>

Next ==
  \/ Checkout \/ Pass \/ SetUp \/ Start \/ Die
  \/ \E es \in Steps : Occur(es)
  \/ \E e \in Events : Deliver(e)
  \/ \E i \in Ids : Process(i) \/ Park(i)

(* The process is started again (a supervisor, or the merchant), its interval
   and its worker run; nothing makes Razorpay deliver. *)
Fairness ==
  WF_vars(Start) /\ WF_vars(Pass) /\ WF_vars(\E i \in Ids : Process(i) \/ Park(i))

Spec == Init /\ [][Next]_vars /\ Fairness
-----------------------------------------------------------------------------
\* the merchant's row shows the payment, or its refund
Shown ==
  \/ schema.status /\ shop.status \in {"paid", "refunded"}
  \/ schema.adds /\ shop.sum \notin {None, 0}

\* a capture can be shown: the orders table's own mapping writes a column it can
\* write, and localOrderIds has something to test
Sufficient ==
  /\ "captured" \in schema.own
  /\ IF schema.status THEN "status" \notin schema.null
     ELSE schema.adds /\ "adds" \notin schema.null
  /\ schema.orders => Tested

(* "Reconciliation still recovers every payment, so nothing is lost"
   (up-command.js:142-146), where the table suffices: once raze up has its secret, a
   captured payment is shown in the merchant's row or refunded at Razorpay, whatever
   Razorpay delivers, when the process dies and whichever secret the webhook has -
   unless its event is parked, or there is no row and the mapping may not insert one. *)
CapturedIsSettled ==
  Sufficient /\ "captured" \in happened /\ env # None ~>
    \/ Shown
    \/ "refunded" \in happened
    \/ \E i \in Ids : TypeOf(i) = "captured" /\ entry[i] = "parked"
    \/ ~shop.there /\ "captured" \notin schema.inserts
=============================================================================
