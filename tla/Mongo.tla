-------------------------------- MODULE Mongo ---------------------------------
(***************************************************************************)
(* src/mongo/mapping.js with the mappings of src/mongo/infer.js: the inbox *)
(* is in Postgres and the order is a document in MongoDB, and no           *)
(* transaction spans both.  The update carries its own guard: a document   *)
(* lists the events applied to it.                                         *)
(*                                                                         *)
(* One order, one event of each type.  The worker's steps are processOne's *)
(* (module Runtime); what rolls back is the Postgres half.                 *)
(***************************************************************************)
EXTENDS Integers, Sequences

CONSTANTS
  Delivered,   \* the types of the events that are delivered
  MaxCrashes,  \* bound: workers that die with a transaction open
  None

MongoAssumption ==
  /\ Delivered \subseteq {"failed", "authorized", "captured", "order_paid", "refunded"}
  /\ MaxCrashes \in Nat

VARIABLES
  upsert,    \* spec.upsert: true unless the merchant's mapping says otherwise
  unique,    \* the key field is _id, or has a unique index
  docs,      \* the documents with the order's key, in the order of their insertion
  delivery,  \* delivery[e]: the row of raze_inbox; picked and written: it is locked
  reached,   \* the rank in raze_subject_state, 0 while there is no row
  locked,    \* the events whose transaction has locked that row
  died       \* how many workers died

vars == <<upsert, unique, docs, delivery, reached, locked, died>>

Blank == [status |-> None, applied |-> {}, credits |-> 0]

TypeOK ==
  /\ {upsert, unique} \subseteq BOOLEAN
  /\ docs \in Seq([status : {None, "pending", "failed", "authorized", "paid", "refunded"},
                   applied : SUBSET Delivered, credits : Nat])
  /\ delivery \in [Delivered -> {"none", "pending", "picked", "written", "processed", "parked"}]
  /\ reached \in 0..3 /\ locked \subseteq Delivered /\ died \in 0..MaxCrashes

\* the checkout writes a document, or leaves it to the mapping
Init ==
  /\ upsert \in BOOLEAN /\ unique \in BOOLEAN
  /\ docs \in {<<>>, <<[Blank EXCEPT !.status = "pending"]>>}
  /\ delivery = [e \in Delivered |-> "none"] /\ reached = 0 /\ locked = {} /\ died = 0
-----------------------------------------------------------------------------
Rank == [failed |-> 2, authorized |-> 1, captured |-> 2, order_paid |-> 2, refunded |-> 3]
StatusFor == [failed |-> "failed", authorized |-> "authorized", captured |-> "paid",
              order_paid |-> "paid", refunded |-> "refunded"]
GuardFor == [failed |-> {"paid", "refunded"}, authorized |-> {"paid", "refunded"},
             captured |-> {"refunded"}, order_paid |-> {"refunded"}, refunded |-> {}]

(* A faulty variant of the definition below: the event's id is left out. *)
Filter_statusOnly(d, e) == d.status \notin GuardFor[e]

(* compile: the key, an event not applied yet, and the guard *)
Filter(d, e) == e \notin d.applied /\ d.status \notin GuardFor[e]

\* $set, $inc and $addToSet
Updated(d, e) ==
  [status |-> StatusFor[e], applied |-> d.applied \cup {e},
   credits |-> IF e = "captured" THEN d.credits + 1 ELSE d.credits]
-----------------------------------------------------------------------------
Move(e, to) == delivery' = [delivery EXCEPT ![e] = to]

Deliver(e) ==
  /\ delivery[e] = "none"
  /\ Move(e, "pending")
  /\ UNCHANGED <<upsert, unique, docs, reached, locked, died>>

(* A row is picked, and the order's state locked, if there is one to lock. *)
Pick(e) ==
  LET stale == Rank[e] < reached
  IN  /\ delivery[e] = "pending" /\ locked = {}
      /\ Move(e, IF stale THEN "processed" ELSE "picked")
      /\ locked' = IF reached = 0 \/ stale THEN {} ELSE {e}
      /\ UNCHANGED <<upsert, unique, docs, reached, died>>

(* updateOne: one document that matches the filter *)
Match(e) ==
  /\ delivery[e] = "picked"
  /\ \E d \in DOMAIN docs : Filter(docs[d], e) /\ docs' = [docs EXCEPT ![d] = Updated(@, e)]
  /\ Move(e, "written")
  /\ UNCHANGED <<upsert, unique, reached, locked, died>>

(* ... or none: nothing is done, a document is inserted, or the index refuses it
   and the handler throws; the row is tried again, or parked. *)
NoMatch(e) ==
  /\ delivery[e] = "picked" /\ \A d \in DOMAIN docs : ~Filter(docs[d], e)
  /\ \/ ~upsert /\ Move(e, "written") /\ UNCHANGED <<docs, locked>>
     \/ /\ upsert /\ (unique => docs = <<>>)
        /\ docs' = Append(docs, Updated(Blank, e)) /\ Move(e, "written") /\ UNCHANGED locked
     \/ /\ upsert /\ unique /\ docs # <<>>
        /\ \E to \in {"pending", "parked"} : Move(e, to)
        /\ locked' = locked \ {e} /\ UNCHANGED docs
  /\ UNCHANGED <<upsert, unique, reached, died>>

(* The upsert of the order's state waits for its row, and ends with the commit. *)
Commit(e) ==
  /\ delivery[e] = "written" /\ locked \subseteq {e}
  /\ Move(e, "processed")
  /\ reached' = IF Rank[e] > reached THEN Rank[e] ELSE reached
  /\ locked' = {}
  /\ UNCHANGED <<upsert, unique, docs, died>>

(* The worker dies: Postgres forgets, MongoDB does not. *)
Crash(e) ==
  /\ delivery[e] \in {"picked", "written"} /\ died < MaxCrashes
  /\ died' = died + 1
  /\ Move(e, "pending") /\ locked' = locked \ {e}
  /\ UNCHANGED <<upsert, unique, docs, reached>>

Next ==
  \E e \in Delivered : Deliver(e) \/ Pick(e) \/ Match(e) \/ NoMatch(e) \/ Commit(e) \/ Crash(e)

Spec == Init /\ [][Next]_vars
-----------------------------------------------------------------------------
(* the payment is added once, to one document *)
CreditedOnce ==
  /\ \A d \in DOMAIN docs : docs[d].credits <= 1
  /\ \A c, d \in DOMAIN docs : docs[c].credits > 0 /\ docs[d].credits > 0 => c = d

(* The guard stands in for the transaction where nothing is inserted beside the
   document it is in: no upsert, or an index that refuses a second document.  Then
   the payment is added once, and whatever else is processed leaves a refund alone,
   also when a worker dies between the two databases. *)
GuardedIsOnce ==
  unique \/ ~upsert =>
    /\ CreditedOnce /\ Len(docs) <= 1
    /\ \A e \in Delivered \cap {"refunded"} :
         delivery[e] = "processed" /\ docs # <<>> => docs[1].status = "refunded"

(* mongo/mapping.js:19-25: a retry, also one after a crash between the MongoDB write
   and the inbox update, does not repeat the effect. *)
RetryIsNoOp == CreditedOnce
=============================================================================
