------------------------------ MODULE Contract ------------------------------
(***************************************************************************)
(* What the protected runtime promises a merchant about one event          *)
(* (README.md "The guarantee", src/runtime/index.js lines 10-15): an event *)
(* accepted into the inbox ends in exactly one outcome, and its business   *)
(* effect happens in the very step that records the outcome `applied'.     *)
(* Workers, transactions, locks, retries and crashes are not visible here. *)
(***************************************************************************)
EXTENDS Naturals

CONSTANT Events          \* event ids

VARIABLES
  outcome,               \* outcome[e]: what the inbox says about event e
  effects                \* effects[e]: committed runs of the merchant's handler for e

contractVars == <<outcome, effects>>

Settlements == {"applied", "ignored_stale", "no_handler"}
Outcomes == {"unseen", "queued", "parked"} \cup Settlements

ContractInit ==
  /\ outcome = [e \in Events |-> "unseen"]
  /\ effects = [e \in Events |-> 0]

Accept(e) ==
  /\ outcome[e] = "unseen"
  /\ outcome' = [outcome EXCEPT ![e] = "queued"]
  /\ UNCHANGED effects

Settle(e, r) ==
  /\ outcome[e] = "queued"
  /\ outcome' = [outcome EXCEPT ![e] = r]
  /\ effects' = [effects EXCEPT ![e] = IF r = "applied" THEN @ + 1 ELSE @]

\* Too many failures: kept, shown, and never retried by itself.
Park(e) ==
  /\ outcome[e] = "queued"
  /\ outcome' = [outcome EXCEPT ![e] = "parked"]
  /\ UNCHANGED effects

Finish(e) == Park(e) \/ \E r \in Settlements : Settle(e, r)

ContractNext == \E e \in Events : Accept(e) \/ Finish(e)

ContractSpec == ContractInit /\ [][ContractNext]_contractVars

\* Nothing stays queued for ever.
FairContractSpec == ContractSpec /\ \A e \in Events : WF_contractVars(Finish(e))
=============================================================================
