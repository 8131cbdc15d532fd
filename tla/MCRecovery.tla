----------------------------- MODULE MCRecovery -----------------------------
(***************************************************************************)
(* Instances of Recovery: p1 pays exactly what an order costs, p2 does not. *)
(* MCOrderOf gives each its own order, MCOneOrder one order both.          *)
(***************************************************************************)
EXTENDS Recovery, TLC

CONSTANTS o1, o2, p1, p2

MCOrderOf == p1 :> o1 @@ p2 :> o2
MCOneOrder == p1 :> o1 @@ p2 :> o1
MCAmount == p1 :> 1 @@ p2 :> 2
MCExpected == [o \in Orders |-> 1]
MCRowsOf == [o \in Orders |-> 1]
MCMerchant == [mappingConfirmed |-> TRUE, escalateOnly |-> FALSE, autoRepair |-> TRUE]

Symmetry == Permutations(Passes)
=============================================================================
