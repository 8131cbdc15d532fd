---------------------------- MODULE MCReconciler ----------------------------
(***************************************************************************)
(* Overlapping passes over a payment and its refund.                       *)
(***************************************************************************)
EXTENDS Reconciler, TLC

CONSTANTS p1, r1

MCPaymentOf == r1 :> p1

(* Nothing is claimed of what follows a gap. *)
NoGap == ~gap

Symmetry == Permutations(Passes)
=============================================================================
