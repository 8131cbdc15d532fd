----------------------------- MODULE MCRuntime ------------------------------
(***************************************************************************)
(* The instance of Runtime that two workers share: one order through its   *)
(* life (authorized, captured, refunded), the capture delivered twice, and *)
(* every event with a handler, so that handlers of one order contend.      *)
(***************************************************************************)
EXTENDS Runtime, TLC

CONSTANTS order, auth, capt, refd, d1, d2, d3, d4

MCEventOf == d1 :> auth @@ d2 :> capt @@ d3 :> capt @@ d4 :> refd
MCTypeOf == auth :> "payment.authorized" @@ capt :> "payment.captured"
              @@ refd :> "refund.created"
MCSubjectOf == auth :> order @@ capt :> order @@ refd :> order
MCHandled == {"payment.authorized", "payment.captured", "refund.created"}

(* The workers run the same code. *)
Symmetry == Permutations(Workers)
=============================================================================
