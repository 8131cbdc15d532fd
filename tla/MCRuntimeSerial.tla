-------------------------- MODULE MCRuntimeSerial ---------------------------
(***************************************************************************)
(* The instance of Runtime with one worker, as startWorker alone gives a   *)
(* merchant: what only a single worker guarantees, and progress.  The      *)
(* refund has no handler, one event is about no order and has no rank, and *)
(* one delivery is forged.                                                 *)
(***************************************************************************)
EXTENDS Runtime, TLC

CONSTANTS order, auth, refd, ping, d1, d2, d3, d4

MCEventOf == d1 :> auth @@ d2 :> refd @@ d3 :> ping @@ d4 :> refd
MCTypeOf == auth :> "payment.authorized" @@ refd :> "refund.created" @@ ping :> "other"
MCSubjectOf == auth :> order @@ refd :> order @@ ping :> None
MCHandled == {"payment.authorized", "other"}
=============================================================================
