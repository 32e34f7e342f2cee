---------------------------- MODULE MCWebUploads ----------------------------
(***************************************************************************)
(* The two boards, the one with sessions and the other without, and both   *)
(* the other way round.                                                    *)
(***************************************************************************)
EXTENDS WebUploads

MCBuilds ==
  {[auth |-> a, stops |-> s, requests |-> 4 - f, files |-> f] :
     a, s \in BOOLEAN, f \in 1..2}
=============================================================================
