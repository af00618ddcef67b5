------------------------------ MODULE MCAlerts ------------------------------
(***************************************************************************)
(* Small instances of Alerts.                                              *)
(***************************************************************************)
EXTENDS Alerts, TLC

CONSTANTS t1, t2, f1, f2

\* With Cap = 1, t2 is over the cap of a call that also finds t1.
MCValue == t1 :> 3 @@ t2 :> 2

FirerSymmetry == Permutations({f1, f2})
=============================================================================
