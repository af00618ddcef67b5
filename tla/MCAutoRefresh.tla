---------------------------- MODULE MCAutoRefresh ----------------------------
(***************************************************************************)
(* Small instances of AutoRefresh.                                         *)
(***************************************************************************)
EXTENDS AutoRefresh
CONSTANTS a, b, c
=============================================================================
