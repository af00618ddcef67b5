---------------------------- MODULE MCQueryCache ----------------------------
(***************************************************************************)
(* Small instances of QueryCache.                                          *)
(***************************************************************************)
EXTENDS QueryCache, TLC

CONSTANTS p1, p2, r1, r2

MCHomeFirst == r1 :> p1
MCHomeOne == r1 :> p1 @@ r2 :> p1
=============================================================================
