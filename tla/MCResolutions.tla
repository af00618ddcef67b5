--------------------------- MODULE MCResolutions ---------------------------
(***************************************************************************)
(* A small instance of Resolutions.                                        *)
(***************************************************************************)
EXTENDS Resolutions, TLC

CONSTANTS m1, m2, r1, b1, b2

MCEnding == m1 :> "YES" @@ m2 :> "unclear"

\* The refresh asks for m1 first, the script for m2.
MCRecency == m1 :> 2 @@ m2 :> 1
MCTraffic == m1 :> 1 @@ m2 :> 2
=============================================================================
