---------------------------- MODULE MCClawHitl ----------------------------
(***************************************************************************)
(* ClawHitl for TLC.                                                       *)
(***************************************************************************)
EXTENDS ClawHitl, TLC

\* The second batch asks another question beside one of the same number.
MCAsked == <<{1}, {1, 2}>>
=============================================================================
