-------------------------- MODULE MCClawSchedules --------------------------
(***************************************************************************)
(* ClawSchedules for TLC.                                                  *)
(***************************************************************************)
EXTENDS ClawSchedules, TLC
=============================================================================
