--------------------------- MODULE MCClawMemory ---------------------------
(***************************************************************************)
(* ClawMemory for TLC.                                                     *)
(***************************************************************************)
EXTENDS ClawMemory, TLC
=============================================================================
