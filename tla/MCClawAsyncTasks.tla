------------------------- MODULE MCClawAsyncTasks -------------------------
(***************************************************************************)
(* ClawAsyncTasks for TLC.                                                 *)
(***************************************************************************)
EXTENDS ClawAsyncTasks, TLC
=============================================================================
