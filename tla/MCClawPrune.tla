---------------------------- MODULE MCClawPrune ----------------------------
(***************************************************************************)
(* ClawPrune for TLC: sessions 1 and 2 are generated, the others are not.  *)
(***************************************************************************)
EXTENDS ClawPrune

CONSTANTS MaxSession, MaxRun
AllSessions == 1..MaxSession
AllRuns == 1..MaxRun
=============================================================================
