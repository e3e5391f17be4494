----------------------------- MODULE MCClawRuns -----------------------------
(***************************************************************************)
(* ClawRuns for TLC: sessions and runs are model values.  Run ids are      *)
(* handed out in any order, so they are interchangeable.                   *)
(***************************************************************************)
EXTENDS ClawRuns, TLC

RunSymmetry == Permutations(Runs)
=============================================================================
