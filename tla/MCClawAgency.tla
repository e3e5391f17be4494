--------------------------- MODULE MCClawAgency ---------------------------
(***************************************************************************)
(* ClawAgency for TLC: the items are the fires and the note of a client.   *)
(***************************************************************************)
EXTENDS ClawAgency, TLC

CONSTANT note

MCItems == Fires \union {note}
RunSymmetry == Permutations(Runs)
=============================================================================
