--------------------------- MODULE MCClawWorkflow ---------------------------
(***************************************************************************)
(* ClawWorkflow for TLC: two definitions, a pair of independent nodes and  *)
(* a join of two nodes that share a session.                               *)
(***************************************************************************)
EXTENDS ClawWorkflow, TLC

CONSTANTS a, b, c

Pair == a :> {} @@ b :> {}
PairModes == a :> "continue" @@ b :> "isolate"

Join == a :> {} @@ b :> {} @@ c :> {a, b}
JoinModes == a :> "continue" @@ b :> "steer" @@ c :> "isolate"
=============================================================================
