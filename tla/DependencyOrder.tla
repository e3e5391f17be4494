--------------------------- MODULE DependencyOrder ---------------------------
(***************************************************************************)
(* What a workflow promises to the author of its definition: no node is    *)
(* started, not even by a retry, before each node it needs has succeeded.  *)
(* Ticks, rows, cancellations, retries, steering and restarts are hidden;  *)
(* ClawWorkflow implements this.                                           *)
(***************************************************************************)
CONSTANTS Nodes, Needs, Runs

VARIABLES
    attempts,  \* the runs each node has been given
    done       \* nodes one of whose runs has succeeded

vars == <<attempts, done>>

Init ==
    /\ attempts = [n \in Nodes |-> {}]
    /\ done = {}

\* A run is given to a node whose needs are met.
Start(n) ==
    /\ Needs[n] \subseteq done
    /\ \E r \in Runs : attempts' = [attempts EXCEPT ![n] = @ \union {r}]
    /\ UNCHANGED done

\* A run succeeds, and with it the nodes it was given to.
Succeed(S) ==
    /\ \A n \in S : attempts[n] # {}
    /\ done' = done \union S
    /\ UNCHANGED attempts

Next ==
    \/ \E n \in Nodes : Start(n)
    \/ \E S \in SUBSET Nodes : Succeed(S)

Spec == Init /\ [][Next]_vars
=============================================================================
