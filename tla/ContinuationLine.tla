-------------------------- MODULE ContinuationLine --------------------------
(***************************************************************************)
(* What the run store and the session row promise to whoever continues a   *)
(* session: head_success_run_id designates a run whose state.json and      *)
(* message.json are on disk, it moves only when a run commits, and a run   *)
(* commits at most once, so the line of continuation points of a session   *)
(* never returns to a run it has already left.  Clients, coordinators,     *)
(* stops, crashes and restarts are all hidden; ClawRuns implements this.   *)
(***************************************************************************)
CONSTANTS Sessions, Runs, None

VARIABLES
    artifacts,  \* runs whose state.json and message.json are both written
    committed,  \* runs with committed_at set
    success     \* head_success_run_id of every session

vars == <<artifacts, committed, success>>

Init ==
    /\ artifacts = {}
    /\ committed = {}
    /\ success = [s \in Sessions |-> None]

\* The two files of a run are written; nothing points at them yet.
Persist(r) ==
    /\ r \notin artifacts
    /\ artifacts' = artifacts \union {r}
    /\ UNCHANGED <<committed, success>>

\* A run with its files on disk becomes the continuation point of a session.
Publish(s, r) ==
    /\ r \in artifacts \ committed
    /\ committed' = committed \union {r}
    /\ success' = [success EXCEPT ![s] = r]
    /\ UNCHANGED artifacts

Next ==
    \/ \E r \in Runs : Persist(r)
    \/ \E s \in Sessions, r \in Runs : Publish(s, r)

Spec == Init /\ [][Next]_vars
=============================================================================
