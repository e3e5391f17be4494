---------------------------- MODULE ClawWorkflow ----------------------------
(***************************************************************************)
(* A workflow run of ya-claw: the rows of the workflow and of its nodes,   *)
(* the tick of the executor that advances it, the runs that are created    *)
(* for its nodes, a client that cancels it, and the loss of the process.   *)
(*                                                                         *)
(* A tick reads the rows once and keeps them in the identity map of its    *)
(* database session (expire_on_commit is off), so it plans with what it    *)
(* has read however long it takes.  Creating the run of a node commits     *)
(* everything the tick has changed so far; the row of that node itself is  *)
(* written by the next commit.  A commit writes the columns whose value    *)
(* differs from the one that was read or last written.                     *)
(*                                                                         *)
(* Of the life of a run (see ClawRuns) its status is kept, with the ways   *)
(* in which racing stops, claims and commits overwrite it.                 *)
(***************************************************************************)
EXTENDS Integers, FiniteSets

CONSTANTS
    Nodes,           \* the nodes of the definition
    Needs,           \* the needs of each node
    Mode,            \* mode of each node; "fork" has a session of its own, as "isolate"
    Retries,         \* retry_count of the policy
    MaxConcurrency,  \* max_concurrency of the policy
    Runs,            \* the run ids that create may hand out
    None,            \* SQL NULL
    StartRaises,     \* whether rendering the input or creating the run may raise
    MaxCancels,      \* bound on the cancel requests
    MaxLosses        \* bound on the losses of a tick or of the process

ASSUME WorkflowAssumption ==
    /\ IsFiniteSet(Nodes)
    /\ IsFiniteSet(Runs)
    /\ None \notin Runs
    /\ Needs \in [Nodes -> SUBSET Nodes]
    /\ Mode \in [Nodes -> {"isolate", "continue", "steer"}]
    /\ Retries \in Nat
    /\ MaxConcurrency \in Nat \ {0}
    /\ StartRaises \in BOOLEAN
    /\ MaxCancels \in Nat
    /\ MaxLosses \in Nat

VARIABLES
    wf,         \* workflow_runs.status
    shared,     \* shared_session_id in its metadata
    node,       \* workflow_node_runs: status, attempt_no, run_id
    run,        \* runs.status
    session,    \* runs.session_id; a session goes by the name of its first run
    held,       \* what this process has of a run: its task, or one that has executed it
    tick,       \* the tick in progress, and the rows in its database session
    canceller,  \* the cancel request in progress
    bound,      \* history: the runs each node was given
    succeeded,  \* history: the runs that were ever completed
    cancels, losses

runVars == <<run, held, succeeded>>
historyVars == <<session, bound>>
countVars == <<cancels, losses>>
vars == <<wf, shared, node, run, session, held, tick, canceller, bound, succeeded,
          cancels, losses>>
-----------------------------------------------------------------------------
RunId == Runs \union {None}

RunLive == {"queued", "running"}
RunTerminal == {"completed", "failed", "cancelled"}
RunStatus == {"absent"} \union RunLive \union RunTerminal

WorkflowActive == {"queued", "running", "waiting"}
WorkflowTerminal == {"completed", "failed", "cancelled"}
WorkflowStatus == {"absent"} \union WorkflowActive \union WorkflowTerminal

NodeActive == {"queued", "running", "waiting"}
NodeTerminal == {"completed", "failed", "cancelled"}
NodeStatus == {"absent", "pending", "ready"} \union NodeActive \union NodeTerminal

NodeRow == [status : NodeStatus, attempt : Nat, run : RunId]
NoRow == [status |-> "absent", attempt |-> 0, run |-> None]
NewRow == [status |-> "pending", attempt |-> 1, run |-> None]

\* Rows as last read or written ("read"), and as the tick has changed them ("now").
Tick == [pc : {"idle", "listed", "starting", "closing"},
         readWf : WorkflowStatus, nowWf : WorkflowStatus,
         readNode : [Nodes -> NodeRow], nowNode : [Nodes -> NodeRow],
         shared : RunId, starts : SUBSET Nodes]
NoTick == [pc |-> "idle", readWf |-> "absent", nowWf |-> "absent",
           readNode |-> [n \in Nodes |-> NoRow], nowNode |-> [n \in Nodes |-> NoRow],
           shared |-> None, starts |-> {}]

\* Nodes to look at, and nodes marked cancelled but not written yet.
Canceller == [pc : {"idle", "cancelling"}, todo : SUBSET Nodes, dirty : SUBSET Nodes,
              run : [Nodes -> RunId]]
NoCanceller == [pc |-> "idle", todo |-> {}, dirty |-> {}, run |-> [n \in Nodes |-> None]]

Written(current, read, now) == IF now = read THEN current ELSE now

\* The tick flushes a next attempt, which changes every column, before it goes on.
WrittenRow(current, read, now) ==
    IF now.attempt # read.attempt THEN now ELSE
    [status |-> Written(current.status, read.status, now.status),
     attempt |-> current.attempt,
     run |-> Written(current.run, read.run, now.run)]

\* A commit of the executor's session, with wfStatus as the last word on the run.
CommitTick(wfStatus) ==
    /\ wf' = Written(wf, tick.readWf, wfStatus)
    /\ shared' = tick.shared
    /\ node' = [n \in Nodes |-> WrittenRow(node[n], tick.readNode[n], tick.nowNode[n])]

NodesIn(rows, statuses) == {n \in Nodes : rows[n].status \in statuses}
-----------------------------------------------------------------------------
Init ==
    /\ wf = "absent"
    /\ shared = None
    /\ node = [n \in Nodes |-> NoRow]
    /\ run = [r \in Runs |-> "absent"]
    /\ session = [r \in Runs |-> None]
    /\ held = [r \in Runs |-> "none"]
    /\ tick = NoTick
    /\ canceller = NoCanceller
    /\ bound = [n \in Nodes |-> {}]
    /\ succeeded = {}
    /\ cancels = 0
    /\ losses = 0

Trigger ==
    /\ wf = "absent"
    /\ wf' = "queued"
    /\ UNCHANGED <<shared, node, runVars, historyVars, tick, canceller, countVars>>
-----------------------------------------------------------------------------
(***************************************************************************)
(* The tick of the executor                                                *)
(***************************************************************************)

\* dispatch_once lists the workflow runs that are not over.  It may process
\* others before it comes to this one.
TickList ==
    /\ tick.pc = "idle"
    /\ wf \in WorkflowActive
    /\ tick' = [NoTick EXCEPT !.pc = "listed", !.readWf = wf, !.nowWf = wf,
                              !.shared = shared]
    /\ UNCHANGED <<wf, shared, node, runVars, historyVars, canceller, countVars>>

\* _retry_node_if_available: a failed attempt makes way for the next one.
RetryAvailable(row) == row.attempt <= Retries
UnknownStatus(row) ==           \* faulty: a status the table does not have
    [status |-> "retrying", attempt |-> row.attempt + 1, run |-> None]
NextAttempt(row) == [status |-> "ready", attempt |-> row.attempt + 1, run |-> None]

\* _refresh_node_statuses: an active node follows the run it was given.
Refreshed(row) ==
    IF row.status \notin NodeActive \/ row.run = None THEN row
    ELSE LET status == run[row.run]
         IN  IF status \in {"absent", "queued"} THEN row
             ELSE IF status = "failed" /\ RetryAvailable(row) THEN NextAttempt(row)
             ELSE [row EXCEPT !.status = status]

\* _mark_ready_nodes: the needs of a pending node must be completed.
NeedsStarted(rows, n) ==       \* faulty: it is enough that they were started
    Needs[n] \subseteq NodesIn(rows, NodeTerminal \union NodeActive)
NeedsMet(rows, n) == Needs[n] \subseteq NodesIn(rows, {"completed"})
Readied(rows) ==
    [n \in Nodes |-> IF rows[n].status = "pending" /\ NeedsMet(rows, n)
                     THEN [rows[n] EXCEPT !.status = "ready"] ELSE rows[n]]

\* The ready nodes that fit, in an order that is left open.
Fitting(ready, free) ==
    {S \in SUBSET ready :
        Cardinality(S) = IF Cardinality(ready) < free THEN Cardinality(ready) ELSE free}
StartsAnew(rows) == Fitting(NodesIn(rows, {"ready"}), MaxConcurrency)  \* faulty: none is active
StartsAllowed(rows) ==
    LET taken == Cardinality(NodesIn(rows, NodeActive))
        free == IF taken < MaxConcurrency THEN MaxConcurrency - taken ELSE 0
    IN  Fitting(NodesIn(rows, {"ready"}), free)

\* ensure_run_started adds the rows of the nodes at the first tick.
RowsAtStart ==
    IF tick.readWf = "queued" /\ \A n \in Nodes : node[n] = NoRow
    THEN [n \in Nodes |-> NewRow] ELSE node

\* The tick once it has read the rows of the nodes and decided.
Planned(pc, rows, status, S) ==
    [tick EXCEPT !.pc = pc, !.readNode = node, !.nowNode = rows, !.nowWf = status,
                 !.starts = S]

\* execute_once up to the nodes it starts.
TickPlan ==
    /\ tick.pc = "listed"
    /\ LET rows == [n \in Nodes |-> Refreshed(RowsAtStart[n])]
       IN  \/ /\ NodesIn(rows, {"failed"}) # {}
              /\ tick' = Planned("closing", rows, "failed", {})
           \/ /\ NodesIn(rows, {"failed"}) = {}
              /\ NodesIn(rows, {"cancelled"}) # {}
              /\ tick' = Planned("closing", rows, "cancelled", {})
           \/ /\ NodesIn(rows, {"failed", "cancelled"}) = {}
              /\ \E S \in StartsAllowed(Readied(rows)) :
                   tick' = Planned("starting", Readied(rows), "running", S)
    /\ UNCHANGED <<wf, shared, node, runVars, historyVars, canceller, countVars>>

\* _resolve_node_session_plan: the session a node asks for, None for a new one.
SessionFor(n) == IF Mode[n] = "isolate" THEN None ELSE tick.shared

\* active_run_id names the run that is running in the session.  Where runs have
\* raced, it may be empty beside a second run or left on a cancelled one.
RunsIn(s) == {r \in Runs : s # None /\ session[r] = s}
ActiveRunsOf(s) == {r \in RunsIn(s) : run[r] = "running"}
MayBeFree(s) == ActiveRunsOf(s) = {} \/ Cardinality(RunsIn(s)) > 1
MayBeTaken(s) == \E r \in RunsIn(s) : run[r] \in {"running", "cancelled"}

\* create draws a fresh run id.
UnusedRuns == {r \in Runs : run[r] = "absent"}
NewRunId == CHOOSE r \in UnusedRuns : TRUE

\* _start_node: the run of n is committed with everything the tick has changed
\* so far, and submitted; the row of n learns of it in memory.
StartNode(n) ==
    /\ tick.pc = "starting"
    /\ n \in tick.starts
    /\ MayBeFree(SessionFor(n))
    /\ UnusedRuns # {}
    /\ LET r == NewRunId IN
         /\ run' = [run EXCEPT ![r] = "queued"]
         /\ held' = [held EXCEPT ![r] = "submitted"]
         /\ session' = [session EXCEPT ![r] = IF SessionFor(n) = None THEN r ELSE SessionFor(n)]
         /\ bound' = [bound EXCEPT ![n] = @ \union {r}]
         /\ CommitTick(tick.nowWf)
         /\ tick' = [tick EXCEPT
               !.readWf = tick.nowWf,
               !.readNode = tick.nowNode,
               !.nowNode[n].status = "queued",
               !.nowNode[n].run = r,
               !.starts = @ \ {n},
               !.shared = IF Mode[n] # "isolate" /\ @ = None THEN r ELSE @]
    /\ UNCHANGED <<succeeded, canceller, countVars>>

\* A steering node joins the run that is active in the shared session.
SteerNode(n) ==
    /\ tick.pc = "starting"
    /\ n \in tick.starts
    /\ Mode[n] = "steer"
    /\ \E r \in ActiveRunsOf(SessionFor(n)) :
         /\ bound' = [bound EXCEPT ![n] = @ \union {r}]
         /\ tick' = [tick EXCEPT !.nowNode[n].status = "waiting", !.nowNode[n].run = r,
                                 !.starts = @ \ {n}]
    /\ UNCHANGED <<wf, shared, node, runVars, session, canceller, countVars>>

\* create answers 409 on a session with an active run (a steering node may have
\* read the session before it was active), or something else raises: the
\* executor fails the workflow and commits what the tick has changed.
StartFails(n) ==
    /\ tick.pc = "starting"
    /\ n \in tick.starts
    /\ StartRaises \/ MayBeTaken(SessionFor(n))
    /\ tick' = [tick EXCEPT !.pc = "closing", !.nowWf = "failed", !.starts = {}]
    /\ UNCHANGED <<wf, shared, node, runVars, historyVars, canceller, countVars>>

\* _finalize_if_complete, and the status that follows from current_node_ids.
AnyOver(rows) == NodesIn(rows, NodeTerminal) # {}  \* faulty: one node is enough
AllOver(rows) == NodesIn(rows, NodeTerminal) = Nodes
FinalStatus(rows) ==
    CASE AllOver(rows) /\ NodesIn(rows, {"failed"}) # {} -> "failed"
      [] AllOver(rows) /\ NodesIn(rows, {"failed"}) = {}
                       /\ NodesIn(rows, {"cancelled"}) # {} -> "cancelled"
      [] AllOver(rows) /\ NodesIn(rows, {"failed", "cancelled"}) = {} -> "completed"
      [] ~AllOver(rows) /\ NodesIn(rows, {"ready"} \union NodeActive) # {} -> "running"
      [] OTHER -> "waiting"

TickCommit ==
    /\ \/ /\ tick.pc = "starting"
          /\ tick.starts = {}
          /\ CommitTick(FinalStatus(tick.nowNode))
       \/ /\ tick.pc = "closing"
          /\ CommitTick(tick.nowWf)
    /\ tick' = NoTick
    /\ UNCHANGED <<runVars, historyVars, canceller, countVars>>
-----------------------------------------------------------------------------
(***************************************************************************)
(* The runs of the nodes                                                   *)
(***************************************************************************)

RunStarts(r) ==
    /\ run[r] = "queued"
    /\ held[r] = "submitted"
    /\ run' = [run EXCEPT ![r] = "running"]
    /\ held' = [held EXCEPT ![r] = "executed"]
    /\ UNCHANGED <<wf, shared, node, historyVars, tick, canceller, succeeded, countVars>>

Completed(r, status) == IF status = "completed" THEN succeeded \union {r} ELSE succeeded

RunEnds(r) ==
    /\ run[r] = "running"
    /\ \E status \in {"completed", "failed"} :
         /\ run' = [run EXCEPT ![r] = status]
         /\ succeeded' = Completed(r, status)
    /\ UNCHANGED <<wf, shared, node, historyVars, held, tick, canceller, countVars>>

\* A client stops the run.
RunStopped(r) ==
    /\ run[r] \in RunLive
    /\ run' = [run EXCEPT ![r] = "cancelled"]
    /\ UNCHANGED <<wf, shared, node, historyVars, held, tick, canceller, succeeded, countVars>>

\* What ClawRuns shows of racing transactions on one run: a claim, a commit or a
\* failure overwrites a stop, a stop overwrites an end, and a hook that raises
\* turns a completed run into a failed one.
Overwrites(r) ==
    CASE run[r] = "cancelled" /\ held[r] = "submitted" -> {"running"}
      [] run[r] = "cancelled" /\ held[r] = "executed" -> {"completed", "failed"}
      [] run[r] = "completed" /\ held[r] = "executed" -> {"failed", "cancelled"}
      [] run[r] = "failed" /\ held[r] = "executed" -> {"cancelled"}
      [] OTHER -> {}

RunOverwritten(r) ==
    /\ \E status \in Overwrites(r) :
         /\ run' = [run EXCEPT ![r] = status]
         /\ succeeded' = Completed(r, status)
    /\ held' = [held EXCEPT ![r] = "executed"]
    /\ UNCHANGED <<wf, shared, node, historyVars, tick, canceller, countVars>>
-----------------------------------------------------------------------------
(***************************************************************************)
(* cancel_run of the workflow                                              *)
(***************************************************************************)

CancelLoad ==
    /\ canceller.pc = "idle"
    /\ cancels < MaxCancels
    /\ wf \in WorkflowActive
    /\ cancels' = cancels + 1
    /\ canceller' = [pc |-> "cancelling", todo |-> NodesIn(node, NodeActive), dirty |-> {},
                     run |-> [n \in Nodes |-> node[n].run]]
    /\ UNCHANGED <<wf, shared, node, runVars, historyVars, tick, losses>>

CancelledRows(S) ==
    [n \in Nodes |-> IF n \in S THEN [node[n] EXCEPT !.status = "cancelled"] ELSE node[n]]

\* The run of a node is cancelled; if it was live, that commits the nodes that
\* were marked before, since the database session is the same.
CancelNode(n) ==
    /\ n \in canceller.todo
    /\ LET r == canceller.run[n]
       IN  \/ /\ r # None
              /\ run[r] \in RunLive
              /\ run' = [run EXCEPT ![r] = "cancelled"]
              /\ node' = CancelledRows(canceller.dirty)
              /\ canceller' = [canceller EXCEPT !.todo = @ \ {n}, !.dirty = {n}]
           \/ /\ r # None => run[r] \notin RunLive
              /\ canceller' = [canceller EXCEPT !.todo = @ \ {n}, !.dirty = @ \union {n}]
              /\ UNCHANGED <<run, node>>
    /\ UNCHANGED <<wf, shared, held, succeeded, historyVars, tick, countVars>>

CancelCommit ==
    /\ canceller.pc = "cancelling"
    /\ canceller.todo = {}
    /\ node' = CancelledRows(canceller.dirty)
    /\ wf' = "cancelled"
    /\ canceller' = NoCanceller
    /\ UNCHANGED <<shared, runVars, historyVars, tick, countVars>>
-----------------------------------------------------------------------------
(***************************************************************************)
(* Losses                                                                  *)
(***************************************************************************)

\* The tick is cancelled by the shutdown or its transaction fails.
TickLost ==
    /\ tick.pc # "idle"
    /\ losses < MaxLosses
    /\ losses' = losses + 1
    /\ tick' = NoTick
    /\ UNCHANGED <<wf, shared, node, runVars, historyVars, canceller, cancels>>

SubmitsNothing(r) == "none"    \* faulty: queued runs are not submitted again
Resubmitted(r) == IF run[r] = "queued" THEN "submitted" ELSE "none"

\* The process is lost and started again: startup_recover cancels the running
\* runs and submits the queued ones before the executor starts.
Restart ==
    /\ losses < MaxLosses
    /\ losses' = losses + 1
    /\ tick' = NoTick
    /\ canceller' = NoCanceller
    /\ run' = [r \in Runs |-> IF run[r] = "running" THEN "cancelled" ELSE run[r]]
    /\ held' = [r \in Runs |-> Resubmitted(r)]
    /\ UNCHANGED <<wf, shared, node, historyVars, succeeded, cancels>>
-----------------------------------------------------------------------------
TickStep ==
    \/ TickList
    \/ TickPlan
    \/ \E n \in Nodes : StartNode(n) \/ SteerNode(n) \/ StartFails(n)
    \/ TickCommit

CancelStep == CancelCommit \/ \E n \in Nodes : CancelNode(n)

Next ==
    \/ Trigger
    \/ TickStep
    \/ \E r \in Runs : RunStarts(r) \/ RunEnds(r) \/ RunStopped(r) \/ RunOverwritten(r)
    \/ CancelLoad
    \/ CancelStep
    \/ TickLost
    \/ Restart

Spec == Init /\ [][Next]_vars

\* The executor ticks for ever, the supervisor serves every submitted run and
\* runs end (see ClawRuns), a cancel request that has begun goes on.
Fairness ==
    /\ WF_vars(TickStep)
    /\ \A r \in Runs : WF_vars(RunStarts(r)) /\ WF_vars(RunEnds(r))
    /\ WF_vars(CancelStep)

FairSpec == Spec /\ Fairness
-----------------------------------------------------------------------------
TypeOK ==
    /\ wf \in WorkflowStatus
    /\ shared \in RunId
    /\ node \in [Nodes -> NodeRow]
    /\ run \in [Runs -> RunStatus]
    /\ session \in [Runs -> RunId]
    /\ held \in [Runs -> {"none", "submitted", "executed"}]
    /\ tick \in Tick
    /\ canceller \in Canceller
    /\ bound \in [Nodes -> SUBSET Runs]
    /\ succeeded \subseteq Runs
    /\ cancels \in Nat
    /\ losses \in Nat
-----------------------------------------------------------------------------
\* The nodes one of whose runs has succeeded.
DoneNodes == {n \in Nodes : bound[n] \intersect succeeded # {}}

\* No node is given a run, at any attempt, before the nodes it needs succeeded.
Order == INSTANCE DependencyOrder WITH attempts <- bound, done <- DoneNodes
ImplementsDependencyOrder == Order!Spec

\* A workflow that reads "completed" has done all its work: whatever a stale
\* tick, a cancellation or a restart overwrote, each node has had a run that
\* succeeded.
CompletedMeansDone == wf = "completed" => DoneNodes = Nodes

LiveRuns == {r \in Runs : run[r] \in RunLive}

\* The policy bounds the runs that are alive, not only the rows of the nodes:
\* what a lost tick had created and never recorded adds one run for each loss.
ConcurrencyRespected == Cardinality(LiveRuns) <= MaxConcurrency + losses

\* A workflow that was triggered comes to an end.
WorkflowEnds == wf = "queued" ~> wf \in WorkflowTerminal
=============================================================================
