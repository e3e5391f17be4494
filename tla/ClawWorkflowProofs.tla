------------------------- MODULE ClawWorkflowProofs -------------------------
(***************************************************************************)
(* Theorems about ClawWorkflow, for any definition, policy, set of runs    *)
(* and number of cancel requests and losses.                               *)
(***************************************************************************)
EXTENDS ClawWorkflow, FiniteSetTheorems, TLAPS

\* What a commit leaves in a row is, column by column, an old or a new value.
LEMMA WrittenRowType ==
    ASSUME NEW x \in NodeRow, NEW y \in NodeRow, NEW z \in NodeRow
    PROVE  /\ WrittenRow(x, y, z) \in NodeRow
           /\ WrittenRow(x, y, z).status \in {x.status, z.status}
           /\ WrittenRow(x, y, z).run \in {x.run, z.run}
  BY DEF WrittenRow, Written, NodeRow

LEMMA RowConstants == NoRow \in NodeRow /\ NewRow \in NodeRow
  BY DEF NoRow, NewRow, NodeRow, NodeStatus, RunId

LEMMA StateConstants == NoTick \in Tick /\ NoCanceller \in Canceller
  BY RowConstants DEF NoTick, Tick, NoCanceller, Canceller, WorkflowStatus, RunId

\* The session of the executor writes rows of the right type.
LEMMA CommitTickType ==
    ASSUME TypeOK, NEW s \in WorkflowStatus, CommitTick(s)
    PROVE  wf' \in WorkflowStatus /\ shared' \in RunId /\ node' \in [Nodes -> NodeRow]
<1>1. tick.readNode \in [Nodes -> NodeRow] /\ tick.nowNode \in [Nodes -> NodeRow]
  BY DEF TypeOK, Tick
<1>2. \A n \in Nodes : WrittenRow(node[n], tick.readNode[n], tick.nowNode[n]) \in NodeRow
  BY <1>1, WrittenRowType DEF TypeOK
<1> QED BY <1>2 DEF CommitTick, TypeOK, Tick, Written

LEMMA RefreshedType ==
    ASSUME TypeOK, NEW x \in NodeRow
    PROVE  Refreshed(x) \in NodeRow
  BY DEF Refreshed, NextAttempt, NodeRow, TypeOK, RunId, RunStatus, RunLive, RunTerminal,
         NodeStatus, NodeActive, NodeTerminal

LEMMA ReadiedType ==
    ASSUME NEW rows \in [Nodes -> NodeRow]
    PROVE  Readied(rows) \in [Nodes -> NodeRow]
  BY DEF Readied, NodeRow, NodeStatus

LEMMA CancelledRowsType ==
    ASSUME TypeOK, NEW S PROVE CancelledRows(S) \in [Nodes -> NodeRow]
  BY DEF CancelledRows, TypeOK, NodeRow, NodeStatus, NodeTerminal

\* The parts of the tick, for proofs that need only some of them.
LEMMA TickParts ==
    ASSUME TypeOK
    PROVE  /\ tick.readNode \in [Nodes -> NodeRow]
           /\ tick.nowNode \in [Nodes -> NodeRow]
           /\ tick.readWf \in WorkflowStatus
           /\ tick.nowWf \in WorkflowStatus
           /\ tick.shared \in RunId
           /\ tick.starts \subseteq Nodes
  BY DEF TypeOK, Tick

LEMMA InitType == Init => TypeOK
  BY StateConstants, RowConstants
     DEF Init, TypeOK, WorkflowStatus, RunStatus, RunId

LEMMA PlannedType ==
    ASSUME TypeOK, NEW pc \in {"starting", "closing"}, NEW rows \in [Nodes -> NodeRow],
           NEW s \in WorkflowStatus, NEW S \in SUBSET Nodes
    PROVE  Planned(pc, rows, s, S) \in Tick
  BY DEF Planned, TypeOK, Tick

LEMMA PlanType == TypeOK /\ TickPlan => tick' \in Tick
<1> SUFFICES ASSUME TypeOK, TickPlan PROVE tick' \in Tick
  OBVIOUS
<1>1. RowsAtStart \in [Nodes -> NodeRow]
  BY RowConstants DEF RowsAtStart, TypeOK
<1> DEFINE rows == [n \in Nodes |-> Refreshed(RowsAtStart[n])]
<1>2. rows \in [Nodes -> NodeRow]
  BY <1>1, RefreshedType
<1>3. Readied(rows) \in [Nodes -> NodeRow]
  BY <1>2, ReadiedType
<1>4. StartsAllowed(Readied(rows)) \subseteq SUBSET Nodes
  BY DEF StartsAllowed, Fitting, NodesIn
<1>5. {"failed", "cancelled", "running"} \subseteq WorkflowStatus
  BY DEF WorkflowStatus, WorkflowActive, WorkflowTerminal
<1>6. \/ tick' = Planned("closing", rows, "failed", {})
      \/ tick' = Planned("closing", rows, "cancelled", {})
      \/ \E S \in StartsAllowed(Readied(rows)) :
           tick' = Planned("starting", Readied(rows), "running", S)
  BY Zenon DEF TickPlan
<1> HIDE DEF rows
<1> QED BY <1>2, <1>3, <1>4, <1>5, <1>6, PlannedType
-----------------------------------------------------------------------------
(***************************************************************************)
(* Every action preserves the types.                                       *)
(***************************************************************************)

LEMMA NewRunIdIsUnused == UnusedRuns # {} => NewRunId \in Runs /\ run[NewRunId] = "absent"
  BY DEF NewRunId, UnusedRuns

LEMMA SessionType == ASSUME TypeOK, NEW n \in Nodes PROVE SessionFor(n) \in RunId
  BY TickParts DEF SessionFor, RunId

LEMMA FinalStatusType == FinalStatus(tick.nowNode) \in WorkflowStatus
  BY Zenon DEF FinalStatus, WorkflowStatus, WorkflowActive, WorkflowTerminal

LEMMA StartType ==
    ASSUME TypeOK, NEW n \in Nodes, StartNode(n) PROVE TypeOK'
<1> DEFINE r == NewRunId
<1>1. r \in Runs
  BY NewRunIdIsUnused DEF StartNode
<1>2. CommitTick(tick.nowWf) /\ tick.nowWf \in WorkflowStatus
  BY TickParts DEF StartNode
<1>3. wf' \in WorkflowStatus /\ shared' \in RunId /\ node' \in [Nodes -> NodeRow]
  BY <1>2, CommitTickType
<1>4. run' \in [Runs -> RunStatus] /\ held' \in [Runs -> {"none", "submitted", "executed"}]
  BY <1>1 DEF StartNode, TypeOK, RunStatus, RunLive
<1>5. session' \in [Runs -> RunId] /\ bound' \in [Nodes -> SUBSET Runs]
  BY <1>1, SessionType DEF StartNode, TypeOK, RunId
<1>6. tick' \in Tick
  <2> DEFINE row == [tick.nowNode[n] EXCEPT !.status = "queued", !.run = r]
  <2>1. tick.nowNode[n] \in NodeRow
    BY TickParts
  <2>2. row \in NodeRow
    BY <1>1, <2>1 DEF NodeRow, NodeStatus, NodeActive, RunId
  <2>3. tick.nowNode \in [Nodes -> NodeRow]
    BY TickParts
  <2>4. [tick.nowNode EXCEPT ![n] = row] \in [Nodes -> NodeRow]
    BY <2>2, <2>3
  <2>5. tick'.nowNode = [tick.nowNode EXCEPT ![n] = row]
    BY <2>1, <2>3 DEF StartNode, TypeOK, Tick, NodeRow
  <2>6. tick' = [tick EXCEPT !.readWf = tick.nowWf, !.readNode = tick.nowNode,
                             !.nowNode = tick'.nowNode, !.starts = tick'.starts,
                             !.shared = tick'.shared]
    BY DEF StartNode, TypeOK, Tick
  <2>7. tick'.starts \in SUBSET Nodes /\ tick'.shared \in RunId
    BY <1>1 DEF StartNode, TypeOK, Tick, RunId
  <2> QED BY <2>3, <2>4, <2>5, <2>6, <2>7, <1>2 DEF TypeOK, Tick
<1> QED BY <1>3, <1>4, <1>5, <1>6 DEF StartNode, TypeOK, countVars

LEMMA SteerType ==
    ASSUME TypeOK, NEW n \in Nodes, SteerNode(n) PROVE TypeOK'
<1>1. PICK r \in ActiveRunsOf(SessionFor(n)) :
        /\ bound' = [bound EXCEPT ![n] = @ \union {r}]
        /\ tick' = [tick EXCEPT !.nowNode[n].status = "waiting", !.nowNode[n].run = r,
                                !.starts = @ \ {n}]
  BY DEF SteerNode
<1>2. r \in Runs
  BY DEF ActiveRunsOf, RunsIn
<1>3. bound' \in [Nodes -> SUBSET Runs]
  BY <1>1, <1>2 DEF TypeOK
<1>4. tick' \in Tick
  <2> DEFINE row == [tick.nowNode[n] EXCEPT !.status = "waiting", !.run = r]
  <2>1. tick.nowNode[n] \in NodeRow /\ tick.nowNode \in [Nodes -> NodeRow]
    BY TickParts
  <2>2. row \in NodeRow
    BY <1>2, <2>1 DEF NodeRow, NodeStatus, NodeActive, RunId
  <2>3. [tick.nowNode EXCEPT ![n] = row] \in [Nodes -> NodeRow]
    BY <2>1, <2>2
  <2>4. tick' = [tick EXCEPT !.nowNode = [tick.nowNode EXCEPT ![n] = row],
                             !.starts = tick.starts \ {n}]
    BY <1>1, <2>1 DEF TypeOK, Tick, NodeRow
  <2> QED BY <2>3, <2>4 DEF TypeOK, Tick
<1>5. UNCHANGED <<wf, shared, node, run, held, succeeded, session, canceller, cancels, losses>>
  BY DEF SteerNode, runVars, countVars
<1> QED BY <1>3, <1>4, <1>5 DEF TypeOK

LEMMA CancelNodeType ==
    ASSUME TypeOK, NEW n \in Nodes, CancelNode(n) PROVE TypeOK'
<1>1. canceller.run[n] \in RunId
  BY DEF TypeOK, Canceller
<1>2. canceller' \in Canceller
  <2>1. \E D \in SUBSET Nodes :
          canceller' = [canceller EXCEPT !.todo = canceller.todo \ {n}, !.dirty = D]
    BY DEF CancelNode, TypeOK, Canceller
  <2> QED BY <2>1, ZenonT(30) DEF TypeOK, Canceller
<1>3. run' \in [Runs -> RunStatus]
  BY <1>1 DEF CancelNode, TypeOK, RunStatus, RunTerminal
<1>4. node' \in [Nodes -> NodeRow]
  BY CancelledRowsType DEF CancelNode, TypeOK
<1>5. UNCHANGED <<wf, shared, held, succeeded, session, bound, tick, cancels, losses>>
  BY DEF CancelNode, historyVars, countVars
<1> QED BY <1>2, <1>3, <1>4, <1>5 DEF TypeOK

\* Every step preserves the types.
LEMMA TypeStep == TypeOK /\ [Next]_vars => TypeOK'
<1> SUFFICES ASSUME TypeOK, [Next]_vars PROVE TypeOK'
  OBVIOUS
<1> USE DEF runVars, historyVars, countVars
<1>1. CASE Trigger
  BY <1>1 DEF Trigger, TypeOK, WorkflowStatus, WorkflowActive
<1>2. CASE TickList
  BY <1>2, StateConstants DEF TickList, TypeOK, Tick
<1>3. CASE TickPlan
  BY <1>3, PlanType DEF TickPlan, TypeOK
<1>4. ASSUME NEW n \in Nodes, StartNode(n) PROVE TypeOK'
  BY <1>4, StartType
<1>5. ASSUME NEW n \in Nodes, SteerNode(n) PROVE TypeOK'
  BY <1>5, SteerType
<1>6. ASSUME NEW n \in Nodes, StartFails(n) PROVE TypeOK'
  BY <1>6 DEF StartFails, TypeOK, Tick, WorkflowStatus, WorkflowTerminal
<1>7. CASE TickCommit
  <2>1. wf' \in WorkflowStatus /\ shared' \in RunId /\ node' \in [Nodes -> NodeRow]
    BY <1>7, CommitTickType, FinalStatusType, TickParts DEF TickCommit
  <2> QED BY <1>7, <2>1, StateConstants DEF TickCommit, TypeOK
<1>8. ASSUME NEW r \in Runs, RunStarts(r) PROVE TypeOK'
  BY <1>8 DEF RunStarts, TypeOK, RunStatus, RunLive
<1>9. ASSUME NEW r \in Runs, RunEnds(r) PROVE TypeOK'
  BY <1>9 DEF RunEnds, Completed, TypeOK, RunStatus, RunTerminal
<1>10. ASSUME NEW r \in Runs, RunStopped(r) PROVE TypeOK'
  BY <1>10 DEF RunStopped, TypeOK, RunStatus, RunTerminal
<1>11. ASSUME NEW r \in Runs, RunOverwritten(r) PROVE TypeOK'
  <2>1. Overwrites(r) \subseteq RunStatus
    BY Zenon DEF Overwrites, RunStatus, RunLive, RunTerminal
  <2> QED BY <1>11, <2>1 DEF RunOverwritten, Completed, TypeOK
<1>12. CASE CancelLoad
  <2>1. canceller' \in Canceller
    BY <1>12 DEF CancelLoad, NodesIn, TypeOK, NodeRow, Canceller
  <2> QED BY <1>12, <2>1 DEF CancelLoad, TypeOK
<1>13. ASSUME NEW n \in Nodes, CancelNode(n) PROVE TypeOK'
  BY <1>13, CancelNodeType
<1>14. CASE CancelCommit
  BY <1>14, CancelledRowsType, StateConstants
     DEF CancelCommit, TypeOK, WorkflowStatus, WorkflowTerminal
<1>15. CASE TickLost
  BY <1>15, StateConstants DEF TickLost, TypeOK
<1>16. CASE Restart
  BY <1>16, StateConstants DEF Restart, Resubmitted, TypeOK, RunStatus, RunTerminal
<1>17. CASE UNCHANGED vars
  BY <1>17 DEF vars, TypeOK
<1> QED
  BY <1>1, <1>2, <1>3, <1>4, <1>5, <1>6, <1>7, <1>8, <1>9, <1>10, <1>11, <1>12,
     <1>13, <1>14, <1>15, <1>16, <1>17 DEF Next, TickStep, CancelStep

\* The type invariant: nothing that the tick, a client or a loss does leaves a
\* status, a run id or a row outside of what the tables hold.
THEOREM TypesHold == Spec => []TypeOK
  BY InitType, TypeStep, PTL DEF Spec
-----------------------------------------------------------------------------
(***************************************************************************)
(* The inductive invariant.  A row, as it is in the table or as the tick   *)
(* has it in memory, may be stale, but what it says of completed work is   *)
(* true and stays true: work that was done is never undone.  A commit      *)
(* mixes columns of two such rows, so each column speaks for itself.       *)
(***************************************************************************)

RowSound(row, n) ==
    /\ row.status = "completed" => n \in DoneNodes
    /\ row.status \in {"ready"} \union NodeActive => Needs[n] \subseteq DoneNodes
    /\ row.run # None => row.run \in bound[n]

RowsSound(rows) == \A n \in Nodes : RowSound(rows[n], n)

\* A run that has not started, or may start again, has never succeeded.
RunsSound ==
    \A r \in Runs :
       /\ run[r] = "completed" => r \in succeeded
       /\ run[r] \in {"absent", "queued", "running"} => r \notin succeeded
       /\ held[r] = "submitted" => run[r] \in {"queued", "cancelled"} /\ r \notin succeeded

TickSound ==
    /\ tick.nowWf # "completed"
    /\ RowsSound(tick.nowNode)
    /\ \A n \in tick.starts : Needs[n] \subseteq DoneNodes

IInv == TypeOK /\ RowsSound(node) /\ RunsSound /\ TickSound /\ CompletedMeansDone

\* Rows that are sound stay sound when more runs are bound or succeed.
LEMMA MoreDone ==
    ASSUME TypeOK, TypeOK', NEW rows, RowsSound(rows), succeeded \subseteq succeeded',
           \A n \in Nodes : bound[n] \subseteq bound'[n]
    PROVE  /\ DoneNodes \subseteq DoneNodes'
           /\ \A n \in Nodes : RowSound(rows[n], n)'
<1>1. DoneNodes \subseteq DoneNodes'
  BY DEF DoneNodes
<1> QED BY <1>1 DEF RowsSound, RowSound
LEMMA RefreshedSound ==
    ASSUME IInv, NEW x \in NodeRow, NEW n \in Nodes, RowSound(x, n)
    PROVE  RowSound(Refreshed(x), n)
<1>1. x.run # None => x.run \in Runs
  BY DEF NodeRow, RunId
<1>2. CASE x.status \notin NodeActive \/ x.run = None
  BY <1>2 DEF Refreshed
<1>3. CASE x.status \in NodeActive /\ x.run # None
  <2> DEFINE status == run[x.run]
  <2>1. Needs[n] \subseteq DoneNodes /\ x.run \in bound[n]
    BY <1>3 DEF RowSound
  <2>2. status = "completed" => n \in DoneNodes
    BY <1>1, <1>3, <2>1 DEF IInv, RunsSound, DoneNodes
  <2>3. RowSound(NextAttempt(x), n)
    BY <2>1 DEF RowSound, NextAttempt, NodeActive
  <2>4. RowSound([x EXCEPT !.status = status], n)
    BY <1>3, <2>1, <2>2 DEF RowSound, NodeRow
  <2> QED BY <2>3, <2>4 DEF Refreshed
<1> QED BY <1>2, <1>3

LEMMA ReadiedSound ==
    ASSUME NEW rows \in [Nodes -> NodeRow], RowsSound(rows) PROVE RowsSound(Readied(rows))
<1> SUFFICES ASSUME NEW n \in Nodes PROVE RowSound(Readied(rows)[n], n)
  BY DEF RowsSound
<1>1. RowSound(rows[n], n)
  BY DEF RowsSound
<1>2. CASE rows[n].status = "pending" /\ NeedsMet(rows, n)
  <2>1. Needs[n] \subseteq DoneNodes
    BY <1>2 DEF NeedsMet, NodesIn, RowsSound, RowSound
  <2> QED BY <1>1, <1>2, <2>1 DEF Readied, RowSound, NodeRow
<1>3. CASE ~(rows[n].status = "pending" /\ NeedsMet(rows, n))
  BY <1>1, <1>3 DEF Readied
<1> QED BY <1>2, <1>3

\* What the tick plans with is sound, and it starts no node too early.
LEMMA PlanSound == IInv /\ TickPlan => TickSound'
<1> SUFFICES ASSUME IInv, TickPlan PROVE TickSound'
  OBVIOUS
<1> DEFINE rows == [n \in Nodes |-> Refreshed(RowsAtStart[n])]
<1>1. RowsAtStart \in [Nodes -> NodeRow] /\ RowsSound(RowsAtStart)
  BY RowConstants DEF RowsAtStart, IInv, TypeOK, RowsSound, RowSound, NewRow, NodeActive
<1>2. rows \in [Nodes -> NodeRow]
  BY <1>1, RefreshedType DEF IInv
<1>3. RowsSound(rows)
  BY <1>1, RefreshedSound DEF RowsSound
<1>4. Readied(rows) \in [Nodes -> NodeRow] /\ RowsSound(Readied(rows))
  BY <1>2, <1>3, ReadiedType, ReadiedSound
<1>5. DoneNodes' = DoneNodes /\ bound' = bound
  BY DEF TickPlan, historyVars, runVars, DoneNodes
<1>6. \/ tick' = Planned("closing", rows, "failed", {})
      \/ tick' = Planned("closing", rows, "cancelled", {})
      \/ \E S \in StartsAllowed(Readied(rows)) :
           tick' = Planned("starting", Readied(rows), "running", S)
  BY Zenon DEF TickPlan
<1> HIDE DEF rows
<1>7. \E now \in {rows, Readied(rows)}, st \in {"failed", "cancelled", "running"},
         S \in {{}} \union StartsAllowed(Readied(rows)) :
         tick'.nowNode = now /\ tick'.nowWf = st /\ tick'.starts = S
  BY <1>6, ZenonT(30) DEF Planned, IInv, TypeOK, Tick
<1>8. \A S \in {{}} \union StartsAllowed(Readied(rows)), n \in Nodes :
         n \in S => Needs[n] \subseteq DoneNodes
  BY <1>4 DEF StartsAllowed, Fitting, NodesIn, RowsSound, RowSound
<1>9. \A S \in StartsAllowed(Readied(rows)) : S \subseteq Nodes
  BY DEF StartsAllowed, Fitting, NodesIn
<1> QED BY <1>3, <1>4, <1>5, <1>7, <1>8, <1>9 DEF TickSound, RowsSound, RowSound

\* What a commit of the tick writes to the tables is sound.
LEMMA CommitSound ==
    ASSUME IInv, NEW s \in WorkflowStatus, CommitTick(s)
    PROVE  \A n \in Nodes : RowSound(node'[n], n)
<1> SUFFICES ASSUME NEW n \in Nodes PROVE RowSound(node'[n], n)
  OBVIOUS
<1> DEFINE new == WrittenRow(node[n], tick.readNode[n], tick.nowNode[n])
<1>1. /\ new.status \in {node[n].status, tick.nowNode[n].status}
      /\ new.run \in {node[n].run, tick.nowNode[n].run}
  BY TickParts, WrittenRowType DEF IInv, TypeOK
<1>2. RowSound(node[n], n) /\ RowSound(tick.nowNode[n], n)
  BY DEF IInv, TickSound, RowsSound
<1>3. node'[n] = new
  BY DEF CommitTick
<1> HIDE DEF new
<1> QED BY <1>1, <1>2, <1>3 DEF RowSound

\* A workflow that a tick completes has done the work of all nodes.
LEMMA FinalSound ==
    IInv /\ FinalStatus(tick.nowNode) = "completed" => DoneNodes = Nodes
<1> SUFFICES ASSUME IInv, FinalStatus(tick.nowNode) = "completed" PROVE DoneNodes = Nodes
  OBVIOUS
<1>1. AllOver(tick.nowNode) /\ NodesIn(tick.nowNode, {"failed", "cancelled"}) = {}
  BY Zenon DEF FinalStatus
<1>2. \A n \in Nodes : tick.nowNode[n].status = "completed"
  BY <1>1 DEF AllOver, NodesIn, NodeTerminal
<1> QED BY <1>2 DEF IInv, TickSound, RowsSound, RowSound, DoneNodes
-----------------------------------------------------------------------------
(***************************************************************************)
(* Every action preserves the invariant.                                   *)
(***************************************************************************)

\* The run that a starting node is given has not succeeded, so no work is done
\* by starting it.
LEMMA StartDoesNothing ==
    ASSUME IInv, NEW n \in Nodes, StartNode(n) \/ SteerNode(n)
    PROVE  /\ DoneNodes' = DoneNodes
           /\ succeeded' = succeeded
           /\ Needs[n] \subseteq DoneNodes
           /\ \E r \in Runs : bound' = [bound EXCEPT ![n] = @ \union {r}]
<1>1. \E r \in Runs : r \notin succeeded /\ bound' = [bound EXCEPT ![n] = @ \union {r}]
  <2>1. CASE StartNode(n)
    BY <2>1, NewRunIdIsUnused DEF StartNode, IInv, RunsSound
  <2>2. CASE SteerNode(n)
    BY <2>2 DEF SteerNode, ActiveRunsOf, RunsIn, IInv, RunsSound
  <2> QED BY <2>1, <2>2
<1>2. succeeded' = succeeded
  BY DEF StartNode, SteerNode, runVars
<1>3. DoneNodes' = DoneNodes
  BY <1>1, <1>2 DEF DoneNodes, IInv, TypeOK
<1>4. n \in tick.starts
  BY DEF StartNode, SteerNode
<1> QED BY <1>1, <1>2, <1>3, <1>4 DEF IInv, TickSound

LEMMA StartSound ==
    ASSUME IInv, NEW n \in Nodes, StartNode(n) PROVE IInv'
<1> DEFINE r == NewRunId
<1>1. TypeOK'
  BY StartType DEF IInv
<1>2. DoneNodes' = DoneNodes /\ Needs[n] \subseteq DoneNodes
  BY StartDoesNothing
<1>3. r \in Runs /\ run[r] = "absent"
  BY NewRunIdIsUnused DEF StartNode
<1>4. \A m \in Nodes : bound[m] \subseteq bound'[m]
  BY DEF StartNode, IInv, TypeOK
<1>5. RowsSound(node)'
  <2>1. CommitTick(tick.nowWf) /\ tick.nowWf \in WorkflowStatus
    BY TickParts DEF StartNode, IInv
  <2> QED BY <1>2, <1>4, <2>1, CommitSound DEF RowsSound, RowSound
<1>6. RunsSound'
  BY <1>3 DEF StartNode, IInv, TypeOK, RunsSound
<1>7. TickSound'
  <2>1. tick'.nowWf = tick.nowWf /\ tick'.starts = tick.starts \ {n}
    BY DEF StartNode, IInv, TypeOK, Tick
  <2>2. \A m \in Nodes : m # n => tick'.nowNode[m] = tick.nowNode[m]
    BY DEF StartNode, IInv, TypeOK, Tick
  <2>3. tick'.nowNode[n].status = "queued" /\ tick'.nowNode[n].run = r
    BY TickParts DEF StartNode, IInv, TypeOK, Tick, NodeRow
  <2>4. r \in bound'[n]
    BY DEF StartNode, IInv, TypeOK
  <2>5. \A m \in Nodes : RowSound(tick.nowNode[m], m)'
    <3> SUFFICES ASSUME NEW m \in Nodes PROVE RowSound(tick.nowNode[m], m)'
      OBVIOUS
    <3>1. CASE m = n
      BY <1>2, <2>3, <2>4, <3>1 DEF RowSound
    <3>2. CASE m # n
      BY <1>2, <1>4, <2>2, <3>2 DEF RowSound, RowsSound, IInv, TickSound
    <3> QED BY <3>1, <3>2
  <2> QED BY <1>2, <2>1, <2>5 DEF TickSound, RowsSound, IInv
<1>8. CompletedMeansDone'
  BY <1>2, TickParts DEF StartNode, CommitTick, Written, IInv, TickSound, CompletedMeansDone
<1> QED BY <1>1, <1>5, <1>6, <1>7, <1>8 DEF IInv
LEMMA SteerSound ==
    ASSUME IInv, NEW n \in Nodes, SteerNode(n) PROVE IInv'
<1>1. TypeOK'
  BY SteerType DEF IInv
<1>2. DoneNodes' = DoneNodes /\ Needs[n] \subseteq DoneNodes
  BY StartDoesNothing
<1>3. PICK r \in Runs :
        /\ bound' = [bound EXCEPT ![n] = @ \union {r}]
        /\ tick' = [tick EXCEPT !.nowNode[n].status = "waiting", !.nowNode[n].run = r,
                                !.starts = @ \ {n}]
  BY DEF SteerNode, ActiveRunsOf, RunsIn
<1>4. \A m \in Nodes : bound[m] \subseteq bound'[m]
  BY <1>3 DEF IInv, TypeOK
<1>5. UNCHANGED <<wf, node, run, held, succeeded>>
  BY DEF SteerNode, runVars
<1>6. TickSound'
  <2>1. tick'.nowWf = tick.nowWf /\ tick'.starts = tick.starts \ {n}
    BY <1>3 DEF IInv, TypeOK, Tick
  <2>2. \A m \in Nodes : m # n => tick'.nowNode[m] = tick.nowNode[m]
    BY <1>3 DEF IInv, TypeOK, Tick
  <2>3. tick'.nowNode[n].status = "waiting" /\ tick'.nowNode[n].run = r
    BY <1>3, TickParts DEF IInv, TypeOK, Tick, NodeRow
  <2>4. r \in bound'[n]
    BY <1>3 DEF IInv, TypeOK
  <2>5. \A m \in Nodes : RowSound(tick.nowNode[m], m)'
    <3> SUFFICES ASSUME NEW m \in Nodes PROVE RowSound(tick.nowNode[m], m)'
      OBVIOUS
    <3>1. CASE m = n
      BY <1>2, <2>3, <2>4, <3>1 DEF RowSound
    <3>2. CASE m # n
      BY <1>2, <1>4, <2>2, <3>2 DEF RowSound, RowsSound, IInv, TickSound
    <3> QED BY <3>1, <3>2
  <2> QED BY <1>2, <2>1, <2>5 DEF TickSound, RowsSound, IInv
<1>7. RowsSound(node)'
  BY <1>2, <1>4, <1>5 DEF IInv, RowsSound, RowSound
<1> QED BY <1>1, <1>2, <1>5, <1>6, <1>7 DEF IInv, RunsSound, CompletedMeansDone

\* The end of a run, or a race on it, may add to the work that is done.
LEMMA OutcomeSound ==
    ASSUME IInv, NEW r \in Runs, RunEnds(r) \/ RunOverwritten(r) PROVE IInv'
<1>1. TypeOK'
  BY TypeStep DEF IInv, Next
<1>2. UNCHANGED <<wf, node, bound, tick>> /\ succeeded \subseteq succeeded'
  BY DEF RunEnds, RunOverwritten, Completed, historyVars
<1>3. DoneNodes \subseteq DoneNodes'
  BY <1>2 DEF DoneNodes
<1>4. RunsSound'
  <2> SUFFICES ASSUME NEW q \in Runs PROVE
        (/\ run[q] = "completed" => q \in succeeded
         /\ run[q] \in {"absent", "queued", "running"} => q \notin succeeded
         /\ held[q] = "submitted" => run[q] \in {"queued", "cancelled"} /\ q \notin succeeded)'
    BY DEF RunsSound
  <2>1. CASE RunEnds(r)
    BY <2>1 DEF RunEnds, Completed, IInv, TypeOK, RunsSound
  <2>2. CASE RunOverwritten(r)
    <3>1. \A status \in Overwrites(r) :
            /\ status \in {"running", "completed", "failed", "cancelled"}
            /\ status = "running" => run[r] = "cancelled" /\ held[r] = "submitted"
      BY Zenon DEF Overwrites
    <3> QED BY <2>2, <3>1 DEF RunOverwritten, Completed, IInv, TypeOK, RunsSound
  <2> QED BY <2>1, <2>2
<1>5. TickSound' /\ RowsSound(node)'
  BY <1>2, <1>3 DEF IInv, TickSound, RowsSound, RowSound
<1>6. CompletedMeansDone'
  BY <1>2, <1>3 DEF IInv, CompletedMeansDone, DoneNodes
<1> QED BY <1>1, <1>4, <1>5, <1>6 DEF IInv
\* A commit of the tick, which also decides the status of the workflow.
LEMMA TickCommitSound == IInv /\ TickCommit => IInv'
<1> SUFFICES ASSUME IInv, TickCommit PROVE IInv'
  OBVIOUS
<1>1. TypeOK'
  BY TypeStep DEF IInv, Next, TickStep
<1>2. UNCHANGED <<run, held, succeeded, bound>> /\ tick' = NoTick
  BY DEF TickCommit, runVars, historyVars
<1>3. DoneNodes' = DoneNodes
  BY <1>2 DEF DoneNodes
<1>4. PICK s \in WorkflowStatus : CommitTick(s) /\ s \in {FinalStatus(tick.nowNode), tick.nowWf}
  BY TickParts, FinalStatusType DEF TickCommit, IInv
<1>5. RowsSound(node)'
  BY <1>2, <1>3, <1>4, CommitSound DEF RowsSound, RowSound
<1>6. TickSound'
  BY <1>2 DEF TickSound, NoTick, NoRow, RowsSound, RowSound, NodeActive
<1>7. CompletedMeansDone'
  <2>1. wf' \in {wf, s}
    BY <1>4 DEF CommitTick, Written
  <2>2. s = "completed" => DoneNodes = Nodes
    BY <1>4, FinalSound DEF IInv, TickSound
  <2> QED BY <1>3, <2>1, <2>2 DEF IInv, CompletedMeansDone
<1>8. RunsSound'
  BY <1>2 DEF IInv, RunsSound
<1> QED BY <1>1, <1>5, <1>6, <1>7, <1>8 DEF IInv

\* What a client and a loss do adds no work and undoes none.
LEMMA CancelledRowsSound ==
    ASSUME IInv, NEW S PROVE \A n \in Nodes : RowSound(CancelledRows(S)[n], n)
  BY DEF CancelledRows, IInv, TypeOK, NodeRow, RowsSound, RowSound, NodeActive

LEMMA InvInit == Init => IInv
<1> SUFFICES ASSUME Init PROVE IInv
  OBVIOUS
<1>1. RowsSound(node)
  BY DEF Init, NoRow, RowsSound, RowSound, NodeActive
<1>2. TickSound
  BY DEF Init, NoTick, NoRow, TickSound, RowsSound, RowSound, NodeActive
<1> QED BY <1>1, <1>2, InitType DEF Init, IInv, RunsSound, CompletedMeansDone

LEMMA InvStep == IInv /\ [Next]_vars => IInv'
<1> SUFFICES ASSUME IInv, [Next]_vars PROVE IInv'
  OBVIOUS
<1> USE DEF runVars, historyVars
<1>1. TypeOK'
  BY TypeStep DEF IInv
<1>2. ASSUME UNCHANGED <<bound, succeeded>>, UNCHANGED node, UNCHANGED tick
      PROVE  RowsSound(node)' /\ TickSound' /\ DoneNodes' = DoneNodes
  BY <1>2 DEF IInv, RowsSound, RowSound, TickSound, DoneNodes
<1>3. ASSUME UNCHANGED <<bound, succeeded, node>>, tick' = NoTick
      PROVE  RowsSound(node)' /\ TickSound' /\ DoneNodes' = DoneNodes
  BY <1>3 DEF IInv, RowsSound, RowSound, TickSound, DoneNodes, NoTick, NoRow, NodeActive
<1>4. ASSUME UNCHANGED <<bound, succeeded, tick>>, NEW S, node' = CancelledRows(S)
      PROVE  RowsSound(node)' /\ TickSound' /\ DoneNodes' = DoneNodes
  BY <1>4, CancelledRowsSound DEF IInv, RowsSound, RowSound, TickSound, DoneNodes
<1>5. CASE Trigger
  BY <1>1, <1>2, <1>5 DEF Trigger, IInv, RunsSound, CompletedMeansDone
<1>6. CASE TickList
  <2>1. tick'.nowWf = wf /\ tick'.starts = {} /\ tick'.nowNode = NoTick.nowNode
    BY <1>6 DEF TickList, NoTick
  <2>2. TickSound' /\ DoneNodes' = DoneNodes
    BY <1>6, <2>1 DEF TickList, TickSound, NoTick, NoRow, RowsSound, RowSound, NodeActive,
                      WorkflowActive, DoneNodes
  <2> QED BY <1>1, <1>6, <2>2
         DEF TickList, IInv, RunsSound, CompletedMeansDone, RowsSound, RowSound
<1>7. CASE TickPlan
  BY <1>1, <1>7, PlanSound
     DEF TickPlan, IInv, RunsSound, CompletedMeansDone, RowsSound, RowSound, DoneNodes
<1>8. ASSUME NEW n \in Nodes, StartNode(n) PROVE IInv'
  BY <1>8, StartSound
<1>9. ASSUME NEW n \in Nodes, SteerNode(n) PROVE IInv'
  BY <1>9, SteerSound
<1>10. ASSUME NEW n \in Nodes, StartFails(n) PROVE IInv'
  <2>1. tick'.nowWf = "failed" /\ tick'.starts = {} /\ tick'.nowNode = tick.nowNode
    BY <1>10 DEF StartFails, IInv, TypeOK, Tick
  <2> QED BY <1>1, <1>10, <2>1
         DEF StartFails, IInv, RunsSound, CompletedMeansDone, TickSound, RowsSound, RowSound,
             DoneNodes
<1>11. CASE TickCommit
  BY <1>11, TickCommitSound
<1>12. ASSUME NEW r \in Runs, RunStarts(r) PROVE IInv'
  BY <1>1, <1>2, <1>12 DEF RunStarts, IInv, TypeOK, RunsSound, CompletedMeansDone
<1>13. ASSUME NEW r \in Runs, RunEnds(r) \/ RunOverwritten(r) PROVE IInv'
  BY <1>13, OutcomeSound
<1>14. ASSUME NEW r \in Runs, RunStopped(r) PROVE IInv'
  BY <1>1, <1>2, <1>14 DEF RunStopped, RunLive, IInv, TypeOK, RunsSound, CompletedMeansDone
<1>15. CASE CancelLoad
  BY <1>1, <1>2, <1>15 DEF CancelLoad, IInv, RunsSound, CompletedMeansDone
<1>16. ASSUME NEW n \in Nodes, CancelNode(n) PROVE IInv'
  <2>1. UNCHANGED <<bound, succeeded, tick, held, wf>>
    BY <1>16 DEF CancelNode
  <2>2. RowsSound(node)' /\ TickSound' /\ DoneNodes' = DoneNodes
    BY <1>2, <1>4, <1>16, <2>1 DEF CancelNode
  <2>3. \/ run' = run
        \/ \E r : run[r] \in RunLive /\ run' = [run EXCEPT ![r] = "cancelled"]
    BY <1>16 DEF CancelNode
  <2>4. RunsSound'
    BY <2>1, <2>3 DEF RunsSound, RunLive, IInv, TypeOK
  <2> QED BY <1>1, <2>1, <2>2, <2>4 DEF IInv, CompletedMeansDone
<1>17. CASE CancelCommit
  BY <1>1, <1>4, <1>17 DEF CancelCommit, IInv, RunsSound, CompletedMeansDone
<1>18. CASE TickLost
  BY <1>1, <1>3, <1>18 DEF TickLost, IInv, RunsSound, CompletedMeansDone
<1>19. CASE Restart
  BY <1>1, <1>3, <1>19 DEF Restart, Resubmitted, IInv, TypeOK, RunsSound, CompletedMeansDone
<1>20. CASE UNCHANGED vars
  BY <1>1, <1>2, <1>20 DEF vars, IInv, RunsSound, CompletedMeansDone
<1> QED
  BY <1>5, <1>6, <1>7, <1>8, <1>9, <1>10, <1>11, <1>12, <1>13, <1>14, <1>15, <1>16,
     <1>17, <1>18, <1>19, <1>20 DEF Next, TickStep, CancelStep

\* A workflow reads "completed" only when each of its nodes has had a run that
\* succeeded, whatever a stale tick, a client or a restart has overwritten.
THEOREM CompletionSound == Spec => []CompletedMeansDone
<1>1. IInv => CompletedMeansDone
  BY DEF IInv
<1> QED BY InvInit, InvStep, <1>1, PTL DEF Spec
-----------------------------------------------------------------------------
\* Every step of the workflow is a step of the abstract DependencyOrder, or
\* changes nothing that it shows: no node is given a run, at any attempt, before
\* each node it needs has had a run that succeeded.
THEOREM OrderImplementation == Spec => ImplementsDependencyOrder
<1>1. Init => Order!Init
  BY DEF Init, Order!Init, DoneNodes
<1>2. IInv /\ [Next]_vars => [Order!Next]_(Order!vars)
  <2> SUFFICES ASSUME IInv, [Next]_vars PROVE Order!Next \/ UNCHANGED <<bound, DoneNodes>>
    BY DEF Order!vars
  <2>1. ASSUME NEW n \in Nodes, StartNode(n) \/ SteerNode(n) PROVE Order!Next
    <3>1. Order!Start(n)
      BY <2>1, StartDoesNothing DEF Order!Start
    <3> QED BY <3>1 DEF Order!Next
  <2>2. ASSUME NEW r \in Runs, RunEnds(r) \/ RunOverwritten(r)
        PROVE  Order!Next \/ UNCHANGED <<bound, DoneNodes>>
    <3>1. bound' = bound /\ (succeeded' = succeeded \/ succeeded' = succeeded \union {r})
      BY <2>2 DEF RunEnds, RunOverwritten, Completed, historyVars
    <3>2. CASE succeeded' = succeeded
      BY <3>1, <3>2 DEF DoneNodes
    <3>3. CASE succeeded' = succeeded \union {r}
      <4> DEFINE S == {n \in Nodes : r \in bound[n]}
      <4>1. DoneNodes' = DoneNodes \union S
        BY <3>1, <3>3 DEF DoneNodes
      <4>2. Order!Succeed(S)
        BY <3>1, <4>1 DEF Order!Succeed
      <4> QED BY <4>2 DEF Order!Next
    <3> QED BY <3>1, <3>2, <3>3
  <2>3. CASE UNCHANGED <<bound, succeeded>>
    BY <2>3 DEF DoneNodes
  <2>4. \/ \E n \in Nodes : StartNode(n) \/ SteerNode(n)
        \/ \E r \in Runs : RunEnds(r) \/ RunOverwritten(r)
        \/ UNCHANGED <<bound, succeeded>>
    BY DEF Next, TickStep, CancelStep, vars, Trigger, TickList, TickPlan, StartFails,
           TickCommit, RunStarts, RunStopped, CancelLoad, CancelNode, CancelCommit,
           TickLost, Restart, runVars, historyVars
  <2> QED BY <2>1, <2>2, <2>3, <2>4
<1> QED BY InvInit, InvStep, <1>1, <1>2, PTL DEF Spec, ImplementsDependencyOrder, Order!Spec
-----------------------------------------------------------------------------
(***************************************************************************)
(* How many runs are alive.  The tick counts rows and the policy bounds    *)
(* runs, so the invariant relates the two: all but one run for each loss   *)
(* are named by a row, in the table or in the memory of the tick.  While a *)
(* tick goes on, the table may lack the run it has created last.           *)
(***************************************************************************)

\* Runs that are alive, or that a claim may bring back to life.
MayLive == {r \in Runs : run[r] \in RunLive \/ (run[r] = "cancelled" /\ held[r] = "submitted")}

RunsNamed(rows) == {rows[n].run : n \in Nodes}
Unnamed(rows) == MayLive \ RunsNamed(rows)

\* A row that is not started names no run, and a completed one names a run that
\* has succeeded.
RowFits(row) ==
    /\ row.status \in {"absent", "pending", "ready"} => row.run = None
    /\ row.status = "completed" => row.run \in succeeded
RowsFit(rows) == \A n \in Nodes : RowFits(rows[n])

\* Of what a tick has read, only a cancellation changes the table meanwhile.
Tracks(current, read) ==
    /\ read.run = current.run
    /\ read.attempt = current.attempt
    /\ current.status \in {read.status, "cancelled"}

Planning == tick.pc \in {"starting", "closing"}
TickTracks ==
    Planning => /\ \A n \in Nodes : Tracks(node[n], tick.readNode[n])
                /\ tick.starts \subseteq NodesIn(tick.nowNode, {"ready"})

Counted ==
    /\ Cardinality(MayLive) <= MaxConcurrency + losses
    /\ tick.pc = "starting" =>
          Cardinality(MayLive) + Cardinality(tick.starts) <= MaxConcurrency + losses
    /\ ~Planning => Cardinality(Unnamed(node)) <= losses
    /\ Planning => /\ Cardinality(Unnamed(tick.nowNode)) <= losses
                   /\ Cardinality(Unnamed(node)) <= losses + 1

CountInv ==
    /\ IInv
    /\ RowsFit(node) /\ RowsFit(tick.nowNode)
    /\ TickTracks
    /\ Counted

\* Cardinalities of sets of runs and of nodes are numbers, and grow with the set.
LEMMA Counts ==
    ASSUME NEW S, IsFiniteSet(S), NEW T \in SUBSET S
    PROVE  /\ IsFiniteSet(T)
           /\ Cardinality(S) \in Nat /\ Cardinality(T) \in Nat
           /\ Cardinality(T) <= Cardinality(S)
  BY FS_Subset, FS_CardinalityType

LEMMA OneMore ==
    ASSUME NEW S, IsFiniteSet(S), NEW x, NEW T \in SUBSET (S \union {x})
    PROVE  Cardinality(T) <= Cardinality(S) + 1
<1>1. /\ IsFiniteSet(S \union {x})
      /\ Cardinality(S \union {x}) \in {Cardinality(S), Cardinality(S) + 1}
  BY FS_AddElement
<1>2. Cardinality(T) <= Cardinality(S \union {x}) /\ Cardinality(T) \in Nat
  BY <1>1, Counts
<1>3. Cardinality(S) \in Nat
  BY FS_CardinalityType
<1> QED BY <1>1, <1>2, <1>3

LEMMA RunCounts ==
    ASSUME NEW S \in SUBSET Runs
    PROVE  IsFiniteSet(S) /\ Cardinality(S) \in Nat
  BY Counts, WorkflowAssumption

LEMMA NodeCounts ==
    ASSUME NEW S \in SUBSET Nodes
    PROVE  IsFiniteSet(S) /\ Cardinality(S) \in Nat
  BY Counts, WorkflowAssumption

LEMMA LiveAreRuns == MayLive \in SUBSET Runs /\ \A rows : Unnamed(rows) \in SUBSET Runs
  BY DEF MayLive, Unnamed

\* A run that has succeeded is not alive and cannot become so.
LEMMA LiveNotSucceeded == IInv => MayLive \intersect succeeded = {}
  BY DEF IInv, RunsSound, MayLive, RunLive

\* Without a new run, fewer runs are alive after the step.
LEMMA LiveShrinks ==
    ASSUME TypeOK, NEW r \in Runs,
           RunStarts(r) \/ RunEnds(r) \/ RunStopped(r) \/ RunOverwritten(r)
    PROVE  MayLive' \subseteq MayLive
<1>1. CASE RunStarts(r)
  BY <1>1 DEF RunStarts, MayLive, RunLive, TypeOK
<1>2. CASE RunEnds(r)
  BY <1>2 DEF RunEnds, MayLive, RunLive, TypeOK
<1>3. CASE RunStopped(r)
  BY <1>3 DEF RunStopped, MayLive, RunLive, TypeOK
<1>4. CASE RunOverwritten(r)
  <2>1. \A status \in Overwrites(r) :
          /\ status = "running" => run[r] = "cancelled" /\ held[r] = "submitted"
          /\ status # "queued"
    BY Zenon DEF Overwrites
  <2> QED BY <1>4, <2>1 DEF RunOverwritten, MayLive, RunLive, TypeOK
<1> QED BY <1>1, <1>2, <1>3, <1>4

LEMMA CancelShrinks ==
    ASSUME TypeOK, NEW n \in Nodes, CancelNode(n) PROVE MayLive' \subseteq MayLive
<1>1. \/ run' = run
      \/ \E r : run[r] \in RunLive /\ run' = [run EXCEPT ![r] = "cancelled"]
  BY DEF CancelNode
<1>2. held' = held
  BY DEF CancelNode
<1> QED BY <1>1, <1>2 DEF MayLive, TypeOK

LEMMA RestartShrinks == TypeOK /\ Restart => MayLive' \subseteq MayLive
  BY DEF Restart, Resubmitted, MayLive, RunLive, TypeOK

\* Rows that name the same runs leave no more live runs unnamed.
LEMMA UnnamedShrinks ==
    ASSUME MayLive' \subseteq MayLive, NEW rows, NEW later,
           \A n \in Nodes : later[n].run = rows[n].run
    PROVE  Cardinality(MayLive' \ RunsNamed(later)) <= Cardinality(Unnamed(rows))
<1>1. RunsNamed(later) = RunsNamed(rows)
  BY DEF RunsNamed
<1>2. MayLive' \ RunsNamed(later) \in SUBSET Unnamed(rows)
  BY <1>1 DEF Unnamed
<1> QED BY <1>2, RunCounts, LiveAreRuns, Counts

\* A step that adds no run and names the same runs keeps the counts.
LEMMA CountsKeep ==
    ASSUME CountInv, TypeOK', MayLive' \subseteq MayLive, losses' = losses, tick' = tick,
           \A n \in Nodes : node'[n].run = node[n].run
    PROVE  Counted'
<1>1. Cardinality(MayLive') <= Cardinality(MayLive)
  BY LiveAreRuns, RunCounts, Counts
<1>2. Cardinality(Unnamed(node)') <= Cardinality(Unnamed(node))
  BY UnnamedShrinks DEF Unnamed, RunsNamed
<1>3. Cardinality(Unnamed(tick.nowNode)') <= Cardinality(Unnamed(tick.nowNode))
  BY UnnamedShrinks DEF Unnamed, RunsNamed
<1>4. /\ Cardinality(MayLive) \in Nat /\ Cardinality(MayLive') \in Nat
      /\ Cardinality(Unnamed(node)) \in Nat /\ Cardinality(Unnamed(node)') \in Nat
      /\ Cardinality(Unnamed(tick.nowNode)) \in Nat
      /\ Cardinality(Unnamed(tick.nowNode)') \in Nat
  <2>1. MayLive' \in SUBSET Runs /\ Unnamed(node)' \in SUBSET Runs
        /\ Unnamed(tick.nowNode)' \in SUBSET Runs
    BY DEF MayLive, Unnamed
  <2> QED BY <2>1, LiveAreRuns, RunCounts
<1>5. Cardinality(tick.starts) \in Nat
  BY NodeCounts, TickParts DEF CountInv, IInv
<1>6. losses \in Nat /\ MaxConcurrency \in Nat
  BY WorkflowAssumption DEF CountInv, IInv, TypeOK
<1> QED
  BY <1>1, <1>2, <1>3, <1>4, <1>5, <1>6 DEF CountInv, Counted, Planning

\* Rows keep fitting while succeeded grows.
LEMMA FitsKeep ==
    ASSUME NEW rows, RowsFit(rows), succeeded \subseteq succeeded'
    PROVE  \A n \in Nodes : RowFits(rows[n])'
  BY DEF RowsFit, RowFits

\* What a client cancels in the table keeps the run and fits.
LEMMA CancelledRowsFit ==
    ASSUME CountInv, NEW S, node' = CancelledRows(S), tick' = tick, succeeded' = succeeded
    PROVE  /\ \A n \in Nodes : node'[n].run = node[n].run
           /\ RowsFit(node)' /\ RowsFit(tick.nowNode)' /\ TickTracks'
<1>1. \A n \in Nodes : /\ node'[n].run = node[n].run
                       /\ node'[n].attempt = node[n].attempt
                       /\ node'[n].status \in {node[n].status, "cancelled"}
  BY DEF CancelledRows, CountInv, IInv, TypeOK, NodeRow
<1>2. RowsFit(node)' /\ RowsFit(tick.nowNode)'
  BY <1>1 DEF CountInv, RowsFit, RowFits
<1>3. TickTracks'
  BY <1>1 DEF CountInv, TickTracks, Tracks, Planning
<1> QED BY <1>1, <1>2, <1>3

\* What the rest of a step leaves as it was.
LEMMA RestKeeps ==
    ASSUME CountInv, node' = node, tick' = tick, succeeded \subseteq succeeded'
    PROVE  RowsFit(node)' /\ RowsFit(tick.nowNode)' /\ TickTracks'
<1>1. RowsFit(node)' /\ RowsFit(tick.nowNode)'
  BY DEF CountInv, RowsFit, RowFits
<1>2. TickTracks'
  BY DEF CountInv, TickTracks, Planning
<1> QED BY <1>1, <1>2
-----------------------------------------------------------------------------
(***************************************************************************)
(* The tick.                                                               *)
(***************************************************************************)

\* A commit gives each row the run and the attempt that the tick has for it, and
\* its status unless the row was cancelled meanwhile.
LEMMA CommitTracks ==
    ASSUME CountInv, Planning, NEW s, CommitTick(s)
    PROVE  \A n \in Nodes : Tracks(node'[n], tick.nowNode[n])
<1> SUFFICES ASSUME NEW n \in Nodes PROVE Tracks(node'[n], tick.nowNode[n])
  OBVIOUS
<1>1. Tracks(node[n], tick.readNode[n])
  BY DEF CountInv, TickTracks
<1>2. node'[n] = WrittenRow(node[n], tick.readNode[n], tick.nowNode[n])
  BY DEF CommitTick
<1>3. tick.nowNode[n] \in NodeRow /\ tick.readNode[n] \in NodeRow /\ node[n] \in NodeRow
  BY TickParts DEF CountInv, IInv, TypeOK
<1> QED BY <1>1, <1>2, <1>3 DEF WrittenRow, Written, Tracks, NodeRow

\* A row that tracks one that fits, fits.
LEMMA TrackingFits ==
    ASSUME NEW x, NEW y, Tracks(x, y), RowFits(y) PROVE RowFits(x)
  BY DEF Tracks, RowFits

LEMMA StartCounts ==
    ASSUME CountInv, TypeOK', NEW n \in Nodes, StartNode(n)
    PROVE  RowsFit(node)' /\ RowsFit(tick.nowNode)' /\ TickTracks' /\ Counted'
<1> DEFINE r == NewRunId
<1>1. r \in Runs /\ run[r] = "absent" /\ r \notin MayLive
  BY NewRunIdIsUnused DEF StartNode, MayLive, RunLive
<1>2. MayLive' = MayLive \union {r}
  BY <1>1 DEF StartNode, MayLive, RunLive, CountInv, IInv, TypeOK
<1>3. Planning /\ tick.pc = "starting" /\ n \in tick.starts /\ losses' = losses
  BY DEF StartNode, Planning, countVars
<1>4. /\ tick'.pc = "starting"
      /\ tick'.starts = tick.starts \ {n}
      /\ tick'.readNode = tick.nowNode
      /\ \A m \in Nodes \ {n} : tick'.nowNode[m] = tick.nowNode[m]
      /\ tick'.nowNode[n].run = r /\ tick'.nowNode[n].status = "queued"
  BY TickParts, SMTT(20) DEF StartNode, CountInv, IInv, TypeOK, Tick, NodeRow
<1>5. \A m \in Nodes : Tracks(node'[m], tick.nowNode[m])
  BY <1>3, CommitTracks DEF StartNode
<1>6. tick.nowNode[n].status = "ready" /\ tick.nowNode[n].run = None
  BY <1>3 DEF CountInv, TickTracks, NodesIn, RowsFit, RowFits
<1>7. succeeded' = succeeded
  BY DEF StartNode
<1>8. RowsFit(node)'
  BY <1>5, <1>7, TrackingFits DEF CountInv, RowsFit, RowFits
<1>9. RowsFit(tick.nowNode)'
  BY <1>4, <1>7 DEF CountInv, RowsFit, RowFits
<1>10. TickTracks'
  BY <1>3, <1>4, <1>5 DEF TickTracks, NodesIn, CountInv
<1>11. /\ Cardinality(MayLive') = Cardinality(MayLive) + 1
       /\ Cardinality(tick'.starts) = Cardinality(tick.starts) - 1
  <2>1. IsFiniteSet(MayLive) /\ IsFiniteSet(tick.starts)
    BY LiveAreRuns, RunCounts, NodeCounts, TickParts DEF CountInv, IInv
  <2> QED BY <1>1, <1>2, <1>3, <1>4, <2>1, FS_AddElement, FS_RemoveElement
<1>12. Cardinality(Unnamed(node)') <= Cardinality(Unnamed(tick.nowNode)) + 1
  <2>1. Unnamed(node)' \subseteq Unnamed(tick.nowNode) \union {r}
    BY <1>2, <1>5 DEF Unnamed, RunsNamed, Tracks
  <2>2. IsFiniteSet(Unnamed(tick.nowNode))
    BY LiveAreRuns, RunCounts
  <2> QED BY <2>1, <2>2, OneMore
<1>13. Cardinality(Unnamed(tick.nowNode)') <= Cardinality(Unnamed(tick.nowNode))
  <2>1. r # None
    BY <1>1, WorkflowAssumption
  <2>2. None \notin MayLive
    BY WorkflowAssumption DEF MayLive
  <2>3. Unnamed(tick.nowNode)' \subseteq Unnamed(tick.nowNode)
    BY <1>2, <1>4, <1>6, <2>2 DEF Unnamed, RunsNamed
  <2> QED BY <2>3, LiveAreRuns, RunCounts, Counts
<1>14. /\ Cardinality(MayLive) \in Nat
       /\ Cardinality(tick.starts) \in Nat /\ Cardinality(tick'.starts) \in Nat
       /\ Cardinality(Unnamed(tick.nowNode)) \in Nat
       /\ Cardinality(Unnamed(tick.nowNode)') \in Nat /\ Cardinality(Unnamed(node)') \in Nat
  <2>1. MayLive' \in SUBSET Runs /\ Unnamed(node)' \in SUBSET Runs
        /\ Unnamed(tick.nowNode)' \in SUBSET Runs
    BY DEF MayLive, Unnamed
  <2>2. tick.starts \in SUBSET Nodes /\ tick'.starts \in SUBSET Nodes
    BY <1>4, TickParts DEF CountInv, IInv
  <2> QED BY <2>1, <2>2, LiveAreRuns, RunCounts, NodeCounts
<1>15. losses \in Nat /\ MaxConcurrency \in Nat
  BY WorkflowAssumption DEF CountInv, IInv, TypeOK
<1>16. Counted'
  BY <1>3, <1>4, <1>11, <1>12, <1>13, <1>14, <1>15 DEF Counted, CountInv, Planning
<1> QED BY <1>8, <1>9, <1>10, <1>16

LEMMA SteerCounts ==
    ASSUME CountInv, TypeOK', NEW n \in Nodes, SteerNode(n)
    PROVE  RowsFit(node)' /\ RowsFit(tick.nowNode)' /\ TickTracks' /\ Counted'
<1>1. PICK r \in ActiveRunsOf(SessionFor(n)) :
        tick' = [tick EXCEPT !.nowNode[n].status = "waiting", !.nowNode[n].run = r,
                             !.starts = @ \ {n}]
  BY DEF SteerNode
<1>2. UNCHANGED <<node, run, held, succeeded, losses>>
  BY DEF SteerNode, runVars, countVars
<1>3. MayLive' = MayLive
  BY <1>2 DEF MayLive
<1>4. /\ tick.pc = "starting" /\ tick'.pc = "starting" /\ n \in tick.starts
      /\ tick'.starts = tick.starts \ {n}
      /\ tick'.readNode = tick.readNode
      /\ \A m \in Nodes \ {n} : tick'.nowNode[m] = tick.nowNode[m]
      /\ tick'.nowNode[n].run = r /\ tick'.nowNode[n].status = "waiting"
  <2>1. tick \in Tick /\ tick.pc = "starting" /\ n \in tick.starts
    BY DEF SteerNode, CountInv, IInv, TypeOK
  <2>2. tick.nowNode \in [Nodes -> NodeRow]
    BY <2>1 DEF Tick
  <2>3. tick'.nowNode = [tick.nowNode EXCEPT
           ![n] = [tick.nowNode[n] EXCEPT !.status = "waiting", !.run = r]]
    BY <1>1, <2>1, <2>2 DEF Tick, NodeRow
  <2>4. /\ tick'.pc = "starting" /\ tick'.starts = tick.starts \ {n}
        /\ tick'.readNode = tick.readNode
    BY <1>1, <2>1 DEF Tick
  <2> QED BY <2>1, <2>2, <2>3, <2>4 DEF NodeRow
<1>5. tick.nowNode[n].run = None
  BY <1>4 DEF CountInv, TickTracks, Planning, NodesIn, RowsFit, RowFits
<1>6. RowsFit(node)'
  BY <1>2 DEF CountInv, RowsFit, RowFits
<1>7. RowsFit(tick.nowNode)'
  BY <1>2, <1>4 DEF CountInv, RowsFit, RowFits
<1>8. TickTracks'
  BY <1>2, <1>4 DEF CountInv, TickTracks, Planning, NodesIn
<1>9. Cardinality(Unnamed(tick.nowNode)') <= Cardinality(Unnamed(tick.nowNode))
  <2>1. None \notin MayLive
    BY WorkflowAssumption DEF MayLive
  <2>2. Unnamed(tick.nowNode)' \subseteq Unnamed(tick.nowNode)
    BY <1>3, <1>4, <1>5, <2>1 DEF Unnamed, RunsNamed
  <2> QED BY <2>2, LiveAreRuns, RunCounts, Counts
<1>10. Unnamed(node)' = Unnamed(node)
  BY <1>2, <1>3 DEF Unnamed, RunsNamed
<1>11. Cardinality(tick'.starts) <= Cardinality(tick.starts)
  BY <1>4, NodeCounts, Counts, TickParts DEF CountInv, IInv
<1>12. /\ Cardinality(MayLive) \in Nat
       /\ Cardinality(tick.starts) \in Nat /\ Cardinality(tick'.starts) \in Nat
       /\ Cardinality(Unnamed(tick.nowNode)) \in Nat
       /\ Cardinality(Unnamed(tick.nowNode)') \in Nat
  <2>1. Unnamed(tick.nowNode)' \in SUBSET Runs
    BY DEF MayLive, Unnamed
  <2>2. tick.starts \in SUBSET Nodes /\ tick'.starts \in SUBSET Nodes
    BY <1>4, TickParts DEF CountInv, IInv
  <2> QED BY <2>1, <2>2, LiveAreRuns, RunCounts, NodeCounts
<1>13. losses \in Nat /\ MaxConcurrency \in Nat
  BY WorkflowAssumption DEF CountInv, IInv, TypeOK
<1>14. Counted'
  BY <1>2, <1>3, <1>4, <1>9, <1>10, <1>11, <1>12, <1>13 DEF Counted, CountInv, Planning
<1> QED BY <1>6, <1>7, <1>8, <1>14

\* The runs that rows name are no more than the rows.
LEMMA NamedByRows ==
    ASSUME NEW rows, NEW S \in SUBSET Nodes, NEW T \in SUBSET Runs,
           \A r \in T : \E n \in S : rows[n].run = r
    PROVE  Cardinality(T) <= Cardinality(S)
<1> DEFINE row == [r \in T |-> CHOOSE n \in S : rows[n].run = r]
<1>1. \A r \in T : row[r] \in S /\ rows[row[r]].run = r
  OBVIOUS
<1>2. row \in [T -> S]
  BY <1>1
<1>3. row \in Injection(T, S)
  BY <1>1, <1>2 DEF Injection, IsInjective
<1> HIDE DEF row
<1> QED BY <1>3, NodeCounts, FS_Injection

\* Refreshing the rows loses sight of failed runs only.
LEMMA RefreshedFits ==
    ASSUME CountInv, NEW x \in NodeRow, RowFits(x)
    PROVE  /\ RowFits(Refreshed(x))
           /\ x.run \in MayLive => Refreshed(x).run = x.run
           /\ Refreshed(x).run \in {x.run, None}
<1>1. CASE x.status \notin NodeActive \/ x.run = None
  BY <1>1 DEF Refreshed
<1>2. CASE x.status \in NodeActive /\ x.run # None
  <2> DEFINE status == run[x.run]
  <2>1. x.run \in Runs
    BY <1>2 DEF NodeRow, RunId
  <2>2. status \in RunStatus
    BY <2>1 DEF CountInv, IInv, TypeOK
  <2>3. CASE status \in {"absent", "queued"}
    BY <1>2, <2>3 DEF Refreshed
  <2>4. CASE status \notin {"absent", "queued"} /\ status = "failed" /\ RetryAvailable(x)
    <3>1. Refreshed(x) = NextAttempt(x)
      BY <1>2, <2>4 DEF Refreshed
    <3>2. x.run \notin MayLive
      BY <2>4 DEF MayLive, RunLive
    <3> QED BY <3>1, <3>2 DEF NextAttempt, RowFits
  <2>5. CASE status \notin {"absent", "queued"} /\ ~(status = "failed" /\ RetryAvailable(x))
    <3>1. Refreshed(x) = [x EXCEPT !.status = status]
      BY <1>2, <2>5 DEF Refreshed
    <3>2. status = "completed" => x.run \in succeeded
      BY <2>1 DEF CountInv, IInv, RunsSound
    <3>3. status \notin {"pending", "ready"}
      BY <2>2 DEF RunStatus, RunLive, RunTerminal
    <3> QED BY <2>5, <3>1, <3>2, <3>3 DEF RowFits, NodeRow
  <2> QED BY <2>3, <2>4, <2>5
<1> QED BY <1>1, <1>2

LEMMA ReadiedFits ==
    ASSUME NEW rows \in [Nodes -> NodeRow], RowsFit(rows)
    PROVE  /\ RowsFit(Readied(rows))
           /\ \A n \in Nodes : /\ Readied(rows)[n].run = rows[n].run
                               /\ rows[n].status \notin {"pending"} =>
                                    Readied(rows)[n].status = rows[n].status
  BY DEF Readied, RowsFit, RowFits, NodeRow

\* Where no row has failed or was cancelled, a live run that a row names keeps
\* that row active.
LEMMA NamedAreActive ==
    ASSUME CountInv, NEW rows \in [Nodes -> NodeRow], RowsFit(rows),
           NodesIn(rows, {"failed", "cancelled"}) = {}
    PROVE  Cardinality(MayLive) <=
             Cardinality(Unnamed(rows)) + Cardinality(NodesIn(rows, NodeActive))
<1> DEFINE named == MayLive \intersect RunsNamed(rows)
<1>1. \A r \in named : \E n \in NodesIn(rows, NodeActive) : rows[n].run = r
  <2> SUFFICES ASSUME NEW r \in named
               PROVE  \E n \in NodesIn(rows, NodeActive) : rows[n].run = r
    OBVIOUS
  <2>1. PICK n \in Nodes : rows[n].run = r
    BY DEF RunsNamed
  <2>2. r # None
    BY WorkflowAssumption DEF MayLive
  <2>3. rows[n].status \notin {"absent", "pending", "ready", "completed"}
    BY <2>1, <2>2, LiveNotSucceeded DEF RowsFit, RowFits, CountInv
  <2>4. rows[n].status \in NodeActive
    BY <2>3 DEF NodesIn, NodeRow, NodeStatus, NodeTerminal
  <2> QED BY <2>1, <2>4 DEF NodesIn
<1>2. named \in SUBSET Runs /\ NodesIn(rows, NodeActive) \in SUBSET Nodes
  BY LiveAreRuns DEF NodesIn
<1>3. Cardinality(named) <= Cardinality(NodesIn(rows, NodeActive))
  BY <1>1, <1>2, NamedByRows
<1>4. Cardinality(Unnamed(rows)) = Cardinality(MayLive) - Cardinality(named)
  BY LiveAreRuns, RunCounts, FS_Difference DEF Unnamed
<1>5. /\ Cardinality(named) \in Nat /\ Cardinality(MayLive) \in Nat
      /\ Cardinality(Unnamed(rows)) \in Nat
      /\ Cardinality(NodesIn(rows, NodeActive)) \in Nat
  BY <1>2, LiveAreRuns, RunCounts, NodeCounts
<1> HIDE DEF named
<1> QED BY <1>3, <1>4, <1>5

LEMMA PlannedParts ==
    ASSUME TypeOK, NEW pc, NEW rows, NEW st, NEW S
    PROVE  /\ Planned(pc, rows, st, S).pc = pc
           /\ Planned(pc, rows, st, S).readNode = node
           /\ Planned(pc, rows, st, S).nowNode = rows
           /\ Planned(pc, rows, st, S).starts = S
  BY DEF Planned, TypeOK, Tick

\* What the tick decides to start fits in the policy beside the live runs.
LEMMA PlanCounts ==
    ASSUME CountInv, TypeOK', TickPlan
    PROVE  RowsFit(node)' /\ RowsFit(tick.nowNode)' /\ TickTracks' /\ Counted'
<1> DEFINE rows == [n \in Nodes |-> Refreshed(RowsAtStart[n])]
           ready == Readied(rows)
<1>1. /\ RowsAtStart \in [Nodes -> NodeRow] /\ RowsFit(RowsAtStart)
      /\ \A n \in Nodes : RowsAtStart[n].run = node[n].run
  BY RowConstants
     DEF RowsAtStart, CountInv, IInv, TypeOK, RowsFit, RowFits, NewRow, NoRow
<1>2. rows \in [Nodes -> NodeRow]
  BY <1>1, RefreshedType DEF CountInv, IInv
<1>3. /\ RowsFit(rows)
      /\ \A n \in Nodes : node[n].run \in MayLive => rows[n].run = node[n].run
  BY <1>1, RefreshedFits DEF RowsFit
<1>4. UNCHANGED <<node, run, held, succeeded, losses>>
  BY DEF TickPlan, runVars, countVars
<1>5. MayLive' = MayLive
  BY <1>4 DEF MayLive
<1>6. \/ tick' = Planned("closing", rows, "failed", {})
      \/ tick' = Planned("closing", rows, "cancelled", {})
      \/ /\ NodesIn(rows, {"failed", "cancelled"}) = {}
         /\ \E S \in StartsAllowed(ready) : tick' = Planned("starting", ready, "running", S)
  BY Zenon DEF TickPlan
<1> HIDE DEF rows
<1>7. /\ ready \in [Nodes -> NodeRow] /\ RowsFit(ready)
      /\ \A n \in Nodes : ready[n].run = rows[n].run
      /\ \A n \in Nodes : ready[n].status \in {"failed", "cancelled"} =>
                            rows[n].status \in {"failed", "cancelled"}
  BY <1>2, <1>3, ReadiedType, ReadiedFits DEF Readied, NodeRow
<1>8. tick'.readNode = node
  BY <1>6, PlannedParts DEF CountInv, IInv
<1>9. \/ tick'.pc = "closing" /\ tick'.nowNode = rows /\ tick'.starts = {}
      \/ /\ NodesIn(rows, {"failed", "cancelled"}) = {}
         /\ tick'.pc = "starting" /\ tick'.nowNode = ready
         /\ tick'.starts \in StartsAllowed(ready)
  BY <1>6, PlannedParts DEF CountInv, IInv
<1>10. tick.pc = "listed"
  BY DEF TickPlan
<1>11. RowsFit(node)' /\ RowsFit(tick.nowNode)'
  BY <1>3, <1>4, <1>7, <1>9 DEF CountInv, RowsFit, RowFits
<1>12. TickTracks'
  BY <1>4, <1>8, <1>9 DEF TickTracks, Tracks, StartsAllowed, Fitting
<1>13. /\ Cardinality(Unnamed(node)') <= losses
       /\ Cardinality(Unnamed(tick.nowNode)') <= losses
       /\ Cardinality(Unnamed(node)') \in Nat
  <2>1. Cardinality(Unnamed(node)) <= losses
    BY <1>10 DEF CountInv, Counted, Planning
  <2>2. \A n \in Nodes : node[n].run \in MayLive => tick'.nowNode[n].run = node[n].run
    BY <1>3, <1>7, <1>9
  <2>3. Unnamed(node)' = Unnamed(node)
    BY <1>4, <1>5 DEF Unnamed, RunsNamed
  <2>4. Unnamed(tick.nowNode)' \subseteq Unnamed(node)
    BY <1>5, <2>2 DEF Unnamed, RunsNamed
  <2>5. /\ Cardinality(Unnamed(tick.nowNode)') <= Cardinality(Unnamed(node))
        /\ Cardinality(Unnamed(tick.nowNode)') \in Nat /\ Cardinality(Unnamed(node)) \in Nat
    BY <2>4, LiveAreRuns, RunCounts, Counts
  <2>6. losses \in Nat
    BY DEF CountInv, IInv, TypeOK
  <2> QED BY <2>1, <2>3, <2>5, <2>6
<1>14. losses \in Nat /\ MaxConcurrency \in Nat
  BY WorkflowAssumption DEF CountInv, IInv, TypeOK
<1>15. ASSUME tick'.pc = "starting"
       PROVE  Cardinality(MayLive) + Cardinality(tick'.starts) <= MaxConcurrency + losses
  <2> DEFINE taken == Cardinality(NodesIn(ready, NodeActive))
  <2>1. /\ NodesIn(rows, {"failed", "cancelled"}) = {}
        /\ tick'.nowNode = ready /\ tick'.starts \in StartsAllowed(ready)
    BY <1>9, <1>15
  <2>2. NodesIn(ready, {"failed", "cancelled"}) = {}
    BY <1>7, <2>1 DEF NodesIn
  <2>3. Cardinality(MayLive) <= Cardinality(Unnamed(ready)) + taken
    BY <1>7, <2>2, NamedAreActive
  <2>4. Unnamed(ready) = Unnamed(tick.nowNode)'
    BY <1>5, <2>1 DEF Unnamed, RunsNamed
  <2>5. taken \in Nat /\ Cardinality(NodesIn(ready, {"ready"})) \in Nat
    BY NodeCounts DEF NodesIn
  <2>6. /\ taken < MaxConcurrency => Cardinality(tick'.starts) <= MaxConcurrency - taken
        /\ taken >= MaxConcurrency => Cardinality(tick'.starts) = 0
    BY <1>14, <2>1, <2>5 DEF StartsAllowed, Fitting
  <2>7. Cardinality(MayLive) <= MaxConcurrency + losses
    BY DEF CountInv, Counted
  <2>8. /\ Cardinality(MayLive) \in Nat /\ Cardinality(Unnamed(ready)) \in Nat
        /\ Cardinality(tick'.starts) \in Nat
    BY <2>1, LiveAreRuns, RunCounts, NodeCounts DEF StartsAllowed, Fitting, NodesIn
  <2> HIDE DEF taken
  <2> QED BY <1>13, <1>14, <2>3, <2>4, <2>5, <2>6, <2>7, <2>8
<1>16. Counted'
  BY <1>4, <1>5, <1>9, <1>13, <1>14, <1>15 DEF Counted, Planning, CountInv
<1> QED BY <1>11, <1>12, <1>16

\* The commit that ends a tick names in the table what the tick has named.
LEMMA EndCounts ==
    ASSUME CountInv, TypeOK', TickCommit
    PROVE  RowsFit(node)' /\ RowsFit(tick.nowNode)' /\ TickTracks' /\ Counted'
<1>1. Planning /\ tick' = NoTick /\ \E s : CommitTick(s)
  BY DEF TickCommit, Planning
<1>2. UNCHANGED <<run, held, succeeded, losses>>
  BY DEF TickCommit, runVars, countVars
<1>3. MayLive' = MayLive
  BY <1>2 DEF MayLive
<1>4. \A n \in Nodes : Tracks(node'[n], tick.nowNode[n])
  BY <1>1, CommitTracks
<1>5. RowsFit(node)'
  BY <1>2, <1>4, TrackingFits DEF CountInv, RowsFit, RowFits
<1>6. RowsFit(tick.nowNode)' /\ TickTracks'
  BY <1>1 DEF NoTick, NoRow, RowsFit, RowFits, TickTracks, Planning
<1>7. Unnamed(node)' = Unnamed(tick.nowNode)
  BY <1>3, <1>4 DEF Unnamed, RunsNamed, Tracks
<1>8. Counted'
  BY <1>1, <1>2, <1>3, <1>7 DEF CountInv, Counted, Planning, NoTick
<1> QED BY <1>5, <1>6, <1>8

\* A loss forgets what the tick had in memory: at most one run that the table
\* lacks, which the loss accounts for.
LEMMA LossCounts ==
    ASSUME CountInv, TypeOK', TickLost \/ Restart
    PROVE  RowsFit(node)' /\ RowsFit(tick.nowNode)' /\ TickTracks' /\ Counted'
<1>1. /\ tick' = NoTick /\ losses' = losses + 1 /\ node' = node /\ succeeded' = succeeded
      /\ MayLive' \subseteq MayLive
  BY RestartShrinks DEF TickLost, Restart, runVars, CountInv, IInv, MayLive
<1>2. RowsFit(node)'
  BY <1>1 DEF CountInv, RowsFit, RowFits
<1>3. RowsFit(tick.nowNode)' /\ TickTracks'
  BY <1>1 DEF NoTick, NoRow, RowsFit, RowFits, TickTracks, Planning
<1>4. /\ Cardinality(MayLive') <= Cardinality(MayLive)
      /\ Cardinality(Unnamed(node)') <= Cardinality(Unnamed(node))
  BY <1>1, UnnamedShrinks, LiveAreRuns, RunCounts, Counts DEF Unnamed, RunsNamed
<1>5. /\ Cardinality(MayLive) \in Nat /\ Cardinality(MayLive') \in Nat
      /\ Cardinality(Unnamed(node)) \in Nat /\ Cardinality(Unnamed(node)') \in Nat
  <2>1. MayLive' \in SUBSET Runs /\ Unnamed(node)' \in SUBSET Runs
    BY DEF MayLive, Unnamed
  <2> QED BY <2>1, LiveAreRuns, RunCounts
<1>6. losses \in Nat /\ MaxConcurrency \in Nat
  BY WorkflowAssumption DEF CountInv, IInv, TypeOK
<1>7. Counted'
  BY <1>1, <1>4, <1>5, <1>6 DEF CountInv, Counted, Planning, NoTick
<1> QED BY <1>2, <1>3, <1>7
-----------------------------------------------------------------------------
LEMMA CountInit == Init => CountInv
<1> SUFFICES ASSUME Init PROVE CountInv
  OBVIOUS
<1>1. MayLive = {} /\ Unnamed(node) = {} /\ losses = 0 /\ tick.pc = "idle"
  BY DEF Init, MayLive, RunLive, Unnamed, NoTick
<1>2. Counted
  BY <1>1, FS_EmptySet, WorkflowAssumption DEF Counted, Planning
<1>3. RowsFit(node) /\ RowsFit(tick.nowNode) /\ TickTracks
  BY <1>1 DEF Init, NoTick, NoRow, RowsFit, RowFits, TickTracks, Planning
<1> QED BY <1>2, <1>3, InvInit DEF CountInv

LEMMA CountStep == CountInv /\ [Next]_vars => CountInv'
<1> SUFFICES ASSUME CountInv, [Next]_vars
             PROVE  RowsFit(node)' /\ RowsFit(tick.nowNode)' /\ TickTracks' /\ Counted'
  BY InvStep DEF CountInv
<1>1. TypeOK'
  BY TypeStep DEF CountInv, IInv
<1> USE DEF runVars, historyVars, countVars
<1>2. ASSUME UNCHANGED <<node, tick, losses>>, succeeded \subseteq succeeded',
             MayLive' \subseteq MayLive
      PROVE  RowsFit(node)' /\ RowsFit(tick.nowNode)' /\ TickTracks' /\ Counted'
  BY <1>1, <1>2, RestKeeps, CountsKeep
<1>3. ASSUME NEW S, node' = CancelledRows(S), UNCHANGED <<tick, losses, succeeded>>,
             MayLive' \subseteq MayLive
      PROVE  RowsFit(node)' /\ RowsFit(tick.nowNode)' /\ TickTracks' /\ Counted'
  BY <1>1, <1>3, CancelledRowsFit, CountsKeep
<1>4. CASE Trigger \/ CancelLoad \/ UNCHANGED vars
  BY <1>2, <1>4 DEF Trigger, CancelLoad, vars, MayLive
<1>5. CASE TickList
  <2>1. /\ tick'.pc = "listed" /\ tick'.nowNode = NoTick.nowNode
        /\ tick.pc = "idle" /\ UNCHANGED <<node, run, held, succeeded, losses>>
    BY <1>5 DEF TickList, NoTick
  <2>2. RowsFit(node)' /\ RowsFit(tick.nowNode)' /\ TickTracks'
    BY <2>1 DEF CountInv, RowsFit, RowFits, TickTracks, Planning, NoTick, NoRow
  <2>3. Counted'
    BY <2>1 DEF CountInv, Counted, Planning, Unnamed, RunsNamed, MayLive
  <2> QED BY <2>2, <2>3
<1>6. CASE TickPlan
  BY <1>1, <1>6, PlanCounts
<1>7. ASSUME NEW n \in Nodes, StartNode(n)
      PROVE  RowsFit(node)' /\ RowsFit(tick.nowNode)' /\ TickTracks' /\ Counted'
  BY <1>1, <1>7, StartCounts
<1>8. ASSUME NEW n \in Nodes, SteerNode(n)
      PROVE  RowsFit(node)' /\ RowsFit(tick.nowNode)' /\ TickTracks' /\ Counted'
  BY <1>1, <1>8, SteerCounts
<1>9. ASSUME NEW n \in Nodes, StartFails(n)
      PROVE  RowsFit(node)' /\ RowsFit(tick.nowNode)' /\ TickTracks' /\ Counted'
  <2>1. /\ tick.pc = "starting" /\ tick'.pc = "closing" /\ tick'.starts = {}
        /\ tick'.nowNode = tick.nowNode /\ tick'.readNode = tick.readNode
        /\ UNCHANGED <<node, run, held, succeeded, losses>>
    BY <1>9 DEF StartFails, CountInv, IInv, TypeOK, Tick
  <2>2. RowsFit(node)' /\ RowsFit(tick.nowNode)' /\ TickTracks'
    BY <2>1 DEF CountInv, RowsFit, RowFits, TickTracks, Planning
  <2>3. Counted'
    BY <2>1 DEF CountInv, Counted, Planning, Unnamed, RunsNamed, MayLive
  <2> QED BY <2>2, <2>3
<1>10. CASE TickCommit
  BY <1>1, <1>10, EndCounts
<1>11. ASSUME NEW r \in Runs,
              RunStarts(r) \/ RunEnds(r) \/ RunStopped(r) \/ RunOverwritten(r)
       PROVE  RowsFit(node)' /\ RowsFit(tick.nowNode)' /\ TickTracks' /\ Counted'
  <2>1. UNCHANGED <<node, tick, losses>> /\ succeeded \subseteq succeeded'
    BY <1>11 DEF RunStarts, RunEnds, RunStopped, RunOverwritten, Completed
  <2>2. MayLive' \subseteq MayLive
    BY <1>11, LiveShrinks DEF CountInv, IInv
  <2> QED BY <1>2, <2>1, <2>2
<1>12. ASSUME NEW n \in Nodes, CancelNode(n)
       PROVE  RowsFit(node)' /\ RowsFit(tick.nowNode)' /\ TickTracks' /\ Counted'
  <2>1. UNCHANGED <<tick, losses, succeeded>>
    BY <1>12 DEF CancelNode
  <2>2. MayLive' \subseteq MayLive
    BY <1>12, CancelShrinks DEF CountInv, IInv
  <2>3. node' = node \/ \E S : node' = CancelledRows(S)
    BY <1>12 DEF CancelNode
  <2> QED BY <1>2, <1>3, <2>1, <2>2, <2>3
<1>13. CASE CancelCommit
  BY <1>3, <1>13 DEF CancelCommit, MayLive
<1>14. CASE TickLost \/ Restart
  BY <1>1, <1>14, LossCounts
<1> QED
  BY <1>4, <1>5, <1>6, <1>7, <1>8, <1>9, <1>10, <1>11, <1>12, <1>13, <1>14
     DEF Next, TickStep, CancelStep

\* Whatever the ticks, the clients and the losses do, no more runs of the
\* workflow are queued or running than its policy allows, plus one for each loss.
THEOREM ConcurrencyHolds == Spec => []ConcurrencyRespected
<1>1. CountInv => ConcurrencyRespected
  <2> SUFFICES ASSUME CountInv PROVE ConcurrencyRespected
    OBVIOUS
  <2>1. Cardinality(LiveRuns) <= Cardinality(MayLive) /\ Cardinality(LiveRuns) \in Nat
    BY LiveAreRuns, RunCounts, Counts DEF LiveRuns, MayLive
  <2>2. Cardinality(MayLive) \in Nat /\ losses \in Nat /\ MaxConcurrency \in Nat
    BY LiveAreRuns, RunCounts, WorkflowAssumption DEF CountInv, IInv, TypeOK
  <2> QED BY <2>1, <2>2 DEF CountInv, Counted, ConcurrencyRespected
<1> QED BY CountInit, CountStep, <1>1, PTL DEF Spec

-----------------------------------------------------------------------------
(***************************************************************************)
(* How many runs a node is given.  A row has used up its earlier attempts, *)
(* and its present one once it names a run; what a node was given beyond   *)
(* that was lost before the commit that would have named it.               *)
(***************************************************************************)
Given(n) == Cardinality(bound[n])

Used(row) == IF row.run # None \/ row.attempt = 0 THEN row.attempt ELSE row.attempt - 1

\* No attempt beyond the policy, and none of a row that was not made.
RowTried(row) ==
    /\ row.attempt <= Retries + 1
    /\ row.attempt = 0 => row.run = None /\ row.status \notin {"pending", "ready"}

TriesCounted ==
    \A n \in Nodes :
        /\ RowTried(node[n]) /\ RowTried(tick.nowNode[n])
        /\ Planning => Given(n) <= Used(tick.nowNode[n]) + losses
        /\ ~Planning \/ n \in tick.starts => Given(n) <= Used(node[n]) + losses
        /\ Planning => Given(n) <= Used(node[n]) + losses + 1

LEMMA GivenCounts == ASSUME TypeOK, NEW n \in Nodes PROVE Given(n) \in Nat
  BY RunCounts DEF TypeOK, Given

LEMMA UsedCounts == ASSUME NEW row \in NodeRow PROVE Used(row) \in Nat
  BY DEF NodeRow, Used

\* A row that tracks another has used as many attempts.
LEMMA TrackingUses ==
    ASSUME NEW x, NEW y, Tracks(x, y), RowTried(y)
    PROVE  Used(x) = Used(y) /\ RowTried(x)
  BY DEF Tracks, RowTried, Used

\* A retry gives up the run of the attempt it follows, and is within the policy.
LEMMA RefreshedUses ==
    ASSUME TypeOK, NEW x \in NodeRow, RowTried(x)
    PROVE  Used(Refreshed(x)) = Used(x) /\ RowTried(Refreshed(x))
<1>1. CASE x.status \notin NodeActive \/ x.run = None
  BY <1>1 DEF Refreshed
<1>2. CASE x.status \in NodeActive /\ x.run # None
  <2> DEFINE status == run[x.run]
  <2>1. x.run \in Runs /\ x.attempt \in Nat /\ x.attempt # 0
    BY <1>2 DEF NodeRow, RunId, RowTried
  <2>2. status \notin {"pending", "ready"}
    BY <2>1 DEF TypeOK, RunStatus, RunLive, RunTerminal
  <2>3. CASE status \in {"absent", "queued"}
    BY <1>2, <2>3 DEF Refreshed
  <2>4. CASE status \notin {"absent", "queued"} /\ status = "failed" /\ RetryAvailable(x)
    <3>1. Refreshed(x) = NextAttempt(x)
      BY <1>2, <2>4 DEF Refreshed
    <3>2. x.attempt + 1 <= Retries + 1
      BY <2>1, <2>4, WorkflowAssumption DEF RetryAvailable
    <3> QED BY <1>2, <2>1, <3>1, <3>2 DEF NextAttempt, RowTried, Used
  <2>5. CASE status \notin {"absent", "queued"} /\ ~(status = "failed" /\ RetryAvailable(x))
    <3>1. Refreshed(x) = [x EXCEPT !.status = status]
      BY <1>2, <2>5 DEF Refreshed
    <3>2. Refreshed(x).attempt = x.attempt /\ Refreshed(x).run = x.run
      BY <3>1 DEF NodeRow
    <3> QED BY <2>1, <3>2 DEF RowTried, Used
  <2> QED BY <2>3, <2>4, <2>5
<1> QED BY <1>1, <1>2

LEMMA ReadiedUses ==
    ASSUME NEW rows \in [Nodes -> NodeRow], NEW n \in Nodes, RowTried(rows[n])
    PROVE  Used(Readied(rows)[n]) = Used(rows[n]) /\ RowTried(Readied(rows)[n])
<1>1. CASE rows[n].status = "pending" /\ NeedsMet(rows, n)
  <2>1. Readied(rows)[n] = [rows[n] EXCEPT !.status = "ready"]
    BY <1>1 DEF Readied
  <2>2. /\ Readied(rows)[n].attempt = rows[n].attempt
        /\ Readied(rows)[n].run = rows[n].run
    BY <2>1 DEF NodeRow
  <2> QED BY <1>1, <2>2 DEF RowTried, Used
<1>2. CASE ~(rows[n].status = "pending" /\ NeedsMet(rows, n))
  BY <1>2 DEF Readied
<1> QED BY <1>1, <1>2

\* What a tick plans with has used as much as the table.
LEMMA PlanTries ==
    ASSUME TypeOK, TriesCounted, TickPlan PROVE TriesCounted'
<1> DEFINE rows == [n \in Nodes |-> Refreshed(RowsAtStart[n])]
           ready == Readied(rows)
<1>1. RowsAtStart \in [Nodes -> NodeRow]
  BY RowConstants DEF RowsAtStart, TypeOK
<1>2. \A n \in Nodes : Used(RowsAtStart[n]) = Used(node[n]) /\ RowTried(RowsAtStart[n])
  <2>1. CASE RowsAtStart = node
    BY <2>1 DEF TriesCounted
  <2>2. CASE RowsAtStart # node
    <3>1. \A n \in Nodes : node[n] = NoRow /\ RowsAtStart[n] = NewRow
      BY <2>2 DEF RowsAtStart
    <3>2. Used(NoRow) = 0 /\ Used(NewRow) = 0
      BY DEF Used, NoRow, NewRow
    <3>3. RowTried(NewRow)
      BY WorkflowAssumption DEF RowTried, NewRow
    <3> QED BY <3>1, <3>2, <3>3
  <2> QED BY <2>1, <2>2
<1>3. rows \in [Nodes -> NodeRow]
  BY <1>1, RefreshedType
<1>4. \A n \in Nodes : Used(rows[n]) = Used(node[n]) /\ RowTried(rows[n])
  BY <1>1, <1>2, RefreshedUses
<1>5. \/ tick' = Planned("closing", rows, "failed", {})
      \/ tick' = Planned("closing", rows, "cancelled", {})
      \/ \E S \in StartsAllowed(ready) : tick' = Planned("starting", ready, "running", S)
  BY Zenon DEF TickPlan
<1> HIDE DEF rows
<1>6. \A n \in Nodes : Used(ready[n]) = Used(node[n]) /\ RowTried(ready[n])
  BY <1>3, <1>4, ReadiedUses
<1> HIDE DEF ready
<1>7. \A n \in Nodes : Used(tick'.nowNode[n]) = Used(node[n]) /\ RowTried(tick'.nowNode[n])
  BY <1>4, <1>5, <1>6, PlannedParts
<1>8. tick.pc = "listed" /\ UNCHANGED <<node, bound, losses>>
  BY DEF TickPlan, historyVars, countVars
<1>9. \A n \in Nodes : Given(n) <= Used(node[n]) + losses
  BY <1>8 DEF TriesCounted, Planning
<1>10. \A n \in Nodes : Given(n) \in Nat /\ Used(node[n]) \in Nat /\ losses \in Nat
  BY GivenCounts, UsedCounts DEF TypeOK
<1>11. \A n \in Nodes : Given(n)' = Given(n) /\ Used(node[n])' = Used(node[n])
  BY <1>8 DEF Given, Used
<1>12. \A n \in Nodes : Used(tick.nowNode[n])' = Used(node[n]) /\ RowTried(tick.nowNode[n])'
  BY <1>7 DEF Used, RowTried
<1>13. \A n \in Nodes : RowTried(node[n])'
  BY <1>8 DEF TriesCounted, RowTried
<1>14. losses' = losses
  BY <1>8
<1> QED BY <1>9, <1>10, <1>11, <1>12, <1>13, <1>14 DEF TriesCounted

\* The run of a start is the first of the attempt, and what the tick had named
\* before is committed with it.
LEMMA StartTries ==
    ASSUME CountInv, TriesCounted, TypeOK', NEW n \in Nodes, StartNode(n) PROVE TriesCounted'
<1> DEFINE r == NewRunId
<1>1. /\ Planning /\ CommitTick(tick.nowWf) /\ losses' = losses /\ n \in tick.starts
      /\ r \in Runs /\ UnusedRuns # {}
      /\ bound' = [bound EXCEPT ![n] = @ \union {r}]
  BY NewRunIdIsUnused DEF StartNode, Planning, countVars
<1>2. /\ Planning' /\ tick'.starts = tick.starts \ {n}
      /\ tick'.nowNode = [tick.nowNode EXCEPT ![n].status = "queued", ![n].run = r]
  <2>1. tick' = [tick EXCEPT
               !.readWf = tick.nowWf,
               !.readNode = tick.nowNode,
               !.nowNode[n].status = "queued",
               !.nowNode[n].run = r,
               !.starts = @ \ {n},
               !.shared = IF Mode[n] # "isolate" /\ @ = None THEN r ELSE @]
    BY DEF StartNode
  <2> QED BY <1>1, <2>1 DEF CountInv, IInv, TypeOK, Tick, Planning
<1>3. \A m \in Nodes : Tracks(node'[m], tick.nowNode[m])
  BY <1>1, CommitTracks
<1>4. \A m \in Nodes : RowTried(tick.nowNode[m]) /\ Given(m) <= Used(tick.nowNode[m]) + losses
  BY <1>1 DEF TriesCounted
<1>5. \A m \in Nodes : Used(node'[m]) = Used(tick.nowNode[m]) /\ RowTried(node'[m])
  BY <1>3, <1>4, TrackingUses
<1>6. tick.nowNode[n].status = "ready" /\ tick.nowNode[n].run = None
  BY <1>1 DEF CountInv, TickTracks, Planning, NodesIn, RowsFit, RowFits
<1>7. tick.nowNode \in [Nodes -> NodeRow]
  BY TickParts DEF CountInv, IInv
<1>8. /\ Used(tick'.nowNode[n]) = Used(tick.nowNode[n]) + 1 /\ RowTried(tick'.nowNode[n])
      /\ \A m \in Nodes : m # n => tick'.nowNode[m] = tick.nowNode[m]
  <2>1. r # None
    BY <1>1, WorkflowAssumption
  <2>2. /\ tick'.nowNode[n].attempt = tick.nowNode[n].attempt
        /\ tick'.nowNode[n].run = r /\ tick'.nowNode[n].status = "queued"
        /\ tick.nowNode[n].attempt \in Nat
    BY <1>2, <1>7 DEF NodeRow
  <2>3. tick.nowNode[n].attempt # 0
    BY <1>4, <1>6 DEF RowTried
  <2> QED BY <1>2, <1>4, <1>6, <1>7, <2>1, <2>2, <2>3 DEF RowTried, Used
<1>9. \A m \in Nodes : Given(m)' <= Given(m) + 1 /\ (m # n => Given(m)' = Given(m))
  BY <1>1, OneMore, RunCounts DEF CountInv, IInv, TypeOK, Given
<1>10. \A m \in Nodes : /\ Given(m) \in Nat /\ Given(m)' \in Nat /\ losses \in Nat
                        /\ Used(tick.nowNode[m]) \in Nat
  <2>1. \A m \in Nodes : bound'[m] \in SUBSET Runs
    BY DEF TypeOK
  <2> QED BY <1>7, <2>1, GivenCounts, UsedCounts, RunCounts DEF CountInv, IInv, TypeOK, Given
<1>11. \A m \in Nodes : /\ Used(node[m])' = Used(tick.nowNode[m]) /\ RowTried(node[m])'
                        /\ m # n => Used(tick.nowNode[m])' = Used(tick.nowNode[m])
                        /\ RowTried(tick.nowNode[m])'
  BY <1>4, <1>5, <1>8 DEF Used, RowTried
<1>12. Used(tick.nowNode[n])' = Used(tick.nowNode[n]) + 1
  BY <1>8 DEF Used
<1> QED BY <1>1, <1>2, <1>4, <1>9, <1>10, <1>11, <1>12 DEF TriesCounted

\* Steering names the run without a commit, which a loss undoes.
LEMMA SteerTries ==
    ASSUME CountInv, TriesCounted, NEW n \in Nodes, SteerNode(n) PROVE TriesCounted'
<1>1. PICK r \in ActiveRunsOf(SessionFor(n)) :
         /\ bound' = [bound EXCEPT ![n] = @ \union {r}]
         /\ tick' = [tick EXCEPT !.nowNode[n].status = "waiting", !.nowNode[n].run = r,
                                 !.starts = @ \ {n}]
  BY DEF SteerNode
<1>2. Planning /\ n \in tick.starts /\ UNCHANGED <<node, losses>> /\ r \in Runs
  BY DEF SteerNode, Planning, countVars, ActiveRunsOf, RunsIn
<1>3. /\ Planning' /\ tick'.starts = tick.starts \ {n}
      /\ tick'.nowNode = [tick.nowNode EXCEPT ![n].status = "waiting", ![n].run = r]
  BY <1>1, <1>2 DEF CountInv, IInv, TypeOK, Tick, Planning
<1>4. tick.nowNode[n].status = "ready" /\ tick.nowNode[n].run = None
  BY <1>2 DEF CountInv, TickTracks, Planning, NodesIn, RowsFit, RowFits
<1>5. tick.nowNode \in [Nodes -> NodeRow]
  BY TickParts DEF CountInv, IInv
<1>6. /\ Used(tick'.nowNode[n]) = Used(tick.nowNode[n]) + 1 /\ RowTried(tick'.nowNode[n])
      /\ \A m \in Nodes : m # n => tick'.nowNode[m] = tick.nowNode[m]
  <2>1. r # None
    BY <1>2, WorkflowAssumption
  <2>2. /\ tick'.nowNode[n].attempt = tick.nowNode[n].attempt
        /\ tick'.nowNode[n].run = r /\ tick'.nowNode[n].status = "waiting"
        /\ tick.nowNode[n].attempt \in Nat
    BY <1>3, <1>5 DEF NodeRow
  <2>3. RowTried(tick.nowNode[n]) /\ tick.nowNode[n].attempt # 0
    BY <1>4 DEF RowTried, TriesCounted
  <2> QED BY <1>3, <1>4, <1>5, <2>1, <2>2, <2>3 DEF RowTried, Used
<1>7. \A m \in Nodes : Given(m)' <= Given(m) + 1 /\ (m # n => Given(m)' = Given(m))
  BY <1>1, OneMore, RunCounts DEF CountInv, IInv, TypeOK, Given
<1>8. \A m \in Nodes : /\ Given(m) \in Nat /\ Given(m)' \in Nat /\ losses \in Nat
                       /\ Used(tick.nowNode[m]) \in Nat /\ Used(node[m]) \in Nat
  <2>1. \A m \in Nodes : bound'[m] \in SUBSET Runs
    BY <1>1, <1>2 DEF CountInv, IInv, TypeOK
  <2> QED BY <1>5, <2>1, GivenCounts, UsedCounts, RunCounts DEF CountInv, IInv, TypeOK, Given
<1>9. \A m \in Nodes : /\ Used(node[m])' = Used(node[m]) /\ RowTried(node[m])'
                       /\ m # n => Used(tick.nowNode[m])' = Used(tick.nowNode[m])
                       /\ RowTried(tick.nowNode[m])'
  BY <1>2, <1>6 DEF Used, RowTried, TriesCounted
<1>10. Used(tick.nowNode[n])' = Used(tick.nowNode[n]) + 1
  BY <1>6 DEF Used
<1> QED BY <1>2, <1>3, <1>7, <1>8, <1>9, <1>10 DEF TriesCounted

\* Rows that keep their run and attempt, or become cancelled, keep the count.
LEMMA RowsKeepTries ==
    ASSUME CountInv, TriesCounted, UNCHANGED <<tick, bound, losses>>,
           \A n \in Nodes : Tracks(node'[n], node[n])
    PROVE  TriesCounted'
<1>1. \A n \in Nodes : Used(node'[n]) = Used(node[n]) /\ RowTried(node'[n])
  BY TrackingUses DEF TriesCounted
<1> QED BY <1>1 DEF TriesCounted, Given, Used, RowTried, Planning

LEMMA TriesStep == CountInv /\ CountInv' /\ TriesCounted /\ [Next]_vars => TriesCounted'
<1> SUFFICES ASSUME CountInv, CountInv', TriesCounted, [Next]_vars PROVE TriesCounted'
  OBVIOUS
<1> USE DEF runVars, historyVars, countVars
<1>1. TypeOK /\ TypeOK'
  BY DEF CountInv, IInv
<1>2. \A n \in Nodes : /\ Given(n) \in Nat /\ losses \in Nat /\ Used(node[n]) \in Nat
                       /\ Used(tick.nowNode[n]) \in Nat
  BY <1>1, GivenCounts, UsedCounts, TickParts DEF TypeOK
<1>3. CASE UNCHANGED <<tick, bound, losses, node>>
  BY <1>3 DEF TriesCounted, Given, Used, RowTried, Planning
<1>4. ASSUME NEW S, node' = CancelledRows(S), UNCHANGED <<tick, bound, losses>>
      PROVE  TriesCounted'
  <2>1. \A n \in Nodes : Tracks(node'[n], node[n])
    BY <1>1, <1>4 DEF CancelledRows, Tracks, TypeOK, NodeRow
  <2> QED BY <1>4, <2>1, RowsKeepTries
<1>5. CASE TickList
  <2>1. /\ tick'.pc = "listed" /\ tick'.nowNode = NoTick.nowNode /\ tick.pc = "idle"
        /\ UNCHANGED <<node, bound, losses>>
    BY <1>5 DEF TickList, NoTick
  <2>2. RowTried(NoRow)
    BY WorkflowAssumption DEF RowTried, NoRow
  <2>3. \A n \in Nodes : tick'.nowNode[n] = NoRow
    BY <2>1 DEF NoTick
  <2> QED BY <2>1, <2>2, <2>3 DEF TriesCounted, Given, Used, RowTried, Planning
<1>6. CASE TickPlan
  BY <1>1, <1>6, PlanTries
<1>7. ASSUME NEW n \in Nodes, StartNode(n) \/ SteerNode(n) PROVE TriesCounted'
  BY <1>1, <1>7, StartTries, SteerTries
<1>8. ASSUME NEW n \in Nodes, StartFails(n) PROVE TriesCounted'
  <2>1. /\ tick.pc = "starting" /\ tick'.pc = "closing" /\ tick'.starts = {}
        /\ tick'.nowNode = tick.nowNode /\ UNCHANGED <<node, bound, losses>>
    BY <1>1, <1>8 DEF StartFails, TypeOK, Tick
  <2> QED BY <2>1 DEF TriesCounted, Given, Used, RowTried, Planning
<1>9. CASE TickCommit
  <2>1. /\ Planning /\ tick' = NoTick /\ UNCHANGED <<bound, losses>>
        /\ \E s : CommitTick(s)
    BY <1>9 DEF TickCommit, Planning
  <2>2. \A n \in Nodes : Tracks(node'[n], tick.nowNode[n])
    BY <2>1, CommitTracks
  <2>3. \A n \in Nodes : Used(node'[n]) = Used(tick.nowNode[n]) /\ RowTried(node'[n])
    BY <2>2, TrackingUses DEF TriesCounted
  <2>4. RowTried(NoRow) /\ NoTick.pc = "idle" /\ NoTick.starts = {}
    BY WorkflowAssumption DEF RowTried, NoRow, NoTick
  <2>5. \A n \in Nodes : tick'.nowNode[n] = NoRow
    BY <2>1 DEF NoTick
  <2> QED BY <2>1, <2>3, <2>4, <2>5 DEF TriesCounted, Given, Used, RowTried, Planning
<1>10. CASE TickLost \/ Restart
  <2>1. /\ tick' = NoTick /\ losses' = losses + 1 /\ UNCHANGED <<node, bound>>
    BY <1>10 DEF TickLost, Restart
  <2>2. RowTried(NoRow) /\ NoTick.pc = "idle" /\ NoTick.starts = {}
    BY WorkflowAssumption DEF RowTried, NoRow, NoTick
  <2>3. \A n \in Nodes : tick'.nowNode[n] = NoRow
    BY <2>1 DEF NoTick
  <2>4. \A n \in Nodes : Given(n) <= Used(node[n]) + losses + 1
    BY <1>2 DEF TriesCounted
  <2> QED BY <1>2, <2>1, <2>2, <2>3, <2>4 DEF TriesCounted, Given, Used, RowTried, Planning
<1>11. \/ UNCHANGED <<tick, bound, losses, node>>
       \/ TickList \/ TickPlan \/ TickCommit \/ TickLost \/ Restart
       \/ \E n \in Nodes : StartNode(n) \/ SteerNode(n) \/ StartFails(n)
       \/ \E S : node' = CancelledRows(S) /\ UNCHANGED <<tick, bound, losses>>
  BY DEF Next, TickStep, CancelStep, vars, Trigger, RunStarts, RunEnds, RunStopped,
     RunOverwritten, CancelLoad, CancelNode, CancelCommit
<1> QED BY <1>3, <1>4, <1>5, <1>6, <1>7, <1>8, <1>9, <1>10, <1>11

\* A node is given no more runs than retry_count allows, one for each attempt, and
\* one more for each loss between a start and the commit that names its run: stale
\* ticks, racing cancellations, steering and overwritten ends never make the
\* executor try a node once more.
RetriesRespected == \A n \in Nodes : Cardinality(bound[n]) <= Retries + 1 + losses

\* A node gets no more runs than its retry policy allows, but for those that a loss
\* of the process hid from the workflow before the commit that names them.
THEOREM RetriesHold == Spec => []RetriesRespected
<1>1. Init => TriesCounted
  <2> SUFFICES ASSUME Init, NEW n \in Nodes
               PROVE  /\ RowTried(NoRow) /\ node[n] = NoRow /\ tick.nowNode[n] = NoRow
                      /\ Given(n) = 0 /\ Used(NoRow) = 0 /\ losses = 0 /\ ~Planning
    BY DEF TriesCounted
  <2> QED BY FS_EmptySet, WorkflowAssumption
          DEF Init, NoTick, NoRow, RowTried, Used, Given, Planning
<1>2. CountInv /\ CountInv' /\ TriesCounted /\ [Next]_vars => TriesCounted'
  BY TriesStep
<1>3. CountInv /\ TriesCounted => RetriesRespected
  <2> SUFFICES ASSUME CountInv, TriesCounted, NEW n \in Nodes
               PROVE  Cardinality(bound[n]) <= Retries + 1 + losses
    BY DEF RetriesRespected
  <2>1. node[n] \in NodeRow /\ tick.nowNode[n] \in NodeRow /\ losses \in Nat
    BY TickParts DEF CountInv, IInv, TypeOK
  <2>2. \A row \in NodeRow : RowTried(row) => Used(row) <= Retries + 1
    BY WorkflowAssumption DEF NodeRow, RowTried, Used
  <2>3. Given(n) \in Nat /\ Used(node[n]) \in Nat /\ Used(tick.nowNode[n]) \in Nat
    BY <2>1, GivenCounts, UsedCounts DEF CountInv, IInv
  <2> QED BY <2>1, <2>2, <2>3, WorkflowAssumption DEF TriesCounted, Given
<1> QED BY CountInit, CountStep, <1>1, <1>2, <1>3, PTL DEF Spec
=============================================================================
