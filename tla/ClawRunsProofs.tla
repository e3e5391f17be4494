--------------------------- MODULE ClawRunsProofs ---------------------------
(***************************************************************************)
(* Proofs about ClawRuns for every set of sessions and runs and every      *)
(* choice of ingress, faults and bounds.                                   *)
(***************************************************************************)
EXTENDS ClawRuns, FiniteSetTheorems, TLAPS

-----------------------------------------------------------------------------
(***************************************************************************)
(* Lemmas about the helpers the actions are built from                     *)
(***************************************************************************)

\* A sequence number is a natural number.
LEMMA SequenceNoType ==
    ASSUME NEW s PROVE NextSequenceNo(s) \in Nat
<1>1. IsFiniteSet(RunsOf(s))
  BY RunsAssumption, FS_Subset DEF RunsOf
<1>2. Cardinality(RunsOf(s)) \in Nat
  BY <1>1, FS_CardinalityType
<1> QED BY <1>2 DEF NextSequenceNo

\* The handle helpers return handles.
LEMMA HandleType ==
    ASSUME NEW h \in Handle
    PROVE  /\ Ended(h) \in Handle
           /\ Retired(h) \in Handle
           /\ Retired(Ended(h)) \in Handle
  BY DEF Ended, Retired, Handle, NoHandle

LEMMA InitialValues ==
    /\ NoHandle \in Handle
    /\ NoSnapshot \in Snapshot
    /\ \A m \in {"async", "stream", "queue"} : NewHandle(m) \in Handle
  BY DEF NoHandle, NewHandle, Handle, NoSnapshot, Snapshot, RunId

\* A run that was created belongs to a session, one that has a task exists.
Owned ==
    \A r \in Runs :
        /\ status[r] # "absent" => owner[r] \in Sessions
        /\ task[r] # "none" => status[r] # "absent"
        /\ stopper[r] # "idle" => status[r] # "absent"

\* What a commit of the session row leaves there is a run id or NULL.
LEMMA LinksType ==
    ASSUME TypeOK, NEW s \in Sessions, NEW l \in Snapshot,
           NEW a \in RunId, NEW h \in RunId, WriteLinks(s, l, a, h)
    PROVE  active' \in [Sessions -> RunId] /\ head' \in [Sessions -> RunId]
  BY DEF TypeOK, WriteLinks, Written
-----------------------------------------------------------------------------
(***************************************************************************)
(* Type correctness                                                        *)
(***************************************************************************)

TypeInv == TypeOK /\ Owned

\* A run that is created is well typed, and belongs to a session.
LEMMA CreateType ==
    ASSUME TypeInv, NEW s \in Sessions, NEW r \in Runs, CreateRun(s, r)
    PROVE  TypeInv'
<1> USE DEF TypeInv, RunId, TaskState, Status, Live, Terminal
<1>1. RestoreChoice(s) \subseteq RunId
  BY DEF RestoreChoice, TypeOK, RunsOf
<1>2. restore' \in [Runs -> RunId]
  BY <1>1 DEF CreateRun, TypeOK
<1>3. seq' \in [Runs -> Nat]
  BY SequenceNoType DEF CreateRun, TypeOK
<1>4. TypeOK'
  BY <1>2, <1>3 DEF CreateRun, TypeOK, commitVars, stopVars, boundVars
<1>5. Owned'
  BY RunsAssumption DEF CreateRun, Owned, TypeOK, commitVars, stopVars, boundVars
<1> QED BY <1>4, <1>5

LEMMA SnapshotType ==
    ASSUME TypeOK, NEW s \in Sessions
    PROVE  SnapshotOf(s) \in Snapshot
  BY DEF TypeOK, SnapshotOf, Snapshot

\* Every step of a task, of a stop request or of the process keeps the types.
LEMMA StepType == TypeInv /\ [Next]_vars => TypeInv'
<1> SUFFICES ASSUME TypeInv, [Next]_vars PROVE TypeInv'
  OBVIOUS
<1> USE DEF TypeInv, Owned, RunId, TaskState, Status, Live, Terminal,
            rowVars, linkVars, commitVars, stopVars, boundVars
<1>1. ASSUME NEW s \in Sessions, NEW r \in Runs, PostRun(s, r) \/ SubmitInput(s, r)
      PROVE  TypeInv'
  BY <1>1, CreateType DEF PostRun, SubmitInput
<1>2. ASSUME NEW r \in Runs, Dispatch(r) PROVE TypeInv'
  <2>1. PICK m \in Modes :
          /\ handle' = [handle EXCEPT ![r] = NewHandle(m)]
          /\ task' = [task EXCEPT ![r] =
                         IF m = "queue" \/ phase = "stopping" THEN "none" ELSE "submitted"]
    BY <1>2 DEF Dispatch
  <2>2. NewHandle(m) \in Handle
    BY InitialValues, RunsAssumption
  <2>3. TypeOK'
    BY <1>2, <2>1, <2>2 DEF Dispatch, TypeOK
  <2>4. Owned'
    BY <1>2, <2>1 DEF Dispatch, TypeOK
  <2> QED BY <2>3, <2>4
<1>3. ASSUME NEW r \in Runs, ClaimLoad(r) PROVE TypeInv'
  <2>1. SnapshotOf(owner[r]) \in Snapshot
    BY <1>3, SnapshotType DEF ClaimLoad, TypeOK
  <2>2. NoHandle \in Handle /\ NewHandle("async") \in Handle
    BY InitialValues
  <2>3. TypeOK'
    BY <1>3, <2>1, <2>2 DEF ClaimLoad, TypeOK
  <2>4. Owned'
    BY <1>3 DEF ClaimLoad, TypeOK
  <2> QED BY <2>3, <2>4
<1>4. ASSUME NEW r \in Runs, ClaimCommit(r) PROVE TypeInv'
  <2>1. NoSnapshot \in Snapshot
    BY InitialValues
  <2>2. active' \in [Sessions -> RunId] /\ head' \in [Sessions -> RunId]
    BY <1>4, LinksType DEF ClaimCommit, TypeOK
  <2>3. TypeOK'
    BY <1>4, <2>1, <2>2 DEF ClaimCommit, TypeOK
  <2>4. Owned'
    BY <1>4 DEF ClaimCommit, TypeOK
  <2> QED BY <2>3, <2>4
<1>5. ASSUME NEW r \in Runs, ExecuteLoad(r) PROVE TypeInv'
  <2>1. NoSnapshot \in Snapshot
    BY InitialValues
  <2>2. Retired(handle[r]) \in Handle
    BY HandleType DEF TypeOK
  <2>3. TypeOK'
    BY <1>5, <2>1, <2>2 DEF ExecuteLoad, TypeOK, TaskEnds
  <2>4. Owned'
    BY <1>5 DEF ExecuteLoad, TypeOK, TaskEnds
  <2> QED BY <2>3, <2>4
<1>6. ASSUME NEW r \in Runs, StreamInterrupted(r) PROVE TypeInv'
  <2>1. NoSnapshot \in Snapshot
    BY InitialValues
  <2>2. Retired(handle[r]) \in Handle
    BY HandleType DEF TypeOK
  <2>3. TypeOK'
    BY <1>6, <2>1, <2>2 DEF StreamInterrupted, TypeOK, TaskEnds
  <2>4. Owned'
    BY <1>6 DEF StreamInterrupted, TypeOK, TaskEnds
  <2> QED BY <2>3, <2>4
<1>7. ASSUME NEW r \in Runs, StreamRaises(r) PROVE TypeInv'
  <2>1. TypeOK'
    BY <1>7 DEF StreamRaises, TypeOK
  <2>2. Owned'
    BY <1>7 DEF StreamRaises, TypeOK
  <2> QED BY <2>1, <2>2
<1>8. ASSUME NEW r \in Runs, CommitLoad(r) PROVE TypeInv'
  <2>1. NoSnapshot \in Snapshot
    BY InitialValues
  <2>2. Retired(handle[r]) \in Handle
    BY HandleType DEF TypeOK
  <2>3. SnapshotOf(owner[r]) \in Snapshot
    BY <1>8, SnapshotType DEF CommitLoad, TypeOK
  <2>4. TypeOK'
    BY <1>8, <2>1, <2>2, <2>3 DEF CommitLoad, TypeOK, TaskEnds, Persisted
  <2>5. Owned'
    BY <1>8 DEF CommitLoad, TypeOK, TaskEnds, Persisted
  <2> QED BY <2>4, <2>5
<1>9. ASSUME NEW r \in Runs, CommitDb(r) PROVE TypeInv'
  <2>1. NoSnapshot \in Snapshot
    BY InitialValues
  <2>2. active' \in [Sessions -> RunId] /\ head' \in [Sessions -> RunId]
    BY <1>9, LinksType DEF CommitDb, TypeOK
  <2>3. TypeOK'
    BY <1>9, <2>1, <2>2 DEF CommitDb, TypeOK
  <2>4. Owned'
    BY <1>9 DEF CommitDb, TypeOK
  <2> QED BY <2>3, <2>4
<1>10. ASSUME NEW r \in Runs, PostCommit(r) PROVE TypeInv'
  <2>1. NoSnapshot \in Snapshot
    BY InitialValues
  <2>2. Ended(handle[r]) \in Handle
    BY HandleType DEF TypeOK
  <2>3. Retired(Ended(handle[r])) \in Handle
    BY HandleType DEF TypeOK
  <2>4. TypeOK'
    BY <1>10, <2>1, <2>2, <2>3 DEF PostCommit, TypeOK, TaskEnds
  <2>5. Owned'
    BY <1>10 DEF PostCommit, TypeOK, TaskEnds
  <2> QED BY <2>4, <2>5
<1>11. ASSUME NEW r \in Runs, FailLoad(r) PROVE TypeInv'
  <2>1. NoSnapshot \in Snapshot
    BY InitialValues
  <2>2. Retired(handle[r]) \in Handle
    BY HandleType DEF TypeOK
  <2>3. SnapshotOf(owner[r]) \in Snapshot
    BY <1>11, SnapshotType DEF FailLoad, TypeOK
  <2>4. TypeOK'
    BY <1>11, <2>1, <2>2, <2>3 DEF FailLoad, TypeOK, TaskEnds
  <2>5. Owned'
    BY <1>11 DEF FailLoad, TypeOK, TaskEnds
  <2> QED BY <2>4, <2>5
<1>12. ASSUME NEW r \in Runs, FailCommit(r) PROVE TypeInv'
  <2>1. NoSnapshot \in Snapshot
    BY InitialValues
  <2>2. Retired(handle[r]) \in Handle /\ Retired(Ended(handle[r])) \in Handle
    BY HandleType DEF TypeOK
  <2>3. txn[r] \in Snapshot
    BY DEF TypeOK
  <2>4. Released(txn[r].active, r) \in RunId
    BY <2>3 DEF Released, Snapshot
  <2>5. active' \in [Sessions -> RunId] /\ head' \in [Sessions -> RunId]
    BY <1>12, <2>3, <2>4, LinksType DEF FailCommit, TypeOK
  <2>6. TypeOK'
    BY <1>12, <2>1, <2>2, <2>3, <2>4, <2>5 DEF FailCommit, TypeOK, TaskEnds
  <2>7. Owned'
    BY <1>12 DEF FailCommit, TypeOK, TaskEnds
  <2> QED BY <2>6, <2>7
<1>13. ASSUME NEW r \in Runs, PruneHandle(r) PROVE TypeInv'
  <2>1. NoHandle \in Handle /\ NewHandle("async") \in Handle
    BY InitialValues
  <2>2. TypeOK'
    BY <1>13, <2>1 DEF PruneHandle, TypeOK
  <2>3. Owned'
    BY <1>13 DEF PruneHandle, TypeOK
  <2> QED BY <2>2, <2>3
<1>14. ASSUME NEW r \in Runs, StopLoad(r) PROVE TypeInv'
  <2>1. SnapshotOf(owner[r]) \in Snapshot
    BY <1>14, SnapshotType DEF StopLoad, TypeOK
  <2>2. [handle[r] EXCEPT !.stop = TRUE] \in Handle
    BY ZenonT(30) DEF TypeOK, Handle
  <2>3. handle' \in [Runs -> Handle]
    BY <1>14, <2>2 DEF StopLoad, TypeOK
  <2>4. TypeOK'
    BY <1>14, <2>1, <2>2, <2>3 DEF StopLoad, TypeOK
  <2>5. Owned'
    BY <1>14 DEF StopLoad, TypeOK
  <2> QED BY <2>4, <2>5
<1>15. ASSUME NEW r \in Runs, StopCommit(r) PROVE TypeInv'
  <2>1. NoSnapshot \in Snapshot
    BY InitialValues
  <2>2. Ended(handle[r]) \in Handle
    BY HandleType DEF TypeOK
  <2>3. stopTxn[r] \in Snapshot
    BY DEF TypeOK
  <2>4. Released(stopTxn[r].active, r) \in RunId
    BY <2>3 DEF Released, Snapshot
  <2>5. active' \in [Sessions -> RunId] /\ head' \in [Sessions -> RunId]
    BY <1>15, <2>3, <2>4, LinksType DEF StopCommit, TypeOK
  <2>6. TypeOK'
    BY <1>15, <2>1, <2>2, <2>3, <2>4, <2>5 DEF StopCommit, TypeOK
  <2>7. Owned'
    BY <1>15 DEF StopCommit, TypeOK
  <2> QED BY <2>6, <2>7
<1>16. ASSUME NEW r \in Runs, StopTerminal(r) PROVE TypeInv'
  <2>1. Ended(handle[r]) \in Handle
    BY HandleType DEF TypeOK
  <2>2. TypeOK'
    BY <1>16, <2>1 DEF StopTerminal, TypeOK
  <2>3. Owned'
    BY <1>16 DEF StopTerminal, TypeOK
  <2> QED BY <2>2, <2>3
<1>17. CASE BeginShutdown
  BY <1>17 DEF BeginShutdown, TypeOK
<1>18. CASE Crash
  BY <1>18, InitialValues DEF Crash, TypeOK, ProcessGone
<1>19. CASE Exit
  BY <1>19, InitialValues DEF Exit, TypeOK, ProcessGone
<1>20. CASE StartupRecover
  <2>1. TypeOK'
    BY <1>20 DEF StartupRecover, TypeOK, RecoveredStatus, RecoveredActive, RecoveredTask
  <2>2. Owned'
    BY <1>20 DEF StartupRecover, TypeOK, RecoveredStatus, RecoveredTask, Orphans
  <2> QED BY <2>1, <2>2
<1>21. CASE UNCHANGED vars
  BY <1>21 DEF vars, TypeOK
<1> QED
  BY <1>1, <1>2, <1>3, <1>4, <1>5, <1>6, <1>7, <1>8, <1>9, <1>10,
     <1>11, <1>12, <1>13, <1>14, <1>15, <1>16, <1>17, <1>18, <1>19, <1>20, <1>21 DEF Next, TaskStep

LEMMA InitType == Init => TypeInv
  BY InitialValues DEF Init, TypeInv, TypeOK, Owned, RunId, TaskState, Status, Snapshot,
     NoSnapshot

\* The state of the service is always well typed, and every task and stop request
\* belongs to a run that exists, in a session.
THEOREM TypeCorrect == Spec => []TypeInv
<1>1. Init => TypeInv
  BY InitType
<1>2. TypeInv /\ [Next]_vars => TypeInv'
  BY StepType
<1> QED BY <1>1, <1>2, PTL DEF Spec

\* Every value the service stores has its type, whatever step stored it.
THEOREM TypesHold == Spec => []TypeOK
<1>1. TypeInv => TypeOK
  BY DEF TypeInv
<1> QED BY <1>1, TypeCorrect, PTL
-----------------------------------------------------------------------------
(***************************************************************************)
(* Durability, single execution, and the abstract specification            *)
(***************************************************************************)

\* Tasks that have not committed their run, and those that have not started it.
BeforeCommit == {"created", "submitted", "claiming", "claimed", "streaming", "committing"}
BeforeStart == {"created", "submitted", "claiming", "claimed"}

\* The inductive invariant: a run can be on its way to be started only if it never
\* was, and on its way to commit only if it never did, although the row of a run
\* may be overwritten behind the back of its task by a stop or a late claim.
LifeInv ==
    /\ \A r \in Runs : r \in committed =>
         r \in artifacts /\ status[r] \notin {"absent", "queued"} /\ task[r] \notin BeforeCommit
    /\ \A r \in Runs : task[r] = "committing" => r \in artifacts
    /\ \A r \in Runs : status[r] = "completed" => r \in committed
    /\ \A s \in Sessions : success[s] # None =>
         success[s] \in committed /\ owner[success[s]] = s
    /\ \A r \in Runs : executions[r] \in {0, 1}
    /\ \A r \in Runs : executions[r] # 0 =>
         status[r] \notin {"absent", "queued"} /\ task[r] \notin BeforeStart

LEMMA LifeInit == Init => LifeInv
  BY RunsAssumption DEF Init, LifeInv

LEMMA LifeCreate ==
    ASSUME TypeInv, LifeInv, NEW s \in Sessions, NEW r \in Runs, CreateRun(s, r)
    PROVE  LifeInv'
  BY RunsAssumption DEF CreateRun, LifeInv, BeforeCommit, BeforeStart, TypeInv, TypeOK,
     commitVars, stopVars, boundVars

\* No step undoes the bookkeeping of a run, the late ones of its task included.
LEMMA LifeStep == TypeInv /\ LifeInv /\ [Next]_vars => LifeInv'
<1> SUFFICES ASSUME TypeInv, LifeInv, [Next]_vars PROVE LifeInv'
  OBVIOUS
<1> USE RunsAssumption DEF TypeInv, TypeOK, Owned, LifeInv, BeforeCommit, BeforeStart,
            rowVars, linkVars, commitVars, stopVars, boundVars
<1>1. ASSUME NEW s \in Sessions, NEW r \in Runs, PostRun(s, r) \/ SubmitInput(s, r)
      PROVE  LifeInv'
  BY <1>1, LifeCreate DEF PostRun, SubmitInput
<1>2. ASSUME NEW r \in Runs, Dispatch(r) PROVE LifeInv'
  BY <1>2 DEF Dispatch
<1>3. ASSUME NEW r \in Runs, ClaimLoad(r) PROVE LifeInv'
  BY <1>3 DEF ClaimLoad
<1>4. ASSUME NEW r \in Runs, ClaimCommit(r) PROVE LifeInv'
  BY <1>4 DEF ClaimCommit
<1>5. ASSUME NEW r \in Runs, ExecuteLoad(r) PROVE LifeInv'
  BY <1>5 DEF ExecuteLoad, TaskEnds
<1>6. ASSUME NEW r \in Runs, StreamInterrupted(r) PROVE LifeInv'
  BY <1>6 DEF StreamInterrupted, TaskEnds
<1>7. ASSUME NEW r \in Runs, StreamRaises(r) PROVE LifeInv'
  BY <1>7 DEF StreamRaises
<1>8. ASSUME NEW r \in Runs, CommitLoad(r) PROVE LifeInv'
  BY <1>8 DEF CommitLoad, TaskEnds, Persisted
<1>9. ASSUME NEW r \in Runs, CommitDb(r) PROVE LifeInv'
  BY <1>9 DEF CommitDb
<1>10. ASSUME NEW r \in Runs, PostCommit(r) PROVE LifeInv'
  BY <1>10 DEF PostCommit, TaskEnds
<1>11. ASSUME NEW r \in Runs, FailLoad(r) PROVE LifeInv'
  BY <1>11 DEF FailLoad, TaskEnds
<1>12. ASSUME NEW r \in Runs, FailCommit(r) PROVE LifeInv'
  BY <1>12 DEF FailCommit, TaskEnds
<1>13. ASSUME NEW r \in Runs, PruneHandle(r) PROVE LifeInv'
  BY <1>13 DEF PruneHandle
<1>14. ASSUME NEW r \in Runs, StopLoad(r) PROVE LifeInv'
  BY <1>14 DEF StopLoad
<1>15. ASSUME NEW r \in Runs, StopCommit(r) PROVE LifeInv'
  BY <1>15 DEF StopCommit
<1>16. ASSUME NEW r \in Runs, StopTerminal(r) PROVE LifeInv'
  BY <1>16 DEF StopTerminal
<1>17. CASE BeginShutdown
  BY <1>17 DEF BeginShutdown
<1>18. CASE Crash
  BY <1>18 DEF Crash, ProcessGone
<1>19. CASE Exit
  BY <1>19 DEF Exit, ProcessGone
<1>20. CASE StartupRecover
  BY <1>20 DEF StartupRecover, RecoveredStatus, RecoveredTask, Orphans
<1>21. CASE UNCHANGED vars
  BY <1>21 DEF vars
<1> QED
  BY <1>1, <1>2, <1>3, <1>4, <1>5, <1>6, <1>7, <1>8, <1>9, <1>10, <1>11, <1>12, <1>13,
     <1>14, <1>15, <1>16, <1>17, <1>18, <1>19, <1>20, <1>21
     DEF Next, TaskStep

LEMMA LifeCorrect == Spec => []LifeInv
<1>1. Init => LifeInv
  BY LifeInit
<1>2. TypeInv /\ LifeInv /\ [Next]_vars => LifeInv'
  BY LifeStep
<1> QED BY <1>1, <1>2, TypeCorrect, PTL DEF Spec

\* Whatever happens to the process between the files and the commit, the session
\* never designates a continuation point that cannot be loaded.
THEOREM DurableContinuation == Spec => []ContinuationIsDurable
<1>1. TypeInv /\ LifeInv => ContinuationIsDurable
  BY DEF TypeInv, TypeOK, LifeInv, ContinuationIsDurable
<1> QED BY <1>1, TypeCorrect, LifeCorrect, PTL

\* Recovery and late claims never start the agent of a run a second time.
THEOREM SingleExecution == Spec => []ExecutedAtMostOnce
<1>1. LifeInv => ExecutedAtMostOnce
  BY DEF LifeInv, ExecutedAtMostOnce
<1> QED BY <1>1, LifeCorrect, PTL
-----------------------------------------------------------------------------
(***************************************************************************)
(* ClawRuns implements ContinuationLine                                    *)
(***************************************************************************)

\* Writing the files is Persist, unless they are there already; the commit of a
\* run is Publish; no other step touches the line of continuation points.
LEMMA LineStep == TypeInv /\ LifeInv /\ [Next]_vars => [Line!Next]_Line!vars
<1> SUFFICES ASSUME TypeInv, LifeInv, [Next]_vars PROVE [Line!Next]_Line!vars
  OBVIOUS
<1> USE DEF Line!vars, rowVars, linkVars, commitVars, stopVars, boundVars
<1>1. ASSUME NEW s \in Sessions, NEW r \in Runs, PostRun(s, r) \/ SubmitInput(s, r)
      PROVE  UNCHANGED Line!vars
  BY <1>1 DEF PostRun, SubmitInput, CreateRun
<1>2. ASSUME NEW r \in Runs, Dispatch(r) PROVE UNCHANGED Line!vars
  BY <1>2 DEF Dispatch
<1>3. ASSUME NEW r \in Runs, ClaimLoad(r) PROVE UNCHANGED Line!vars
  BY <1>3 DEF ClaimLoad
<1>4. ASSUME NEW r \in Runs, ClaimCommit(r) PROVE UNCHANGED Line!vars
  BY <1>4 DEF ClaimCommit
<1>5. ASSUME NEW r \in Runs, ExecuteLoad(r) PROVE UNCHANGED Line!vars
  BY <1>5 DEF ExecuteLoad
<1>6. ASSUME NEW r \in Runs, StreamInterrupted(r) PROVE UNCHANGED Line!vars
  BY <1>6 DEF StreamInterrupted
<1>7. ASSUME NEW r \in Runs, StreamRaises(r) PROVE UNCHANGED Line!vars
  BY <1>7 DEF StreamRaises
<1>8. ASSUME NEW r \in Runs, CommitLoad(r) PROVE [Line!Next]_Line!vars
  <2>1. UNCHANGED <<committed, success>> /\ artifacts' \in {artifacts, artifacts \union {r}}
    BY <1>8 DEF CommitLoad, Persisted
  <2>2. CASE artifacts' = artifacts
    BY <2>1, <2>2
  <2>3. CASE artifacts' # artifacts
    <3>1. Line!Persist(r)
      BY <2>1, <2>3 DEF Line!Persist
    <3> QED BY <3>1 DEF Line!Next
  <2> QED BY <2>2, <2>3
<1>9. ASSUME NEW r \in Runs, CommitDb(r) PROVE Line!Next
  <2>1. r \in artifacts \ committed
    BY <1>9 DEF CommitDb, LifeInv, BeforeCommit
  <2>2. owner[r] \in Sessions
    BY <1>9 DEF CommitDb, TypeInv, TypeOK, Owned
  <2>3. Line!Publish(owner[r], r)
    BY <1>9, <2>1 DEF CommitDb, Line!Publish
  <2> QED BY <2>2, <2>3 DEF Line!Next
<1>10. ASSUME NEW r \in Runs, PostCommit(r) PROVE UNCHANGED Line!vars
  BY <1>10 DEF PostCommit
<1>11. ASSUME NEW r \in Runs, FailLoad(r) PROVE UNCHANGED Line!vars
  BY <1>11 DEF FailLoad
<1>12. ASSUME NEW r \in Runs, FailCommit(r) PROVE UNCHANGED Line!vars
  BY <1>12 DEF FailCommit
<1>13. ASSUME NEW r \in Runs, PruneHandle(r) PROVE UNCHANGED Line!vars
  BY <1>13 DEF PruneHandle
<1>14. ASSUME NEW r \in Runs, StopLoad(r) PROVE UNCHANGED Line!vars
  BY <1>14 DEF StopLoad
<1>15. ASSUME NEW r \in Runs, StopCommit(r) PROVE UNCHANGED Line!vars
  BY <1>15 DEF StopCommit
<1>16. ASSUME NEW r \in Runs, StopTerminal(r) PROVE UNCHANGED Line!vars
  BY <1>16 DEF StopTerminal
<1>17. CASE BeginShutdown
  BY <1>17 DEF BeginShutdown
<1>18. CASE Crash
  BY <1>18 DEF Crash, ProcessGone
<1>19. CASE Exit
  BY <1>19 DEF Exit, ProcessGone
<1>20. CASE StartupRecover
  BY <1>20 DEF StartupRecover
<1>21. CASE UNCHANGED vars
  BY <1>21 DEF vars
<1> QED
  BY <1>1, <1>2, <1>3, <1>4, <1>5, <1>6, <1>7, <1>8, <1>9, <1>10, <1>11, <1>12, <1>13,
     <1>14, <1>15, <1>16, <1>17, <1>18, <1>19, <1>20, <1>21
     DEF Next, TaskStep

LEMMA LineInit == Init => Line!Init
  BY DEF Init, Line!Init

\* The detailed service, with its races, faults, stops and restarts, implements
\* the abstract line of continuation points.
THEOREM Implementation == Spec => ImplementsContinuationLine
<1>1. Init => Line!Init
  BY LineInit
<1>2. TypeInv /\ LifeInv /\ [Next]_vars => [Line!Next]_Line!vars
  BY LineStep
<1> QED
  BY <1>1, <1>2, TypeCorrect, LifeCorrect, PTL DEF Spec, ImplementsContinuationLine, Line!Spec
-----------------------------------------------------------------------------
(***************************************************************************)
(* As long as nobody asked for a stop: running rows and their tasks        *)
(***************************************************************************)

\* Tasks of a run that is queued, and of one that is running.
Waiting == {"created", "submitted", "claiming"}
Working == {"claimed", "streaming", "committing", "raised"}

\* What the row of a run says and where its task stands agree, and a run keeps its
\* handle for as long as it may need it.
TasksAgree ==
    \A r \in Runs :
        /\ stopper[r] = "idle" /\ ~handle[r].stop
        /\ task[r] \in Waiting => status[r] = "queued"
        /\ task[r] \in Working => status[r] = "running"
        /\ task[r] = "posting" => status[r] = "completed"
        /\ task[r] \in {"raisedLate", "failing"} =>
             \/ status[r] = "running"
             \/ status[r] = "completed" /\ "hooks" \in Faulty
        /\ task[r] = "submitted" => handle[r].state \in {"none", "open"}
        /\ task[r] = "claiming" \/ (status[r] = "running" /\ phase # "down") =>
             handle[r].state = "open"
        /\ phase = "down" => task[r] = "none" /\ handle[r].state = "none"

\* A transaction that is open knows whether the session names its run: nothing but
\* the claim of a run sets the pointer to it.
ActiveKnown ==
    \A r \in Runs :
        /\ task[r] = "claiming" => txn[r].active # r
        /\ task[r] \in {"committing", "failing"} /\ active[owner[r]] = r => txn[r].active = r

QuietParts == TasksAgree /\ ActiveKnown /\ ActiveIsRunning /\ NoAbandonedRun
QuietInv == stops = 0 => QuietParts

\* With submit_input alone and no hook that raises, the live run is the head.
LiveIsHead ==
    \A r \in Runs :
        /\ status[r] \in Live => head[owner[r]] = r
        /\ task[r] = "claiming" => txn[r].head = r
Undisturbed == stops = 0 /\ "create" \notin Paths /\ "hooks" \notin Faulty
HeadInv == Undisturbed => LiveIsHead
LEMMA KeepsStop ==
    ASSUME NEW h \in Handle, ~h.stop
    PROVE  ~Ended(h).stop /\ ~Retired(h).stop /\ ~Retired(Ended(h)).stop
  BY DEF Ended, Retired, Handle, NoHandle

\* Each step of a task, of the recovery and of the loss of the process keeps them.
LEMMA QuietStep ==
    ASSUME TypeInv, QuietParts, stops = 0, stops' = 0, [Next]_vars
    PROVE  QuietParts'
<1> USE RunsAssumption
    DEF TypeInv, TypeOK, Owned, QuietParts, TasksAgree, ActiveKnown, ActiveIsRunning,
        NoAbandonedRun, Waiting, Working, Executing,
        rowVars, linkVars, commitVars, stopVars, boundVars
<1>1. ASSUME NEW s \in Sessions, NEW r \in Runs, CreateRun(s, r) PROVE QuietParts'
  <2>1. TasksAgree'
    BY <1>1 DEF CreateRun
  <2>2. ActiveKnown'
    BY <1>1 DEF CreateRun
  <2>3. ActiveIsRunning'
    BY <1>1 DEF CreateRun
  <2>4. NoAbandonedRun'
    BY <1>1 DEF CreateRun
  <2> QED BY <2>1, <2>2, <2>3, <2>4
<1>2. ASSUME NEW r \in Runs, Dispatch(r) PROVE QuietParts'
  <2>1. PICK m \in Modes :
          /\ handle' = [handle EXCEPT ![r] = NewHandle(m)]
          /\ task' = [task EXCEPT ![r] =
                         IF m = "queue" \/ phase = "stopping" THEN "none" ELSE "submitted"]
    BY <1>2 DEF Dispatch
  <2>2. handle'[r].state = "open" /\ ~handle'[r].stop
    BY <2>1 DEF NewHandle
  <2>3. TasksAgree'
    BY <1>2, <2>1, <2>2 DEF Dispatch
  <2>4. ActiveKnown' /\ ActiveIsRunning' /\ NoAbandonedRun'
    BY <1>2 DEF Dispatch
  <2> QED BY <2>3, <2>4
<1>3. ASSUME NEW r \in Runs, ClaimLoad(r) PROVE QuietParts'
  <2>1. TasksAgree'
    BY <1>3 DEF ClaimLoad, NewHandle, SnapshotOf
  <2>2. ActiveKnown'
    BY <1>3 DEF ClaimLoad, NewHandle, SnapshotOf
  <2>3. ActiveIsRunning'
    BY <1>3 DEF ClaimLoad, NewHandle, SnapshotOf
  <2>4. NoAbandonedRun'
    BY <1>3 DEF ClaimLoad, NewHandle, SnapshotOf
  <2> QED BY <2>1, <2>2, <2>3, <2>4
<1>4. ASSUME NEW r \in Runs, ClaimCommit(r) PROVE QuietParts'
  <2>1. TasksAgree'
    BY <1>4 DEF ClaimCommit, WriteLinks, Written
  <2>2. ActiveKnown'
    BY <1>4 DEF ClaimCommit, WriteLinks, Written
  <2>3. ActiveIsRunning'
    BY <1>4 DEF ClaimCommit, WriteLinks, Written
  <2>4. NoAbandonedRun'
    BY <1>4 DEF ClaimCommit, WriteLinks, Written
  <2> QED BY <2>1, <2>2, <2>3, <2>4
<1>5. ASSUME NEW r \in Runs, ExecuteLoad(r) PROVE QuietParts'
  <2>1. TasksAgree'
    BY <1>5 DEF ExecuteLoad, TaskEnds
  <2>2. ActiveKnown'
    BY <1>5 DEF ExecuteLoad, TaskEnds
  <2>3. ActiveIsRunning'
    BY <1>5 DEF ExecuteLoad, TaskEnds
  <2>4. NoAbandonedRun'
    BY <1>5 DEF ExecuteLoad, TaskEnds
  <2> QED BY <2>1, <2>2, <2>3, <2>4
<1>6. ASSUME NEW r \in Runs, StreamInterrupted(r) PROVE QuietParts'
  <2>1. TasksAgree'
    BY <1>6 DEF StreamInterrupted
  <2>2. ActiveKnown'
    BY <1>6 DEF StreamInterrupted
  <2>3. ActiveIsRunning'
    BY <1>6 DEF StreamInterrupted
  <2>4. NoAbandonedRun'
    BY <1>6 DEF StreamInterrupted
  <2> QED BY <2>1, <2>2, <2>3, <2>4
<1>7. ASSUME NEW r \in Runs, StreamRaises(r) PROVE QuietParts'
  <2>1. TasksAgree'
    BY <1>7 DEF StreamRaises
  <2>2. ActiveKnown'
    BY <1>7 DEF StreamRaises
  <2>3. ActiveIsRunning'
    BY <1>7 DEF StreamRaises
  <2>4. NoAbandonedRun'
    BY <1>7 DEF StreamRaises
  <2> QED BY <2>1, <2>2, <2>3, <2>4
<1>8. ASSUME NEW r \in Runs, CommitLoad(r) PROVE QuietParts'
  <2>1. TasksAgree'
    BY <1>8 DEF CommitLoad, TaskEnds, SnapshotOf, Persisted
  <2>2. ActiveKnown'
    BY <1>8 DEF CommitLoad, TaskEnds, SnapshotOf, Persisted
  <2>3. ActiveIsRunning'
    BY <1>8 DEF CommitLoad, TaskEnds, SnapshotOf, Persisted
  <2>4. NoAbandonedRun'
    BY <1>8 DEF CommitLoad, TaskEnds, SnapshotOf, Persisted
  <2> QED BY <2>1, <2>2, <2>3, <2>4
<1>9. ASSUME NEW r \in Runs, CommitDb(r) PROVE QuietParts'
  <2>1. TasksAgree'
    BY <1>9 DEF CommitDb, WriteLinks, Written
  <2>2. ActiveKnown'
    BY <1>9 DEF CommitDb, WriteLinks, Written
  <2>3. ActiveIsRunning'
    BY <1>9 DEF CommitDb, WriteLinks, Written
  <2>4. NoAbandonedRun'
    BY <1>9 DEF CommitDb, WriteLinks, Written
  <2> QED BY <2>1, <2>2, <2>3, <2>4
<1>10. ASSUME NEW r \in Runs, PostCommit(r) PROVE QuietParts'
  <2>1. handle'[r] \in {Ended(handle[r]), Retired(Ended(handle[r]))}
    BY <1>10 DEF PostCommit
  <2>2. ~handle'[r].stop
    BY <2>1, KeepsStop
  <2>3. /\ task'[r] = "none" \/ (task'[r] = "raisedLate" /\ "hooks" \in Faulty)
        /\ status[r] = "completed" /\ phase # "down"
        /\ UNCHANGED <<status, active, phase, stopper>>
        /\ \A q \in Runs \ {r} : task'[q] = task[q] /\ handle'[q] = handle[q] /\ txn'[q] = txn[q]
    BY <1>10 DEF PostCommit, TaskEnds
  <2>4. TasksAgree'
    BY <2>2, <2>3
  <2>5. ActiveKnown'
    BY <1>10 DEF PostCommit, TaskEnds
  <2>6. ActiveIsRunning'
    BY <1>10 DEF PostCommit
  <2>7. NoAbandonedRun'
    BY <2>3
  <2> QED BY <2>4, <2>5, <2>6, <2>7
<1>11. ASSUME NEW r \in Runs, FailLoad(r) PROVE QuietParts'
  <2>1. handle'[r] \in {handle[r], Retired(handle[r])} /\ ~handle'[r].stop
    BY <1>11, KeepsStop DEF FailLoad
  <2>2. /\ task'[r] \in {"none", "failing"} /\ phase # "down"
        /\ UNCHANGED <<status, owner, active, phase, stopper>>
        /\ \A q \in Runs \ {r} : task'[q] = task[q] /\ handle'[q] = handle[q] /\ txn'[q] = txn[q]
    BY <1>11 DEF FailLoad, TaskEnds
  <2>3. status[r] = "running" => task'[r] = "failing" /\ handle'[r] = handle[r]
    BY <1>11, <2>2 DEF FailLoad
  <2>4. TasksAgree'
    BY <1>11, <2>1, <2>2, <2>3 DEF FailLoad
  <2>5. ActiveKnown'
    BY <1>11 DEF FailLoad, TaskEnds, SnapshotOf
  <2>6. ActiveIsRunning' /\ NoAbandonedRun'
    BY <2>2, <2>3
  <2> QED BY <2>4, <2>5, <2>6
<1>12. ASSUME NEW r \in Runs, FailCommit(r) PROVE QuietParts'
  <2>1. handle'[r] \in {Retired(handle[r]), Retired(Ended(handle[r]))}
    BY <1>12 DEF FailCommit
  <2>2. ~handle'[r].stop
    BY <2>1, KeepsStop
  <2>3. /\ task'[r] = "none" /\ status'[r] = "failed" /\ phase # "down"
        /\ UNCHANGED <<phase, stopper>>
        /\ \A q \in Runs \ {r} : /\ task'[q] = task[q] /\ handle'[q] = handle[q]
                                  /\ txn'[q] = txn[q] /\ status'[q] = status[q]
    BY <1>12 DEF FailCommit, TaskEnds
  <2>4. TasksAgree'
    BY <2>2, <2>3
  <2>5. ActiveKnown'
    BY <1>12 DEF FailCommit, TaskEnds, WriteLinks, Written, Released
  <2>6. ActiveIsRunning'
    BY <1>12 DEF FailCommit, WriteLinks, Written, Released
  <2>7. NoAbandonedRun'
    BY <2>3
  <2> QED BY <2>4, <2>5, <2>6, <2>7
<1>13. ASSUME NEW r \in Runs, PruneHandle(r) PROVE QuietParts'
  <2>1. TasksAgree'
    BY <1>13 DEF PruneHandle, NoHandle
  <2>2. ActiveKnown'
    BY <1>13 DEF PruneHandle, NoHandle
  <2>3. ActiveIsRunning'
    BY <1>13 DEF PruneHandle, NoHandle
  <2>4. NoAbandonedRun'
    BY <1>13 DEF PruneHandle, NoHandle
  <2> QED BY <2>1, <2>2, <2>3, <2>4
<1>14. ASSUME NEW r \in Runs, StopLoad(r) \/ StopCommit(r) \/ StopTerminal(r) PROVE FALSE
  BY <1>14 DEF StopLoad, StopCommit, StopTerminal
<1>15. CASE BeginShutdown
  <2>1. TasksAgree'
    BY <1>15 DEF BeginShutdown
  <2>2. ActiveKnown'
    BY <1>15 DEF BeginShutdown
  <2>3. ActiveIsRunning'
    BY <1>15 DEF BeginShutdown
  <2>4. NoAbandonedRun'
    BY <1>15 DEF BeginShutdown
  <2> QED BY <2>1, <2>2, <2>3, <2>4
<1>16. CASE Crash \/ Exit
  <2>1. TasksAgree'
    BY <1>16 DEF Crash, Exit, ProcessGone, NoHandle, NoSnapshot
  <2>2. ActiveKnown'
    BY <1>16 DEF Crash, Exit, ProcessGone, NoHandle, NoSnapshot
  <2>3. ActiveIsRunning'
    BY <1>16 DEF Crash, Exit, ProcessGone, NoHandle, NoSnapshot
  <2>4. NoAbandonedRun'
    BY <1>16 DEF Crash, Exit, ProcessGone, NoHandle, NoSnapshot
  <2> QED BY <2>1, <2>2, <2>3, <2>4
<1>17. CASE StartupRecover
  <2>1. TasksAgree'
    BY <1>17 DEF StartupRecover, RecoveredStatus, RecoveredActive, RecoveredTask, Orphans
  <2>2. ActiveKnown'
    BY <1>17 DEF StartupRecover, RecoveredStatus, RecoveredActive, RecoveredTask, Orphans
  <2>3. ActiveIsRunning'
    <3>1. \A s \in Sessions : active'[s] = None
      <4>1. \A s \in Sessions : active[s] # None => active[s] \in Orphans
        BY DEF Orphans, RunId
      <4>2. \A s \in Sessions : RecoveredActive(s) = None
        BY <4>1 DEF RecoveredActive
      <4> QED BY <1>17, <4>2 DEF StartupRecover
    <3> QED BY <3>1
  <2>4. NoAbandonedRun'
    BY <1>17 DEF StartupRecover, RecoveredStatus, RecoveredActive, RecoveredTask, Orphans
  <2> QED BY <2>1, <2>2, <2>3, <2>4
<1>18. CASE UNCHANGED vars
  <2>1. TasksAgree'
    BY <1>18 DEF vars
  <2>2. ActiveKnown'
    BY <1>18 DEF vars
  <2>3. ActiveIsRunning'
    BY <1>18 DEF vars
  <2>4. NoAbandonedRun'
    BY <1>18 DEF vars
  <2> QED BY <2>1, <2>2, <2>3, <2>4
<1> QED
  BY <1>1, <1>2, <1>3, <1>4, <1>5, <1>6, <1>7, <1>8, <1>9, <1>10, <1>11, <1>12, <1>13, <1>14,
     <1>15, <1>16, <1>17, <1>18 DEF Next, TaskStep, PostRun, SubmitInput

LEMMA QuietInit == Init => QuietParts
  BY RunsAssumption DEF Init, QuietParts, TasksAgree, ActiveKnown, ActiveIsRunning,
     NoAbandonedRun, Waiting, Working, NoHandle

\* The count of stop requests never goes back to none.
LEMMA StopsCount == TypeInv /\ [Next]_vars /\ stops' = 0 => stops = 0
<1> SUFFICES ASSUME TypeInv, [Next]_vars PROVE stops' \in {stops, stops + 1}
  BY DEF TypeInv, TypeOK
<1> QED
  BY DEF Next, TaskStep, PostRun, SubmitInput, CreateRun, Dispatch, ClaimLoad, ClaimCommit,
     ExecuteLoad, StreamInterrupted, StreamRaises, CommitLoad, CommitDb, PostCommit, FailLoad,
     FailCommit, PruneHandle, StopLoad, StopCommit, StopTerminal, BeginShutdown, Crash, Exit,
     ProcessGone, StartupRecover, vars, boundVars

LEMMA QuietCorrect == Spec => []QuietInv
<1>1. Init => QuietInv
  BY QuietInit DEF QuietInv
<1>2. TypeInv /\ QuietInv /\ [Next]_vars => QuietInv'
  BY QuietStep, StopsCount DEF QuietInv
<1> QED BY <1>1, <1>2, TypeCorrect, PTL DEF Spec

(***************************************************************************)
(* As long as nobody asked for a stop, and through any crash, failing      *)
(* agent, failing hook, restore and mix of ingress, a session that names   *)
(* an active run names one that is running, although its rows are written  *)
(* by transactions that loaded them earlier.                               *)
(***************************************************************************)
THEOREM ActiveRunIsRunning == Spec => [](stops = 0 => ActiveIsRunning)
<1>1. QuietInv => (stops = 0 => ActiveIsRunning)
  BY DEF QuietInv, QuietParts
<1> QED BY <1>1, QuietCorrect, PTL

(***************************************************************************)
(* As long as nobody asked for a stop, a run that reads running while the  *)
(* process is up is in the hands of a task: no claim, event or checkpoint  *)
(* finds its handle pruned, no failure leaves the row behind.              *)
(***************************************************************************)
THEOREM NoRunIsAbandoned == Spec => [](stops = 0 => NoAbandonedRun)
<1>1. QuietInv => (stops = 0 => NoAbandonedRun)
  BY DEF QuietInv, QuietParts
<1> QED BY <1>1, QuietCorrect, PTL
-----------------------------------------------------------------------------
(***************************************************************************)
(* With submit_input alone and no hook that raises                         *)
(***************************************************************************)

\* A run is created only where the head is over, and only the head is live.
LEMMA HeadStep ==
    ASSUME TypeInv, QuietParts, Undisturbed, LiveIsHead, stops' = 0, [Next]_vars
    PROVE  LiveIsHead'
<1> USE RunsAssumption
    DEF TypeInv, TypeOK, Owned, TasksAgree, QuietParts, LiveIsHead, Undisturbed, Waiting, Working,
        Live, Terminal, rowVars, linkVars, commitVars, stopVars, boundVars
<1>1. ASSUME NEW s \in Sessions, NEW r \in Runs, PostRun(s, r) \/ SubmitInput(s, r)
      PROVE  LiveIsHead'
  <2>1. CreateRun(s, r) /\ JoinableRuns(s) = {}
    BY <1>1 DEF PostRun, SubmitInput
  <2>2. \A q \in Runs : status[q] \in Live /\ owner[q] = s => FALSE
    BY <2>1 DEF JoinableRuns
  <2> QED BY <2>1, <2>2 DEF CreateRun
<1>2. ASSUME NEW r \in Runs,
             Dispatch(r) \/ ExecuteLoad(r) \/ StreamInterrupted(r) \/ StreamRaises(r)
               \/ CommitLoad(r) \/ PostCommit(r) \/ FailLoad(r) \/ PruneHandle(r)
      PROVE  LiveIsHead'
  <2>1. UNCHANGED <<status, owner, head>>
    BY <1>2 DEF Dispatch, ExecuteLoad, StreamInterrupted, StreamRaises, CommitLoad, PostCommit,
       FailLoad, PruneHandle
  <2>2. \A q \in Runs : task'[q] = "claiming" => task[q] = "claiming" /\ txn'[q] = txn[q]
    BY <1>2 DEF Dispatch, ExecuteLoad, StreamInterrupted, StreamRaises, CommitLoad, PostCommit,
       FailLoad, PruneHandle, TaskEnds
  <2> QED BY <2>1, <2>2
<1>3. ASSUME NEW r \in Runs, ClaimLoad(r) PROVE LiveIsHead'
  BY <1>3 DEF ClaimLoad, SnapshotOf
<1>4. ASSUME NEW r \in Runs, ClaimCommit(r) PROVE LiveIsHead'
  BY <1>4 DEF ClaimCommit, WriteLinks, Written
<1>5. ASSUME NEW r \in Runs, CommitDb(r) PROVE LiveIsHead'
  BY <1>5 DEF CommitDb, WriteLinks, Written
<1>6. ASSUME NEW r \in Runs, FailCommit(r) PROVE LiveIsHead'
  BY <1>6 DEF FailCommit, WriteLinks, Written, TaskEnds
<1>7. ASSUME NEW r \in Runs, StopLoad(r) \/ StopCommit(r) \/ StopTerminal(r) PROVE FALSE
  BY <1>7 DEF StopLoad, StopCommit, StopTerminal
<1>8. CASE BeginShutdown
  BY <1>8 DEF BeginShutdown
<1>9. CASE Crash \/ Exit
  BY <1>9 DEF Crash, Exit, ProcessGone
<1>10. CASE StartupRecover
  <2>1. UNCHANGED owner /\ \A q \in Runs : task'[q] # "claiming"
    BY <1>10 DEF StartupRecover, RecoveredTask
  <2>2. ASSUME NEW q \in Runs, status'[q] \in Live PROVE head'[owner[q]] = q
    <3>1. status[q] = "queued" /\ owner[q] \in Sessions /\ head[owner[q]] = q
      BY <1>10, <2>2 DEF StartupRecover, RecoveredStatus, Orphans
    <3>2. RunsOf(owner[q]) \intersect Orphans = {}
      BY <3>1 DEF RunsOf, Orphans
    <3> QED BY <1>10, <3>1, <3>2 DEF StartupRecover
  <2> QED BY <2>1, <2>2
<1>11. CASE UNCHANGED vars
  BY <1>11 DEF vars
<1> QED
  BY <1>1, <1>2, <1>3, <1>4, <1>5, <1>6, <1>7, <1>8, <1>9, <1>10, <1>11 DEF Next, TaskStep

LEMMA HeadInit == Init => LiveIsHead
  BY DEF Init, LiveIsHead, Live

LEMMA HeadCorrect == Spec => []HeadInv
<1>1. Init => HeadInv
  BY HeadInit DEF HeadInv
<1>2. TypeInv /\ QuietInv /\ HeadInv /\ [Next]_vars => HeadInv'
  BY HeadStep, StopsCount DEF HeadInv, QuietInv, Undisturbed
<1> QED BY <1>1, <1>2, TypeCorrect, QuietCorrect, PTL DEF Spec

(***************************************************************************)
(* One live run per session, as long as runs are created by submit_input   *)
(* alone, no hook raises and nobody asked for a stop: the test of the      *)
(* active and of the head run is enough, because a live run is the head.   *)
(***************************************************************************)
THEOREM OneRunPerSession == Spec => [](Undisturbed => OneLiveRun)
<1>1. TypeInv /\ HeadInv => (Undisturbed => OneLiveRun)
  BY DEF HeadInv, LiveIsHead, OneLiveRun
<1> QED BY <1>1, TypeCorrect, HeadCorrect, PTL
-----------------------------------------------------------------------------
\* The statement of TerminalIsFinal for one step.
StaysTerminal == \A r \in Runs : status[r] \in Terminal => status'[r] = status[r]

(***************************************************************************)
(* No run leaves a terminal status as long as nobody asked for a stop and  *)
(* no hook raises, whatever crashes, restarts and agents that fail: what   *)
(* the documents say of every run holds of these.                          *)
(***************************************************************************)
THEOREM TerminalWithoutStops ==
    Spec => [][stops = 0 /\ "hooks" \notin Faulty => StaysTerminal]_vars
<1>1. TypeInv /\ QuietInv /\ [Next]_vars =>
        [stops = 0 /\ "hooks" \notin Faulty => StaysTerminal]_vars
  <2> SUFFICES ASSUME TypeInv, QuietParts, stops = 0, "hooks" \notin Faulty, Next,
                      NEW r \in Runs, status[r] \in Terminal
               PROVE  status'[r] = status[r]
    BY DEF QuietInv, StaysTerminal
  <2> USE DEF TypeInv, TypeOK, QuietParts, TasksAgree, Waiting, Working, Terminal,
              rowVars, linkVars, commitVars, stopVars, boundVars
  <2>1. ASSUME NEW s \in Sessions, NEW q \in Runs, CreateRun(s, q) PROVE status'[r] = status[r]
    BY <2>1 DEF CreateRun
  <2>2. ASSUME NEW q \in Runs, TaskStep(q) PROVE status'[r] = status[r]
    BY <2>2 DEF TaskStep, Dispatch, ClaimLoad, ClaimCommit, ExecuteLoad, StreamInterrupted,
       StreamRaises, CommitLoad, CommitDb, PostCommit, FailLoad, FailCommit
  <2>3. ASSUME NEW q \in Runs, PruneHandle(q) \/ StopLoad(q) \/ StopCommit(q) \/ StopTerminal(q)
        PROVE  status'[r] = status[r]
    BY <2>3 DEF PruneHandle, StopLoad, StopCommit, StopTerminal
  <2>4. CASE BeginShutdown \/ Crash \/ Exit \/ StartupRecover
    BY <2>4 DEF BeginShutdown, Crash, Exit, ProcessGone, StartupRecover, RecoveredStatus, Orphans
  <2> QED BY <2>1, <2>2, <2>3, <2>4 DEF Next, PostRun, SubmitInput
<1> QED BY <1>1, TypeCorrect, QuietCorrect, PTL DEF Spec
=============================================================================
