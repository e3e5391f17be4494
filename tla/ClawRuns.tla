------------------------------ MODULE ClawRuns ------------------------------
(***************************************************************************)
(* The life of a run in ya-claw: the rows of the runs and sessions tables, *)
(* the files of the run store, the tasks of the execution supervisor, the  *)
(* in-memory run handles, the stop requests, and the loss and recovery of  *)
(* the process.                                                            *)
(*                                                                         *)
(* Everything runs in one event loop, so the code between two awaits is    *)
(* one step.  A database transaction is two: the step that loads the run   *)
(* and session rows, and the step that commits.  No row is locked between  *)
(* them (plain SELECT, then UPDATE by primary key), and the commit writes  *)
(* the columns whose value differs from the one that was loaded.           *)
(*                                                                         *)
(* A definition marked "faulty" is the next one with a plausible bug; no   *)
(* action uses it.  The properties below are tested against them.          *)
(***************************************************************************)
EXTENDS Integers, FiniteSets

CONSTANTS
    Sessions,    \* session ids
    Runs,        \* the run ids that create may hand out
    None,        \* SQL NULL
    Paths,       \* ingress in use: "create" (POST runs), "submit" (submit_input)
    Modes,       \* dispatch modes in use: "async", "stream", "queue"
    Restores,    \* restore requests in use: "default", "explicit", "reset"
    Faulty,      \* what may raise: "agent" (a run), "hooks" (after its commit)
    MaxStops,    \* bound on the cancel and interrupt requests
    MaxCrashes   \* bound on the losses of the process

ASSUME RunsAssumption ==
    /\ IsFiniteSet(Runs)
    /\ None \notin Runs \union Sessions
    /\ Paths \subseteq {"create", "submit"}
    /\ Modes \subseteq {"async", "stream", "queue"}
    /\ Restores \subseteq {"default", "explicit", "reset"}
    /\ Faulty \subseteq {"agent", "hooks"}
    /\ MaxStops \in Nat
    /\ MaxCrashes \in Nat

VARIABLES
    \* table runs
    status, owner, seq, restore, committed,
    \* table sessions: active_run_id, head_run_id, head_success_run_id
    active, head, success,
    \* run store: runs with state.json and message.json
    artifacts,
    \* the process, its coordinator tasks and their open transactions
    phase, task, txn,
    \* the cancel/interrupt request of each run and its open transaction
    stopper, stopTxn,
    \* ActiveRunHandle of each run
    handle,
    \* history: how often the agent of a run was started; bounds
    executions, stops, crashes

rowVars == <<owner, seq, restore>>
linkVars == <<active, head>>
commitVars == <<committed, success>>
stopVars == <<stopper, stopTxn>>
boundVars == <<stops, crashes>>
vars == <<status, owner, seq, restore, committed, active, head, success, artifacts,
          phase, task, txn, stopper, stopTxn, handle, executions, stops, crashes>>
-----------------------------------------------------------------------------
RunId == Runs \union {None}

Terminal == {"completed", "failed", "cancelled"}
Live == {"queued", "running"}
Status == {"absent"} \union Live \union Terminal

(***************************************************************************)
(* Where the task of a run stands.  "created" is the ingress between its   *)
(* commit and its dispatch; "claiming", "committing" and "failing" hold an *)
(* open transaction; "committing" and "posting" also hold the session lock.*)
(* "raisedLate" is an exception after a stream of the run has ended.       *)
(***************************************************************************)
TaskState == {"none", "created", "submitted", "claiming", "claimed", "streaming",
              "committing", "posting", "raised", "raisedLate", "failing"}

Handle == [state : {"none", "open", "closed", "terminal"}, stop : BOOLEAN,
           mode : {"async", "stream", "queue"}]
NoHandle == [state |-> "none", stop |-> FALSE, mode |-> "async"]
NewHandle(m) == [state |-> "open", stop |-> FALSE, mode |-> m]

\* The columns of the session row a transaction has loaded.
Snapshot == [active : RunId, head : RunId]
NoSnapshot == [active |-> None, head |-> None]

RunsOf(s) == {r \in Runs : owner[r] = s}
\* No run is deleted here, so the highest sequence_no is the number of runs.
NextSequenceNo(s) == Cardinality(RunsOf(s)) + 1

SnapshotOf(s) == [active |-> active[s], head |-> head[s]]

\* A commit writes a column only if its value differs from the one loaded.
Written(current, loaded, new) == IF new = loaded THEN current ELSE new

\* Where the pointer goes when a transaction clears it only if it names the run.
NeverReleased(loaded, r) == loaded  \* faulty: the clearing is forgotten
Released(loaded, r) == IF loaded = r THEN None ELSE loaded

WriteLinks(s, loaded, newActive, newHead) ==
    /\ active' = [active EXCEPT ![s] = Written(@, loaded.active, newActive)]
    /\ head' = [head EXCEPT ![s] = Written(@, loaded.head, newHead)]

\* append_run_event(terminal=True); without a handle it raises KeyError instead.
Ended(h) == IF h.state = "none" THEN h ELSE [h EXCEPT !.state = "terminal"]

\* The finally block of execute: the handle is closed, and dropped at once
\* unless its events are being streamed.
Retired(h) ==
    IF h.state = "none" \/ h.mode # "stream" THEN NoHandle
    ELSE [h EXCEPT !.state = IF @ = "open" THEN "closed" ELSE @]

\* session_lock is held from the terminal gate until the hooks have run.
LockHeld(s) == \E r \in RunsOf(s) : task[r] \in {"committing", "posting"}
-----------------------------------------------------------------------------
Init ==
    /\ status = [r \in Runs |-> "absent"]
    /\ owner = [r \in Runs |-> None]
    /\ seq = [r \in Runs |-> 0]
    /\ restore = [r \in Runs |-> None]
    /\ committed = {}
    /\ active = [s \in Sessions |-> None]
    /\ head = [s \in Sessions |-> None]
    /\ success = [s \in Sessions |-> None]
    /\ artifacts = {}
    /\ phase = "up"
    /\ task = [r \in Runs |-> "none"]
    /\ txn = [r \in Runs |-> NoSnapshot]
    /\ stopper = [r \in Runs |-> "idle"]
    /\ stopTxn = [r \in Runs |-> NoSnapshot]
    /\ handle = [r \in Runs |-> NoHandle]
    /\ executions = [r \in Runs |-> 0]
    /\ stops = 0
    /\ crashes = 0
-----------------------------------------------------------------------------
(***************************************************************************)
(* Ingress                                                                 *)
(***************************************************************************)

RestoreChoice(s) ==
    UNION { IF "default" \in Restores THEN {success[s]} ELSE {},
            IF "reset" \in Restores THEN {None} ELSE {},
            IF "explicit" \in Restores THEN RunsOf(s) ELSE {} }

\* The session row is locked by an UPDATE first, so creation is one step; the
\* only run that turns a request away is the one active_run_id names.
CreateRun(s, r) ==
    /\ phase = "up"
    /\ status[r] = "absent"
    /\ active[s] = None
    /\ \E x \in RestoreChoice(s) : restore' = [restore EXCEPT ![r] = x]
    /\ status' = [status EXCEPT ![r] = "queued"]
    /\ owner' = [owner EXCEPT ![r] = s]
    /\ seq' = [seq EXCEPT ![r] = NextSequenceNo(s)]
    /\ head' = [head EXCEPT ![s] = r]
    /\ task' = [task EXCEPT ![r] = "created"]
    /\ UNCHANGED <<committed, active, success, artifacts, phase, txn, stopVars,
                   handle, executions, boundVars>>

PostRun(s, r) == "create" \in Paths /\ CreateRun(s, r)

\* _active_run_record: the run a new input would join, if there is one.
JoinsActiveOnly(s) ==               \* faulty: the head run is not looked at
    {r \in Runs : r = active[s] /\ status[r] \in Live}
JoinableRuns(s) ==
    {r \in Runs : r \in {active[s], head[s]} /\ status[r] \in Live}

\* submit_input holds the session lock and creates a run only if none is live.
SubmitInput(s, r) ==
    /\ "submit" \in Paths
    /\ ~LockHeld(s)
    /\ JoinableRuns(s) = {}
    /\ CreateRun(s, r)

\* register_run, then RunDispatcher.dispatch.
Dispatch(r) ==
    /\ task[r] = "created"
    /\ \E m \in Modes :
         /\ handle' = [handle EXCEPT ![r] = NewHandle(m)]
         /\ task' = [task EXCEPT ![r] =
                        IF m = "queue" \/ phase = "stopping" THEN "none" ELSE "submitted"]
    /\ UNCHANGED <<status, rowVars, linkVars, commitVars, artifacts, phase, txn,
                   stopVars, executions, boundVars>>
-----------------------------------------------------------------------------
(***************************************************************************)
(* The task of a run                                                       *)
(***************************************************************************)

\* _claim_run up to its commit: the status is checked on the loaded row.
ClaimLoad(r) ==
    /\ task[r] = "submitted"
    /\ \/ /\ phase = "up"
          /\ status[r] = "queued"
          /\ task' = [task EXCEPT ![r] = "claiming"]
          /\ txn' = [txn EXCEPT ![r] = SnapshotOf(owner[r])]
          /\ handle' = [handle EXCEPT ![r] =
                           IF @.state = "none" THEN NewHandle("async") ELSE @]
       \/ /\ phase # "up" \/ status[r] # "queued"
          /\ task' = [task EXCEPT ![r] = "none"]
          /\ UNCHANGED <<txn, handle>>
    /\ UNCHANGED <<status, rowVars, linkVars, commitVars, artifacts, phase, stopVars,
                   executions, boundVars>>

\* mark_run_running and the commit, whatever the row says by now.  Without a
\* handle the run_started event raises and the task ends here.
ClaimCommit(r) ==
    /\ task[r] = "claiming"
    /\ status' = [status EXCEPT ![r] = "running"]
    /\ WriteLinks(owner[r], txn[r], r, r)
    /\ task' = [task EXCEPT ![r] = IF handle[r].state = "none" THEN "none" ELSE "claimed"]
    /\ txn' = [txn EXCEPT ![r] = NoSnapshot]
    /\ UNCHANGED <<rowVars, commitVars, artifacts, phase, stopVars, handle,
                   executions, boundVars>>

\* The task of r ends: execute leaves through its finally block.
TaskEnds(r) ==
    /\ task' = [task EXCEPT ![r] = "none"]
    /\ txn' = [txn EXCEPT ![r] = NoSnapshot]

\* A source that is not terminal makes resolve_restore_run raise.
RestoreUsable(r) == restore[r] # None => status[restore[r]] \in Terminal

\* The first transaction of execute, up to the start of the agent.
ExecuteLoad(r) ==
    /\ task[r] = "claimed"
    /\ \/ /\ status[r] # "running" \/ handle[r].stop
          /\ TaskEnds(r)
          /\ handle' = [handle EXCEPT ![r] = Retired(@)]
          /\ UNCHANGED executions
       \/ /\ status[r] = "running" /\ ~handle[r].stop
          /\ \/ /\ RestoreUsable(r)
                /\ task' = [task EXCEPT ![r] = "streaming"]
                /\ executions' = [executions EXCEPT ![r] = @ + 1]
             \/ /\ "agent" \in Faulty \/ ~RestoreUsable(r)
                /\ task' = [task EXCEPT ![r] = "raised"]
                /\ UNCHANGED executions
          /\ UNCHANGED <<txn, handle>>
    /\ UNCHANGED <<status, rowVars, linkVars, commitVars, artifacts, phase, stopVars,
                   boundVars>>

\* AgentInterrupted: the signal task saw the termination request.
StreamInterrupted(r) ==
    /\ task[r] = "streaming"
    /\ handle[r].stop
    /\ TaskEnds(r)
    /\ handle' = [handle EXCEPT ![r] = Retired(@)]
    /\ UNCHANGED <<status, rowVars, linkVars, commitVars, artifacts, phase, stopVars,
                   executions, boundVars>>

\* The agent raises, or an event finds its handle pruned; in the first stream
\* of the run, or in one that continues it with steering or an approval.
StreamRaises(r) ==
    /\ task[r] = "streaming"
    /\ "agent" \in Faulty \/ handle[r].state = "none"
    /\ \E late \in BOOLEAN :
         task' = [task EXCEPT ![r] = IF late THEN "raisedLate" ELSE "raised"]
    /\ UNCHANGED <<status, rowVars, linkVars, commitVars, artifacts, phase, txn, stopVars,
                   handle, executions, boundVars>>

\* commit_run_artifacts writes state.json and message.json.
PersistsNothing(r) == artifacts     \* faulty: the files are left for later
Persisted(r) == artifacts \union {r}

\* The terminal gate and the first half of _commit_successful_run: under the
\* session lock the rows are loaded and, unless the run was cancelled, its two
\* files are written before anything is committed.
CommitLoad(r) ==
    /\ task[r] = "streaming"
    /\ handle[r].state # "none"
    /\ ~LockHeld(owner[r])
    /\ \/ /\ status[r] = "cancelled"
          /\ TaskEnds(r)
          /\ handle' = [handle EXCEPT ![r] = Retired(@)]
          /\ UNCHANGED artifacts
       \/ /\ status[r] # "cancelled"
          /\ artifacts' = Persisted(r)
          /\ task' = [task EXCEPT ![r] = "committing"]
          /\ txn' = [txn EXCEPT ![r] = SnapshotOf(owner[r])]
          /\ UNCHANGED handle
    /\ UNCHANGED <<status, rowVars, linkVars, commitVars, phase, stopVars, executions,
                   boundVars>>

\* complete_run: active_run_id is cleared whichever run it names.
CommitDb(r) ==
    /\ task[r] = "committing"
    /\ status' = [status EXCEPT ![r] = "completed"]
    /\ committed' = committed \union {r}
    /\ success' = [success EXCEPT ![owner[r]] = r]
    /\ WriteLinks(owner[r], txn[r], None, r)
    /\ task' = [task EXCEPT ![r] = "posting"]
    /\ txn' = [txn EXCEPT ![r] = NoSnapshot]
    /\ UNCHANGED <<rowVars, artifacts, phase, stopVars, handle, executions, boundVars>>

\* The terminal event and the hooks of the other subsystems.  If the handle was
\* pruned, the event raises and so does the checkpoint of the except block.
PostCommit(r) ==
    /\ task[r] = "posting"
    /\ \/ /\ TaskEnds(r)
          /\ handle' = [handle EXCEPT ![r] = Retired(Ended(@))]
       \/ /\ "hooks" \in Faulty /\ handle[r].state # "none"
          /\ task' = [task EXCEPT ![r] = "raisedLate"]
          /\ handle' = [handle EXCEPT ![r] = Ended(@)]
          /\ UNCHANGED txn
    /\ UNCHANGED <<status, rowVars, linkVars, commitVars, artifacts, phase, stopVars,
                   executions, boundVars>>

\* The except block: a stopped run is left as it is, any other one is failed.
\* With messages to checkpoint and no handle, the block itself raises.
FailLoad(r) ==
    /\ task[r] \in {"raised", "raisedLate"}
    /\ \/ /\ \/ handle[r].stop \/ status[r] = "cancelled"
             \/ handle[r].state = "none" /\ task[r] = "raisedLate"
          /\ TaskEnds(r)
          /\ handle' = [handle EXCEPT ![r] = Retired(@)]
       \/ /\ ~handle[r].stop
          /\ status[r] # "cancelled"
          /\ handle[r].state = "none" => task[r] = "raised"
          /\ task' = [task EXCEPT ![r] = "failing"]
          /\ txn' = [txn EXCEPT ![r] = SnapshotOf(owner[r])]
          /\ UNCHANGED handle
    /\ UNCHANGED <<status, rowVars, linkVars, commitVars, artifacts, phase, stopVars,
                   executions, boundVars>>

\* faulty: a failed run becomes the continuation point
FailAdvances(r) ==
    /\ task[r] = "failing"
    /\ status' = [status EXCEPT ![r] = "failed"]
    /\ success' = [success EXCEPT ![owner[r]] = r]
    /\ WriteLinks(owner[r], txn[r], Released(txn[r].active, r), r)
    /\ TaskEnds(r)
    /\ handle' = [handle EXCEPT ![r] = Retired(Ended(@))]
    /\ UNCHANGED <<rowVars, committed, artifacts, phase, stopVars, executions, boundVars>>

\* fail_run, its commit, the hooks, the terminal event and the finally block; a
\* hook that raises loses the event.
FailCommit(r) ==
    /\ task[r] = "failing"
    /\ status' = [status EXCEPT ![r] = "failed"]
    /\ WriteLinks(owner[r], txn[r], Released(txn[r].active, r), r)
    /\ TaskEnds(r)
    /\ \/ handle' = [handle EXCEPT ![r] = Retired(Ended(@))]
       \/ /\ "hooks" \in Faulty
          /\ handle' = [handle EXCEPT ![r] = Retired(@)]
    /\ UNCHANGED <<rowVars, commitVars, artifacts, phase, stopVars, executions, boundVars>>

\* A subscriber has read the terminal event, or the delayed cleanup of a
\* streamed run is due: the handle is dropped.
PruneHandle(r) ==
    /\ \/ handle[r].state = "terminal"
       \/ handle[r].state = "closed" /\ handle[r].mode = "stream" /\ task[r] = "none"
    /\ handle' = [handle EXCEPT ![r] = NoHandle]
    /\ UNCHANGED <<status, rowVars, linkVars, commitVars, artifacts, phase, task, txn,
                   stopVars, executions, boundVars>>
-----------------------------------------------------------------------------
(***************************************************************************)
(* Cancel and interrupt (_stop_run)                                        *)
(***************************************************************************)

StopLoad(r) ==
    /\ phase = "up"
    /\ stops < MaxStops
    /\ stopper[r] = "idle"
    /\ status[r] \in Live
    /\ handle' = IF handle[r].state = "none" THEN handle
                 ELSE [handle EXCEPT ![r].stop = TRUE]
    /\ stopper' = [stopper EXCEPT ![r] = "stopping"]
    /\ stopTxn' = [stopTxn EXCEPT ![r] = SnapshotOf(owner[r])]
    /\ stops' = stops + 1
    /\ UNCHANGED <<status, rowVars, linkVars, commitVars, artifacts, phase, task, txn,
                   executions, crashes>>

\* cancel_run or interrupt_run, the commit, then the terminal event.
StopCommit(r) ==
    /\ stopper[r] = "stopping"
    /\ status' = [status EXCEPT ![r] = "cancelled"]
    /\ WriteLinks(owner[r], stopTxn[r], Released(stopTxn[r].active, r), r)
    /\ handle' = [handle EXCEPT ![r] = Ended(@)]
    /\ stopper' = [stopper EXCEPT ![r] = "idle"]
    /\ stopTxn' = [stopTxn EXCEPT ![r] = NoSnapshot]
    /\ UNCHANGED <<rowVars, commitVars, artifacts, phase, task, txn, executions, boundVars>>

\* On a run that is already terminal only the event is emitted, again.
StopTerminal(r) ==
    /\ phase = "up"
    /\ stops < MaxStops
    /\ stopper[r] = "idle"
    /\ status[r] \in Terminal
    /\ handle' = [handle EXCEPT ![r] = Ended(@)]
    /\ stops' = stops + 1
    /\ UNCHANGED <<status, rowVars, linkVars, commitVars, artifacts, phase, task, txn,
                   stopVars, executions, crashes>>
-----------------------------------------------------------------------------
(***************************************************************************)
(* The process                                                             *)
(***************************************************************************)

\* ExecutionSupervisor.shutdown stops accepting and waits for the tasks.
BeginShutdown ==
    /\ phase = "up"
    /\ crashes < MaxCrashes
    /\ phase' = "stopping"
    /\ UNCHANGED <<status, rowVars, linkVars, commitVars, artifacts, task, txn, stopVars,
                   handle, executions, boundVars>>

\* Memory is lost and open transactions are rolled back.
ProcessGone ==
    /\ phase' = "down"
    /\ crashes' = crashes + 1
    /\ task' = [r \in Runs |-> "none"]
    /\ txn' = [r \in Runs |-> NoSnapshot]
    /\ stopper' = [r \in Runs |-> "idle"]
    /\ stopTxn' = [r \in Runs |-> NoSnapshot]
    /\ handle' = [r \in Runs |-> NoHandle]
    /\ UNCHANGED <<status, rowVars, linkVars, commitVars, artifacts, executions, stops>>

Crash == phase = "up" /\ crashes < MaxCrashes /\ ProcessGone

\* The shutdown timeout cancels whatever is left.
Exit == phase = "stopping" /\ ProcessGone

\* cancel_orphaned_running_runs: interrupt_run on every running run, in the
\* order the query returns them.
NoOrphans == {}                     \* faulty: the recovery does not look
Orphans == {r \in Runs : status[r] = "running"}

OrphanRequeued(r) == IF r \in Orphans THEN "queued" ELSE status[r]  \* faulty
\* faulty: a termination reason is stored where a status belongs
OrphanInterrupted(r) == IF r \in Orphans THEN "interrupt" ELSE status[r]
RecoveredStatus(r) == IF r \in Orphans THEN "cancelled" ELSE status[r]

RecoveredActive(s) == IF active[s] \in Orphans THEN None ELSE active[s]

\* recover_queued_runs submits every run that is queued by then.
NothingResubmitted(r) == "none"     \* faulty
RecoveredTask(r) == IF RecoveredStatus(r) = "queued" THEN "submitted" ELSE "none"

\* startup_recover.
StartupRecover ==
    /\ phase = "down"
    /\ phase' = "up"
    /\ status' = [r \in Runs |-> RecoveredStatus(r)]
    /\ active' = [s \in Sessions |-> RecoveredActive(s)]
    /\ head' \in {h \in [Sessions -> RunId] :
                    \A s \in Sessions :
                      IF RunsOf(s) \intersect Orphans = {} THEN h[s] = head[s]
                      ELSE h[s] \in RunsOf(s) \intersect Orphans}
    /\ task' = [r \in Runs |-> RecoveredTask(r)]
    /\ UNCHANGED <<rowVars, commitVars, artifacts, txn, stopVars, handle, executions,
                   boundVars>>
-----------------------------------------------------------------------------
TaskStep(r) ==
    \/ Dispatch(r)
    \/ ClaimLoad(r)
    \/ ClaimCommit(r)
    \/ ExecuteLoad(r)
    \/ StreamInterrupted(r)
    \/ StreamRaises(r)
    \/ CommitLoad(r)
    \/ CommitDb(r)
    \/ PostCommit(r)
    \/ FailLoad(r)
    \/ FailCommit(r)

Next ==
    \/ \E s \in Sessions, r \in Runs : PostRun(s, r) \/ SubmitInput(s, r)
    \/ \E r \in Runs :
         TaskStep(r) \/ PruneHandle(r) \/ StopLoad(r) \/ StopCommit(r) \/ StopTerminal(r)
    \/ BeginShutdown
    \/ Crash
    \/ Exit
    \/ StartupRecover

Spec == Init /\ [][Next]_vars

\* The event loop serves every runnable task, an agent stream ends, a process
\* that is shutting down exits and one that is down is started again.
Fairness ==
    /\ \A r \in Runs : WF_vars(TaskStep(r))
    /\ \A r \in Runs : WF_vars(StopCommit(r))
    /\ WF_vars(Exit)
    /\ WF_vars(StartupRecover)

FairSpec == Spec /\ Fairness
-----------------------------------------------------------------------------
TypeOK ==
    /\ status \in [Runs -> Status]
    /\ owner \in [Runs -> Sessions \union {None}]
    /\ seq \in [Runs -> Nat]
    /\ restore \in [Runs -> RunId]
    /\ committed \subseteq Runs
    /\ active \in [Sessions -> RunId]
    /\ head \in [Sessions -> RunId]
    /\ success \in [Sessions -> RunId]
    /\ artifacts \subseteq Runs
    /\ phase \in {"up", "stopping", "down"}
    /\ task \in [Runs -> TaskState]
    /\ txn \in [Runs -> Snapshot]
    /\ stopper \in [Runs -> {"idle", "stopping"}]
    /\ stopTxn \in [Runs -> Snapshot]
    /\ handle \in [Runs -> Handle]
    /\ executions \in [Runs -> Nat]
    /\ stops \in Nat
    /\ crashes \in Nat
-----------------------------------------------------------------------------
(***************************************************************************)
(* Properties that hold whatever clients, stops and crashes do             *)
(***************************************************************************)

\* A session never designates a continuation point that cannot be loaded: its
\* head_success_run_id is one of its own runs, committed, with both files on
\* disk, although files and database are written one after the other and the
\* process may be lost in between; and no run reads "completed" without files.
ContinuationIsDurable ==
    /\ \A s \in Sessions : success[s] # None =>
         /\ success[s] \in artifacts \intersect committed
         /\ owner[success[s]] = s
    /\ \A r \in Runs : status[r] = "completed" => r \in artifacts

\* However dispatch, recovery, stops and restarts interleave, the agent of a run
\* is started at most once: its tools never act twice for one request.
ExecutedAtMostOnce == \A r \in Runs : executions[r] <= 1

\* The runs, the coordinator tasks and the recovery together implement the
\* abstract line of continuation points.
Line == INSTANCE ContinuationLine
ImplementsContinuationLine == Line!Spec
-----------------------------------------------------------------------------
(***************************************************************************)
(* Properties of a service on which no run is stopped and no hook raises   *)
(***************************************************************************)

\* active_run_id names a running run of the session, or nothing: a session is
\* never closed to new runs by a run that is already over.
ActiveIsRunning ==
    \A s \in Sessions : active[s] # None =>
        owner[active[s]] = s /\ status[active[s]] = "running"

Executing == {"claimed", "streaming", "committing", "raised", "raisedLate", "failing"}

\* While the process is up, a run that the database calls running is in the
\* hands of a coordinator task, through crashes, restarts and failures.
NoAbandonedRun ==
    phase # "down" =>
        \A r \in Runs : status[r] = "running" => task[r] \in Executing

\* One active run per session.
OneLiveRun ==
    \A r1, r2 \in Runs :
        owner[r1] = owner[r2] /\ status[r1] \in Live /\ status[r2] \in Live => r1 = r2

\* Every run that was accepted reaches a terminal status, if need be through
\* the recovery of the next process.
EveryRunSettles ==
    \A r \in Runs : status[r] = "queued" ~> status[r] \in Terminal
-----------------------------------------------------------------------------
\* What the documents say of the terminal statuses: no run ever leaves one.
TerminalIsFinal ==
    [][\A r \in Runs : status[r] \in Terminal => status'[r] = status[r]]_vars
=============================================================================
