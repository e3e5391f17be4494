-------------------------- MODULE ClawAsyncTasks --------------------------
(***************************************************************************)
(* An async subagent of ya-claw: a row of session_async_tasks that links a *)
(* parent session to the runs of a child session.  spawn_delegate creates  *)
(* the task or resumes it, cancel_task cancels it, reading it copies the   *)
(* status of its run, and the hook of a child run that ended records the   *)
(* end and wakes the parent.  Calls of spawn_delegate overlap: nothing     *)
(* between the check of one and the creation of its run keeps others out.  *)
(*                                                                         *)
(* The parent is seen through the handle of its active run: whether there  *)
(* is one, and whether it will still look for input.  The races of a claim *)
(* and of a stop over the row of one run are those of ClawRuns.            *)
(*                                                                         *)
(* Definitions marked "faulty" are used by no action.                      *)
(***************************************************************************)
EXTENDS Integers, FiniteSets

CONSTANTS
    MaxRuns,        \* bound on the runs of the child session
    Spawners,       \* who calls spawn_delegate
    Wakers,         \* those of them that ask to be woken
    Cancellers,     \* who calls cancel_task
    MaxFaults       \* bound on stops of child runs and losses of the process

ASSUME AsyncAssumption == MaxRuns \in Nat \ {0} /\ MaxFaults \in Nat

VARIABLES
    task,       \* session_async_tasks: status, task_run_id, wake_policy
    child,      \* runs.status of the child session
    active,     \* its active_run_id
    wanted,     \* whether the caller of a run asked to be woken
    hook,       \* the end the coordinator has to report
    spawn,      \* the calls of spawn_delegate
    stale,      \* history: runs created by a call that another had overtaken
    cancel,     \* what calls of cancel_task have loaded
    parent,     \* the active run of the parent
    inHandle,   \* wakes in its handle, by child run
    heard,      \* history: wakes that reached a prompt of the parent
    lost,       \* history: wakes that were in a handle when it went
    faults

taskVars == <<task, wanted>>
runVars == <<child, active, hook>>
parentVars == <<parent, inHandle, heard, lost>>
vars == <<taskVars, runVars, spawn, stale, cancel, parentVars, faults>>
-----------------------------------------------------------------------------
None == 0
Runs == 1..MaxRuns
RunId == Runs \union {None}

Live == {"queued", "running"}
Ends == {"completed", "failed", "cancelled"}

\* created: committed, and not dispatched yet; it reads queued.
ChildStatus == {"absent", "created"} \union Live \union Ends
Reads(r) == IF child[r] = "created" THEN "queued" ELSE child[r]

Task == [status : {"absent"} \union Live \union Ends, run : RunId, wake : BOOLEAN]

(***************************************************************************)
(* A call is idle, has recorded a new task, is ready to create a run, or   *)
(* has created it.  The session of the call writes a column only if the    *)
(* value assigned differs from the one it has loaded: flush is the status  *)
(* its first look has assigned, queues and policy say whether status and   *)
(* wake_policy will be written with the run.  A call is overtaken when     *)
(* another one has created a run that it did not see when it looked.       *)
(***************************************************************************)
SpawnStep == {"idle", "recorded", "ready", "created"}
Spawn == [step : SpawnStep, run : RunId, flush : {"none"} \union Ends,
          queues : BOOLEAN, policy : BOOLEAN, overtaken : BOOLEAN]
NoSpawn == [step |-> "idle", run |-> None, flush |-> "none",
            queues |-> FALSE, policy |-> FALSE, overtaken |-> FALSE]

\* A call has seen which run to cancel, if any, and whether to write the status.
Cancel == [on : BOOLEAN, run : RunId, writes : BOOLEAN]
NoCancel == [on |-> FALSE, run |-> None, writes |-> FALSE]

\* none, open (looks for input), closing (has looked for the last time)
Parent == {"none", "open", "closing"}

Init ==
    /\ task = [status |-> "absent", run |-> None, wake |-> FALSE]
    /\ child = [r \in Runs |-> "absent"]
    /\ wanted = [r \in Runs |-> FALSE]
    /\ active = None
    /\ hook = [r \in Runs |-> "none"]
    /\ spawn = [c \in Spawners |-> NoSpawn] /\ stale = {}
    /\ cancel = [c \in Cancellers |-> NoCancel]
    /\ parent = "none"
    /\ inHandle = {} /\ heard = {} /\ lost = {}
    /\ faults = 0

\* _refresh_task_status: the run decides, if the task names one.
StatusOfRow(t) == t.status          \* faulty: the row is taken at its word
Refreshed(t) == IF t.run = None THEN t.status ELSE Reads(t.run)
-----------------------------------------------------------------------------
(***************************************************************************)
(* spawn_delegate: _create_task and _resume_task                           *)
(***************************************************************************)
Calls(c, call) == spawn' = [spawn EXCEPT ![c] = call]

\* The row of a new task; its name is unique in the parent.
SpawnNew(c) ==
    /\ spawn[c].step = "idle"
    /\ task.status = "absent"
    /\ task' = [status |-> "queued", run |-> None, wake |-> c \in Wakers]
    /\ Calls(c, [NoSpawn EXCEPT !.step = "recorded"])
    /\ UNCHANGED <<wanted, runVars, stale, cancel, parentVars, faults>>

\* The row is read again; it may have been cancelled.
SpawnRead(c) ==
    /\ spawn[c].step = "recorded"
    /\ Calls(c, [spawn[c] EXCEPT !.step = "ready", !.queues = task.status # "queued"])
    /\ UNCHANGED <<taskVars, runVars, stale, cancel, parentVars, faults>>

\* A task that is active is not resumed.
SpawnResume(c) ==
    /\ spawn[c].step = "idle"
    /\ Refreshed(task) \in Ends
    /\ Calls(c, [step |-> "ready", run |-> None,
                 flush |-> IF Refreshed(task) = task.status THEN "none" ELSE Refreshed(task),
                 queues |-> TRUE, policy |-> (c \in Wakers) # task.wake,
                 overtaken |-> \E d \in Spawners : spawn[d].step = "created"])
    /\ UNCHANGED <<taskVars, runVars, stale, cancel, parentVars, faults>>

\* RunController.create answers 409 if the child session is active.
SpawnRefused(c) ==
    /\ spawn[c].step = "ready"
    /\ active # None
    /\ Calls(c, NoSpawn)
    /\ UNCHANGED <<taskVars, runVars, stale, cancel, parentVars, faults>>

\* Otherwise it commits a run, whatever other runs are queued; the calls that
\* have yet to create theirs do not look again.
Overtakes(c, r) ==
    spawn' = [d \in Spawners |->
                 IF d = c
                 THEN [spawn[c] EXCEPT !.step = "created", !.run = r, !.flush = "none", !.overtaken = FALSE]
                 ELSE [spawn[d] EXCEPT !.overtaken = @ \/ spawn[d].step \in {"recorded", "ready"}]]

SpawnRun(c) ==
    /\ spawn[c].step = "ready"
    /\ active = None
    /\ \E r \in Runs :
         /\ child[r] = "absent" /\ \A s \in Runs : s < r => child[s] # "absent"
         /\ child' = [child EXCEPT ![r] = "created"]
         /\ wanted' = [wanted EXCEPT ![r] = c \in Wakers]
         /\ Overtakes(c, r)
         /\ stale' = IF spawn[c].overtaken THEN stale \union {r} ELSE stale
    /\ task' = IF spawn[c].flush = "none" THEN task ELSE [task EXCEPT !.status = spawn[c].flush]
    /\ UNCHANGED <<active, hook, cancel, parentVars, faults>>

\* The task names its run from here on; the route dispatches it.
Unnamed(c) == [task EXCEPT !.status = "queued"]     \* faulty: the run is not stored
Named(c) ==
    [status |-> IF spawn[c].queues THEN "queued" ELSE task.status,
     run    |-> spawn[c].run,
     wake   |-> IF spawn[c].policy THEN c \in Wakers ELSE task.wake]

SpawnStore(c) ==
    /\ spawn[c].step = "created"
    /\ task' = Named(c)
    /\ child' = IF child[spawn[c].run] = "created"
                THEN [child EXCEPT ![spawn[c].run] = "queued"] ELSE child
    /\ Calls(c, NoSpawn)
    /\ UNCHANGED <<wanted, active, hook, stale, cancel, parentVars, faults>>
-----------------------------------------------------------------------------
\* list_tasks, get_task.
Refresh ==
    /\ task.status # "absent"
    /\ task' = [task EXCEPT !.status = Refreshed(task)]
    /\ UNCHANGED <<wanted, runVars, spawn, stale, cancel, parentVars, faults>>

\* cancel_task: the row and its run are loaded, and written as they were.
CancelLoad(c) ==
    /\ ~cancel[c].on
    /\ task.status # "absent"
    /\ cancel' = [cancel EXCEPT ![c] =
                     [on |-> TRUE, writes |-> task.status # "cancelled",
                      run |-> IF task.run # None /\ Reads(task.run) \in Live THEN task.run ELSE None]]
    /\ UNCHANGED <<taskVars, runVars, spawn, stale, parentVars, faults>>

Released(r) == IF active = r THEN None ELSE active

CancelCommit(c) ==
    /\ cancel[c].on
    /\ IF cancel[c].run # None
       THEN /\ child' = [child EXCEPT ![cancel[c].run] = "cancelled"]
            /\ active' = Released(cancel[c].run)
       ELSE UNCHANGED <<child, active>>
    /\ task' = IF cancel[c].writes THEN [task EXCEPT !.status = "cancelled"] ELSE task
    /\ cancel' = [cancel EXCEPT ![c] = NoCancel]
    /\ UNCHANGED <<wanted, hook, spawn, stale, parentVars, faults>>
-----------------------------------------------------------------------------
(***************************************************************************)
(* The child runs                                                          *)
(***************************************************************************)
Start(r) ==
    /\ child[r] = "queued"
    /\ child' = [child EXCEPT ![r] = "running"]
    /\ active' = r
    /\ UNCHANGED <<taskVars, hook, spawn, stale, cancel, parentVars, faults>>

\* complete_run clears the pointer whatever it names, fail_run only its own run.
End(r) ==
    /\ child[r] = "running"
    /\ \E e \in {"completed", "failed"} :
         /\ child' = [child EXCEPT ![r] = e]
         /\ active' = IF e = "completed" THEN None ELSE Released(r)
         /\ hook' = [hook EXCEPT ![r] = e]
    /\ UNCHANGED <<taskVars, spawn, stale, cancel, parentVars, faults>>

\* _wake_parent: into the handle of the active run, or as a run of its own.
Wake(r) ==
    IF parent = "none"
    THEN heard' = heard \union {r} /\ UNCHANGED inHandle
    ELSE inHandle' = inHandle \union {r} /\ UNCHANGED heard

\* on_run_terminal, for the run the task names; what it reports was loaded
\* when the run was committed.
ActiveTaskOf(r) ==                  \* faulty: a task that was read is settled
    task.run = r /\ task.status \in Live
TaskOf(r) == task.run = r

RunTerminal(r, e) ==
    IF TaskOf(r)
    THEN /\ task' = [task EXCEPT !.status = e]
         /\ IF task.wake THEN Wake(r) ELSE UNCHANGED <<inHandle, heard>>
    ELSE UNCHANGED <<task, inHandle, heard>>

Hook(r) ==
    /\ hook[r] \in {"completed", "failed"}
    /\ RunTerminal(r, hook[r])
    /\ hook' = [hook EXCEPT ![r] = "done"]
    /\ UNCHANGED <<wanted, child, active, spawn, stale, cancel, parent, lost, faults>>

\* cancel and interrupt of the run itself: no hook is called.
StopChild(r) ==
    /\ faults < MaxFaults
    /\ faults' = faults + 1
    /\ Reads(r) \in Live
    /\ child' = [child EXCEPT ![r] = "cancelled"]
    /\ active' = Released(r)
    /\ UNCHANGED <<taskVars, hook, spawn, stale, cancel, parentVars>>
-----------------------------------------------------------------------------
(***************************************************************************)
(* The parent                                                              *)
(***************************************************************************)
ParentStarts ==
    /\ parent = "none"
    /\ parent' = "open"
    /\ UNCHANGED <<taskVars, runVars, spawn, stale, cancel, inHandle, heard, lost, faults>>

ParentHears ==
    /\ parent = "open"
    /\ inHandle # {}
    /\ heard' = heard \union inHandle
    /\ inHandle' = {}
    /\ UNCHANGED <<taskVars, runVars, spawn, stale, cancel, parent, lost, faults>>

ParentCloses ==
    /\ parent = "open"
    /\ inHandle = {}
    /\ parent' = "closing"
    /\ UNCHANGED <<taskVars, runVars, spawn, stale, cancel, inHandle, heard, lost, faults>>

\* The run is committed: what came after its last look goes with the handle.
ParentEnds ==
    /\ parent = "closing"
    /\ parent' = "none"
    /\ lost' = lost \union inHandle
    /\ inHandle' = {}
    /\ UNCHANGED <<taskVars, runVars, spawn, stale, cancel, heard, faults>>

(***************************************************************************)
(* The process is lost and starts again: running runs are interrupted, a   *)
(* task that reads active though its run has ended gets its hook, queued   *)
(* runs are submitted.                                                     *)
(***************************************************************************)
ReasonAsStatus(r) ==                \* faulty: why it ended, not how
    IF child[r] = "running" THEN "interrupted" ELSE Reads(r)
Recovered(r) ==
    IF child[r] = "running" THEN "cancelled" ELSE Reads(r)

CrashRestart ==
    /\ faults < MaxFaults
    /\ faults' = faults + 1
    /\ child' = [r \in Runs |-> Recovered(r)] /\ active' = None
    /\ parent' = "none"
    /\ lost' = lost \union inHandle
    /\ inHandle' = {}
    /\ IF task.run # None /\ task.status \in Live /\ Recovered(task.run) \in Ends
       THEN /\ task' = [task EXCEPT !.status = Recovered(task.run)]
            /\ heard' = IF task.wake THEN heard \union {task.run} ELSE heard
            /\ hook' = [r \in Runs |-> IF r = task.run THEN "done" ELSE "none"]
       ELSE /\ hook' = [r \in Runs |-> "none"]
            /\ UNCHANGED <<task, heard>>
    /\ spawn' = [c \in Spawners |-> NoSpawn]
    /\ cancel' = [c \in Cancellers |-> NoCancel]
    /\ UNCHANGED <<wanted, stale>>
-----------------------------------------------------------------------------
SpawnProceeds(c) == SpawnRead(c) \/ SpawnRefused(c) \/ SpawnRun(c) \/ SpawnStore(c)
ChildStep(r) == Start(r) \/ End(r) \/ Hook(r)
ParentStep == ParentHears \/ ParentCloses \/ ParentEnds

Next ==
    \/ \E c \in Spawners : SpawnNew(c) \/ SpawnResume(c) \/ SpawnProceeds(c)
    \/ Refresh
    \/ \E c \in Cancellers : CancelLoad(c) \/ CancelCommit(c)
    \/ \E r \in Runs : ChildStep(r) \/ StopChild(r)
    \/ ParentStarts \/ ParentStep
    \/ CrashRestart

Spec == Init /\ [][Next]_vars

\* Calls that were made proceed, child runs are executed to their end, and the
\* parent reads its tasks again and again.
Fairness ==
    /\ \A c \in Spawners : WF_vars(SpawnProceeds(c))
    /\ \A r \in Runs : WF_vars(ChildStep(r))
    /\ WF_vars(Refresh)

FairSpec == Spec /\ Fairness
-----------------------------------------------------------------------------
TypeOK ==
    /\ task \in Task
    /\ child \in [Runs -> ChildStatus]
    /\ wanted \in [Runs -> BOOLEAN]
    /\ hook \in [Runs -> {"none", "completed", "failed", "done"}]
    /\ active \in RunId
    /\ spawn \in [Spawners -> Spawn] /\ stale \in SUBSET Runs
    /\ cancel \in [Cancellers -> Cancel]
    /\ parent \in Parent
    /\ inHandle \in SUBSET Runs /\ heard \in SUBSET Runs /\ lost \in SUBSET Runs
    /\ faults \in Nat

(***************************************************************************)
(* A second live run of the child session has a cause: a call that created *)
(* its run after another had overtaken it, a stop, or a loss of the        *)
(* process.  Nothing else makes one: not a status that cancel_task wrote   *)
(* over a run that goes on, not a hook, a read or a refused call.          *)
(***************************************************************************)
LiveRuns == {r \in Runs : Reads(r) \in Live}
LiveRunsAccounted == Cardinality(LiveRuns) <= 1 + Cardinality(stale) + faults

(***************************************************************************)
(* The end of the run a task names has been announced to a parent that     *)
(* asked for it, whoever read, cancelled or resumed the task before.  A    *)
(* call that was overtaken may leave the wake policy of another one, and   *)
(* the wake may be lost with a handle that did not look again.             *)
(***************************************************************************)
EndIsAnnounced ==
    task.run # None /\ wanted[task.run] /\ hook[task.run] = "done" /\ (task.wake \/ stale = {})
        => task.run \in inHandle \union heard \union lost

(***************************************************************************)
(* With no loss and no stop, a task that is active comes to an end.  A     *)
(* loss between the commits of a spawn leaves it queued for ever.          *)
(***************************************************************************)
EveryTaskEnds ==
    [](faults = 0) => (task.status \in Live ~> task.status \in Ends)
=============================================================================
