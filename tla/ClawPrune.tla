------------------------------ MODULE ClawPrune ------------------------------
(***************************************************************************)
(* Sessions, forks, restore points and the pruning of ya-claw.             *)
(*                                                                         *)
(* A session names runs it may go on from: its head, its last success, and *)
(* through its runs what each of them restores from, which may be a run of *)
(* a session it was forked from.  One background loop deletes the sessions *)
(* that old timers had created, the run directories that nothing goes on   *)
(* from, and directories without a row.  Rows and directories are two      *)
(* stores; the loop reads, lets others commit, and then deletes.           *)
(*                                                                         *)
(* To delete a session the loop claims it first, by a value of             *)
(* active_run_id that no run has.  Whoever commits a reference to a        *)
(* session locks its row and refuses a claimed one, so such a transaction  *)
(* and the one of the claim are each one step.                             *)
(*                                                                         *)
(* Runs are numbered as they are created, generated sessions as they fire. *)
(* Definitions marked "faulty" are used by no action.                      *)
(***************************************************************************)
EXTENDS Integers, FiniteSets

CONSTANTS
    Sessions, Runs,     \* pools of identifiers
    Generated,          \* those that heartbeats and schedules create
    Broken,             \* those whose sandbox cannot be removed
    None,
    SESSION_PRUNE_CLAIM,
    KeepRecent,         \* session_prune_run_keep_recent
    BatchSize,          \* session_prune_batch_size
    MaxNamed,           \* bound on the runs that clients go back to
    MaxLosses           \* bound on losses of the process

ASSUME PruneAssumption ==
    /\ Sessions \subseteq Nat /\ Runs \subseteq Nat
    /\ Generated \subseteq Sessions /\ Broken \subseteq Generated
    /\ None \notin Sessions \union Runs
    /\ SESSION_PRUNE_CLAIM \notin Runs \union {None}
    /\ KeepRecent \in Nat \ {0} /\ BatchSize \in Nat \ {0}
    /\ MaxNamed \in Nat /\ MaxLosses \in Nat

VARIABLES
    session,    \* table sessions
    run,        \* table runs
    saved,      \* run_store_dir: the runs that have a directory with their state
    scheduled,  \* sessions that a schedule which is not deleted continues or forks
    ahead,      \* by updated_at: the claims that are older than one's own
    pruner,     \* where the loop is, and the sessions, runs it works on
    enabled,    \* session_prune_generated_sessions_enabled
    named,      \* runs a client went back to by restore_from_run_id
    missed,     \* history: runs that succeeded while the loop overlooked them
    losses

tables == <<session, run>>
history == <<named, missed>>
vars == <<tables, saved, scheduled, ahead, pruner, enabled, history, losses>>
-----------------------------------------------------------------------------
LiveStatus == {"queued", "running", "working"}
RowStatus == LiveStatus \union {"completed", "failed"}

RunId == Runs \union {None}
SessionRow ==
    [row : {"none", "there", "gone"}, parent : Sessions \union {None},
     head : RunId, success : RunId, active : RunId \union {SESSION_PRUNE_CLAIM}]
RunRow ==
    [status : RowStatus \union {"none", "gone"}, session : Sessions \union {None},
     restore : RunId, resets : BOOLEAN]
Phase == {"idle", "claim", "cleanup", "delete", "erase",
          "sessions", "runs", "store", "orphans"}

Idle == [at |-> "idle", ids |-> {}, runs |-> {}]

There == {s \in Sessions : session[s].row = "there"}
Claimed == {s \in There : session[s].active = SESSION_PRUNE_CLAIM}
Rows == {r \in Runs : run[r].status \in RowStatus}
Live == {r \in Runs : run[r].status \in LiveStatus}
RowsOf(s) == {r \in Rows : run[r].session = s}
LiveOf(s) == {r \in Live : run[r].session = s}

\* The sessions reached from s by parent_session_id, s left out.
Ancestors(s) ==
    {a \in Sessions : \A X \in SUBSET Sessions :
        (\A t \in X \union {s} : session[t].parent \in X \union {None}) => a \in X}

Init ==
    /\ session = [s \in Sessions |->
          [row |-> "none", parent |-> None, head |-> None, success |-> None, active |-> None]]
    /\ run = [r \in Runs |->
          [status |-> "none", session |-> None, restore |-> None, resets |-> FALSE]]
    /\ saved = {} /\ scheduled = {}
    /\ ahead = [s \in Sessions |-> {}]
    /\ pruner = Idle
    /\ enabled = TRUE
    /\ named = {} /\ missed = {}
    /\ losses = 0
-----------------------------------------------------------------------------
(* Sessions and runs are created *)

IsNext(r) ==
    /\ run[r].status = "none"
    /\ \A q \in Runs : q < r => run[q].status # "none"

Queued(s, k, resets) ==
    [status |-> "queued", session |-> s, restore |-> k, resets |-> resets]

\* Faulty: a reference that does not lock sees the row and not the claim.
ReferableUnlocked(s) == s \in There

\* lock_session_reference: the row, unless it is missing or claimed.
Referable(s) == s \in There \ Claimed

\* A client goes on from the last success, or goes back to a run by its id.
GoesBack(k, success) ==
    /\ named' = IF k \in {None, success} THEN named ELSE named \union {k}
    /\ Cardinality(named') <= MaxNamed

\* A session with its first run, in one commit.  A fire of a schedule may fork
\* a session; its run resets the state.
Begin(s, p, r) ==
    /\ session[s].row = "none" /\ IsNext(r)
    /\ p # None => s \in Generated /\ Referable(p)
    /\ session' = [session EXCEPT ![s] =
          [row |-> "there", parent |-> p, head |-> r, success |-> None, active |-> None]]
    /\ run' = [run EXCEPT ![r] = Queued(s, None, p # None)]
    /\ UNCHANGED <<saved, scheduled, ahead, pruner, enabled, history, losses>>

\* fork: a session that goes on from a run k of another one.
Fork(s, p, k) ==
    /\ session[s].row = "none" /\ s \notin Generated
    /\ Referable(p)
    /\ k \in RowsOf(p)
    /\ session' = [session EXCEPT ![s] =
          [row |-> "there", parent |-> p, head |-> k, active |-> None,
           success |-> IF run[k].status = "completed" THEN k ELSE session[p].success]]
    /\ GoesBack(k, session[p].success)
    /\ UNCHANGED <<run, saved, scheduled, ahead, pruner, enabled, missed, losses>>

\* _validate_restore_source: a run of the session or of an ancestor of it.
Restorable(s, k) ==
    /\ k \in Rows
    /\ \/ run[k].session = s
       \/ run[k].session \in Ancestors(s) /\ Referable(run[k].session)

\* create looks at active_run_id only: a run that is queued does not count.
Free(s) == s \in There /\ session[s].active = None

\* create in a session that is there: the run goes on from the run the client
\* names or from the last success, or it resets the state.
Create(s, k, resets, r) ==
    /\ Free(s) /\ IsNext(r)
    /\ IF resets THEN k = None
                 ELSE k \in {session[s].success} \union Rows
    /\ k # None => Restorable(s, k)
    /\ session' = [session EXCEPT ![s].head = r]
    /\ run' = [run EXCEPT ![r] = Queued(s, k, resets)]
    /\ GoesBack(k, session[s].success)
    /\ UNCHANGED <<saved, scheduled, ahead, pruner, enabled, missed, losses>>

\* A schedule that continues or forks the session; one that is deleted or hidden.
Schedule(s) ==
    /\ Referable(s) /\ s \notin scheduled
    /\ scheduled' = scheduled \union {s}
    /\ UNCHANGED <<tables, saved, ahead, pruner, enabled, history, losses>>

Unschedule(s) ==
    /\ s \in scheduled
    /\ scheduled' = scheduled \ {s}
    /\ UNCHANGED <<tables, saved, ahead, pruner, enabled, history, losses>>
-----------------------------------------------------------------------------
(* Runs are executed *)

ClaimRun(r) ==
    LET s == run[r].session IN
    /\ run[r].status = "queued"
    /\ run' = [run EXCEPT ![r].status = "running"]
    /\ session' = [session EXCEPT ![s].active = r, ![s].head = r]
    /\ UNCHANGED <<saved, scheduled, ahead, pruner, enabled, history, losses>>

\* Faulty: a status that the checks for queued and running do not know.
StoppingRun(r) == [run EXCEPT ![r].status = "stopping"]

\* fail_run, cancel_run, interrupt_run: the rows after r has ended without success.
FailedRun(r) == [run EXCEPT ![r].status = "failed"]
FailedSession(r) ==
    LET s == run[r].session IN
    [session EXCEPT ![s].head = r, ![s].active = IF @ = r THEN None ELSE @]

\* resolve_restore_run: the run a run goes on from, the last success of its
\* session if its row names none.
Target(r) ==
    LET s == run[r].session IN
    IF run[r].resets THEN None
    ELSE IF run[r].restore # None THEN run[r].restore ELSE session[s].success

\* Only a run of the session itself that has ended is accepted.
Resolved(r) ==
    Target(r) # None =>
        /\ Target(r) \in Rows \ Live
        /\ run[Target(r)].session = run[r].session

\* load_restore_point
LoadRestorePoint(r) ==
    /\ run[r].status = "running" /\ Resolved(r)
    /\ run' = [run EXCEPT ![r].status = "working"]
    /\ UNCHANGED <<session, saved, scheduled, ahead, pruner, enabled, history, losses>>

RestoreRaises(r) ==
    /\ run[r].status = "running" /\ ~Resolved(r)
    /\ run' = FailedRun(r) /\ session' = FailedSession(r)
    /\ UNCHANGED <<saved, scheduled, ahead, pruner, enabled, history, losses>>

\* The loop has read the sessions, and r was the head or the active run of none:
\* it had begun later, or another run of its session had.
Overlooked(r) ==
    \/ pruner.at = "runs" /\ r \notin pruner.runs
    \/ pruner.at = "store" /\ r \in pruner.runs

\* _commit_successful_run: the files and then the rows, without a pause between.
Succeed(r) ==
    LET s == run[r].session IN
    /\ run[r].status = "working"
    /\ saved' = saved \union {r}
    /\ run' = [run EXCEPT ![r].status = "completed"]
    /\ session' = [session EXCEPT ![s].head = r, ![s].success = r, ![s].active = None]
    /\ missed' = IF Overlooked(r) THEN missed \union {r} ELSE missed
    /\ UNCHANGED <<scheduled, ahead, pruner, enabled, named, losses>>

\* A run that is stopped, or whose agent raises.
Fail(r) ==
    /\ r \in Live
    /\ run' = FailedRun(r) /\ session' = FailedSession(r)
    /\ UNCHANGED <<saved, scheduled, ahead, pruner, enabled, history, losses>>

ExecuteStep(r) ==
    \/ ClaimRun(r) \/ LoadRestorePoint(r) \/ RestoreRaises(r)
    \/ Succeed(r) \/ Fail(r)
-----------------------------------------------------------------------------
(* The sessions of old timers are deleted *)

Larger(a, b) == IF a > b THEN a ELSE b
RetryLimit == Larger(BatchSize \div 2, 1)

\* t was claimed before s, or with it and has the smaller id.
Before(t, s) == t \in ahead[s] \/ (s \notin ahead[t] /\ t < s)

\* Faulty: what a loss of the process has left is not looked at again.
NoClaims == {}

\* _select_claimed_session_ids: the claims that have waited longest.
ClaimsToRetry ==
    {s \in Claimed : Cardinality({t \in Claimed : Before(t, s)}) < RetryLimit}

\* _select_heartbeat_session_ids, _select_schedule_session_ids: the latest fires
\* first, whether or not their sessions are still there.  Each of them is taken
\* to be past its cutoff and keep_recent.
FreshBudget == Larger(BatchSize - Cardinality(ClaimsToRetry), 1)
Fresh ==
    LET candidates == {s \in Generated : session[s].row # "none"} \ Claimed IN
    {s \in candidates : Cardinality({t \in candidates : t > s}) < FreshBudget}

\* _filter_deletable_session_ids: nothing may refer to the session, nothing may
\* run in it, and no session outside the set may restore from a run of it.
Unprotected(ids) ==
    {s \in ids \intersect There :
        /\ s \notin scheduled
        /\ \A t \in There : session[t].parent # s
        /\ session[s].active \in {None, SESSION_PRUNE_CLAIM}
        /\ LiveOf(s) = {}}

Deletable(ids) ==
    LET candidates == Unprotected(ids) IN
    {s \in candidates :
        \A r \in Rows : run[r].restore \in RowsOf(s) => run[r].session \in candidates}

Goes(at, ids, runs) == pruner' = [at |-> at, ids |-> ids, runs |-> runs]
GoesUnlessDone(at, ids) ==
    IF ids = {} THEN Goes("sessions", {}, {}) ELSE Goes(at, ids, {})

Released(ids) ==
    [s \in Sessions |->
        IF s \in ids \intersect Claimed THEN [session[s] EXCEPT !.active = None]
        ELSE session[s]]

\* The beginning of prune_once: candidates are selected, and those that something
\* protects lose a claim they had.  Without generated sessions the store comes first.
Tick ==
    LET requested == ClaimsToRetry \union Fresh
        candidates == Deletable(requested)
    IN
    /\ pruner.at = "idle"
    /\ IF enabled
       THEN /\ session' = Released(requested \ candidates)
            /\ GoesUnlessDone("claim", candidates)
       ELSE /\ Goes("sessions", {}, {})
            /\ UNCHANGED session
    /\ UNCHANGED <<run, saved, scheduled, ahead, enabled, history, losses>>

\* The conditions are looked at again while the rows are locked.
Rechecked(ids) == Deletable(ids)

ClaimSessions ==
    LET eligible == {s \in pruner.ids \intersect There :
                       session[s].active \in {None, SESSION_PRUNE_CLAIM}}
        taken == {s \in Rechecked(eligible) : session[s].active = None}
    IN
    /\ pruner.at = "claim"
    /\ session' = [s \in Sessions |->
          IF s \in taken THEN [session[s] EXCEPT !.active = SESSION_PRUNE_CLAIM]
          ELSE session[s]]
    /\ ahead' = [s \in Sessions |-> IF s \in taken THEN Claimed ELSE ahead[s]]
    /\ GoesUnlessDone("cleanup", pruner.ids \intersect (Claimed \union taken))
    /\ UNCHANGED <<run, saved, scheduled, enabled, history, losses>>

\* _cleanup_docker_sandboxes: a session whose sandbox is not removed stays claimed.
\* Then the runs of the others are read.
CleanupSandboxes ==
    LET ids == (pruner.ids \ Broken) \intersect Claimed IN
    /\ pruner.at = "cleanup"
    /\ IF ids = {} THEN Goes("sessions", {}, {})
       ELSE Goes("delete", ids, {r \in Rows : run[r].session \in ids})
    /\ UNCHANGED <<tables, saved, scheduled, ahead, enabled, history, losses>>

\* One commit: the runs that were read, and the sessions that are still claimed.
DeleteSessions ==
    /\ pruner.at = "delete"
    /\ session' = [s \in Sessions |->
          IF s \in pruner.ids \intersect Claimed THEN [session[s] EXCEPT !.row = "gone"]
          ELSE IF s \in There /\ session[s].parent \in pruner.ids
          THEN [session[s] EXCEPT !.parent = None]
          ELSE session[s]]
    /\ run' = [r \in Runs |->
          IF r \in pruner.runs THEN [run[r] EXCEPT !.status = "gone"] ELSE run[r]]
    /\ Goes("erase", {}, pruner.runs)
    /\ UNCHANGED <<saved, scheduled, ahead, enabled, history, losses>>

\* _delete_run_store_paths
EraseRuns ==
    /\ pruner.at = "erase"
    /\ saved' = saved \ pruner.runs
    /\ Goes("sessions", {}, {})
    /\ UNCHANGED <<tables, scheduled, ahead, enabled, history, losses>>
-----------------------------------------------------------------------------
(* Directories that nothing goes on from are deleted *)

\* Faulty: the last run counts, the last success does not.
LatestHeads(s) == {session[s].head, session[s].active} \intersect Runs

\* _session_head_run_ids
SessionHeads(s) == {session[s].head, session[s].success, session[s].active} \intersect Runs

LoadSessions ==
    /\ pruner.at = "sessions"
    /\ Goes("runs", There, UNION {SessionHeads(s) : s \in There})
    /\ UNCHANGED <<tables, saved, scheduled, ahead, enabled, history, losses>>

\* _protected_run_ids, of sessions and heads loaded before the runs were.
Recent(s) == {r \in RowsOf(s) : Cardinality({q \in RowsOf(s) : q > r}) < KeepRecent}
RestoredBy(runs) == {run[r].restore : r \in runs \intersect Rows} \ {None}
ProtectedRuns(known, heads) ==
    LET live == UNION {LiveOf(s) : s \in known}
        recent == UNION {Recent(s) : s \in known}
        kept == heads \union recent \union live \union RestoredBy(live)
    IN kept \union RestoredBy(kept)

\* _prunable_run_ids: the oldest rows that are not protected, whether or not
\* they still have a directory.
PrunableRuns(known, heads) ==
    LET open == Rows \ ProtectedRuns(known, heads) IN
    {r \in open : Cardinality({q \in open : q < r}) < BatchSize}

LoadRuns ==
    /\ pruner.at = "runs"
    /\ Goes("store", {}, PrunableRuns(pruner.ids, pruner.runs))
    /\ UNCHANGED <<tables, saved, scheduled, ahead, enabled, history, losses>>

\* _prune_run_store_dirs, and the directories _prune_orphan_run_store_dirs lists
\* before anybody else goes on.
PruneRunStore ==
    /\ pruner.at = "store"
    /\ saved' = saved \ pruner.runs
    /\ Goes("orphans", {}, saved \ pruner.runs)
    /\ UNCHANGED <<tables, scheduled, ahead, enabled, history, losses>>

\* Of those, the directories that have no row now.
PruneOrphans ==
    /\ pruner.at = "orphans"
    /\ saved' = saved \ (pruner.runs \ Rows)
    /\ pruner' = Idle
    /\ UNCHANGED <<tables, scheduled, ahead, enabled, history, losses>>

PruneStep ==
    \/ Tick \/ ClaimSessions \/ CleanupSandboxes \/ DeleteSessions \/ EraseRuns
    \/ LoadSessions \/ LoadRuns \/ PruneRunStore \/ PruneOrphans
-----------------------------------------------------------------------------
(* The process is lost and started again *)

\* cancel_orphaned_running_runs interrupts the runs that were executed; where
\* the sessions of timers are not pruned, release_all_prune_claims follows.
Orphaned == {r \in Runs : run[r].status \in {"running", "working"}}

\* The last to be interrupted in each session, in an order the query leaves open.
Lasts ==
    {last \in SUBSET Orphaned : \A q \in Orphaned :
        Cardinality({r \in last : run[r].session = run[q].session}) = 1}
RecoveredHead(s, last) ==
    LET ended == {r \in last : run[r].session = s} IN
    IF ended = {} THEN session[s].head ELSE CHOOSE r \in ended : TRUE

ReleasesClaims(on) == ~on

Restart(on, last) ==
    /\ losses < MaxLosses
    /\ losses' = losses + 1
    /\ enabled' = on
    /\ pruner' = Idle
    /\ run' = [r \in Runs |->
          IF r \in Orphaned THEN [run[r] EXCEPT !.status = "failed"] ELSE run[r]]
    /\ session' = [s \in Sessions |->
          [session[s] EXCEPT
             !.head = RecoveredHead(s, last),
             !.active = IF @ \in Orphaned \/ (ReleasesClaims(on) /\ s \in Claimed)
                        THEN None ELSE @]]
    /\ UNCHANGED <<saved, scheduled, ahead, history>>

Next ==
    \/ \E s \in Sessions, r \in Runs :
          \/ \E p \in Sessions \union {None} : Begin(s, p, r)
          \/ \E k \in RunId, resets \in BOOLEAN : Create(s, k, resets, r)
    \/ \E s, p \in Sessions, k \in Runs : Fork(s, p, k)
    \/ \E s \in Sessions : Schedule(s) \/ Unschedule(s)
    \/ \E r \in Runs : ExecuteStep(r)
    \/ PruneStep
    \/ \E on \in BOOLEAN : \E last \in Lasts : Restart(on, last)

Spec == Init /\ [][Next]_vars

\* The loop of SessionPruneDispatcher comes back after each interval and goes on
\* after a tick that raised.
FairSpec == Spec /\ WF_vars(PruneStep)
-----------------------------------------------------------------------------
TypeOK ==
    /\ session \in [Sessions -> SessionRow]
    /\ run \in [Runs -> RunRow]
    /\ saved \subseteq Runs /\ scheduled \subseteq Sessions
    /\ ahead \in [Sessions -> SUBSET Sessions]
    /\ pruner \in [at : Phase, ids : SUBSET Sessions, runs : SUBSET Runs]
    /\ enabled \in BOOLEAN
    /\ named \subseteq Runs /\ missed \subseteq Runs
    /\ losses \in 0..MaxLosses

\* Nothing names a row that was deleted: not a schedule, a fork, a head, a
\* success or a restore source; and no run is without its session.  The claim
\* "closes races with new runs, forks, schedules, and restore references".
ReferencesHold ==
    /\ scheduled \subseteq There
    /\ \A s \in There :
          /\ session[s].parent \in There \union {None}
          /\ session[s].head \in Rows \union {None}
          /\ session[s].success \in Rows \union {None}
          /\ session[s].active \in Live \union {None, SESSION_PRUNE_CLAIM}
    /\ \A r \in Rows :
          /\ run[r].session \in There
          /\ run[r].restore \in Rows \union {None}

\* What a session would go on from, and what a run that waits will go on from,
\* has its state on disk, unless a client had gone back to that run by its id, or
\* the run had succeeded between the first read of the loop and the deletion.
Continuations ==
    {session[s].success : s \in There} \union {run[r].restore : r \in Live}
ContinuationKept == Continuations \ ({None} \union named \union missed) \subseteq saved

\* A claim does not last: the session is released, or it is deleted and the
\* directories of its runs with it.  Only a claim that is older and whose sandbox
\* cannot be removed may keep it waiting.
Blocked(s) == \E b \in Broken \intersect Claimed : Before(b, s)
ClaimEnds ==
    \A s \in Sessions \ Broken :
        s \in Claimed ~>
            \/ s \in There \ Claimed
            \/ s \in Claimed /\ Blocked(s)
            \/ s \notin There /\ \A r \in saved : run[r].session # s

\* A run that create let go on from the last success of an ancestor does so when
\* it is executed.
AncestorIsRestored ==
    \A r \in Live :
        run[r].restore # None /\ run[run[r].restore].session \in Ancestors(run[r].session)
        /\ run[run[r].restore].status = "completed"
        => Resolved(r)
=============================================================================
