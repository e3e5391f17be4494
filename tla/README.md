# Verification of the ya-claw service

`ya-mono` is a Python monorepo of agent software: an SDK, a terminal client, a
runtime service, and helper packages.  This directory models **ya-claw**
(`src/packages/ya-claw`), the service that keeps sessions, runs agents in the
background, survives restarts and coordinates everything else.  It is where the
repository's own concurrency is: one event loop, a database without row locks, a
file store, in-memory handles, and a process that may be lost between any two of
them.

## Inventory

Paths are relative to `src/packages/ya-claw/ya_claw/`.

| component | state | operations | made correct by |
| --- | --- | --- | --- |
| runs (`controller/run.py`, `execution/coordinator.py`, `execution/state_machine.py`) | rows of `runs` and `sessions`; supervisor tasks | create, claim, execute, commit, fail, cancel, interrupt, recover | one live run, pointers that name what they say, no lost and no repeated run, continuation points that can be loaded |
| runtime state (`runtime_state.py`) | run handles, event buffers, session locks, HITL waits, cleanup tasks | register, append, consume, request stop, close, prune | a subscriber sees every event once and then the end; a stop is seen |
| store (`execution/store.py`, `checkpoint.py`) | `state.json`, `message.json` per run | write, read, delete | written before the row that refers to them |
| input and steering (`controller/session.py`, coordinator's forwarder) | `input_parts` of queued runs, steering queue of handles | submit, merge, steer, consume | every accepted input reaches an agent, once |
| HITL (`controller/hitl.py`) | interaction rows, deferred inputs, in-memory batch | publish, respond, defer, consume | the agent goes on exactly when all answers are there |
| async tasks (`controller/async_task.py`) | task rows, child sessions, wakes | spawn, steer, cancel, on_run_terminal | every task ends and its parent learns it |
| workflows (`controller/workflow.py`, `execution/workflow.py`) | workflow and node rows | start, tick, dispatch, sync, retry, cancel | dependencies first, each node once, always an end |
| schedules, heartbeat (`controller/schedule.py`, `controller/heartbeat.py`) | schedules, fire records | due, fire, dispatch, skip | one run per fire |
| agency (`agency/lifecycle.py`) | fires, the singleton session | enqueue, deliver, ack | fires are delivered and settled |
| memory (`memory/lifecycle.py`) | pending requests, memory sessions | request, run, next | requests are processed one by one |
| pruning (`controller/session_prune.py`, `controller/session_lifecycle.py`) | claims in `active_run_id`; rows and run directories | select, claim, recheck, clean up, delete, release | nothing live or referenced is deleted, no claim lasts |
| bridge (`bridge/`) | inbound chat events, conversations | receive, deduplicate, submit | an event makes one run |
| sandboxes, profiles, workspaces | containers, files | start, stop, resolve | mostly external I/O |
| API, CLI, notifications | none of their own | adapters | - |

The other packages (`ya-agent-sdk`, `ya-agent-environment`,
`ya-agent-stream-protocol`, `ya-oauth`, `yaacli`, the Rust and renderer packages,
the two apps) are listed in `PROJECT.json`.  To the service an agent of the SDK is
a stream that ends, raises or is interrupted.

Interactions: an ingress (HTTP, schedule, bridge, agency, memory, workflow, wake)
calls `create` or `submit_input`, which commits a queued run and registers a
handle, and then the dispatcher, which gives the run to the supervisor.  The task
of the run claims it in one transaction, executes the agent in none, and commits
or fails it in another; then it calls the hooks of async tasks, memory, agency and
the bridge.  A stop request writes the same rows in a transaction of its own and
talks to the task through the handle.  On start the service interrupts the runs
that were running and submits those that are queued.

What is hard: check and write are separated by awaits; the terminal event is
consumed by a subscriber that drops the handle under the task; hooks raise after
the commit they follow; files and rows are written one after the other; the
process is lost between any of these.  `PROJECT.json` lists each such place under
`hazards`.

## Modules

`ContinuationLine` is the abstract promise to whoever continues a session: a
continuation point designates files that exist, and a run becomes one at most
once.  It has two steps, `Persist` and `Publish`.

`ClawRuns` is the service as far as the life of a run goes.

| model | code |
| --- | --- |
| `status`, `owner`, `seq`, `restore`, `committed` | columns `status`, `session_id`, `sequence_no`, `restore_from_run_id`, `committed_at` of `runs` |
| `active`, `head`, `success` | columns `active_run_id`, `head_run_id`, `head_success_run_id` of `sessions` |
| `artifacts` | runs whose `state.json` and `message.json` exist |
| `task`, `txn` | the supervisor's asyncio task of a run: where it awaits, and the session columns its open transaction has loaded |
| `stopper`, `stopTxn` | the same for a cancel or interrupt request |
| `handle` | `ActiveRunHandle`: present, closed, terminal event seen; `termination_requested`; `dispatch_mode` |
| `phase` | the process is up, shutting down, or down |
| `executions` | a history variable: how often the agent of a run was started |

Actions follow the awaits of the code: `ClaimLoad`/`ClaimCommit` are the two halves
of `_claim_run`, `ExecuteLoad` the first transaction of `execute`, `CommitLoad`/
`CommitDb`/`PostCommit` the terminal gate and `_commit_successful_run` with its
hooks, `FailLoad`/`FailCommit` the `except` block, `StopLoad`/`StopCommit`/
`StopTerminal` are `_stop_run`, `StartupRecover` is `startup_recover`.

Abstractions:

* A step is the code between two awaits that matter.  A transaction is a load and
  a commit.  The load of the run row and that of the session row are one step.
  SQLAlchemy writes the columns whose value changed since the load (`Written`), by
  primary key, without a version check.
* `create` is one step: its first statement updates the session row, which
  serialises it against other writers.  `submit_input` holds the session lock.
* `write_state` and `write_message` are synchronous; `artifacts` holds runs that
  have both, so a crash between the two leaves the run outside it.
* The agent is a stream in state `"streaming"`; a wait for an approval, steering
  and async subagents happen inside it.
* Restore sources inherited through forks of a session are in `ClawPrune`; here an
  explicit source is any earlier run of the session.
* A run that the shutdown loses keeps what was committed.  The fresh supervisor
  that follow-up runs are submitted to is not modelled.
* Runs are not deleted; `ClawPrune` deletes them.

A definition marked `faulty` is a plausible bug of the definition after it.  No
action uses it; it is there to show that the property is violated by it.

`MCClawRuns` adds the symmetry of run ids.  `ClawRunsProofs` holds the theorems.

`DependencyOrder` is the abstract promise to the author of a workflow: no node is
given a run, at any attempt, before each node it needs has had one that succeeded.

`ClawWorkflow` is one workflow run from its trigger to its end.

| model | code |
| --- | --- |
| `wf`, `shared` | `status` of `workflow_runs`, `shared_session_id` in its metadata |
| `node` | `status`, `attempt_no`, `run_id` of the rows of `workflow_node_runs` |
| `run`, `session` | `status`, `session_id` of the runs of the nodes |
| `held` | what this process has of a run: a submitted task, or one that has executed it |
| `tick` | the tick of the executor: where it is, and the rows in the identity map of its database session, as read and as changed |
| `canceller` | a cancel request: nodes to look at, and nodes marked but not written |
| `bound`, `succeeded` | history: the runs each node was given, the runs that were ever completed |

`TickList` is the query of `dispatch_once`, `TickPlan` is `execute_once` up to the
nodes it starts, `StartNode`/`SteerNode`/`StartFails` the three outcomes of
`_start_node`, `TickCommit` the rest of `execute_once` and the commit of the
executor.  `CancelLoad`/`CancelNode`/`CancelCommit` are `cancel_run`.

Abstractions:

* A tick reads each row once (`expire_on_commit` is off and objects stay in the
  identity map) and a commit writes the columns that changed.  The rows a tick reads
  between two commits are read in one step, so are those of a cancel request.  Lock
  waits are not modelled: changes take effect at the commit, in any order.
* A run is its status.  `RunOverwritten` stands for the races that `ClawRuns` shows;
  it lets them happen later than the code would.  `MayBeFree` and `MayBeTaken`
  likewise allow every `active_run_id` that such races may leave.
* The order in which ready nodes are started is left open; the code sorts them by
  name.  One `retry_count` holds for all nodes.
* Mode `fork` has a session of its own, as `isolate`; its parent is not modelled.
* `StartRaises` stands for every exception of a start: a template, validation, a
  missing session.
* `NewRunId` picks a fresh id with `CHOOSE`, so the run ids are not interchangeable
  for TLC and no symmetry is used.
* Definitions, inputs, events and the `steer_node` request are left out.

A cancel request that races a tick is not promised the last word: the tick may
write the status it had decided on, and a run it was creating stays alive.  What
holds regardless is stated below.

`ClawInput` is the way of an input into the runs of one session, `ClawAgency` extends
it with the fires of the agency, which reach their session by the same way.

| model | code |
| --- | --- |
| `status`, `parts`, `active`, `head` | `runs.status`, `runs.input_parts`, `active_run_id` and `head_run_id` of the session |
| `stage`, `handle` | where the coordinator task of a run stands; whether its `ActiveRunHandle` is registered |
| `queue`, `taken`, `bus` | `steering_inputs` of the handle, the batch the signal task is mapping, the message bus of the agent |
| `loaded`, `heard` | history: what the agent got with its first prompt, and what by steering |
| `lock`, `req` | the session lock and each call of `submit_input` under it |
| `fire`, `fireRun` | `status` and `run_id` of `agency_fires` |
| `timer` | where `dispatch_due` stands, and the pointer of the row it has loaded |

`Locate`, `CreateRun`, `MergeInput`, `SteerInput` and `Return`/`Refuse` are
`submit_input` by its awaits; `SteerRun` is `POST steer`, which takes no lock;
`ForwardSteering`/`ForwardMapped` the signal task, `ModelRequest`/`FinishOutput` the
bus at a model request and its output guard, `TerminalGate`/`GateLooksAgain`/`Commit`
the end of a run under the lock.  `LookUpSession`, `DispatchPending`, `MarkFires`,
`RefuseFires` are `dispatch_pending`, `HeartbeatLook`, `HeartbeatCheck` and `Heartbeat`
`dispatch_due` by its queries, `Hooks` the two agency hooks.  The races of
claim, stop and commit over a row are in `ClawRuns`; here each is one step.

`ClawHitl` is one run that asks for approvals: `open` and `answers` are the rows of
`hitl_batches` and `hitl_interactions`, `memory` the state of the waiting batch in
`runtime_state`, `call` what each `respond_interaction` has loaded, `stored`, `found`,
`toSend` and `bus` the way of a bridge message that arrives meanwhile.  A question is
its number within the batch, as in the code; so two batches share their numbers.
`RespondLoad` is `respond_interaction` up to its count of the interactions,
`RespondResolve` the flush that this query brings about, the count, and
`resolve_hitl_interaction`, which wakes the executor; `RespondCommit` is the commit of
the endpoint, and `RespondFail` a flush or a commit that fails after the executor was
woken.  Between them the executor may go on, close the batch and ask the next one.
Two calls that write the row of one question wait for each other from the flush to
the end of the transaction (`RowIsHeld`).

`ClawAsyncTasks` is one row of `session_async_tasks` (`task`), the runs of its child
session (`child`), the pointer `active_run_id` of that session (`active`), the hook each
run owes (`hook`), the calls of `spawn_delegate` between their three commits (`spawn`),
the rows each `cancel_task` has loaded (`cancel`), and the parent's handle as far as a
wake is concerned: none, one that will look for input again, one that will not
(`parent`).  Calls of `spawn_delegate` overlap, as nothing in the code keeps them apart:
each looks at the task, creates a run while `active` names none, and writes the columns
whose values differ from what it had loaded.  `stale` is history: the runs that were
created by a call after another call had created one that it had not seen.  The races
of a claim are in `ClawRuns`.

`ClawMemory` is the memory session of one source session: `row` the counters and the
queue of `session_memory_states`, `run` the memory runs until their hook has returned,
`call` the row each hook or request loaded before it waited for its lock.  An
operation is a load and a commit; what it does in between (`MarkPending`, `CreateRun`,
`Enqueue`, `EnqueueNext`) are operators on a record of what it works with.  The hook of
a completed memory run goes on after its commit: it signals the agency
(`"signalling"`), which may raise the 404 of `agency/lifecycle.py:382` (only a 409
is suppressed, `memory/lifecycle.py:501`), and only then submits what it created.
`SignalSent` and `SignalRaises` are the two outcomes, `unsent` the run that awaits its
submission, `left` the runs that never got it and stay queued without a task.

`ClawSchedules` is the schedule dispatcher: `row` and `fire` are the tables, `mine`
and `unsaved` the identity map of the tick's database session, `trigger` a manual
trigger between two commits, `edit` an update that has loaded its row.  `CreateRun`
commits the whole session, as `RunController.create` does when it is given the
caller's session, and `FailTick` is the rollback after a taken dedupe key.

`ClawPrune` is the sessions, their forks, and the loop that deletes what nobody needs.

| model | code |
| --- | --- |
| `session` | the row, whether it is there, `parent_session_id`, `head_run_id`, `head_success_run_id`, `active_run_id` with the value `SESSION_PRUNE_CLAIM` |
| `run` | `status` (`"working"`: running with its restore point loaded), `session_id`, `restore_from_run_id`, `restore_state` in the metadata |
| `saved` | the directories of runs under `run_store_dir` that hold a state |
| `scheduled` | sessions that a schedule which is not deleted continues or forks |
| `ahead` | `updated_at` of the claims, as the claims that are older |
| `pruner` | where `prune_once` is, with the sessions and runs it has selected or read |
| `enabled` | `session_prune_generated_sessions_enabled`, read again at each start |
| `named`, `missed` | history: runs a client went back to by their id; runs that succeeded between the first read of the loop and the deletion |

`Begin`, `Fork`, `Create` and `Schedule` are the transactions that commit a reference
to a session, each with its lock (`Referable`, `Free`).  `Tick`, `ClaimSessions`,
`CleanupSandboxes`, `DeleteSessions` and `EraseRuns` are `_delete_sessions` by its
commits, `LoadSessions`, `LoadRuns` and `PruneRunStore` the two reads and the deletion
of `_select_prunable_run_ids`, `PruneOrphans` the last look of `prune_once`.
`Target` and `Resolved` are the checks of a restore source when a run is executed,
which are others than those of `create` (`Restorable`).

Abstractions of these six modules:

* Rows that a call loads are read in one step, and so are those it writes.
* An input, a fire, a question, a turn is a model value or a number.  A set stands for
  a steering queue and a bus: order within one is not looked at.
* `ClawHitl`: the run has no other input; a bridge message is stored once.
* `ClawHitl`: a client has one call open at a time.  A call that fails before it has
  resolved anything leaves nothing, and is not a step.
* `ClawAsyncTasks`: a caller has one call open at a time, and two of them overlap.  The
  parent's run is not told apart from its handle; a wake into an idle parent is heard.
* `ClawMemory`: `Slots` bounds the memory runs that are live or have a hook to run,
  not their number over time; an operation that finds no slot waits.
* `ClawSchedules`: one session that schedules continue, `busy` or not; what else
  happens in it is `SessionTurns`.  A schedule that starts or steers always gets a run
  or an outcome; a cron schedule fires at every tick of the model's clock.
* `ClawPrune`: whatever has an age is old enough, and all fires are beyond the recent
  ones that are kept; so the loop deletes what it may delete in any configuration.
  Sandboxes of `Broken` sessions are never removed, the others at once.  Statuses
  after an end without success are one.  A schedule is created or deleted, an update
  is not modelled; nor are directories that cannot be removed, fire records and the
  hiding of one-time schedules.

## Runs

The runs of `ClawRuns` and `ClawInput` use one session: sessions share nothing but the
pool of run ids.  All runs switch off deadlock checking: a finite pool of runs, turns,
batches or fires is used up, and the service then rightly has nothing to do.

| run | question | bounds |
| --- | --- | --- |
| `runs_races` | with two ingress paths, all dispatch modes and restore choices, raising agents and hooks, stops and a lost process, are continuation points durable, is no agent started twice, is `ContinuationLine` implemented? | 2 runs (interchangeable), 2 stops, 1 crash or shutdown; 3.3 million states |
| `runs_quiet` | if all input comes through `submit_input`, nobody stops a run and no hook raises, is there one live run, does `active_run_id` name a run that is executed, does every accepted run settle? | 3 runs, 2 crashes or shutdowns |
| `runs_completed_fails` | are terminal statuses final? No: finding 1 | 1 run |
| `workflow_races` | with retries, racing stops, a cancel request at any moment of a tick, raising starts and a loss, does the policy bound the live runs, and does "completed" mean that all is done? | 2 independent nodes, concurrency 1, 1 retry, 3 run ids, 1 cancel, 1 loss; 2.7 million states |
| `workflow_ends` | does every triggered workflow end, and is the order of the definition kept, so that a join waits for both its needs? | 3 nodes, 2 of them in a shared session and one of these steering, concurrency 2, 4 run ids, 1 loss; 0.6 million states |
| `agency_races` | while the loop and a client use one session, is no steered input delivered twice, does the gate leave none behind, and is a fire that counts as handed over really in its run? | 2 runs (interchangeable), 2 fires of which one is a heartbeat, one note with a file that is submitted or steered, 2 callers, 1 stop or loss; 1.8 million states |
| `memory_races` | with stale rows, late hooks and a manual request, is there one live memory run, does every pending request have somebody to take it, is no turn passed over, is the queue emptied again? | 3 slots, 3 turns, 1 manual request, 1 extract of selected turns, thresholds 2 and 1, a queue of 1, 1 stop or loss, any number of raising signals |
| `hitl_races` | with late and double answers, is no pending batch abandoned, does the agent act on the answer that is or will be recorded, are deferred messages sent once and in order, does every wait end? | a batch of 1 question and one of 2 with the same numbers, 1 client who approves, 1 who denies, 1 bridge message, 1 stop, loss or failed commit; 1 million states |
| `async_races` | with overlapping spawns and resumes, stale cancel requests and reads, has a second live run of the child session one of the known causes, is every wanted end reported, does every task end? | 2 child runs, 2 spawners of which 1 asks to be woken, 1 canceller, 1 stop or loss; 2.5 million states |
| `schedules_races` | with a manual trigger, edits and rollbacks, has a scheduled time one run at most, and does every due time get its fire? | 1 cron schedule that queues, 1 one-time schedule that steers, 2 instants, 1 edit, loss or skipped dispatch; 0.8 million states |
| `prune_races` | while sessions are continued, forked, scheduled and restored, is nothing deleted that something refers to or goes on from, and does every claim end? | 3 sessions of which 2 are generated and 1 has a sandbox that cannot be removed, 2 runs, batches of 2, 1 recent run kept, 1 run a client goes back to, 1 loss; 0.46 million states |
| `fork_refused` | can a forked session go on from the last success of its parent? No: finding 2 | 2 sessions, 2 runs |

Two runs are enough for the races: every race of this code is between a run and
its own stop, or between a run and the next one of its session.  The third run of
`runs_quiet` lets a run be accepted after one that recovery cancelled.  A second
crash lets a run be lost that a recovery has resubmitted.

The properties of `runs_quiet` are not promised by the code under stops: a run
that is stopped while it is claimed leaves a stale pointer, and while the pointer
is stale the session refuses new runs.  That is why these properties have a run of
their own; see below.

Fairness (`FairSpec`): weak fairness of each task and of a started stop request
(the event loop serves every ready task), of `Exit` (the shutdown timeout) and of
`StartupRecover` (a supervisor restarts the service).  It also says that the stream
of an agent ends, which for a run that waits for an approval means that somebody
answers.  No fairness is assumed of clients, subscribers, stops or crashes.

Bounds of the workflow runs: a lost tick or process costs each node at most one
run it had created and not recorded, so `ConcurrencyRespected` counts the losses; with one retry and one loss a node can use all
three run ids of `workflow_races`, where two nodes compete for one place.  In
`workflow_ends` the join needs two nodes that may share one run, and a lost tick
costs the fourth id.  That the order is also kept under retries and cancel requests
is what the theorem `OrderImplementation` adds.  Fairness
of `workflow_ends`: the executor ticks for ever, the supervisor serves submitted
runs, the agents of runs end, a cancel request that has begun goes on.  Deadlock
checking is off because a finished workflow does nothing.

Bounds of the other runs.  `agency_races`: the second fire is what makes a second
batch and a heartbeat; the note has a file, so that mapping it takes a step of its
own; a second run is what a lost answer or a stale session row costs.
`memory_races`: a slot each for the run that ends, the run its hook creates and the
run a racing request would create; with one place in the queue a request is dropped
after two.  `hitl_races`: a second batch for a late answer, a second client for a
double one; the clients give different answers, without which no disagreement could be
seen, and a first batch of one question is enough for an answer to come late.
`async_races`: the second run is the resumed one, or that of an overlapping call; the
callers differ in what they ask for, so that the policy of one can meet the run of the
other.  `schedules_races`: the
second instant lets a schedule become due while an earlier fire is still pending.
`prune_races`: a claim that cannot be carried out beside one that can, and a session
that refers to either; with batches of two one claim is tried again in each tick.  The
second run is what lets a run be restored from another.  Longer lines of forks and more
sessions are what the theorems add.

Fairness of the other runs: weak fairness of the executor of a run, of each hook and of
each call that has begun, since the event loop serves every ready task.  `hitl_races`
adds that a question that is shown is answered again and again (strong fairness of
`RespondLoad` for each question): the code waits for as long as it takes, and the
property says that this suffices.  A call that has resolved its question is committed
unless it fails.  `async_races` adds that the parent reads its tasks
again and again, without which a task whose run was cancelled during its spawn would
read queued for ever.
`schedules_races` assumes only that the dispatcher ticks, `prune_races` only that the
loop comes back after each interval and after a tick that raised.  `EveryTaskEnds`
and `QueueDrains` exempt behaviours with a stop or a loss, `QueueDrains` also those in
which a signal to the agency leaves a run without a task, `EveryWaitEnds` those in which
the run is stopped, and `DueFires` those with `upset`, because the code does not recover
from them: see below.

## Findings

1. `runs_completed_fails`: a hook that raises after the commit of a run
   (`execution/coordinator.py:594-676`) reaches the `except` block of `execute`, which
   calls `fail_run` on the completed run.  `spec/04-api.md:230` calls the status terminal.
2. `fork_refused`: `create` and `_validate_restore_source` (`controller/run.py:436-484`)
   accept a run of an ancestor session, and the last success of a fork is one;
   `resolve_restore_run` (`execution/restore.py:37`) refuses it when the run is
   executed, so the first run of a forked session fails.
   `spec/02-execution-and-session.md:269-274` describes what `create` does.

### What else the models show

These come out of the models, by the exemptions that the properties need.  They have
no run of their own; the places are in `hazards`.

Runs.

* `_claim_run` (`coordinator.py:308-350`) checks the status it has loaded and writes
  without a condition.  A stop that commits in between is overwritten or leaves
  `active_run_id` on a run that does not execute (`spec/02` says otherwise, lines 48 and
  143).  `ActiveIsRunning` with stops allowed shows it.
* `create` refuses a run only while `active_run_id` is set, and that happens at the claim:
  two runs that are created before the first is claimed execute side by side
  (`spec/02:292` states one active run per session).  `OneLiveRun` with the direct way
  of ingress shows it.

Input and agency.

* `on_agency_run_committed` marks fires as consumed in a transaction that nobody
  commits (`coordinator.py:630-655`), so a fire stays submitted, merged or steered.
  `spec/11` (lines 43, 69, 121) counts on the status.
* `dispatch_pending` looks its session up before the lock, and may create a second
  live run beside one that was created while it waited.
* Input merged into a queued run that was loaded in the meantime is answered
  "merged" and never read.  Steering appended to `input_parts` before the load and to
  the handle as well is heard twice, once in each form.
* Steering that is forwarded after the output has passed its guard, and a direct steer
  after the last look of the gate, are lost.
* A 409 of `steer` comes after the input was committed to the row.

HITL.

* An answer is matched to memory by the number of the question (`hitl.py:29`): a late
  answer to one batch answers the same number of the next.
* Two answers at once: the row keeps the last, the agent gets the first (`rivals`).
* The agent goes on with an answer before it is committed (`hitl.py:183`, `run.py:358`).
  If that commit fails the row stays pending, and a later answer may contradict what the
  agent did (`unrecorded`).
* A run that is stopped while it waits waits for ever, as answers are refused then.
* A bridge message stored after its batch was consumed stays pending for ever
  (`skills/ya-claw-deploy/references/bridge/lark.md:116` promises that it is forwarded),
  and an error after the consumption loses what was consumed.

Async tasks.

* A child run that is stopped never wakes its parent; `spec/07:3` knows no such case.
* A wake that reaches a handle after its last look is lost.
* Two calls of `spawn_delegate` that overlap both pass `async_task.py:100`, and `create`
  looks at `active_run_id` only: the child session has two live runs, and the task names
  the one that was stored last, with the wake policy of either.  `LiveRunsAccounted`
  counts such runs (`stale`).
* A loss between the commits of a spawn leaves the task queued for ever.
* A cancel request during a spawn is undone by the last commit of the spawn.
* If a task is resumed before the hook of its last run, that end is not reported.

Memory.

* An extract of selected turns moves `last_extracted` over turns nobody extracted.
* A hook that loaded its row early puts back requests that were taken, or drops
  requests that were added, since the queue is one column.
* After a stop or a loss nobody takes the queue up until another memory run ends.
* The next memory run is committed before the agency is signalled and submitted after
  (`memory/lifecycle.py:289-293`).  If the signal raises, the run stays queued without a
  task: the memory session is busy and its queue stands still until the next start.

Schedules (`spec/08:228` calls recovery and repeated scans idempotent).

* A dedupe key that is taken rolls the session of the tick back, and the exception that
  follows ends the tick.  A schedule that stays due with its key taken makes every tick
  fail, and with it the schedules that come after.  Three ways lead there: a loss
  between the commit of a run and that of its fire; a one-time schedule that queues
  behind an active session; any edit of a completed one-time schedule, which is
  activated at its old time.
* A fire that is committed pending, with its run, is dispatched again by the next tick:
  after a loss, a skipped dispatch, or between the commits of a manual trigger.
* A one-time schedule is completed by a manual fire that is delivered late.

Pruning.

* In each tick the older half of a batch is spent on claims.  If that many have sandboxes
  that cannot be removed, a younger claim which a loss has left is never taken up, and its
  session refuses runs for ever (the comment at `session_prune.py:135` is about fresh
  candidates only).  `ClaimEnds` exempts it.
* Fresh candidates are taken from the fires, whether or not their sessions are there.  A
  batch full of sessions that are gone or protected hides the older ones behind it.
* `_prunable_run_ids` counts rows whose directories were removed already: after one batch
  of old rows nothing more is removed, as long as the rows stay.
* A run that succeeds between the two reads and the deletion may lose its directory
  (`missed`): its session had another head when it was read.  For it to be old enough it
  has to be created long before it ends.
* A run a client names by its id may have lost its directory.  `load_restore_point` then
  answers with no state, and the run silently starts from nothing (`named`).
* `update` of a schedule loads, checks and commits without the lock.

## Proofs

`ClawRunsProofs` proves, for any sets of sessions and runs, any ingress and fault
configuration and any number of stops and crashes, from `RunsAssumption` alone:

* `TypeCorrect`, `TypesHold`: the type invariant.  By itself it is not inductive:
  a commit of a task whose run has no session would leave the types.  `Owned` adds
  that runs, tasks and stop requests belong to created runs, which have a session.
* `DurableContinuation`, `SingleExecution`: `ContinuationIsDurable` and
  `ExecutedAtMostOnce`.  Both follow from `LifeInv`, the inductive invariant that
  ties the stage of a task to what the run has already done: a queued run has never
  been started, persisted or committed; a run that is being committed has its files;
  a run that is streaming has been started once and is not committed.  It is needed
  because the two properties say nothing of a run between its stages.
* `Implementation`: the step of each action is a `Persist`, a `Publish` or a stutter
  of `ContinuationLine`, under `TypeInv` and `LifeInv`.
* `ActiveRunIsRunning`, `NoRunIsAbandoned`, `TerminalWithoutStops` and `OneRunPerSession`:
  the invariants of `runs_quiet`, and that the end of a run is final.  The code does not
  promise them under stops, so the theorems are about every state in which no stop has been asked for (`stops = 0`), for any
  bound on stops; the crashes and faults are all there.  The invariant `QuietParts` ties the stage
  of a task to the status of its run and to its handle (`TasksAgree`), and says that only
  the commit of a claim makes the pointer of a session name a run, so an open transaction
  that will release the session has loaded the pointer that is in the table
  (`ActiveKnown`).  `OneRunPerSession` also excludes direct creation and raising hooks
  (`Undisturbed`): then a live run is the head of its session (`LiveIsHead`), and
  `TerminalWithoutStops` raising hooks, which finding 1 is about.

`ClawWorkflowProofs` proves, for any definition, policy, pool of runs and number of
cancel requests and losses:

* `TypesHold`: the type invariant, which is inductive here.
* `CompletionSound` and `OrderImplementation`: `CompletedMeansDone`, and that
  `ClawWorkflow` implements `DependencyOrder`.  Both follow from `IInv`.  Its core is
  `RowSound`: a row, in the table or as a tick remembers it, may be stale, but each of
  its columns speaks the truth about finished work, and finished work is never undone.
  So a commit that mixes columns of two rows leaves a sound one.  `RunsSound` adds that
  a run that may still start has never succeeded; without it, starting a node could
  by itself make a node done.
* `ConcurrencyHolds`: `ConcurrencyRespected`.  `CountInv` relates the live runs to the rows
  that name them.  All but one run for each loss are named by a row; while a tick works,
  the table may also lack the run the tick created last.  What the tick
  plans to start fits beside the live runs, although it counted them on rows that may be
  stale.
* `RetriesHold`: a node is given no more runs than its policy allows, and one more for
  each loss (`TriesCounted`).  A row has used its earlier attempts, and the present one once it names a
  run; what a node was given beyond that was lost before the commit that names it.

`ClawAgencyProofs` proves, for any runs, items, fires, callers, batch limit and faults,
about `ClawAgency` and the `ClawInput` it extends:

* `TypesHold`: the type invariant.
* `NothingLeftBehind`: `GateLeavesNothing`.  `Locked` says that a call from the look-up of the run
  to its answer, and a run between its first look and its commit, holds the session lock; `Gated` adds that from the gate's last look to the commit only direct steers
  come into the queue.
* `HandedOver`: `HandedOverIsStored`, by `Stored`: the step a call has reached tells what
  is in the row of its run already, and no step takes an item out of a row.
* `SubmittedHeard`: `SubmittedFireIsHeard`, by `Prompted`: while a call has created a run
  and not returned, the run is not dispatched, so its fires are marked before it loads.
* `NeverSteeredTwice`: `SteeredOnce`, by `Steering`.  `Carriage` says whose items a call
  carries, `NotYetGiven` that nothing is given to a run before it is created and no fire
  before it is claimed, and `GivenOnce`, which is the argument, why what a live run was
  given is not given to it again: a client does not send an item twice, a fire's row tells
  that it was handed over, or the call that gave it holds the lock and has not returned.

`ClawMemoryProofs` proves, for any slots, requests, thresholds and bounds: `TypesHold`,
`Serialized` (`OneLiveMemoryRun`), `LastGrows` (`LastExtractedGrows`),
`RequestsAreCarried` (`PendingHasCarrier`) and `PassedIsCovered` (`LastIsCovered`).
The argument describes an operation between its load and its commit as a path from
what it began with to what it leaves (`Transaction`), shows that each step of the path
keeps the runs serialized (`Follows`), and reads the invariants off the two ends.
`HookOrder` says that the hooks of completed runs come one at a time, so what such a hook
remembers of the last extracted turn is what it finds; `HasCarrier` that a hook that
remembers an empty queue is not the only one left to take a request (a run that a raising
signal left queued counts as a carrier, which the next start submits); `Coverage` that each
extract in the queue, in a run or in a caller's memory starts where coverage has reached.

`ClawAsyncTasksProofs` proves, for any number of runs, cancel requests and faults:
`TypesHold`, `ChildRunsAccounted` (`LiveRunsAccounted`), `EndReported` (`EndIsAnnounced`),
`ReportedStaysSettled` and `ActiveTaskHasRun`, for any number of overlapping calls.
`Linked` says that what the task names exists, and that a run a call has created and not
stored is its own and has not begun.  `Counted` is the argument for
`ChildRunsAccounted`: it counts the live runs and those that are not stored yet (`Held`);
there is one more than causes only while the task's run is live or a call has created
one, and a call that no other has overtaken has seen that neither is so.  Without the
second half the step that creates a run could not be told from a second one.  `Agreed`
says that the wake policy of the task is that of the call whose run it names, unless an
overtaken call has come between, for which `EndReported` needs it.
`HookedEnded` says that a hook is only called for a run that ended, which holds through
stops and losses, so a task whose end was reported reads ended until it is resumed.
`ActiveTaskHasRun` is the safety half of `EveryTaskEnds`: as long as nothing was
stopped or lost, an active task names its run, or a call of `spawn_delegate` is on its
way to give it one; no refusal leaves it without.

`ClawHitlProofs` proves, for any questions, batches, clients, inputs and faults:
`TypesHold`, `NoBatchAbandoned` (`PendingIsAwaited`), `AnswersAgree` (`RecordedAnswerIsUsed`),
`AnswersAreFinal`, `WaitHasWayOut`, `InputsSent` (`ConsumedIsSent`) and `NeverSentTwice`.
For `NoBatchAbandoned`, a row that is pending belongs to the last batch, and the executor has
not passed `ExitPending`.  For `AnswersAgree`, `AnswerInv` relates the copies of an
answer, in the row, in the memory, in the hands of the agent and in calls that are open.
Outside `rivals` and `unrecorded` the memory and the agent have what the row records, or,
while a call has written the row and not committed it (`Recorder`), what that call says;
and an open call is about the current batch, alone, and right about whether the row is
still pending (`CallIsAlone`).
From the same invariant, outside `rivals` no step overwrites a recorded answer
(`AnswersAreFinal`).  `WaitHasWayOut` is the safety half of `EveryWaitEnds`: a question the
executor waits for has a pending row in a pending batch (`UnresolvedIsOpen`).
`InputsSent` relates three sequences: what arrived, what a batch takes out of it in the order
of arrival (`BatchOrder`), and what is on the bus (`SentInOrder`).  `NeverSentTwice` adds that
an input arrives once (`Distinct`).  The model takes the inputs of a batch out of the arrivals by a recursive function
(`Among`); as no induction theorem of the library can be used here, its lemmas take
the least length at which they fail, from the well-foundedness of the naturals.

`ClawPruneProofs` proves, for any pools of sessions and runs, any broken sandboxes, batch
size, number of kept runs and number of losses: `TypesHold`, `ReferencesKept`
(`ReferencesHold`) and `ContinuationsKept` (`ContinuationKept`), and from the invariant of `ReferencesKept` the
three theorems `ClaimsAreClosed`, `DeletedTogether` and `NoDirectoryIsLeft`.

* For `ReferencesKept`, `References` adds to the types and `TablesHold` what a deletion has
  to know.  A session and its ancestors are its `Line`, and whatever a session or one of
  its runs names belongs to the line.  An ancestor that is there has a child that is
  there.  A session that is claimed is `Closed`: no live run, no schedule and no child.
  So who names a run of it is in the session itself, and is deleted with it.  Neither
  half is inductive alone: the claim is checked at one time and used later, and between
  the two only the lock of `Referable` keeps it closed.
* For `ContinuationsKept`, `Reading` says at each stage of the loop what it has read.  Until the runs
  are read, each continuation is among the heads that were read, is named by a run of a
  session that was read, or is `named` or `missed`; then what is selected for deletion has
  no continuation but those two kinds.
* A session stays closed from its claim to its deletion or release (`ClaimsAreClosed`).  Its row
  goes in one step with all its runs, and a run only goes in such a step
  (`DeletedTogether`).  Unless the process is lost, a directory has its row, or the loop is
  about to remove it (`NoDirectoryIsLeft`).

`ClawSchedulesProofs` proves, for any schedules, policies of an active session, manual
triggers, times and bounds: `TypesHold`, `OneRunPerTime` (`FiredOnce`) and
`NoTimeIsPassedOver`.  Neither the
tables nor the session of a tick alone carry the argument, since a commit merges them,
so the invariant speaks of the database as it would read once the session is committed
(`SavedRows`, `SavedFires`).  There and in the session a schedule has moved beyond every
time that has a fire (`KeysPassed`); a time with a run has an outcome, so no tick takes
its fire for pending (`RunsSettled`, `NotYetRun`).  `Dispatched` is what a dispatch leaves,
whether it commits in its middle or not.  It also follows (`FailKeeps`) that the dedupe
key refuses nothing unless `upset`.
`NoTimeIsPassedOver` is the safety half of `DueFires`: a schedule that nobody edits leaves a
time only in a commit after which the fire of that time is in the table.  Its
invariant `Moves` says that only the session of a tick moves the times of schedules that are not edited, and
that in the database as it would read, a time the schedule has left has its fire; a
one-time schedule keeps its time, and leaves its fire pending only where `upset`.

Only model-checked: liveness (`EveryRunSettles`, `WorkflowEnds`, `QueueDrains`,
`EveryWaitEnds`, `EveryTaskEnds`, `DueFires`, `ClaimEnds`), since no prover here handles
`ENABLED`.  Every invariant and every action property that a passing run checks is a
theorem, those of `runs_quiet` under the stated restriction.

## Plan

Done: `ClawRuns`, `ClawWorkflow`, `ClawInput` with `ClawAgency`, `ClawHitl`,
`ClawAsyncTasks`, `ClawMemory`, `ClawSchedules` and `ClawPrune`.  Left, in order of importance:

1. `ClawStream`: event ids, replay, subscribers, cleanup; a subscriber sees every event
   once, in order, and then the end.
2. The bridge: deduplication of chat events against the runs they make.
3. The heartbeat, whose fire is lost with the process and never looked at again.
4. The message bus (a bounded log with a cursor for each subscriber) and the task
   graph of the SDK, as pure modules; the background process table.
5. Compositions: `ClawAsyncTasks` and `ClawMemory` over the runs of `ClawRuns` in place
   of their one-step runs.

Theorems left: what remains of the safety halves of liveness, such as that the loop
always comes back to a claim it could not finish (`ClaimEnds`); abstract specifications for
the memory, the HITL wait and the async tasks, as `ContinuationLine` is one for the
runs; that `ClawRuns`, undisturbed, implements a session that executes one run after
another.

## Not modelled

The repository has about 97,000 lines, of which `ya-claw`'s coordination is a small
part; the models cover the code where its own state changes under concurrency and
failure.  What stays out:

* The terminal client, the web and desktop applications, renderers, stream formats,
  presets, containers and file tools hold no state the service relies on, or are
  external I/O.  They are most of the lines.
* The agent loop of the SDK depends on models and on pydantic-ai; the service sees only
  how its stream ends and what is on the bus.
* HTTP routes and the CLI are adapters; listings and reads change nothing.
* Within the modelled components: contents of prompts and input parts, cards of chat
  bridges, cron arithmetic, templates, metadata copies of rows, notifications.

`PROJECT.json` gives the reason for every component.
