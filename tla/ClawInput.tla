----------------------------- MODULE ClawInput -----------------------------
(***************************************************************************)
(* The way of an input into the runs of one ya-claw session: submit_input  *)
(* creates a run, merges into a queued one or steers a running one; steer  *)
(* writes to the handle directly; the run takes its input_parts when it is *)
(* executed, its signal task forwards what is steered to the message bus   *)
(* of the agent, and the terminal gate looks for input once more before    *)
(* the run is committed.                                                   *)
(*                                                                         *)
(* submit_input, the terminal gate and the commit hold the session lock;   *)
(* the claim, the first transaction of execute, steer, stop and failure do *)
(* not.  A request that holds the lock is state of its own (req), since it *)
(* waits for the database between its steps.  The races of the claim, the  *)
(* stop and the commit over the rows themselves are those of ClawRuns and  *)
(* are single steps here.                                                  *)
(*                                                                         *)
(* Definitions marked "faulty" are used by no action.                      *)
(***************************************************************************)
EXTENDS Integers, FiniteSets

CONSTANTS
    Runs,        \* the run ids that create may hand out
    Items,       \* inputs, each a batch of input parts
    Submits,     \* items clients send through submit_input
    Steers,      \* items clients send through steer
    Files,       \* items with a FilePart: mapping them waits for a read
    Callers,     \* who may call submit_input
    None,        \* SQL NULL
    MaxFaults    \* bound on stops and losses of the process

ASSUME InputAssumption ==
    /\ Submits \union Steers \union Files \subseteq Items
    /\ None \notin Runs \union Callers
    /\ Runs \intersect Callers = {}
    /\ MaxFaults \in Nat

VARIABLES
    \* tables: runs.status, runs.input_parts, sessions.active_run_id, head_run_id
    status, parts, active, head,
    \* where the executor of a run stands, and whether its handle is registered
    stage, handle,
    \* handle.steering_inputs, the batch the signal task maps, the message bus
    queue, taken, bus,
    \* history: what the agent got with its prompt, and what it got steered
    loaded, heard,
    \* session_lock and the calls of submit_input under it
    lock, req,
    \* bounds: items that clients have sent, stops and losses
    sent, faults

tableVars == <<status, parts, active, head>>
execVars == <<stage, handle>>
pipeVars == <<queue, taken, bus>>
gotVars == <<loaded, heard>>
callVars == <<lock, req>>
inputBounds == <<sent, faults>>
inputVars == <<tableVars, execVars, pipeVars, gotVars, callVars, inputBounds>>
-----------------------------------------------------------------------------
RunId == Runs \union {None}
Live == {"queued", "running"}
Status == {"absent", "completed", "failed", "cancelled"} \union Live

(***************************************************************************)
(* Stages: created (not dispatched), submitted, claimed (input not loaded),*)
(* streaming, finishing (the output passed its guard), ended (the stream is*)
(* over), draining (the gate waits for background work), committing,       *)
(* posting (the hooks), done.                                              *)
(***************************************************************************)
Stage == {"none", "created", "submitted", "claimed", "streaming", "finishing",
          "ended", "draining", "committing", "posting", "done"}

\* What submit_input answers, while the lock is still held.
Delivery == {"submitted", "merged", "steered"}
Step == {"idle", "looked", "create", "merge", "append", "steer"} \union Delivery
Request == [step : Step, run : RunId, items : SUBSET Items,
            seen : [active : RunId, head : RunId]]

Links == [active |-> active, head |-> head]
NoLinks == [active |-> None, head |-> None]
NoRequest == [step |-> "idle", run |-> None, items |-> {}, seen |-> NoLinks]

IsLive(r) == r \in Runs /\ status[r] \in Live

\* _active_run_record, for the links of a loaded session row.
ActiveRunRecord(links) ==
    IF IsLive(links.active) THEN links.active
    ELSE IF IsLive(links.head) THEN links.head ELSE None

LockFree == lock = None

InputInit ==
    /\ status = [r \in Runs |-> "absent"]
    /\ parts = [r \in Runs |-> {}]
    /\ active = None /\ head = None
    /\ stage = [r \in Runs |-> "none"]
    /\ handle = [r \in Runs |-> FALSE]
    /\ queue = [r \in Runs |-> {}]
    /\ taken = [r \in Runs |-> {}]
    /\ bus = [r \in Runs |-> {}]
    /\ loaded = [r \in Runs |-> {}]
    /\ heard = [r \in Runs |-> {}]
    /\ lock = None
    /\ req = [c \in Callers |-> NoRequest]
    /\ sent = {} /\ faults = 0
-----------------------------------------------------------------------------
(***************************************************************************)
(* submit_input_locked, in its steps                                       *)
(***************************************************************************)

\* What is done with the items, by the status of the run that was found.
DeliveryStep(r) ==
    IF r = None THEN "create" ELSE IF status[r] = "queued" THEN "merge" ELSE "append"

\* The lock is taken and the run looked up from the session row the caller has.
Locate(c, items, links) ==
    /\ LockFree
    /\ lock' = c
    /\ LET r == ActiveRunRecord(links) IN
         req' = [req EXCEPT ![c] = [step |-> DeliveryStep(r), run |-> r,
                                    items |-> items, seen |-> NoLinks]]
    /\ UNCHANGED <<tableVars, execVars, pipeVars, gotVars>>

SubmitInput(c, i) ==
    /\ req[c].step = "idle"
    /\ i \in Submits \ sent
    /\ sent' = sent \union {i}
    /\ Locate(c, {i}, Links)
    /\ UNCHANGED faults

Proceed(c, step, r) == req' = [req EXCEPT ![c].step = step, ![c].run = r]

\* RunController.create: 409 if active_run_id of the fresh row is set.
CreateRun(c, r) ==
    /\ req[c].step = "create"
    /\ active = None
    /\ status[r] = "absent"
    /\ status' = [status EXCEPT ![r] = "queued"]
    /\ parts' = [parts EXCEPT ![r] = req[c].items]
    /\ head' = r
    /\ stage' = [stage EXCEPT ![r] = "created"]
    /\ handle' = [handle EXCEPT ![r] = TRUE]
    /\ Proceed(c, "submitted", r)
    /\ UNCHANGED <<active, pipeVars, gotVars, lock, inputBounds>>

\* The items are appended to input_parts, of a run that may have been claimed
\* and loaded since it was looked up.
WithoutItems(r, items) == parts[r]      \* faulty: the row is not written
WithItems(r, items) == parts[r] \union items

MergeInput(c) ==
    /\ req[c].step \in {"merge", "append"}
    /\ parts' = [parts EXCEPT ![req[c].run] = WithItems(req[c].run, req[c].items)]
    /\ Proceed(c, IF req[c].step = "merge" THEN "merged" ELSE "steer", req[c].run)
    /\ UNCHANGED <<status, active, head, execVars, pipeVars, gotVars, lock, inputBounds>>

\* record_steering, without an await since the row was refreshed.
Steerable(r) == status[r] \in Live /\ handle[r]
RecordSteering(r, items) ==
    /\ Steerable(r)
    /\ queue' = [queue EXCEPT ![r] = @ \union items]
    /\ UNCHANGED <<tableVars, execVars, taken, bus, gotVars>>

SteerInput(c) ==
    /\ req[c].step = "steer"
    /\ RecordSteering(req[c].run, req[c].items)
    /\ Proceed(c, "steered", req[c].run)
    /\ UNCHANGED <<lock, inputBounds>>

\* The call ends with or without an answer and the lock is released.
ReleaseLock(c) ==
    /\ lock' = None
    /\ req' = [req EXCEPT ![c] = NoRequest]
    /\ UNCHANGED <<tableVars, execVars, pipeVars, gotVars, inputBounds>>

Return(c) == req[c].step \in Delivery /\ ReleaseLock(c)

\* 409, by create or by steer: what was appended to the row stays there.
Refuse(c) ==
    /\ \/ req[c].step = "create" /\ active # None
       \/ req[c].step = "steer" /\ ~Steerable(req[c].run)
    /\ ReleaseLock(c)

\* POST steer: no lock, and no copy in the row.
SteerRun(r, i) ==
    /\ i \in Steers \ sent
    /\ sent' = sent \union {i}
    /\ RecordSteering(r, {i})
    /\ UNCHANGED <<callVars, faults>>

Dispatch(r) ==
    /\ stage[r] = "created"
    /\ \A c \in Callers : req[c].run # r
    /\ stage' = [stage EXCEPT ![r] = "submitted"]
    /\ UNCHANGED <<tableVars, handle, pipeVars, gotVars, callVars, inputBounds>>
-----------------------------------------------------------------------------
(***************************************************************************)
(* The executor of a run                                                   *)
(***************************************************************************)

Goto(r, s) == stage' = [stage EXCEPT ![r] = s]
Unlink(r) == active' = IF active = r THEN None ELSE active

\* execute leaves: the handle and the context of the agent go with it.
LeavesExecute(r) ==
    /\ Goto(r, "done")
    /\ handle' = [handle EXCEPT ![r] = FALSE]

Claim(r) ==
    /\ stage[r] = "submitted"
    /\ \/ /\ status[r] = "queued"
          /\ status' = [status EXCEPT ![r] = "running"]
          /\ active' = r /\ head' = r
          /\ handle' = [handle EXCEPT ![r] = TRUE]
          /\ Goto(r, "claimed")
       \/ /\ status[r] # "queued"
          /\ LeavesExecute(r)
          /\ UNCHANGED <<status, active, head>>
    /\ UNCHANGED <<parts, pipeVars, gotVars, callVars, inputBounds>>

\* The row is loaded once; its input_parts become the first prompt.
ExecuteLoad(r) ==
    /\ stage[r] = "claimed"
    /\ \/ /\ status[r] = "running"
          /\ loaded' = [loaded EXCEPT ![r] = parts[r]]
          /\ Goto(r, "streaming")
          /\ UNCHANGED handle
       \/ /\ status[r] # "running"
          /\ LeavesExecute(r)
          /\ UNCHANGED loaded
    /\ UNCHANGED <<tableVars, pipeVars, heard, callVars, inputBounds>>

Streams(r) == stage[r] \in {"streaming", "finishing"}

\* consume_steering_inputs returns the batches and clears the list.
KeptInHandle(r) == queue            \* faulty: the list is not cleared
Consumed(r) == [queue EXCEPT ![r] = {}]

\* _forward_runtime_signals: send_message follows at once, unless a file part
\* has to be read first.
ForwardSteering(r) ==
    /\ Streams(r) /\ status[r] # "cancelled"
    /\ taken[r] = {} /\ queue[r] # {}
    /\ queue' = Consumed(r)
    /\ IF queue[r] \intersect Files = {}
       THEN bus' = [bus EXCEPT ![r] = @ \union queue[r]] /\ UNCHANGED taken
       ELSE taken' = [taken EXCEPT ![r] = queue[r]] /\ UNCHANGED bus
    /\ UNCHANGED <<tableVars, execVars, gotVars, callVars, inputBounds>>

ForwardMapped(r) ==
    /\ Streams(r)
    /\ taken[r] # {}
    /\ bus' = [bus EXCEPT ![r] = @ \union taken[r]]
    /\ taken' = [taken EXCEPT ![r] = {}]
    /\ UNCHANGED <<tableVars, execVars, queue, gotVars, callVars, inputBounds>>

\* inject_bus_messages puts what is pending into the next model request.
ModelRequest(r) ==
    /\ stage[r] = "streaming"
    /\ bus[r] # {}
    /\ heard' = [heard EXCEPT ![r] = @ \union bus[r]]
    /\ bus' = [bus EXCEPT ![r] = {}]
    /\ UNCHANGED <<tableVars, execVars, queue, taken, loaded, callVars, inputBounds>>

\* message_bus_guard lets an output pass only when nothing is pending.
FinishOutput(r) ==
    /\ stage[r] = "streaming"
    /\ bus[r] = {}
    /\ Goto(r, "finishing")
    /\ UNCHANGED <<tableVars, handle, pipeVars, gotVars, callVars, inputBounds>>

\* The stream ends; the signal task is cancelled with the batch it maps.
StreamEnds(r) ==
    /\ stage[r] = "finishing"
    /\ taken' = [taken EXCEPT ![r] = {}]
    /\ Goto(r, "ended")
    /\ UNCHANGED <<tableVars, handle, queue, bus, gotVars, callVars, inputBounds>>

\* A stop reaches the signal task.
StreamInterrupted(r) ==
    /\ Streams(r)
    /\ status[r] = "cancelled"
    /\ taken' = [taken EXCEPT ![r] = {}]
    /\ LeavesExecute(r)
    /\ UNCHANGED <<tableVars, queue, bus, gotVars, callVars, inputBounds>>

\* Steering found by the gate is the prompt of another stream.
Continues(r) ==
    /\ queue[r] # {}
    /\ heard' = [heard EXCEPT ![r] = @ \union queue[r]]
    /\ queue' = Consumed(r)
    /\ Goto(r, "streaming")
    /\ lock' = None
    /\ UNCHANGED <<tableVars, handle, taken, bus, loaded, req, inputBounds>>

\* The first look of the terminal gate; then the background work is drained.
GateUnlocked == TRUE                \* faulty: the gate does not wait for the lock
GateMayOpen == LockFree

TerminalGate(r) ==
    /\ stage[r] = "ended"
    /\ GateMayOpen
    /\ \/ Continues(r)
       \/ /\ queue[r] = {}
          /\ lock' = r
          /\ Goto(r, "draining")
          /\ UNCHANGED <<tableVars, handle, pipeVars, gotVars, req, inputBounds>>

\* The second look, after up to ten seconds.
GateLooksAgain(r) ==
    /\ stage[r] = "draining"
    /\ \/ Continues(r)
       \/ /\ queue[r] = {}
          /\ Goto(r, "committing")
          /\ UNCHANGED <<tableVars, handle, pipeVars, gotVars, callVars, inputBounds>>

\* _commit_successful_run.
Commit(r) ==
    /\ stage[r] = "committing"
    /\ \/ /\ status[r] # "cancelled"
          /\ status' = [status EXCEPT ![r] = "completed"]
          /\ active' = None /\ head' = r
          /\ Goto(r, "posting")
          /\ UNCHANGED <<handle, lock>>
       \/ /\ status[r] = "cancelled"
          /\ LeavesExecute(r)
          /\ lock' = None
          /\ UNCHANGED <<status, active, head>>
    /\ UNCHANGED <<parts, pipeVars, gotVars, req, inputBounds>>

\* An exception before the gate; the except block takes no lock.
Fail(r) ==
    /\ stage[r] = "claimed" \/ Streams(r)
    /\ status[r] = "running"
    /\ status' = [status EXCEPT ![r] = "failed"]
    /\ Unlink(r) /\ head' = r
    /\ taken' = [taken EXCEPT ![r] = {}]
    /\ Goto(r, "posting")
    /\ UNCHANGED <<parts, handle, queue, bus, gotVars, callVars, inputBounds>>

\* The hooks of a completed or failed run have returned.
Posted(r) ==
    /\ stage[r] = "posting"
    /\ LeavesExecute(r)
    /\ lock' = IF lock = r THEN None ELSE lock
    /\ UNCHANGED <<tableVars, pipeVars, gotVars, req, inputBounds>>

\* cancel and interrupt.
Stop(r) ==
    /\ faults < MaxFaults
    /\ faults' = faults + 1
    /\ status[r] \in Live
    /\ status' = [status EXCEPT ![r] = "cancelled"]
    /\ Unlink(r) /\ head' = r
    /\ UNCHANGED <<parts, execVars, pipeVars, gotVars, callVars, sent>>

\* The process is lost and starts again: what was running is interrupted, what
\* was queued is submitted; handles, buses, locks and calls are gone.
CrashRestart ==
    /\ faults < MaxFaults
    /\ faults' = faults + 1
    /\ status' = [r \in Runs |-> IF status[r] = "running" THEN "cancelled" ELSE status[r]]
    /\ active' = IF IsLive(active) /\ status[active] = "running" THEN None ELSE active
    /\ LET orphans == {r \in Runs : status[r] = "running"} IN
         IF orphans = {} THEN UNCHANGED head ELSE head' \in orphans
    /\ stage' = [r \in Runs |-> IF status[r] = "absent" THEN "none"
                                ELSE IF status[r] = "queued" THEN "submitted" ELSE "done"]
    /\ handle' = [r \in Runs |-> FALSE]
    /\ queue' = [r \in Runs |-> {}]
    /\ taken' = [r \in Runs |-> {}]
    /\ bus' = [r \in Runs |-> {}]
    /\ lock' = None
    /\ req' = [c \in Callers |-> NoRequest]
    /\ UNCHANGED <<parts, gotVars, sent>>
-----------------------------------------------------------------------------
Executes(r) ==
    \/ Claim(r) \/ ExecuteLoad(r)
    \/ ForwardSteering(r) \/ ForwardMapped(r) \/ ModelRequest(r) \/ FinishOutput(r)
    \/ StreamEnds(r) \/ StreamInterrupted(r)
    \/ TerminalGate(r) \/ GateLooksAgain(r) \/ Commit(r) \/ Fail(r)

\* The part of the calls that submit_input itself makes, up to its answer.
Delivers(c) ==
    \/ \E r \in Runs : CreateRun(c, r)
    \/ MergeInput(c)
    \/ SteerInput(c)

InputNext ==
    \/ \E c \in Callers :
         Delivers(c) \/ Return(c) \/ Refuse(c) \/ \E i \in Submits : SubmitInput(c, i)
    \/ \E r \in Runs, i \in Steers : SteerRun(r, i)
    \/ \E r \in Runs : Dispatch(r) \/ Executes(r) \/ Posted(r) \/ Stop(r)
    \/ CrashRestart

InputSpec == InputInit /\ [][InputNext]_inputVars
-----------------------------------------------------------------------------
InputTypeOK ==
    /\ status \in [Runs -> Status]
    /\ parts \in [Runs -> SUBSET Items]
    /\ active \in RunId /\ head \in RunId
    /\ stage \in [Runs -> Stage]
    /\ handle \in [Runs -> BOOLEAN]
    /\ queue \in [Runs -> SUBSET Items]
    /\ taken \in [Runs -> SUBSET Items]
    /\ bus \in [Runs -> SUBSET Items]
    /\ loaded \in [Runs -> SUBSET Items]
    /\ heard \in [Runs -> SUBSET Items]
    /\ lock \in RunId \union Callers
    /\ req \in [Callers -> Request]
    /\ sent \in SUBSET Items
    /\ faults \in Nat

(***************************************************************************)
(* An input that was steered into a run is in one place at a time: the     *)
(* list of the handle, the batch being mapped, the bus, or a request to    *)
(* the model.  So steering never reaches the agent twice.                  *)
(***************************************************************************)
SteeredOnce ==
    \A r \in Runs :
        /\ queue[r] \intersect (taken[r] \union bus[r] \union heard[r]) = {}
        /\ taken[r] \intersect (bus[r] \union heard[r]) = {}
        /\ bus[r] \intersect heard[r] = {}

(***************************************************************************)
(* The terminal gate: once a run is completed, nothing that came through   *)
(* submit_input is left in its handle.  Only a direct steer, which takes   *)
(* no lock, may come between the last look of the gate and the commit.     *)
(***************************************************************************)
GateLeavesNothing ==
    \A r \in Runs : status[r] = "completed" => queue[r] \subseteq Steers
=============================================================================
