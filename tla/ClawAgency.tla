---------------------------- MODULE ClawAgency ----------------------------
(***************************************************************************)
(* The agency of ya-claw: fires are rows of agency_fires that wait until a *)
(* dispatcher (the loop, or the request that created a fire) hands them to *)
(* the one agency session through submit_input and marks them.             *)
(*                                                                         *)
(* The input of a fire goes through ClawInput, which this module extends.  *)
(* Fires are numbers in the order in which they are loaded, by priority    *)
(* and creation.                                                           *)
(***************************************************************************)
EXTENDS ClawInput

CONSTANTS
    Fires,          \* the fires, each also an item of ClawInput
    Heartbeats,     \* those of the timer
    Dispatchers,    \* who calls dispatch_pending
    BatchLimit      \* agency_fire_batch_limit

ASSUME AgencyAssumption ==
    /\ IsFiniteSet(Fires)
    /\ Fires \subseteq Items /\ Fires \subseteq Nat
    /\ Fires \intersect (Submits \union Steers) = {}
    /\ Heartbeats \subseteq Fires
    /\ Dispatchers \subseteq Callers
    /\ BatchLimit \in Nat \ {0}

VARIABLES
    fire,       \* agency_fires.status
    fireRun,    \* agency_fires.run_id
    refusals,   \* history: calls answered with 409
    timer       \* where dispatch_due stands, and the pointer it has loaded

fireVars == <<fire, fireRun, refusals>>
vars == <<inputVars, fireVars, timer>>

FireStatus == {"absent", "pending", "failed"} \union Delivery
Pending == {f \in Fires : fire[f] = "pending"}

Timer == [step : {"idle", "loaded", "due"}, saw : RunId]
NoTimer == [step |-> "idle", saw |-> None]

Init ==
    /\ InputInit
    /\ timer = NoTimer
    /\ fire = [f \in Fires |-> "absent"]
    /\ fireRun = [f \in Fires |-> None]
    /\ refusals = 0
-----------------------------------------------------------------------------
\* create_fire up to its commit; the unique dedupe key lets a fire in once.
CreateFire(f) ==
    /\ fire[f] = "absent"
    /\ fire' = [fire EXCEPT ![f] = "pending"]
    /\ UNCHANGED <<inputVars, fireRun, refusals>>

\* dispatch_due: the timer fires when nothing waits and active_run_id names no
\* live run; a queued run is only named by head_run_id.  The pointer is the one of
\* the row it has loaded, and what it has checked may change before its fire is
\* committed.
HeartbeatLook ==
    /\ timer.step = "idle"
    /\ \E f \in Heartbeats : fire[f] = "absent"
    /\ timer' = [step |-> "loaded", saw |-> active]
    /\ UNCHANGED <<inputVars, fireVars>>

HeartbeatCheck ==
    /\ timer.step = "loaded"
    /\ timer' = IF Pending = {} /\ ~IsLive(timer.saw)
                THEN [NoTimer EXCEPT !.step = "due"] ELSE NoTimer
    /\ UNCHANGED <<inputVars, fireVars>>

Heartbeat(f) ==
    /\ timer.step = "due"
    /\ CreateFire(f)
    /\ timer' = NoTimer

\* dispatch_pending loads the session row before it waits for the lock.
LookUpSession(d) ==
    /\ req[d].step = "idle"
    /\ req' = [req EXCEPT ![d] = [NoRequest EXCEPT !.step = "looked", !.seen = Links]]
    /\ UNCHANGED <<tableVars, execVars, pipeVars, gotVars, lock, inputBounds, fireVars>>

\* _load_pending_fires: the first BatchLimit by priority.
Batch == {f \in Pending : Cardinality({g \in Pending : g < f}) < BatchLimit}

DispatchPending(d) ==
    /\ req[d].step = "looked"
    /\ \/ /\ Pending # {}
          /\ Locate(d, Batch, req[d].seen)
          /\ UNCHANGED inputBounds
       \/ /\ Pending = {}
          /\ LockFree
          /\ ReleaseLock(d)
    /\ UNCHANGED fireVars

\* The rows of the batch after submit_input has answered.
MarkedAsSubmitted(d) ==             \* faulty: merged fires count as submitted
    [f \in Fires |-> IF f \in req[d].items THEN "submitted" ELSE fire[f]]
MarkedAfterRelease(d) ==            \* faulty: the request is already forgotten
    [f \in Fires |-> IF f \in req[d].items THEN NoRequest.step ELSE fire[f]]
Marked(d) == [f \in Fires |-> IF f \in req[d].items THEN req[d].step ELSE fire[f]]

MarkFires(d) ==
    /\ Return(d)
    /\ fire' = Marked(d)
    /\ fireRun' = [f \in Fires |-> IF f \in req[d].items THEN req[d].run ELSE fireRun[f]]
    /\ UNCHANGED refusals

RefuseFires(d) ==
    /\ Refuse(d)
    /\ refusals' = refusals + 1
    /\ UNCHANGED <<fire, fireRun>>

(***************************************************************************)
(* The hooks of a run.  on_agency_run_terminal fails the fires of a failed *)
(* run.  on_agency_run_committed marks the fires of a completed run as     *)
(* consumed, but in a transaction of _commit_successful_run that nobody    *)
(* commits any more, so the rows keep their status.                        *)
(***************************************************************************)
Hooks(r) ==
    /\ Posted(r)
    /\ fire' = IF status[r] = "failed"
               THEN [f \in Fires |-> IF fireRun[f] = r /\ fire[f] \in Delivery
                                     THEN "failed" ELSE fire[f]]
               ELSE fire
    /\ UNCHANGED <<fireRun, refusals>>
-----------------------------------------------------------------------------
DispatcherStep(d) ==
    LookUpSession(d) \/ DispatchPending(d) \/ MarkFires(d) \/ RefuseFires(d)

TimerStep == HeartbeatLook \/ HeartbeatCheck \/ \E f \in Heartbeats : Heartbeat(f)

AgencyStep ==
    \/ \E f \in Fires \ Heartbeats : CreateFire(f)
    \/ \E d \in Dispatchers : DispatcherStep(d)
    \/ \E r \in Runs : Hooks(r)

SessionStep ==
    /\ \/ \E c \in Callers : Delivers(c)
       \/ \E c \in Callers \ Dispatchers :
            Return(c) \/ Refuse(c) \/ \E i \in Submits : SubmitInput(c, i)
       \/ \E r \in Runs, i \in Steers : SteerRun(r, i)
       \/ \E r \in Runs : Dispatch(r) \/ Executes(r) \/ Stop(r)
    /\ UNCHANGED fireVars

Restart == CrashRestart /\ timer' = NoTimer /\ UNCHANGED fireVars

Next ==
    \/ TimerStep \/ Restart
    \/ (AgencyStep \/ SessionStep) /\ UNCHANGED timer

Spec == Init /\ [][Next]_vars

-----------------------------------------------------------------------------
TypeOK ==
    /\ InputTypeOK
    /\ fire \in [Fires -> FireStatus]
    /\ fireRun \in [Fires -> RunId]
    /\ refusals \in Nat
    /\ timer \in Timer

(***************************************************************************)
(* A fire that counts as handed over is in the input of its run, whatever  *)
(* was lost in between: the rows are marked after the input is committed.  *)
(***************************************************************************)
HandedOverIsStored ==
    \A f \in Fires :
        fireRun[f] # None => f \in parts[fireRun[f]] /\ fire[f] \in Delivery \union {"failed"}

\* A completed run that was created for a fire has had the fire in its prompt.
SubmittedFireIsHeard ==
    \A f \in Fires :
        fire[f] = "submitted" /\ status[fireRun[f]] = "completed"
            => f \in loaded[fireRun[f]]
=============================================================================
