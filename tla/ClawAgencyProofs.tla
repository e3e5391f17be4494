-------------------------- MODULE ClawAgencyProofs --------------------------
(***************************************************************************)
(* Proofs about ClawAgency, and so about ClawInput, for every set of runs, *)
(* inputs, fires and callers, every batch limit and any number of stops    *)
(* and losses of the process.                                              *)
(***************************************************************************)
EXTENDS ClawAgency, TLAPS

-----------------------------------------------------------------------------
\* What a step can be, the timer left aside.
LEMMA Kinds ==
    ASSUME [Next]_vars
    PROVE  \/ \E f \in Fires : CreateFire(f)
           \/ \E d \in Dispatchers : DispatcherStep(d)
           \/ \E r \in Runs : Hooks(r)
           \/ SessionStep
           \/ CrashRestart /\ UNCHANGED fireVars
           \/ UNCHANGED <<inputVars, fireVars>>
  BY AgencyAssumption
     DEF Next, AgencyStep, TimerStep, HeartbeatLook, HeartbeatCheck, Heartbeat, Restart, vars

(***************************************************************************)
(* Type correctness                                                        *)
(***************************************************************************)
LinksType == [active : RunId, head : RunId]

LEMMA NoRequestType == NoRequest \in Request /\ NoRequest.step = "idle" /\ NoRequest.items = {}
<1>1. NoLinks \in LinksType
  BY DEF NoLinks, LinksType, RunId
<1> QED BY <1>1 DEF NoRequest, Request, Step, RunId, LinksType

\* The run that is found is live, so it exists.
LEMMA FoundType ==
    ASSUME InputTypeOK, NEW links \in LinksType
    PROVE  /\ ActiveRunRecord(links) \in RunId
           /\ ActiveRunRecord(links) # None => ActiveRunRecord(links) \in Runs
                                               /\ status[ActiveRunRecord(links)] \in Live
  BY DEF ActiveRunRecord, IsLive, RunId, LinksType

LEMMA LocateType ==
    ASSUME InputTypeOK, NEW c \in Callers, NEW items \in SUBSET Items,
           NEW links \in LinksType, Locate(c, items, links)
    PROVE  lock' \in RunId \union Callers /\ req' \in [Callers -> Request]
<1> DEFINE r == ActiveRunRecord(links)
           q == [step |-> DeliveryStep(r), run |-> r, items |-> items, seen |-> NoLinks]
<1>1. r \in RunId
  BY FoundType
<1>2. DeliveryStep(r) \in Step
  BY DEF DeliveryStep, Step
<1>3. NoLinks \in LinksType
  BY DEF NoLinks, LinksType, RunId
<1>4. req' = [req EXCEPT ![c] = q] /\ lock' = c
  BY DEF Locate
<1> HIDE DEF r
<1>5. q \in Request
  BY <1>1, <1>2, <1>3 DEF Request, LinksType
<1> QED BY <1>4, <1>5 DEF InputTypeOK

LEMMA ProceedType ==
    ASSUME InputTypeOK, NEW c \in Callers, NEW s \in Step, NEW r \in RunId, Proceed(c, s, r)
    PROVE  /\ req' \in [Callers -> Request]
           /\ req'[c].step = s /\ req'[c].run = r /\ req'[c].items = req[c].items
           /\ \A d \in Callers : d # c => req'[d] = req[d]
<1> DEFINE q == [req[c] EXCEPT !.step = s, !.run = r]
<1>1. req' = [req EXCEPT ![c] = q]
  BY DEF Proceed, InputTypeOK
<1>2. q \in Request /\ q.step = s /\ q.run = r /\ q.items = req[c].items
  BY DEF InputTypeOK, Request
<1> HIDE DEF q
<1> QED BY <1>1, <1>2 DEF InputTypeOK

LEMMA DeliversType ==
    ASSUME InputTypeOK, NEW c \in Callers, Delivers(c)
    PROVE  InputTypeOK'
<1>1. ASSUME NEW r \in Runs, CreateRun(c, r) PROVE InputTypeOK'
  <2>1. req' \in [Callers -> Request]
    BY <1>1, ProceedType DEF CreateRun, Step, Delivery, RunId
  <2>2. req[c].items \in SUBSET Items
    BY DEF InputTypeOK, Request
  <2> QED BY <1>1, <2>1, <2>2 DEF CreateRun, InputTypeOK, Status, Live, Stage, RunId,
         pipeVars, gotVars, inputBounds
<1>2. CASE MergeInput(c)
  <2>1. req[c].run \in RunId /\ req[c].items \in SUBSET Items
    BY DEF InputTypeOK, Request
  <2>2. req' \in [Callers -> Request]
    <3>1. CASE req[c].step = "merge"
      BY <1>2, <2>1, <3>1, ProceedType DEF MergeInput, Step, Delivery
    <3>2. CASE req[c].step # "merge"
      BY <1>2, <2>1, <3>2, ProceedType DEF MergeInput, Step, Delivery
    <3> QED BY <3>1, <3>2
  <2>3. parts' \in [Runs -> SUBSET Items]
    BY <1>2, <2>1 DEF MergeInput, WithItems, InputTypeOK
  <2> QED BY <1>2, <2>2, <2>3 DEF MergeInput, InputTypeOK, execVars, pipeVars, gotVars, inputBounds
<1>3. CASE SteerInput(c)
  <2>1. req[c].run \in RunId /\ req[c].items \in SUBSET Items
    BY DEF InputTypeOK, Request
  <2>2. req' \in [Callers -> Request]
    BY <1>3, <2>1, ProceedType DEF SteerInput, Step, Delivery
  <2>3. queue' \in [Runs -> SUBSET Items]
    BY <1>3, <2>1 DEF SteerInput, RecordSteering, InputTypeOK
  <2> QED BY <1>3, <2>2, <2>3 DEF SteerInput, RecordSteering, InputTypeOK, tableVars, execVars,
         gotVars, inputBounds
<1> QED BY <1>1, <1>2, <1>3 DEF Delivers

LEMMA CallType ==
    ASSUME InputTypeOK, NEW c \in Callers
    PROVE  /\ ReleaseLock(c) => InputTypeOK'
           /\ \A i \in Submits : SubmitInput(c, i) => InputTypeOK'
<1>1. ASSUME ReleaseLock(c) PROVE InputTypeOK'
  BY <1>1, NoRequestType DEF ReleaseLock, InputTypeOK, RunId, tableVars, execVars, pipeVars,
     gotVars, inputBounds
<1>2. ASSUME NEW i \in Submits, SubmitInput(c, i) PROVE InputTypeOK'
  <2>1. {i} \in SUBSET Items /\ sent' \in SUBSET Items
    BY <1>2, InputAssumption DEF SubmitInput, InputTypeOK
  <2>2. Links \in LinksType
    BY DEF Links, LinksType, InputTypeOK
  <2>3. lock' \in RunId \union Callers /\ req' \in [Callers -> Request]
    BY <1>2, <2>1, <2>2, LocateType DEF SubmitInput
  <2> QED BY <1>2, <2>1, <2>3 DEF SubmitInput, Locate, InputTypeOK, tableVars, execVars,
         pipeVars, gotVars
<1> QED BY <1>1, <1>2

LEMMA ExecutorType ==
    ASSUME InputTypeOK, NEW r \in Runs, Executes(r) \/ Dispatch(r) \/ Posted(r)
    PROVE  InputTypeOK'
<1> USE DEF Goto, LeavesExecute, Stage, callVars, inputBounds, pipeVars, gotVars, tableVars, execVars
<1>1. CASE Claim(r)
  BY <1>1 DEF Claim, InputTypeOK, Status, Live, RunId
<1>2. CASE ExecuteLoad(r)
  BY <1>2 DEF ExecuteLoad, InputTypeOK
<1>3. CASE ForwardSteering(r)
  BY <1>3 DEF ForwardSteering, Consumed, InputTypeOK
<1>4. CASE ForwardMapped(r) \/ ModelRequest(r)
  BY <1>4 DEF ForwardMapped, ModelRequest, InputTypeOK
<1>5. CASE FinishOutput(r) \/ StreamEnds(r) \/ StreamInterrupted(r)
  BY <1>5 DEF FinishOutput, StreamEnds, StreamInterrupted, InputTypeOK
<1>6. CASE Continues(r)
  BY <1>6 DEF Continues, Consumed, InputTypeOK, RunId
<1>7. CASE TerminalGate(r)
  BY <1>6, <1>7 DEF TerminalGate, InputTypeOK, RunId
<1>8. CASE GateLooksAgain(r)
  BY <1>6, <1>8 DEF GateLooksAgain, InputTypeOK
<1>9. CASE Commit(r)
  BY <1>9 DEF Commit, InputTypeOK, Status, RunId
<1>10. CASE Fail(r)
  BY <1>10 DEF Fail, Unlink, InputTypeOK, Status, RunId
<1>11. CASE Dispatch(r)
  BY <1>11 DEF Dispatch, InputTypeOK
<1>12. CASE Posted(r)
  BY <1>12 DEF Posted, InputTypeOK, RunId
<1> QED BY <1>1, <1>2, <1>3, <1>4, <1>5, <1>7, <1>8, <1>9, <1>10, <1>11, <1>12 DEF Executes

LEMMA FaultType ==
    ASSUME InputTypeOK, (\E r \in Runs : Stop(r)) \/ CrashRestart \/
                        \E r \in Runs, i \in Steers : SteerRun(r, i)
    PROVE  InputTypeOK'
<1>1. ASSUME NEW r \in Runs, Stop(r) PROVE InputTypeOK'
  BY <1>1 DEF Stop, Unlink, InputTypeOK, Status, RunId, execVars, pipeVars, gotVars, callVars
<1>2. CASE CrashRestart
  <2>1. head' \in RunId /\ active' \in RunId
    BY <1>2 DEF CrashRestart, InputTypeOK, RunId
  <2>2. status' \in [Runs -> Status] /\ stage' \in [Runs -> Stage]
    BY <1>2 DEF CrashRestart, InputTypeOK, Status, Stage
  <2>3. req' \in [Callers -> Request]
    BY <1>2, NoRequestType DEF CrashRestart
  <2> QED BY <1>2, <2>1, <2>2, <2>3 DEF CrashRestart, InputTypeOK, RunId, gotVars
<1>3. ASSUME NEW r \in Runs, NEW i \in Steers, SteerRun(r, i) PROVE InputTypeOK'
  <2>1. i \in Items
    BY InputAssumption
  <2> QED BY <1>3, <2>1 DEF SteerRun, RecordSteering, InputTypeOK, callVars, tableVars,
         execVars, gotVars
<1> QED BY <1>1, <1>2, <1>3

LEMMA DispatcherType ==
    ASSUME TypeOK, NEW d \in Dispatchers, DispatcherStep(d), timer' \in Timer
    PROVE  TypeOK'
<1>0. d \in Callers /\ InputTypeOK
  BY AgencyAssumption DEF TypeOK
<1>1. CASE LookUpSession(d)
  <2> DEFINE q == [NoRequest EXCEPT !.step = "looked", !.seen = Links]
  <2>1. Links \in LinksType
    BY <1>0 DEF Links, LinksType, InputTypeOK
  <2>2. q \in Request
    BY <2>1, NoRequestType DEF Request, Step, LinksType
  <2>3. req' \in [Callers -> Request]
    BY <1>0, <1>1, <2>2 DEF LookUpSession, InputTypeOK
  <2> QED BY <1>1, <2>3 DEF LookUpSession, TypeOK, InputTypeOK, tableVars, execVars, pipeVars,
         gotVars, inputBounds, fireVars
<1>2. CASE DispatchPending(d)
  <2>1. CASE ReleaseLock(d) /\ UNCHANGED fireVars
    BY <1>0, <2>1, CallType DEF TypeOK, fireVars
  <2>2. CASE Locate(d, Batch, req[d].seen) /\ UNCHANGED inputBounds
    <3>1. Batch \in SUBSET Items
      BY AgencyAssumption DEF Batch, Pending
    <3>2. req[d].seen \in LinksType
      BY <1>0 DEF InputTypeOK, Request, LinksType
    <3>3. lock' \in RunId \union Callers /\ req' \in [Callers -> Request]
      BY <1>0, <2>2, <3>1, <3>2, LocateType
    <3> QED BY <1>2, <2>2, <3>3 DEF DispatchPending, Locate, TypeOK, InputTypeOK, tableVars,
           execVars, pipeVars, gotVars, inputBounds, fireVars
  <2> QED BY <1>2, <2>1, <2>2 DEF DispatchPending
<1>3. CASE MarkFires(d)
  <2>1. InputTypeOK'
    BY <1>0, <1>3, CallType DEF MarkFires, Return
  <2>2. req[d].step \in FireStatus /\ req[d].run \in RunId
    BY <1>0, <1>3 DEF MarkFires, Return, FireStatus, InputTypeOK, Request
  <2> QED BY <1>3, <2>1, <2>2 DEF MarkFires, Marked, TypeOK
<1>4. CASE RefuseFires(d)
  BY <1>0, <1>4, CallType DEF RefuseFires, Refuse, TypeOK
<1> QED BY <1>1, <1>2, <1>3, <1>4 DEF DispatcherStep

LEMMA InitType == Init => TypeOK
  BY NoRequestType, InputAssumption DEF Init, InputInit, TypeOK, InputTypeOK, Status, Stage, RunId,
     FireStatus, Timer, NoTimer

LEMMA TimerType == TypeOK /\ [Next]_vars => timer' \in Timer
<1> SUFFICES ASSUME TypeOK, [Next]_vars PROVE timer' \in Timer
  OBVIOUS
<1>1. timer \in Timer /\ active \in RunId /\ NoTimer \in Timer
  BY DEF TypeOK, InputTypeOK, Timer, NoTimer, RunId
<1>2. CASE HeartbeatLook
  BY <1>1, <1>2 DEF HeartbeatLook, Timer
<1>3. CASE HeartbeatCheck
  BY <1>1, <1>3 DEF HeartbeatCheck, Timer, NoTimer
<1> QED BY <1>1, <1>2, <1>3 DEF Next, TimerStep, Heartbeat, Restart, vars

LEMMA StepType == TypeOK /\ [Next]_vars => TypeOK'
<1> SUFFICES ASSUME TypeOK, [Next]_vars PROVE TypeOK'
  OBVIOUS
<1>0. InputTypeOK /\ timer' \in Timer
  BY TimerType DEF TypeOK
<1>1. ASSUME NEW f \in Fires, CreateFire(f) PROVE TypeOK'
  BY <1>0, <1>1 DEF CreateFire, TypeOK, InputTypeOK, FireStatus, inputVars, tableVars, execVars,
     pipeVars, gotVars, callVars, inputBounds
<1>2. ASSUME NEW r \in Runs, Hooks(r) PROVE TypeOK'
  <2>1. InputTypeOK'
    BY <1>0, <1>2, ExecutorType DEF Hooks
  <2> QED BY <1>0, <1>2, <2>1 DEF Hooks, TypeOK, FireStatus
<1>3. CASE SessionStep \/ (CrashRestart /\ UNCHANGED fireVars)
  <2>1. InputTypeOK'
    BY <1>0, <1>3, DeliversType, CallType, ExecutorType, FaultType
       DEF SessionStep, Return, Refuse
  <2> QED BY <1>0, <1>3, <2>1 DEF SessionStep, TypeOK, fireVars
<1>4. CASE UNCHANGED <<inputVars, fireVars>>
  BY <1>0, <1>4 DEF TypeOK, InputTypeOK, inputVars, tableVars, execVars, pipeVars, gotVars,
     callVars, inputBounds, fireVars
<1> QED BY <1>0, <1>1, <1>2, <1>3, <1>4, DispatcherType, Kinds DEF SessionStep

\* The types, for any number of runs, inputs, fires, callers and faults.
THEOREM TypesHold == Spec => []TypeOK
  BY InitType, StepType, PTL DEF Spec

-----------------------------------------------------------------------------
(***************************************************************************)
(* Who holds the lock: a call from the look-up of the run to its answer,   *)
(* or a run between the first look of its terminal gate and its commit.    *)
(***************************************************************************)
Holding(q) == q.step \notin {"idle", "looked"}

Locked ==
    /\ \A c \in Callers : Holding(req[c]) => lock = c
    /\ \A r \in Runs : stage[r] \in {"draining", "committing"} => lock = r

\* Callers, runs and NULL are told apart.
LEMMA Distinct ==
    /\ \A c \in Callers : c \notin Runs /\ c # None
    /\ \A r \in Runs : r # None
  BY InputAssumption

\* An executor step takes the lock for its run when it is free, and gives it back.
LEMMA ExecutorLocked ==
    ASSUME InputTypeOK, Locked, NEW r \in Runs, Executes(r) \/ Dispatch(r) \/ Posted(r)
    PROVE  Locked'
<1> USE Distinct DEF Goto, LeavesExecute, callVars
<1>1. ASSUME req' = req, \A s \in Runs : s # r => stage'[s] = stage[s],
             \/ lock' = lock /\ stage'[r] \notin {"draining", "committing"}
             \/ lock' = None /\ stage'[r] \notin {"draining", "committing"} /\ lock \in {None, r}
             \/ lock' = r /\ lock \in {None, r}
      PROVE  Locked'
  BY <1>1 DEF Locked
<1>2. CASE Claim(r) \/ ExecuteLoad(r) \/ FinishOutput(r) \/ StreamEnds(r)
           \/ StreamInterrupted(r) \/ Fail(r) \/ Dispatch(r)
  BY <1>1, <1>2 DEF Claim, ExecuteLoad, FinishOutput, StreamEnds, StreamInterrupted, Fail,
     Dispatch, InputTypeOK
<1>3. CASE ForwardSteering(r) \/ ForwardMapped(r) \/ ModelRequest(r)
  BY <1>3 DEF ForwardSteering, ForwardMapped, ModelRequest, Locked, execVars
<1>4. CASE TerminalGate(r)
  BY <1>1, <1>4 DEF TerminalGate, GateMayOpen, LockFree, Continues, InputTypeOK
<1>5. CASE GateLooksAgain(r)
  BY <1>1, <1>5 DEF GateLooksAgain, Continues, InputTypeOK, Locked
<1>6. CASE Commit(r)
  BY <1>1, <1>6 DEF Commit, InputTypeOK, Locked
<1>7. CASE Posted(r)
  BY <1>1, <1>7 DEF Posted, InputTypeOK
<1> QED BY <1>2, <1>3, <1>4, <1>5, <1>6, <1>7 DEF Executes

\* Only a call that holds the lock proceeds, and only its own run begins.
LEMMA DeliversLocked ==
    ASSUME InputTypeOK, Locked, NEW c \in Callers, Delivers(c)
    PROVE  /\ Locked' /\ lock = c /\ lock' = c
           /\ Holding(req[c]) /\ Holding(req'[c])
           /\ req'[c].items = req[c].items /\ req'[c].run \in RunId
           /\ \A d \in Callers : d # c => req'[d] = req[d]
           /\ \A r \in Runs : stage'[r] = stage[r] \/ stage'[r] = "created"
<1>1. PICK s, r : /\ Proceed(c, s, r) /\ s \in Delivery \union {"steer"} /\ r \in RunId
                  /\ lock' = lock /\ Holding(req[c])
                  /\ \A t \in Runs : stage'[t] = stage[t] \/ stage'[t] = "created"
  <2>1. ASSUME NEW r \in Runs, CreateRun(c, r) PROVE
          /\ Proceed(c, "submitted", r) /\ lock' = lock /\ Holding(req[c])
          /\ \A t \in Runs : stage'[t] = stage[t] \/ stage'[t] = "created"
    BY <2>1 DEF CreateRun, Holding, InputTypeOK
  <2>2. req[c].run \in RunId
    BY DEF InputTypeOK, Request
  <2>3. CASE MergeInput(c)
    BY <2>2, <2>3 DEF MergeInput, Holding, Delivery, execVars
  <2>4. CASE SteerInput(c)
    BY <2>2, <2>4 DEF SteerInput, RecordSteering, Holding, Delivery, execVars
  <2> QED BY <2>1, <2>3, <2>4 DEF Delivers, Delivery, RunId
<1>2. s \in Step
  BY <1>1 DEF Step
<1>3. /\ req'[c].step = s /\ req'[c].run = r /\ req'[c].items = req[c].items
      /\ \A d \in Callers : d # c => req'[d] = req[d]
  BY <1>1, <1>2, ProceedType
<1>4. Holding(req'[c])
  BY <1>1, <1>3 DEF Holding, Delivery
<1>5. lock = c
  BY <1>1 DEF Locked
<1>6. Locked'
  BY <1>1, <1>3, <1>5, Distinct DEF Locked
<1> QED BY <1>1, <1>3, <1>4, <1>5, <1>6

\* A call gets the lock when it is free, and gives back its own.
LEMMA CallLocked ==
    ASSUME InputTypeOK, Locked, NEW c \in Callers
    PROVE  /\ \A items, links : Locate(c, items, links) => Locked'
           /\ ReleaseLock(c) /\ (Holding(req[c]) \/ LockFree) => Locked'
<1> USE Distinct
<1>1. ASSUME NEW items, NEW links, Locate(c, items, links) PROVE Locked'
  <2>1. /\ lock = None /\ lock' = c /\ stage' = stage
        /\ \A d \in Callers : d # c => req'[d] = req[d]
    BY <1>1 DEF Locate, LockFree, execVars, InputTypeOK
  <2> QED BY <2>1 DEF Locked
<1>2. ASSUME ReleaseLock(c), Holding(req[c]) \/ LockFree PROVE Locked'
  <2>1. /\ lock' = None /\ stage' = stage /\ ~Holding(req'[c])
        /\ \A d \in Callers : d # c => req'[d] = req[d]
    BY <1>2, NoRequestType DEF ReleaseLock, execVars, Holding, InputTypeOK
  <2>2. lock \in {None, c}
    BY <1>2 DEF Locked, LockFree
  <2> QED BY <2>1, <2>2 DEF Locked
<1> QED BY <1>1, <1>2

\* An answered or refused call holds the lock until then.
LEMMA AnswersHold ==
    ASSUME NEW c, Return(c) \/ Refuse(c)
    PROVE  ReleaseLock(c) /\ Holding(req[c])
  BY DEF Return, Refuse, Delivery, Holding

LEMMA LockedStep == TypeOK /\ Locked /\ [Next]_vars => Locked'
<1> SUFFICES ASSUME TypeOK, Locked, [Next]_vars PROVE Locked'
  OBVIOUS
<1>0. InputTypeOK /\ \A d \in Dispatchers : d \in Callers
  BY AgencyAssumption DEF TypeOK
<1>1. CASE UNCHANGED <<lock, req, stage>>
  BY <1>1 DEF Locked
<1>2. ASSUME NEW d \in Dispatchers, DispatcherStep(d) PROVE Locked'
  <2>1. CASE LookUpSession(d)
    <3>1. ~Holding(req'[d]) /\ lock' = lock /\ stage' = stage
          /\ \A c \in Callers : c # d => req'[c] = req[c]
      BY <1>0, <2>1 DEF LookUpSession, Holding, NoRequest, InputTypeOK, execVars
    <3> QED BY <3>1 DEF Locked
  <2> QED BY <1>0, <1>2, <2>1, CallLocked, AnswersHold
          DEF DispatcherStep, DispatchPending, MarkFires, RefuseFires
<1>3. ASSUME NEW c \in Callers, Return(c) \/ Refuse(c) \/ \E i \in Submits : SubmitInput(c, i)
      PROVE  Locked'
  BY <1>0, <1>3, CallLocked, AnswersHold DEF SubmitInput
<1>4. CASE CrashRestart
  <2>1. \A c \in Callers : ~Holding(req'[c])
    BY <1>4, NoRequestType DEF CrashRestart, Holding
  <2>2. \A r \in Runs : stage'[r] \notin {"draining", "committing"}
    BY <1>4 DEF CrashRestart
  <2> QED BY <2>1, <2>2 DEF Locked
<1>5. CASE (\E f \in Fires : CreateFire(f)) \/ (\E r \in Runs : Stop(r))
           \/ (\E r \in Runs, i \in Steers : SteerRun(r, i)) \/ UNCHANGED <<inputVars, fireVars>>
  BY <1>1, <1>5 DEF CreateFire, Stop, SteerRun, RecordSteering, vars, inputVars, callVars, execVars
<1> QED BY <1>0, <1>2, <1>3, <1>4, <1>5, ExecutorLocked, DeliversLocked, AgencyAssumption,
        Kinds DEF SessionStep, Hooks

LEMMA InitLocked == Init => Locked
  BY NoRequestType DEF Init, InputInit, Locked, Holding

-----------------------------------------------------------------------------
(***************************************************************************)
(* The terminal gate                                                       *)
(***************************************************************************)
Gated ==
    \A r \in Runs : stage[r] = "committing" \/ status[r] = "completed" => queue[r] \subseteq Steers

LEMMA GatedStep == TypeOK /\ Locked /\ Gated /\ [Next]_vars => Gated'
<1> SUFFICES ASSUME TypeOK, Locked, Gated, [Next]_vars PROVE Gated'
  OBVIOUS
<1>0. InputTypeOK /\ \A d \in Dispatchers : d \in Callers
  BY AgencyAssumption DEF TypeOK
<1>1. ASSUME UNCHANGED <<stage, status, queue>> PROVE Gated'
  BY <1>1 DEF Gated
<1>2. ASSUME NEW r \in Runs, \A s \in Runs : s # r => /\ stage'[s] = stage[s]
                                                       /\ status'[s] = status[s]
                                                       /\ queue'[s] = queue[s],
             \/ stage'[r] # "committing" /\ status'[r] # "completed"
             \/ queue'[r] \subseteq Steers
             \/ /\ stage[r] = "committing" \/ status[r] = "completed"
                /\ queue'[r] = queue[r]
      PROVE  Gated'
  BY <1>2 DEF Gated
<1>3. ASSUME NEW c \in Callers, Delivers(c) PROVE Gated'
  <2>1. ASSUME NEW r \in Runs, CreateRun(c, r) PROVE Gated'
    BY <1>0, <1>2, <2>1 DEF CreateRun, pipeVars, InputTypeOK
  <2>2. CASE MergeInput(c)
    BY <1>1, <2>2 DEF MergeInput, execVars, pipeVars
  <2>3. CASE SteerInput(c)
    <3> DEFINE r == req[c].run
    <3>1. lock = c
      BY <1>0, <1>3, DeliversLocked
    <3>2. /\ UNCHANGED <<stage, status>> /\ status[r] \in Live
          /\ queue' = [queue EXCEPT ![r] = @ \union req[c].items]
      BY <2>3 DEF SteerInput, RecordSteering, Steerable, tableVars, execVars
    <3>3. r \in Runs => stage[r] # "committing" /\ status[r] # "completed"
      BY <3>1, <3>2, Distinct DEF Locked, Live
    <3>4. r \notin Runs => queue' = queue
      BY <1>0, <3>2 DEF InputTypeOK
    <3> HIDE DEF r
    <3>5. CASE r \in Runs
      BY <1>0, <1>2, <3>2, <3>3, <3>5 DEF InputTypeOK
    <3> QED BY <1>1, <3>2, <3>4, <3>5
  <2> QED BY <1>3, <2>1, <2>2, <2>3 DEF Delivers
<1>4. ASSUME NEW r \in Runs, Executes(r) \/ Dispatch(r) \/ Posted(r) PROVE Gated'
  <2> USE DEF Goto, LeavesExecute, pipeVars, tableVars, execVars
  <2>1. CASE Claim(r) \/ ExecuteLoad(r) \/ Dispatch(r) \/ FinishOutput(r)
             \/ StreamEnds(r) \/ Fail(r)
    BY <1>0, <1>2, <2>1 DEF Claim, ExecuteLoad, Dispatch, FinishOutput, StreamEnds, Fail,
       InputTypeOK, Gated
  <2>2. CASE StreamInterrupted(r) \/ Posted(r)
    BY <1>0, <1>2, <2>2 DEF StreamInterrupted, Posted, InputTypeOK
  <2>3. CASE ForwardSteering(r) \/ ForwardMapped(r) \/ ModelRequest(r)
    BY <1>0, <1>2, <2>3 DEF ForwardSteering, ForwardMapped, ModelRequest, Consumed, InputTypeOK, Gated
  <2>4. CASE TerminalGate(r) \/ GateLooksAgain(r)
    <3>1. queue'[r] = {} /\ status' = status
          /\ \A s \in Runs : s # r => stage'[s] = stage[s] /\ queue'[s] = queue[s]
      BY <1>0, <2>4 DEF TerminalGate, GateLooksAgain, Continues, Consumed, InputTypeOK
    <3> QED BY <1>2, <3>1
  <2>5. CASE Commit(r)
    BY <1>0, <1>2, <2>5 DEF Commit, InputTypeOK
  <2> QED BY <1>4, <2>1, <2>2, <2>3, <2>4, <2>5 DEF Executes
<1>5. ASSUME NEW r \in Runs, NEW i \in Steers, SteerRun(r, i) PROVE Gated'
  <2>1. /\ UNCHANGED <<stage, status>>
        /\ queue' = [queue EXCEPT ![r] = @ \union {i}]
    BY <1>5 DEF SteerRun, RecordSteering, tableVars, execVars
  <2>2. \A s \in Runs : queue'[s] \subseteq queue[s] \union Steers
    BY <1>0, <2>1 DEF InputTypeOK
  <2> QED BY <2>1, <2>2 DEF Gated
<1>6. ASSUME NEW r \in Runs, Stop(r) PROVE Gated'
  BY <1>0, <1>2, <1>6 DEF Stop, execVars, pipeVars, InputTypeOK, Gated
<1>7. CASE CrashRestart
  BY <1>7 DEF CrashRestart, Gated
<1>8. ASSUME NEW c \in Callers, Return(c) \/ Refuse(c) \/ ReleaseLock(c)
             \/ (\E i \in Submits : SubmitInput(c, i)) \/ \E x, l : Locate(c, x, l)
      PROVE  Gated'
  BY <1>1, <1>8 DEF Return, Refuse, ReleaseLock, SubmitInput, Locate, tableVars, execVars, pipeVars
<1>9. ASSUME NEW d \in Dispatchers, DispatcherStep(d) PROVE Gated'
  <2>1. CASE LookUpSession(d)
    BY <1>1, <2>1 DEF LookUpSession, tableVars, execVars, pipeVars
  <2> QED BY <1>0, <1>8, <1>9, <2>1 DEF DispatcherStep, DispatchPending, MarkFires, RefuseFires
<1>10. CASE (\E f \in Fires : CreateFire(f)) \/ UNCHANGED <<inputVars, fireVars>>
  BY <1>1, <1>10 DEF CreateFire, vars, inputVars, tableVars, execVars, pipeVars
<1> QED BY <1>3, <1>4, <1>5, <1>6, <1>7, <1>8, <1>9, <1>10, AgencyAssumption,
        Kinds DEF SessionStep, Hooks

\* A completed run has left nothing in its handle that came through submit_input.
THEOREM NothingLeftBehind == Spec => []GateLeavesNothing
<1>1. Init => TypeOK /\ Locked /\ Gated
  <2>1. Init => Gated
    BY DEF Init, InputInit, Gated
  <2> QED BY <2>1, InitType, InitLocked
<1>2. TypeOK /\ Locked /\ Gated /\ [Next]_vars => TypeOK' /\ Locked' /\ Gated'
  BY StepType, LockedStep, GatedStep
<1>3. Gated => GateLeavesNothing
  BY DEF Gated, GateLeavesNothing
<1> QED BY <1>1, <1>2, <1>3, PTL DEF Spec

-----------------------------------------------------------------------------
(***************************************************************************)
(* What is handed over is stored                                           *)
(***************************************************************************)
Found(q) == q.run \in Runs /\ status[q.run] # "absent"
HasStored(q) == Found(q) /\ q.items \subseteq parts[q.run]

\* Nothing is in a run before it is created, a call that merges or steers has
\* found a run, and it answers when its items are in the row of that run.
Stored ==
    /\ \A r \in Runs : status[r] = "absent" => parts[r] = {}
    /\ \A c \in Callers :
         /\ req[c].step \in {"merge", "append"} => Found(req[c])
         /\ req[c].step \in Delivery \union {"steer"} => HasStored(req[c])
    /\ HandedOverIsStored

\* input_parts only grow, and no run is forgotten.
RowsStay ==
    \A r \in Runs : /\ parts[r] \subseteq parts'[r]
                    /\ status[r] # "absent" => status'[r] # "absent"
                    /\ status'[r] = "absent" => parts'[r] = {}

LEMMA RowsStep == TypeOK /\ Stored /\ [Next]_vars => RowsStay
<1> SUFFICES ASSUME TypeOK, Stored, [Next]_vars PROVE RowsStay
  OBVIOUS
<1>0. InputTypeOK /\ \A d \in Dispatchers : d \in Callers
  BY AgencyAssumption DEF TypeOK
<1>1. ASSUME parts' = parts, \A r \in Runs : status'[r] = "absent" => status[r] = "absent"
      PROVE  RowsStay
  BY <1>1 DEF RowsStay, Stored
<1>2. ASSUME NEW c \in Callers, NEW r \in Runs, CreateRun(c, r) PROVE RowsStay
  <2>1. parts[r] = {} /\ status[r] = "absent" /\ status'[r] = "queued"
    BY <1>0, <1>2 DEF CreateRun, Stored, InputTypeOK
  <2>2. \A s \in Runs : s # r => parts'[s] = parts[s] /\ status'[s] = status[s]
    BY <1>0, <1>2 DEF CreateRun, InputTypeOK
  <2> QED BY <2>1, <2>2 DEF RowsStay, Stored
<1>3. ASSUME NEW c \in Callers, MergeInput(c) PROVE RowsStay
  <2>1. req[c].run \in Runs /\ status[req[c].run] # "absent"
    BY <1>3 DEF MergeInput, Stored, Found
  <2>2. /\ status' = status
        /\ parts' = [parts EXCEPT ![req[c].run] = parts[req[c].run] \union req[c].items]
    BY <1>3 DEF MergeInput, WithItems
  <2> QED BY <1>0, <2>1, <2>2 DEF RowsStay, Stored, InputTypeOK
<1>4. ASSUME UNCHANGED <<parts, status>> PROVE RowsStay
  BY <1>1, <1>4
<1>5. ASSUME NEW r \in Runs, Executes(r) \/ Dispatch(r) \/ Posted(r) PROVE RowsStay
  <2>1. parts' = parts
    BY <1>5 DEF Executes, Claim, ExecuteLoad, ForwardSteering, ForwardMapped, ModelRequest,
       FinishOutput, StreamEnds, StreamInterrupted, TerminalGate, GateLooksAgain, Continues,
       Commit, Fail, Dispatch, Posted, tableVars
  <2>2. CASE Claim(r) \/ Fail(r) \/ Commit(r)
    BY <1>0, <1>1, <2>1, <2>2 DEF Claim, Fail, Commit, InputTypeOK
  <2>3. CASE ~(Claim(r) \/ Fail(r) \/ Commit(r))
    BY <1>4, <1>5, <2>3 DEF Executes, ExecuteLoad, ForwardSteering, ForwardMapped, ModelRequest,
       FinishOutput, StreamEnds, StreamInterrupted, TerminalGate, GateLooksAgain, Continues,
       Dispatch, Posted, tableVars
  <2> QED BY <2>2, <2>3
<1>6. CASE CrashRestart \/ \E r \in Runs : Stop(r)
  BY <1>0, <1>1, <1>6 DEF CrashRestart, Stop, InputTypeOK
<1>7. ASSUME NEW c \in Callers, Return(c) \/ Refuse(c) \/ ReleaseLock(c) \/ SteerInput(c)
             \/ (\E i \in Submits : SubmitInput(c, i)) \/ \E x, l : Locate(c, x, l)
      PROVE  RowsStay
  BY <1>4, <1>7 DEF Return, Refuse, ReleaseLock, SteerInput, RecordSteering, SubmitInput, Locate, tableVars
<1>8. ASSUME NEW d \in Dispatchers, DispatcherStep(d) PROVE RowsStay
  <2>1. CASE LookUpSession(d)
    BY <1>4, <2>1 DEF LookUpSession, tableVars
  <2> QED BY <1>0, <1>7, <1>8, <2>1 DEF DispatcherStep, DispatchPending, MarkFires, RefuseFires
<1>9. CASE (\E f \in Fires : CreateFire(f)) \/ (\E r \in Runs, i \in Steers : SteerRun(r, i))
           \/ UNCHANGED <<inputVars, fireVars>>
  BY <1>4, <1>9 DEF CreateFire, SteerRun, RecordSteering, vars, inputVars, tableVars
<1> QED BY <1>2, <1>3, <1>5, <1>6, <1>7, <1>8, <1>9, AgencyAssumption,
        Kinds DEF SessionStep, Hooks, Delivers

\* A call that has found a run, or has stored its items, keeps doing so.
LEMMA CallStep ==
    ASSUME TypeOK, Stored, [Next]_vars, NEW c \in Callers
    PROVE  /\ req'[c].step \in {"merge", "append"} => Found(req[c])' 
           /\ req'[c].step \in Delivery \union {"steer"} => HasStored(req[c])'
<1>0. InputTypeOK /\ RowsStay /\ \A d \in Dispatchers : d \in Callers
  BY RowsStep, AgencyAssumption DEF TypeOK
<1>1. CASE req'[c] = req[c]
  <2>1. Found(req[c]) => Found(req[c])'
    BY <1>0, <1>1 DEF Found, RowsStay
  <2>2. HasStored(req[c]) => HasStored(req[c])'
    BY <1>0, <1>1, <2>1 DEF HasStored, Found, RowsStay
  <2> QED BY <1>1, <2>1, <2>2 DEF Stored
<1>2. CASE req'[c] = NoRequest \/ req'[c].step = "looked"
  BY <1>2, NoRequestType DEF Delivery
<1>3. ASSUME NEW d \in Callers, NEW x, NEW l \in LinksType, Locate(d, x, l)
      PROVE  req'[c] = req[c] \/ req'[c].step = "create"
             \/ (Found(req[c])' /\ req'[c].step \in {"merge", "append"})
  <2> DEFINE r == ActiveRunRecord(l)
             q == [step |-> DeliveryStep(r), run |-> r, items |-> x, seen |-> NoLinks]
  <2>1. r # None => r \in Runs /\ status[r] # "absent"
    BY <1>0, FoundType DEF Live
  <2>2. req' = [req EXCEPT ![d] = q] /\ status' = status
    BY <1>3 DEF Locate, tableVars
  <2>3. q.step = DeliveryStep(r) /\ q.run = r
    OBVIOUS
  <2>4. r = None => q.step = "create"
    BY <2>3 DEF DeliveryStep
  <2>5. r # None => q.step \in {"merge", "append"}
    BY <2>3 DEF DeliveryStep
  <2> HIDE DEF q, r
  <2>6. CASE d # c
    BY <1>0, <2>2, <2>6 DEF InputTypeOK
  <2>7. CASE d = c
    <3>1. req'[c] = q
      BY <1>0, <2>2, <2>7 DEF InputTypeOK
    <3> QED BY <2>1, <2>2, <2>3, <2>4, <2>5, <3>1 DEF Found
  <2> QED BY <2>6, <2>7
<1>4. ASSUME NEW d \in Callers, NEW x, NEW l \in LinksType, Locate(d, x, l)
      PROVE  /\ req'[c].step \in {"merge", "append"} => Found(req[c])'
             /\ req'[c].step \in Delivery \union {"steer"} => HasStored(req[c])'
  BY <1>1, <1>3, <1>4 DEF Delivery
<1>5. ASSUME NEW d \in Callers, ReleaseLock(d) PROVE req'[c] = req[c] \/ req'[c] = NoRequest
  BY <1>0, <1>5 DEF ReleaseLock, InputTypeOK
<1>6. ASSUME NEW d \in Callers, Delivers(d), d = c
      PROVE  HasStored(req[c])' /\ req'[c].step \notin {"merge", "append"}
  <2>1. ASSUME NEW r \in Runs, CreateRun(c, r)
        PROVE  HasStored(req[c])' /\ req'[c].step \notin {"merge", "append"}
    <3>1. req'[c].step = "submitted" /\ req'[c].run = r /\ req'[c].items = req[c].items
      BY <1>0, <2>1, ProceedType DEF CreateRun, Step, Delivery, RunId
    <3>2. parts'[r] = req[c].items /\ status'[r] = "queued"
      BY <1>0, <2>1 DEF CreateRun, InputTypeOK
    <3> QED BY <3>1, <3>2 DEF HasStored, Found
  <2>2. CASE MergeInput(c)
    <3>1. Found(req[c]) /\ req[c].run \in RunId
      BY <2>2 DEF MergeInput, Stored, Found, RunId
    <3>2. PICK st \in {"merged", "steer"} : Proceed(c, st, req[c].run)
      BY <2>2 DEF MergeInput
    <3>3. st \in Step
      BY DEF Step, Delivery
    <3>4. req'[c].step = st /\ req'[c].run = req[c].run /\ req'[c].items = req[c].items
      BY <1>0, <3>1, <3>2, <3>3, ProceedType
    <3>5. /\ parts'[req[c].run] = parts[req[c].run] \union req[c].items
          /\ status' = status
      BY <1>0, <2>2, <3>1 DEF MergeInput, WithItems, InputTypeOK, Found
    <3> QED BY <3>1, <3>4, <3>5 DEF HasStored, Found
  <2>3. CASE SteerInput(c)
    <3>1. HasStored(req[c]) /\ req[c].run \in RunId
      BY <2>3 DEF SteerInput, Stored, HasStored, Found, RunId
    <3>2. req'[c].step = "steered" /\ req'[c].run = req[c].run /\ req'[c].items = req[c].items
      BY <1>0, <2>3, <3>1, ProceedType DEF SteerInput, Step, Delivery
    <3>3. parts' = parts /\ status' = status
      BY <2>3 DEF SteerInput, RecordSteering, tableVars
    <3> QED BY <3>1, <3>2, <3>3 DEF HasStored, Found
  <2> QED BY <1>6, <2>1, <2>2, <2>3 DEF Delivers
<1>7. ASSUME NEW d \in Callers, Delivers(d), d # c PROVE req'[c] = req[c]
  <2>1. \E st, r : Proceed(d, st, r)
    BY <1>7 DEF Delivers, CreateRun, MergeInput, SteerInput
  <2> QED BY <1>0, <1>7, <2>1 DEF Proceed, InputTypeOK
<1>8. ASSUME NEW d \in Dispatchers, DispatcherStep(d)
      PROVE  /\ req'[c].step \in {"merge", "append"} => Found(req[c])'
             /\ req'[c].step \in Delivery \union {"steer"} => HasStored(req[c])'
  <2>1. CASE LookUpSession(d)
    BY <1>0, <1>1, <1>2, <2>1 DEF LookUpSession, InputTypeOK, NoRequest
  <2>2. CASE \E x : Locate(d, x, req[d].seen)
    <3>1. req[d].seen \in LinksType /\ d \in Callers
      BY <1>0 DEF InputTypeOK, Request, LinksType
    <3> QED BY <1>4, <2>2, <3>1
  <2>3. CASE ReleaseLock(d)
    BY <1>0, <1>1, <1>2, <1>5, <2>3
  <2> QED BY <1>8, <2>1, <2>2, <2>3, AnswersHold
          DEF DispatcherStep, DispatchPending, MarkFires, RefuseFires
<1>9. ASSUME NEW d \in Callers, NEW i, SubmitInput(d, i)
      PROVE  /\ req'[c].step \in {"merge", "append"} => Found(req[c])'
             /\ req'[c].step \in Delivery \union {"steer"} => HasStored(req[c])'
  <2>1. Links \in LinksType
    BY <1>0 DEF Links, LinksType, InputTypeOK
  <2> QED BY <1>4, <1>9, <2>1 DEF SubmitInput
<1>10. CASE \E r \in Runs : Executes(r) \/ Dispatch(r) \/ Posted(r) \/ Stop(r)
                            \/ \E i \in Steers : SteerRun(r, i)
  <2>1. req' = req
    BY <1>10 DEF Executes, Claim, ExecuteLoad, ForwardSteering, ForwardMapped, ModelRequest,
       FinishOutput, StreamEnds, StreamInterrupted, TerminalGate, GateLooksAgain, Continues,
       Commit, Fail, Dispatch, Posted, Stop, SteerRun, callVars
  <2> QED BY <1>1, <2>1
<1>11. CASE CrashRestart
  BY <1>2, <1>11 DEF CrashRestart
<1>12. CASE (\E f \in Fires : CreateFire(f)) \/ UNCHANGED <<inputVars, fireVars>>
  BY <1>1, <1>12 DEF CreateFire, vars, inputVars, callVars
<1>13. ASSUME NEW d \in Callers, Return(d) \/ Refuse(d)
       PROVE  req'[c] = req[c] \/ req'[c] = NoRequest
  BY <1>5, <1>13, AnswersHold
<1>14. ASSUME NEW d \in Callers, Delivers(d)
       PROVE  /\ req'[c].step \in {"merge", "append"} => Found(req[c])'
              /\ req'[c].step \in Delivery \union {"steer"} => HasStored(req[c])'
  BY <1>1, <1>6, <1>7, <1>14
<1> QED BY <1>1, <1>2, <1>8, <1>9, <1>10, <1>11, <1>12, <1>13, <1>14, AgencyAssumption,
        Kinds DEF SessionStep, Hooks

LEMMA StoredStep == TypeOK /\ Stored /\ [Next]_vars => Stored'
<1> SUFFICES ASSUME TypeOK, Stored, [Next]_vars PROVE Stored'
  OBVIOUS
<1>1. RowsStay
  BY RowsStep
<1>2. ASSUME NEW f \in Fires, fireRun'[f] # None
      PROVE  f \in parts'[fireRun'[f]] /\ fire'[f] \in Delivery \union {"failed"}
  <2>0. /\ fire \in [Fires -> FireStatus] /\ fireRun \in [Fires -> RunId]
        /\ \A d \in Dispatchers : d \in Callers
    BY AgencyAssumption DEF TypeOK
  <2>1. CASE fireRun'[f] = fireRun[f] /\ fire'[f] \in {fire[f], "failed"}
    <3>1. fireRun[f] \in Runs
      BY <1>2, <2>0, <2>1 DEF RunId
    <3> QED BY <1>1, <1>2, <2>1, <3>1 DEF Stored, HandedOverIsStored, RowsStay
  <2>2. ASSUME NEW g \in Fires, CreateFire(g) PROVE fireRun'[f] = fireRun[f] /\ fire'[f] = fire[f]
    <3>1. fire[g] = "absent" /\ fireRun' = fireRun /\ fire' = [fire EXCEPT ![g] = "pending"]
      BY <2>2 DEF CreateFire
    <3>2. g # f
      BY <1>2, <3>1 DEF Stored, HandedOverIsStored, Delivery
    <3> QED BY <2>0, <3>1, <3>2
  <2>3. ASSUME NEW d \in Dispatchers, MarkFires(d)
        PROVE  f \in parts'[fireRun'[f]] /\ fire'[f] \in Delivery \union {"failed"}
    <3>1. CASE f \in req[d].items
      <4>1. HasStored(req[d]) /\ req[d].step \in Delivery
        BY <2>0, <2>3 DEF MarkFires, Return, Stored
      <4>2. fireRun'[f] = req[d].run /\ fire'[f] = req[d].step
        BY <2>3, <3>1 DEF MarkFires, Marked
      <4> QED BY <1>1, <3>1, <4>1, <4>2 DEF HasStored, Found, RowsStay
    <3>2. CASE f \notin req[d].items
      BY <2>1, <2>3, <3>2 DEF MarkFires, Marked
    <3> QED BY <3>1, <3>2
  <2>4. ASSUME NEW r \in Runs, Hooks(r) PROVE fireRun'[f] = fireRun[f] /\ fire'[f] \in {fire[f], "failed"}
    BY <2>4 DEF Hooks
  <2>5. CASE UNCHANGED <<fire, fireRun>>
    BY <2>1, <2>5
  <2>6. CASE \E d \in Dispatchers : LookUpSession(d) \/ DispatchPending(d) \/ RefuseFires(d)
    BY <2>5, <2>6 DEF LookUpSession, DispatchPending, RefuseFires, fireVars
  <2> QED BY <2>1, <2>2, <2>3, <2>4, <2>5, <2>6, Kinds
          DEF SessionStep, DispatcherStep, fireVars
<1>3. HandedOverIsStored'
  BY <1>2 DEF HandedOverIsStored
<1>4. \A r \in Runs : status'[r] = "absent" => parts'[r] = {}
  BY <1>1 DEF RowsStay
<1>5. ASSUME NEW c \in Callers
      PROVE  /\ req'[c].step \in {"merge", "append"} => Found(req[c])' 
             /\ req'[c].step \in Delivery \union {"steer"} => HasStored(req[c])'
  BY CallStep
<1> QED BY <1>3, <1>4, <1>5 DEF Stored

LEMMA InitStored == Init => Stored
  BY NoRequestType DEF Init, InputInit, Stored, HandedOverIsStored, Delivery

\* A fire that counts as handed over is in the input of its run, through any
\* loss of the process, refusal, stop and failure.
THEOREM HandedOver == Spec => []HandedOverIsStored
<1>1. TypeOK /\ Stored /\ [Next]_vars => TypeOK' /\ Stored'
  BY StepType, StoredStep
<1>2. Stored => HandedOverIsStored
  BY DEF Stored
<1> QED BY <1>1, <1>2, InitType, InitStored, PTL DEF Spec

-----------------------------------------------------------------------------
(***************************************************************************)
(* A fire that a completed run was created for was in its prompt           *)
(***************************************************************************)
CreatedFor(r) == {f \in Fires : fire[f] = "submitted" /\ fireRun[f] = r}

Loaded == {"streaming", "finishing", "ended", "draining", "committing"}

\* A run is dispatched when the call that created it has returned, and by then
\* its fires are marked; so they are in the row when it is loaded.
Prompted ==
    /\ \A r \in Runs : stage[r] \in Loaded \/ status[r] = "completed"
                         => CreatedFor(r) \subseteq loaded[r]
    /\ \A r \in Runs : status[r] = "completed" => stage[r] \in {"posting", "done"}
    /\ \A c \in Callers : req[c].step = "submitted" => stage[req[c].run] = "created"

HasRun == \A f \in Fires : fire[f] \in Delivery => fireRun[f] \in Runs

LEMMA HasRunStep == TypeOK /\ Stored /\ HasRun /\ [Next]_vars => HasRun'
<1> SUFFICES ASSUME TypeOK, Stored, HasRun, [Next]_vars PROVE HasRun'
  OBVIOUS
<1>0. /\ \A d \in Dispatchers : d \in Callers
      /\ fire \in [Fires -> FireStatus] /\ fireRun \in [Fires -> RunId]
  BY AgencyAssumption DEF TypeOK
<1>1. ASSUME NEW f \in Fires, CreateFire(f) PROVE HasRun'
  BY <1>0, <1>1 DEF CreateFire, HasRun, Delivery
<1>2. ASSUME NEW d \in Dispatchers, MarkFires(d) PROVE HasRun'
  <2>1. req[d].run \in Runs
    BY <1>0, <1>2 DEF MarkFires, Return, Stored, HasStored, Found
  <2> QED BY <1>2, <2>1 DEF MarkFires, Marked, HasRun
<1>3. ASSUME NEW r \in Runs, Hooks(r) PROVE HasRun'
  BY <1>3 DEF Hooks, HasRun, Delivery
<1>4. ASSUME UNCHANGED <<fire, fireRun>> PROVE HasRun'
  BY <1>4 DEF HasRun
<1>5. CASE \E d \in Dispatchers : LookUpSession(d) \/ DispatchPending(d) \/ RefuseFires(d)
  BY <1>4, <1>5 DEF LookUpSession, DispatchPending, RefuseFires, fireVars
<1> QED BY <1>1, <1>2, <1>3, <1>4, <1>5, Kinds
        DEF SessionStep, DispatcherStep, fireVars

LEMMA PromptedExecutor ==
    ASSUME TypeOK, Stored, Prompted, NEW r \in Runs,
           Executes(r) \/ Dispatch(r) \/ Posted(r),
           \A s \in Runs : CreatedFor(s)' \subseteq CreatedFor(s)
    PROVE  Prompted'
<1>0. InputTypeOK /\ CreatedFor(r) \subseteq parts[r]
  BY InputAssumption DEF TypeOK, Stored, HandedOverIsStored, CreatedFor, RunId
<1> USE DEF Goto, LeavesExecute, callVars, gotVars, tableVars
<1>1. ASSUME req' = req, stage[r] # "created" \/ \A c \in Callers : req[c].run # r,
             \A s \in Runs : s # r => stage'[s] = stage[s] /\ status'[s] = status[s]
                                      /\ loaded'[s] = loaded[s],
             stage'[r] \in Loaded \/ status'[r] = "completed"
               => CreatedFor(r) \subseteq loaded'[r],
             status'[r] = "completed" => stage'[r] \in {"posting", "done"}
      PROVE  Prompted'
  <2>1. ASSUME NEW s \in Runs, stage'[s] \in Loaded \/ status'[s] = "completed"
        PROVE  CreatedFor(s)' \subseteq loaded'[s]
    BY <1>1, <2>1 DEF Prompted
  <2>2. ASSUME NEW c \in Callers, req[c].step = "submitted" PROVE stage'[req[c].run] = "created"
    <3>1. req[c].run \in Runs
      BY <2>2 DEF Stored, HasStored, Found, Delivery
    <3> QED BY <1>1, <2>2, <3>1 DEF Prompted
  <2>3. \A s \in Runs : status'[s] = "completed" => stage'[s] \in {"posting", "done"}
    BY <1>1 DEF Prompted
  <2> QED BY <1>1, <2>1, <2>2, <2>3 DEF Prompted
<1>2. CASE Dispatch(r)
  BY <1>0, <1>1, <1>2 DEF Dispatch, InputTypeOK, Prompted, Loaded
<1>3. ASSUME Claim(r) \/ Fail(r) \/ StreamInterrupted(r) \/ Posted(r) PROVE Prompted'
  <2>1. /\ stage[r] # "created" /\ req' = req
        /\ \A s \in Runs : s # r => stage'[s] = stage[s] /\ status'[s] = status[s]
                                 /\ loaded'[s] = loaded[s]
    BY <1>0, <1>3 DEF Claim, Fail, StreamInterrupted, Streams, Posted, InputTypeOK
  <2>2. loaded' = loaded /\ stage'[r] \notin Loaded
    BY <1>0, <1>3 DEF Claim, Fail, StreamInterrupted, Posted, InputTypeOK, Loaded
  <2>3. status'[r] = "completed" => status[r] = "completed" /\ stage'[r] = "done"
    BY <1>0, <1>3 DEF Claim, Fail, StreamInterrupted, Streams, Posted, InputTypeOK, Prompted
  <2> QED BY <1>1, <2>1, <2>2, <2>3 DEF Prompted
<1>4. CASE ExecuteLoad(r)
  BY <1>0, <1>1, <1>4 DEF ExecuteLoad, InputTypeOK, Prompted, Loaded
<1>5. CASE FinishOutput(r) \/ StreamEnds(r)
  BY <1>0, <1>1, <1>5 DEF FinishOutput, StreamEnds, InputTypeOK, Prompted, Loaded
<1>6. CASE TerminalGate(r) \/ GateLooksAgain(r)
  BY <1>0, <1>1, <1>6 DEF TerminalGate, GateLooksAgain, Continues, InputTypeOK, Prompted, Loaded
<1>7. CASE Commit(r)
  BY <1>0, <1>1, <1>7 DEF Commit, InputTypeOK, Prompted, Loaded
<1>8. CASE ForwardSteering(r) \/ ForwardMapped(r) \/ ModelRequest(r)
  BY <1>8 DEF ForwardSteering, ForwardMapped, ModelRequest, Prompted, execVars
<1> QED BY <1>2, <1>3, <1>4, <1>5, <1>6, <1>7, <1>8 DEF Executes

LEMMA PromptedCalls ==
    ASSUME TypeOK, Locked, Prompted,
           \A s \in Runs : CreatedFor(s)' \subseteq CreatedFor(s),
           UNCHANGED loaded, NEW c \in Callers,
           \A d \in Callers : d # c => req'[d] = req[d]
    PROVE  /\ UNCHANGED <<status, stage>> /\ req'[c].step # "submitted" => Prompted'
           /\ \A r \in Runs : CreateRun(c, r) => Prompted'
<1>0. InputTypeOK
  BY DEF TypeOK
<1>1. ASSUME UNCHANGED <<status, stage>>, req'[c].step # "submitted" PROVE Prompted'
  BY <1>1 DEF Prompted
<1>2. ASSUME NEW r \in Runs, CreateRun(c, r) PROVE Prompted'
  <2>1. /\ stage' = [stage EXCEPT ![r] = "created"] /\ status' = [status EXCEPT ![r] = "queued"]
        /\ Proceed(c, "submitted", r)
    BY <1>2 DEF CreateRun
  <2>2. req'[c].run = r
    BY <1>0, <2>1, ProceedType DEF Step, Delivery, RunId
  <2>3. /\ stage'[r] = "created" /\ status'[r] = "queued"
        /\ \A s \in Runs : s # r => stage'[s] = stage[s] /\ status'[s] = status[s]
    BY <1>0, <2>1 DEF InputTypeOK
  <2>4. \A d \in Callers : d # c => ~Holding(req[d])
    BY <1>2 DEF CreateRun, Locked, Holding
  <2>5. \A d \in Callers : d # c => req'[d].step # "submitted"
    BY <2>4 DEF Holding
  <2> QED BY <2>2, <2>3, <2>5 DEF Prompted, Loaded
<1> QED BY <1>1, <1>2

LEMMA PromptedStep == TypeOK /\ Locked /\ Stored /\ Prompted /\ [Next]_vars => Prompted'
<1> SUFFICES ASSUME TypeOK, Locked, Stored, Prompted, [Next]_vars PROVE Prompted'
  OBVIOUS
<1>0. /\ InputTypeOK /\ \A d \in Dispatchers : d \in Callers
      /\ fire \in [Fires -> FireStatus] /\ fireRun \in [Fires -> RunId]
  BY AgencyAssumption DEF TypeOK
<1>1. fireRun' = fireRun /\ (\A f \in Fires : fire'[f] = fire[f] \/ fire'[f] # "submitted")
        => \A s \in Runs : CreatedFor(s)' \subseteq CreatedFor(s)
  BY DEF CreatedFor
<1>2. ASSUME NEW f \in Fires, CreateFire(f) PROVE Prompted'
  <2>1. \A g \in Fires : fire'[g] = fire[g] \/ fire'[g] # "submitted"
    BY <1>0, <1>2 DEF CreateFire
  <2>2. \A s \in Runs : CreatedFor(s)' \subseteq CreatedFor(s)
    BY <1>1, <1>2, <2>1 DEF CreateFire
  <2> QED BY <1>2, <2>2 DEF CreateFire, inputVars, tableVars, execVars, gotVars, callVars, Prompted
<1>3. ASSUME NEW r \in Runs, Hooks(r) PROVE Prompted'
  <2>1. \A s \in Runs : CreatedFor(s)' \subseteq CreatedFor(s)
    BY <1>1, <1>3 DEF Hooks
  <2> QED BY <1>3, <2>1, PromptedExecutor DEF Hooks
<1>4. ASSUME UNCHANGED fireVars PROVE \A s \in Runs : CreatedFor(s)' \subseteq CreatedFor(s)
  BY <1>1, <1>4 DEF fireVars
<1>5. ASSUME NEW r \in Runs, Executes(r) \/ Dispatch(r), UNCHANGED fireVars PROVE Prompted'
  BY <1>4, <1>5, PromptedExecutor
<1>6. ASSUME NEW c \in Callers, ReleaseLock(c) \/ MergeInput(c) \/ SteerInput(c)
                                \/ \E x, l : Locate(c, x, l)
      PROVE  /\ UNCHANGED <<status, stage, loaded>> /\ req'[c].step # "submitted"
             /\ \A d \in Callers : d # c => req'[d] = req[d]
  <2>1. CASE ReleaseLock(c)
    BY <1>0, <2>1, NoRequestType DEF ReleaseLock, tableVars, execVars, gotVars, InputTypeOK
  <2>2. CASE MergeInput(c) \/ SteerInput(c)
    <3>1. PICK st, r : Proceed(c, st, r) /\ st \in {"merged", "steer", "steered"} /\ r \in RunId
      BY <1>0, <2>2 DEF MergeInput, SteerInput, InputTypeOK, Request
    <3>2. st \in Step
      BY <3>1 DEF Step, Delivery
    <3>3. req'[c].step = st /\ \A d \in Callers : d # c => req'[d] = req[d]
      BY <1>0, <3>1, <3>2, ProceedType
    <3> QED BY <2>2, <3>1, <3>3 DEF MergeInput, SteerInput, RecordSteering, tableVars, execVars, gotVars
  <2>3. ASSUME NEW x, NEW l, Locate(c, x, l)
        PROVE  /\ UNCHANGED <<status, stage, loaded>> /\ req'[c].step # "submitted"
               /\ \A d \in Callers : d # c => req'[d] = req[d]
    BY <1>0, <2>3 DEF Locate, DeliveryStep, tableVars, execVars, gotVars, InputTypeOK
  <2> QED BY <1>6, <2>1, <2>2, <2>3
<1>7. ASSUME NEW c \in Callers, ReleaseLock(c) \/ MergeInput(c) \/ SteerInput(c)
                                \/ \E x, l : Locate(c, x, l),
             UNCHANGED fireVars \/ RefuseFires(c)
      PROVE  Prompted'
  BY <1>1, <1>4, <1>6, <1>7, PromptedCalls DEF RefuseFires
<1>8. ASSUME NEW c \in Callers, NEW r \in Runs, CreateRun(c, r), UNCHANGED fireVars PROVE Prompted'
  <2>1. \A d \in Callers : d # c => req'[d] = req[d]
    BY <1>0, <1>8, DeliversLocked DEF Delivers
  <2> QED BY <1>4, <1>8, <2>1, PromptedCalls DEF CreateRun, gotVars
<1>9. ASSUME NEW d \in Dispatchers, LookUpSession(d) PROVE Prompted'
  <2>1. /\ UNCHANGED <<status, stage, loaded>> /\ req'[d].step # "submitted"
        /\ \A c \in Callers : c # d => req'[c] = req[c]
    BY <1>0, <1>9 DEF LookUpSession, NoRequest, tableVars, execVars, gotVars, InputTypeOK
  <2> QED BY <1>0, <1>4, <1>9, <2>1, PromptedCalls DEF LookUpSession
<1>10. ASSUME NEW d \in Dispatchers, MarkFires(d) PROVE Prompted'
  <2>1. ReleaseLock(d) /\ req[d].step \in Delivery /\ HasStored(req[d])
    BY <1>0, <1>10 DEF MarkFires, Return, Stored
  <2>2. /\ UNCHANGED <<status, stage, loaded>> /\ req'[d].step # "submitted"
        /\ \A c \in Callers : c # d => req'[c] = req[c]
    BY <1>0, <1>6, <2>1
  <2>3. ASSUME NEW s \in Runs, stage[s] \in Loaded \/ status[s] = "completed"
        PROVE  CreatedFor(s)' \subseteq CreatedFor(s)
    <3>1. ~(req[d].step = "submitted" /\ req[d].run = s)
      BY <1>0, <2>3 DEF Prompted, Loaded
    <3>2. ASSUME NEW f \in Fires, fire'[f] = "submitted", fireRun'[f] = s
          PROVE  fire[f] = "submitted" /\ fireRun[f] = s
      BY <1>10, <3>1, <3>2 DEF MarkFires, Marked
    <3> QED BY <3>2 DEF CreatedFor
  <2>4. \A s \in Runs : stage'[s] \in Loaded \/ status'[s] = "completed"
                         => CreatedFor(s)' \subseteq loaded'[s]
    BY <2>2, <2>3 DEF Prompted
  <2> QED BY <2>2, <2>4 DEF Prompted
<1>11. CASE CrashRestart /\ UNCHANGED fireVars
  <2>1. \A c \in Callers : req'[c].step # "submitted"
    BY <1>11, NoRequestType DEF CrashRestart
  <2>2. \A r \in Runs : /\ stage'[r] \notin Loaded
                        /\ status'[r] = "completed" => status[r] = "completed" /\ stage'[r] = "done"
    BY <1>11 DEF CrashRestart, Loaded
  <2> QED BY <1>4, <1>11, <2>1, <2>2 DEF Prompted, CrashRestart, gotVars
<1>12. ASSUME NEW r \in Runs, Stop(r), UNCHANGED fireVars PROVE Prompted'
  <2>1. \A s \in Runs : status'[s] = "completed" => status[s] = "completed"
    BY <1>0, <1>12 DEF Stop, InputTypeOK
  <2> QED BY <1>4, <1>12, <2>1 DEF Stop, Prompted, execVars, gotVars, callVars
<1>13. ASSUME UNCHANGED <<status, stage, loaded, req>>, UNCHANGED fireVars PROVE Prompted'
  BY <1>4, <1>13 DEF Prompted
<1>14. CASE \/ UNCHANGED fireVars /\ \E r \in Runs, i \in Steers : SteerRun(r, i)
            \/ UNCHANGED <<inputVars, fireVars>>
  BY <1>13, <1>14 DEF SteerRun, RecordSteering, tableVars, execVars, gotVars, callVars, vars, inputVars
<1>15. CASE SessionStep \/ (CrashRestart /\ UNCHANGED fireVars)
  BY <1>5, <1>7, <1>8, <1>11, <1>12, <1>14, <1>15, AnswersHold DEF SessionStep, SubmitInput, Delivers
<1>16. ASSUME NEW d \in Dispatchers, DispatchPending(d) \/ RefuseFires(d) PROVE Prompted'
  BY <1>0, <1>7, <1>16, AnswersHold DEF DispatchPending, RefuseFires
<1> QED BY <1>2, <1>3, <1>9, <1>10, <1>14, <1>15, <1>16, Kinds
        DEF DispatcherStep, SessionStep

\* A run that was created for a fire and completes has had the fire in its prompt.
THEOREM SubmittedHeard == Spec => []SubmittedFireIsHeard
<1>1. Init => TypeOK /\ Locked /\ Stored /\ HasRun /\ Prompted
  <2>1. Init => Prompted
    BY NoRequestType DEF Init, InputInit, Prompted, Loaded
  <2>2. Init => HasRun
    BY DEF Init, HasRun, Delivery
  <2> QED BY <2>1, <2>2, InitType, InitLocked, InitStored
<1>2. TypeOK /\ Locked /\ Stored /\ HasRun /\ Prompted /\ [Next]_vars
        => TypeOK' /\ Locked' /\ Stored' /\ HasRun' /\ Prompted'
  BY StepType, LockedStep, StoredStep, HasRunStep, PromptedStep
<1>3. HasRun /\ Prompted => SubmittedFireIsHeard
  <2> SUFFICES ASSUME HasRun, Prompted, NEW f \in Fires, fire[f] = "submitted",
                      status[fireRun[f]] = "completed"
               PROVE  f \in loaded[fireRun[f]]
    BY DEF SubmittedFireIsHeard
  <2>1. fireRun[f] \in Runs
    BY DEF HasRun, Delivery
  <2> QED BY <2>1 DEF Prompted, CreatedFor
<1> QED BY <1>1, <1>2, <1>3, PTL DEF Spec
-----------------------------------------------------------------------------
(***************************************************************************)
(* What is steered is in one place                                         *)
(***************************************************************************)
Given(r) == queue[r] \union taken[r] \union bus[r] \union heard[r]

Entering(q) == q.step \in {"create", "merge", "append", "steer"}
HasSteered(f) == \E c \in Callers : req[c].step = "steered" /\ f \in req[c].items

\* Whose items a call carries: a dispatcher has fires, the others what was sent.
Carriage ==
    \A c \in Callers :
        /\ c \in Dispatchers => req[c].items \subseteq Fires
        /\ c \notin Dispatchers => req[c].items \subseteq Submits \intersect sent

\* Nothing is given to a run before it lives, and no fire before it is claimed;
\* a call that will steer has found a run that was claimed.
NotYetGiven ==
    /\ \A r \in Runs : status[r] = "absent" => Given(r) = {}
    /\ \A r \in Runs : status[r] = "queued" => Given(r) \intersect Fires = {}
    /\ \A c \in Callers : req[c].step \in {"append", "steer"} /\ req[c].run \in Runs
                            => status[req[c].run] \notin {"absent", "queued"}

\* What a live run was given is not given again: a client does not send an item
\* twice, the row of a fire tells, or the call that gave it has not returned.
GivenOnce ==
    /\ \A r \in Runs : Given(r) \ Fires \subseteq sent
    /\ \A r \in Runs : status[r] \in Live =>
         \A f \in Given(r) \intersect Fires :
            fire[f] \notin {"absent", "pending"} \/ HasSteered(f)
    /\ \A c \in Callers, r \in Runs :
         Entering(req[c]) /\ status[r] \in Live => req[c].items \intersect Given(r) = {}

Steering == Carriage /\ NotYetGiven /\ GivenOnce /\ SteeredOnce

\* The status of a run moves on, a call goes on with its items or forgets them,
\* and nothing is given.
Onwards(r) ==
    \/ status'[r] = status[r]
    \/ status'[r] \notin Live \union {"absent"}
    \/ status[r] = "queued" /\ status'[r] = "running"
    \/ status[r] = "absent" /\ status'[r] = "queued"

GoesOn(c) ==
    \/ req'[c].items = {} /\ req'[c].step \notin {"append", "steer"}
    \/ /\ req'[c].items = req[c].items
       /\ Entering(req'[c]) => Entering(req[c])
       /\ req'[c].step \in {"append", "steer"}
            => req[c].step \in {"append", "steer"} /\ req'[c].run = req[c].run

LEMMA NothingGiven ==
    ASSUME TypeOK, Steering, SteeredOnce',
           \A r \in Runs : Onwards(r) /\ Given(r)' \subseteq Given(r),
           \A c \in Callers : GoesOn(c),
           sent \subseteq sent',
           \A f \in Fires : /\ fire'[f] = fire[f] \/ fire'[f] \notin {"absent", "pending"}
                            /\ HasSteered(f) => HasSteered(f)' \/ fire'[f] \notin {"absent", "pending"}
    PROVE  Steering'
<1> USE DEF Steering
<1>1. Carriage'
  BY DEF Carriage, GoesOn
<1>2. NotYetGiven'
  <2>1. ASSUME NEW r \in Runs PROVE /\ status'[r] = "absent" => Given(r)' = {}
                                    /\ status'[r] = "queued" => Given(r)' \intersect Fires = {}
    BY DEF NotYetGiven, Onwards, Live
  <2>2. ASSUME NEW c \in Callers, req'[c].step \in {"append", "steer"}, req'[c].run \in Runs
        PROVE  status'[req'[c].run] \notin {"absent", "queued"}
    BY <2>2 DEF NotYetGiven, Onwards, GoesOn, Live
  <2> QED BY <2>1, <2>2 DEF NotYetGiven
<1>3. GivenOnce'
  <2>1. \A r \in Runs : Given(r)' \ Fires \subseteq sent'
    BY DEF GivenOnce
  <2>2. ASSUME NEW r \in Runs, status'[r] \in Live PROVE status[r] \in Live \/ Given(r)' = {}
    BY <2>2 DEF NotYetGiven, Onwards, Live
  <2>3. ASSUME NEW r \in Runs, status'[r] \in Live, NEW f \in Given(r)' \intersect Fires
        PROVE  fire'[f] \notin {"absent", "pending"} \/ HasSteered(f)'
    BY <2>2, <2>3 DEF GivenOnce
  <2>4. ASSUME NEW c \in Callers, NEW r \in Runs, Entering(req'[c]), status'[r] \in Live
        PROVE  req'[c].items \intersect Given(r)' = {}
    BY <2>2, <2>4 DEF GivenOnce, GoesOn
  <2> QED BY <2>1, <2>3, <2>4 DEF GivenOnce, Entering
<1> QED BY <1>1, <1>2, <1>3

\* An executor only moves what its run was given.
LEMMA ExecutorMoves ==
    ASSUME InputTypeOK, SteeredOnce, NEW r \in Runs, Executes(r) \/ Dispatch(r) \/ Posted(r)
    PROVE  /\ SteeredOnce' /\ req' = req /\ sent' = sent
           /\ \A s \in Runs : Onwards(s) /\ Given(s)' \subseteq Given(s)
<1> USE DEF Goto, LeavesExecute, callVars, tableVars, execVars, pipeVars, gotVars, inputBounds
<1>1. ASSUME \A s \in Runs : s # r => /\ queue'[s] = queue[s] /\ taken'[s] = taken[s]
                                      /\ bus'[s] = bus[s] /\ heard'[s] = heard[s]
                                      /\ status'[s] = status[s],
             Onwards(r), req' = req, sent' = sent,
             Given(r)' \subseteq Given(r),
             /\ queue'[r] \intersect (taken'[r] \union bus'[r] \union heard'[r]) = {}
             /\ taken'[r] \intersect (bus'[r] \union heard'[r]) = {}
             /\ bus'[r] \intersect heard'[r] = {}
      PROVE  /\ SteeredOnce' /\ req' = req /\ sent' = sent
             /\ \A s \in Runs : Onwards(s) /\ Given(s)' \subseteq Given(s)
  BY <1>1 DEF SteeredOnce, Onwards, Given
<1>2. ASSUME UNCHANGED <<pipeVars, heard, req, sent>>,
             \A s \in Runs : s # r => status'[s] = status[s], Onwards(r)
      PROVE  /\ SteeredOnce' /\ req' = req /\ sent' = sent
             /\ \A s \in Runs : Onwards(s) /\ Given(s)' \subseteq Given(s)
  BY <1>2 DEF SteeredOnce, Onwards, Given
<1>3. CASE Claim(r) \/ ExecuteLoad(r) \/ FinishOutput(r) \/ Commit(r) \/ Dispatch(r) \/ Posted(r)
  BY <1>2, <1>3 DEF Claim, ExecuteLoad, FinishOutput, Commit, Dispatch, Posted, Onwards,
     InputTypeOK, Live
<1>4. CASE ForwardSteering(r)
  BY <1>1, <1>4 DEF ForwardSteering, Consumed, SteeredOnce, Onwards, Given, InputTypeOK
<1>5. CASE ForwardMapped(r) \/ ModelRequest(r)
  BY <1>1, <1>5 DEF ForwardMapped, ModelRequest, SteeredOnce, Onwards, Given, InputTypeOK
<1>6. CASE StreamEnds(r) \/ StreamInterrupted(r) \/ Fail(r)
  BY <1>1, <1>6 DEF StreamEnds, StreamInterrupted, Fail, SteeredOnce, Onwards, Given, InputTypeOK, Live
<1>7. ASSUME Continues(r) PROVE /\ SteeredOnce' /\ req' = req /\ sent' = sent
                                /\ \A s \in Runs : Onwards(s) /\ Given(s)' \subseteq Given(s)
  BY <1>1, <1>7 DEF Continues, Consumed, SteeredOnce, Onwards, Given, InputTypeOK
<1>8. CASE TerminalGate(r) \/ GateLooksAgain(r)
  BY <1>2, <1>7, <1>8 DEF TerminalGate, GateLooksAgain, Onwards
<1> QED BY <1>3, <1>4, <1>5, <1>6, <1>8 DEF Executes

\* Items that a live run was not given are put into its handle.
LEMMA Given1 ==
    ASSUME TypeOK, Steering, NEW r \in Runs, NEW I \in SUBSET Items,
           RecordSteering(r, I), I \intersect Given(r) = {}
    PROVE  /\ SteeredOnce' /\ UNCHANGED status
           /\ \A s \in Runs : Given(s)' = IF s = r THEN Given(s) \union I ELSE Given(s)
           /\ status[r] \in Live
<1>1. /\ queue' = [queue EXCEPT ![r] = @ \union I]
      /\ UNCHANGED <<taken, bus, heard, status>> /\ status[r] \in Live
  BY DEF RecordSteering, Steerable, tableVars, gotVars
<1>2. \A s \in Runs : queue'[s] = IF s = r THEN queue[s] \union I ELSE queue[s]
  BY <1>1 DEF TypeOK, InputTypeOK
<1>3. \A s \in Runs : Given(s)' = IF s = r THEN Given(s) \union I ELSE Given(s)
  BY <1>1, <1>2 DEF Given
<1>4. SteeredOnce'
  <2> SUFFICES ASSUME NEW s \in Runs
               PROVE  queue'[s] \intersect (taken[s] \union bus[s] \union heard[s]) = {}
    BY <1>1 DEF Steering, SteeredOnce
  <2>1. queue[s] \intersect (taken[s] \union bus[s] \union heard[s]) = {}
    BY DEF Steering, SteeredOnce
  <2> QED BY <1>2, <2>1 DEF Given
<1> QED BY <1>1, <1>3, <1>4

LEMMA SteerRunGives ==
    ASSUME TypeOK, Steering, NEW r \in Runs, NEW i \in Steers, SteerRun(r, i), UNCHANGED fireVars
    PROVE  Steering'
<1>1. i \in Items /\ i \notin Fires /\ i \notin sent /\ sent' = sent \union {i}
  BY InputAssumption, AgencyAssumption DEF SteerRun
<1>2. RecordSteering(r, {i}) /\ {i} \intersect Given(r) = {}
  BY <1>1 DEF SteerRun, Steering, GivenOnce
<1>3. /\ SteeredOnce' /\ UNCHANGED status /\ status[r] \in Live
      /\ \A s \in Runs : Given(s)' = IF s = r THEN Given(s) \union {i} ELSE Given(s)
  BY <1>1, <1>2, Given1
<1>4. req' = req /\ fire' = fire
  BY DEF SteerRun, callVars, fireVars
<1>5. \A c \in Callers : i \notin req[c].items
  BY <1>1 DEF Steering, Carriage
<1>6. Carriage'
  BY <1>1, <1>4 DEF Steering, Carriage
<1>7. NotYetGiven'
  BY <1>1, <1>3, <1>4 DEF Steering, NotYetGiven, Live
<1>8. GivenOnce'
  <2>1. \A s \in Runs : Given(s)' \ Fires \subseteq sent'
    BY <1>1, <1>3 DEF Steering, GivenOnce
  <2>2. ASSUME NEW s \in Runs, status'[s] \in Live, NEW f \in Given(s)' \intersect Fires
        PROVE  fire'[f] \notin {"absent", "pending"} \/ HasSteered(f)'
    BY <1>1, <1>3, <1>4, <2>2 DEF Steering, GivenOnce, HasSteered
  <2>3. ASSUME NEW c \in Callers, NEW s \in Runs, Entering(req'[c]), status'[s] \in Live
        PROVE  req'[c].items \intersect Given(s)' = {}
    BY <1>3, <1>4, <1>5, <2>3 DEF Steering, GivenOnce
  <2> QED BY <2>1, <2>2, <2>3 DEF GivenOnce, Entering
<1> QED BY <1>3, <1>6, <1>7, <1>8 DEF Steering

LEMMA SteerInputGives ==
    ASSUME TypeOK, Locked, Stored, Steering, NEW c \in Callers, SteerInput(c), UNCHANGED fireVars
    PROVE  Steering'
<1> DEFINE r == req[c].run
           I == req[c].items
<1>1. r \in Runs /\ I \in SUBSET Items /\ req[c].step = "steer"
  BY DEF SteerInput, Stored, HasStored, Found, TypeOK, InputTypeOK, Request
<1>2. RecordSteering(r, I) /\ status[r] \in Live
  BY DEF SteerInput, RecordSteering, Steerable
<1>3. I \intersect Given(r) = {}
  BY <1>1, <1>2 DEF Steering, GivenOnce, Entering
<1>4. /\ \A d \in Callers : d # c => req'[d] = req[d] /\ ~Holding(req[d])
      /\ req'[c].items = I /\ req'[c].step = "steered"
  <2>1. Delivers(c) /\ InputTypeOK
    BY DEF Delivers, TypeOK
  <2>2. /\ lock = c /\ req'[c].items = req[c].items
        /\ \A d \in Callers : d # c => req'[d] = req[d]
    BY <2>1, DeliversLocked
  <2>3. req'[c].step = "steered"
    BY <1>1, <2>1, ProceedType DEF SteerInput, Step, Delivery, RunId
  <2> QED BY <2>2, <2>3 DEF Locked
<1>5. sent' = sent /\ fire' = fire
  BY DEF SteerInput, inputBounds, fireVars
<1>6. I \ Fires \subseteq sent
  BY DEF Steering, Carriage
<1> HIDE DEF r, I
<1>7. /\ SteeredOnce' /\ UNCHANGED status
      /\ \A s \in Runs : Given(s)' = IF s = r THEN Given(s) \union I ELSE Given(s)
  BY <1>1, <1>2, <1>3, Given1
<1>8. Carriage'
  BY <1>4, <1>5 DEF Steering, Carriage, I
<1>9. NotYetGiven'
  <2>1. status[r] \notin {"absent", "queued"}
    BY <1>1 DEF Steering, NotYetGiven, r
  <2>2. \A s \in Runs : /\ status'[s] = "absent" => Given(s)' = {}
                        /\ status'[s] = "queued" => Given(s)' \intersect Fires = {}
    BY <1>7, <2>1 DEF Steering, NotYetGiven
  <2>3. ASSUME NEW d \in Callers, req'[d].step \in {"append", "steer"}
        PROVE  req'[d] = req[d]
    BY <1>4, <2>3
  <2> QED BY <1>7, <2>2, <2>3 DEF Steering, NotYetGiven
<1>10. GivenOnce'
  <2>1. \A s \in Runs : Given(s)' \ Fires \subseteq sent'
    BY <1>5, <1>6, <1>7 DEF Steering, GivenOnce
  <2>2. ASSUME NEW f, HasSteered(f) \/ f \in I PROVE HasSteered(f)'
    <3>1. CASE f \in I
      BY <1>4, <3>1 DEF HasSteered
    <3>2. CASE HasSteered(f)
      BY <1>1, <1>4, <3>2 DEF HasSteered
    <3> QED BY <2>2, <3>1, <3>2
  <2>3. ASSUME NEW s \in Runs, status'[s] \in Live, NEW f \in Given(s)' \intersect Fires
        PROVE  fire'[f] \notin {"absent", "pending"} \/ HasSteered(f)'
    BY <1>5, <1>7, <2>2, <2>3 DEF Steering, GivenOnce
  <2>4. \A d \in Callers : ~Entering(req'[d])
    BY <1>4 DEF Entering, Holding
  <2> QED BY <2>1, <2>3, <2>4 DEF GivenOnce, Entering
<1> QED BY <1>7, <1>8, <1>9, <1>10 DEF Steering

\* A call begins with items that no live run was given, while no other is inside.
LEMMA LocateCarries ==
    ASSUME TypeOK, Locked, Steering, NEW c \in Callers, NEW items \in SUBSET Items,
           NEW links \in LinksType, Locate(c, items, links),
           sent \subseteq sent', UNCHANGED fireVars,
           c \in Dispatchers => items \subseteq Pending,
           c \notin Dispatchers => items \subseteq Submits \intersect (sent' \ sent)
    PROVE  Steering'
<1>1. /\ req'[c].items = items
      /\ \A d \in Callers : d # c => req'[d] = req[d]
      /\ req'[c].step = DeliveryStep(ActiveRunRecord(links))
      /\ req'[c].run = ActiveRunRecord(links)
      /\ UNCHANGED <<status, queue, taken, bus, heard>>
  BY DEF Locate, TypeOK, InputTypeOK, tableVars, pipeVars, gotVars
<1>2. \A d \in Callers : ~Holding(req[d])
  BY Distinct DEF Locate, LockFree, Locked
<1>3. \A s \in Runs : Given(s)' = Given(s)
  BY <1>1 DEF Given
<1>4. SteeredOnce' /\ fire' = fire
  BY <1>1 DEF Steering, SteeredOnce, fireVars
<1>5. Carriage'
  BY <1>1 DEF Steering, Carriage, Pending
<1>6. NotYetGiven'
  <2>1. req'[c].step \in {"append", "steer"} => status[req'[c].run] \notin {"absent", "queued"}
    <3>1. ActiveRunRecord(links) # None => status[ActiveRunRecord(links)] \in Live
      BY FoundType DEF TypeOK
    <3> QED BY <1>1, <3>1 DEF DeliveryStep, Live
  <2>2. \A d \in Callers : d # c => req'[d].step \notin {"append", "steer"}
    BY <1>1, <1>2 DEF Holding
  <2> QED BY <1>1, <1>3, <2>1, <2>2 DEF Steering, NotYetGiven
<1>7. GivenOnce'
  <2>1. \A s \in Runs : Given(s)' \ Fires \subseteq sent'
    BY <1>3 DEF Steering, GivenOnce
  <2>2. ASSUME NEW s \in Runs, status[s] \in Live
        PROVE  \A f \in Given(s) \intersect Fires : fire[f] \notin {"absent", "pending"}
    <3>1. \A f \in Fires : ~HasSteered(f)
      BY <1>2 DEF HasSteered, Holding
    <3> QED BY <2>2, <3>1 DEF Steering, GivenOnce
  <2>3. ASSUME NEW s \in Runs, status[s] \in Live PROVE items \intersect Given(s) = {}
    <3>1. CASE c \in Dispatchers
      BY <2>2, <2>3, <3>1 DEF Pending
    <3>2. CASE c \notin Dispatchers
      BY <3>2, AgencyAssumption DEF Steering, GivenOnce
    <3> QED BY <3>1, <3>2
  <2>4. \A d \in Callers : d # c => ~Entering(req'[d])
    BY <1>1, <1>2 DEF Entering, Holding
  <2>5. \A s \in Runs : status'[s] \in Live =>
          \A f \in Given(s)' \intersect Fires : fire'[f] \notin {"absent", "pending"}
    BY <1>1, <1>3, <1>4, <2>2
  <2>6. \A d \in Callers, s \in Runs :
          Entering(req'[d]) /\ status'[s] \in Live => req'[d].items \intersect Given(s)' = {}
    BY <1>1, <1>3, <2>3, <2>4
  <2> QED BY <2>1, <2>5, <2>6 DEF GivenOnce, Entering
<1> QED BY <1>4, <1>5, <1>6, <1>7 DEF Steering

LEMMA SteeringStep == TypeOK /\ Locked /\ Stored /\ Steering /\ [Next]_vars => Steering'
<1> SUFFICES ASSUME TypeOK, Locked, Stored, Steering, [Next]_vars PROVE Steering'
  OBVIOUS
<1>0. /\ InputTypeOK /\ SteeredOnce /\ \A d \in Dispatchers : d \in Callers
      /\ fire \in [Fires -> FireStatus]
  BY AgencyAssumption DEF TypeOK, Steering
<1>1. ASSUME UNCHANGED <<status, pipeVars, heard, sent>>, \A c \in Callers : GoesOn(c),
             \A f \in Fires : /\ fire'[f] = fire[f] \/ fire'[f] \notin {"absent", "pending"}
                              /\ HasSteered(f) => HasSteered(f)' \/ fire'[f] \notin {"absent", "pending"}
      PROVE  Steering'
  <2>1. SteeredOnce' /\ \A r \in Runs : Onwards(r) /\ Given(r)' \subseteq Given(r)
    BY <1>0, <1>1 DEF SteeredOnce, Onwards, Given, pipeVars
  <2> QED BY <1>1, <2>1, NothingGiven
<1>2. ASSUME NEW r \in Runs, Executes(r) \/ Dispatch(r) \/ Posted(r),
             \A f \in Fires : fire'[f] = fire[f] \/ fire'[f] \notin {"absent", "pending"}
      PROVE  Steering'
  <2>1. /\ SteeredOnce' /\ req' = req /\ sent' = sent
        /\ \A s \in Runs : Onwards(s) /\ Given(s)' \subseteq Given(s)
    BY <1>0, <1>2, ExecutorMoves
  <2>2. (\A c \in Callers : GoesOn(c)) /\ \A f \in Fires : HasSteered(f) => HasSteered(f)'
    BY <2>1 DEF GoesOn, HasSteered
  <2> QED BY <1>2, <2>1, <2>2, NothingGiven
<1>3. ASSUME NEW r \in Runs, Hooks(r) PROVE Steering'
  BY <1>0, <1>2, <1>3 DEF Hooks
<1>4. ASSUME NEW r \in Runs, Stop(r), UNCHANGED fireVars PROVE Steering'
  <2>1. /\ SteeredOnce' /\ req' = req /\ sent' = sent
        /\ \A s \in Runs : Onwards(s) /\ Given(s)' = Given(s)
    BY <1>0, <1>4 DEF Stop, pipeVars, gotVars, callVars, SteeredOnce, Onwards, Given, InputTypeOK, Live
  <2>2. (\A c \in Callers : GoesOn(c)) /\ \A f \in Fires : HasSteered(f) => HasSteered(f)'
    BY <2>1 DEF GoesOn, HasSteered
  <2> QED BY <1>4, <2>1, <2>2, NothingGiven DEF fireVars
<1>5. ASSUME CrashRestart, UNCHANGED fireVars PROVE Steering'
  <2>1. /\ \A c \in Callers : req'[c].items = {} /\ req'[c].step = "idle"
        /\ sent' = sent /\ fire' = fire /\ SteeredOnce'
    BY <1>5, NoRequestType DEF CrashRestart, SteeredOnce, fireVars
  <2>2. \A s \in Runs : /\ Given(s)' \subseteq Given(s)
                        /\ status'[s] = status[s] \/ status'[s] = "cancelled"
                        /\ status'[s] # "running"
    BY <1>5 DEF CrashRestart, Given, gotVars
  <2>3. Carriage' /\ NotYetGiven'
    BY <2>1, <2>2 DEF Steering, Carriage, NotYetGiven
  <2>4. GivenOnce'
    BY <2>1, <2>2 DEF Steering, NotYetGiven, GivenOnce, Entering, Live
  <2> QED BY <2>1, <2>3, <2>4 DEF Steering
<1>6. ASSUME NEW c \in Callers, ReleaseLock(c), UNCHANGED fire,
             c \in Dispatchers => req[c].step # "steered"
      PROVE  Steering'
  <2>1. /\ req'[c].items = {} /\ req'[c].step = "idle"
        /\ \A d \in Callers : d # c => req'[d] = req[d]
        /\ UNCHANGED <<status, pipeVars, heard, sent>>
    BY <1>0, <1>6, NoRequestType DEF ReleaseLock, InputTypeOK, tableVars, gotVars, inputBounds
  <2>2. \A f \in Fires : HasSteered(f) => HasSteered(f)'
    <3> SUFFICES ASSUME NEW f \in Fires, NEW d \in Callers, req[d].step = "steered", f \in req[d].items
                 PROVE  d # c
      BY <2>1 DEF HasSteered
    <3> QED BY <1>6, AgencyAssumption DEF Steering, Carriage
  <2> QED BY <1>1, <1>6, <2>1, <2>2 DEF GoesOn
<1>7. ASSUME NEW c \in Callers, (\E r \in Runs : CreateRun(c, r)) \/ MergeInput(c), UNCHANGED fireVars
      PROVE  Steering'
  <2>1. Delivers(c)
    BY <1>7 DEF Delivers
  <2>2. /\ req'[c].items = req[c].items
        /\ \A d \in Callers : d # c => req'[d] = req[d]
    BY <1>0, <2>1, DeliversLocked
  <2>3. /\ req[c].step \in {"create", "merge", "append"}
        /\ \/ req'[c].step \in {"submitted", "merged"}
           \/ req[c].step = "append" /\ req'[c].step = "steer" /\ req'[c].run = req[c].run
    <3>1. CASE MergeInput(c)
      <4>1. req[c].run \in RunId
        BY <1>0 DEF InputTypeOK, Request
      <4>2. CASE req[c].step = "merge"
        BY <1>0, <3>1, <4>1, <4>2, ProceedType DEF MergeInput, Step, Delivery
      <4>3. CASE req[c].step = "append"
        BY <1>0, <3>1, <4>1, <4>3, ProceedType DEF MergeInput, Step
      <4> QED BY <3>1, <4>2, <4>3 DEF MergeInput
    <3>2. ASSUME NEW r \in Runs, CreateRun(c, r) PROVE req[c].step = "create" /\ req'[c].step = "submitted"
      BY <1>0, <3>2, ProceedType DEF CreateRun, Step, Delivery, RunId
    <3> QED BY <1>7, <3>1, <3>2
  <2>4. \A d \in Callers : GoesOn(d)
    BY <2>2, <2>3 DEF GoesOn, Entering
  <2>5. /\ SteeredOnce' /\ UNCHANGED <<pipeVars, heard, sent>>
        /\ \A r \in Runs : Onwards(r) /\ Given(r)' \subseteq Given(r)
    BY <1>0, <1>7 DEF CreateRun, MergeInput, SteeredOnce, Onwards, Given, pipeVars, gotVars,
       inputBounds, execVars, InputTypeOK
  <2>6. \A f \in Fires : HasSteered(f) => HasSteered(f)'
    BY <2>2, <2>3 DEF HasSteered
  <2> QED BY <1>7, <2>4, <2>5, <2>6, NothingGiven DEF fireVars
<1>8. ASSUME NEW c \in Callers, Delivers(c), UNCHANGED fireVars PROVE Steering'
  BY <1>7, <1>8, SteerInputGives DEF Delivers
<1>9. ASSUME NEW c \in Callers \ Dispatchers, NEW i \in Submits, SubmitInput(c, i), UNCHANGED fireVars
      PROVE  Steering'
  <2>1. /\ {i} \in SUBSET Items /\ Links \in LinksType
        /\ Locate(c, {i}, Links) /\ sent \subseteq sent' /\ {i} \subseteq Submits \intersect (sent' \ sent)
    BY <1>0, <1>9, InputAssumption DEF SubmitInput, Links, LinksType, InputTypeOK
  <2> QED BY <1>9, <2>1, LocateCarries
<1>10. ASSUME NEW d \in Dispatchers, DispatchPending(d) PROVE Steering'
  <2>1. CASE Locate(d, Batch, req[d].seen) /\ UNCHANGED inputBounds
    <3>1. Batch \in SUBSET Items /\ Batch \subseteq Pending
      BY AgencyAssumption DEF Batch, Pending
    <3>2. req[d].seen \in LinksType
      BY <1>0 DEF InputTypeOK, Request, LinksType
    <3> HIDE DEF Batch
    <3> QED BY <1>0, <1>10, <2>1, <3>1, <3>2, LocateCarries DEF DispatchPending, inputBounds
  <2>2. CASE ReleaseLock(d)
    BY <1>0, <1>6, <1>10, <2>2 DEF DispatchPending, fireVars
  <2> QED BY <1>10, <2>1, <2>2 DEF DispatchPending
<1>11. ASSUME NEW d \in Dispatchers, LookUpSession(d) PROVE Steering'
  <2>1. /\ req[d].step = "idle" /\ req'[d].items = {} /\ req'[d].step = "looked"
        /\ \A c \in Callers : c # d => req'[c] = req[c]
    BY <1>0, <1>11 DEF LookUpSession, NoRequest, InputTypeOK
  <2>2. \A f \in Fires : HasSteered(f) => HasSteered(f)'
    BY <2>1 DEF HasSteered
  <2> QED BY <1>1, <1>11, <2>1, <2>2 DEF LookUpSession, GoesOn, tableVars, gotVars, inputBounds, fireVars
<1>12. ASSUME NEW d \in Dispatchers, MarkFires(d) PROVE Steering'
  <2>1. /\ req[d].step \in Delivery /\ fire' = Marked(d) /\ ReleaseLock(d)
    BY <1>12 DEF MarkFires, Return
  <2>2. /\ req'[d].items = {} /\ req'[d].step = "idle"
        /\ \A c \in Callers : c # d => req'[c] = req[c]
        /\ UNCHANGED <<status, pipeVars, heard, sent>>
    BY <1>0, <2>1, NoRequestType DEF ReleaseLock, InputTypeOK, tableVars, gotVars, inputBounds
  <2>3. \A f \in Fires : fire'[f] = IF f \in req[d].items THEN req[d].step ELSE fire[f]
    BY <2>1 DEF Marked
  <2>4. \A f \in Fires : HasSteered(f) => HasSteered(f)' \/ f \in req[d].items
    BY <2>2 DEF HasSteered
  <2>5. \A f \in Fires : /\ fire'[f] = fire[f] \/ fire'[f] \notin {"absent", "pending"}
                         /\ HasSteered(f) => HasSteered(f)' \/ fire'[f] \notin {"absent", "pending"}
    BY <2>1, <2>3, <2>4 DEF Delivery
  <2> QED BY <1>1, <2>2, <2>5 DEF GoesOn
<1>13. ASSUME NEW d \in Dispatchers, RefuseFires(d) PROVE Steering'
  BY <1>0, <1>6, <1>13 DEF RefuseFires, Refuse
<1>14. ASSUME NEW g \in Fires, CreateFire(g) PROVE Steering'
  <2>1. /\ UNCHANGED <<status, queue, taken, bus, heard, req, sent>>
        /\ fire[g] = "absent" /\ \A f \in Fires : f # g => fire'[f] = fire[f]
    BY <1>0, <1>14 DEF CreateFire, inputVars, tableVars, pipeVars, gotVars, callVars, inputBounds
  <2>2. \A r \in Runs : Given(r)' = Given(r)
    BY <2>1 DEF Given
  <2>3. Carriage' /\ NotYetGiven' /\ SteeredOnce'
    BY <2>1, <2>2 DEF Steering, Carriage, NotYetGiven, SteeredOnce
  <2>4. GivenOnce'
    BY <2>1, <2>2 DEF Steering, GivenOnce, HasSteered, Entering
  <2> QED BY <2>3, <2>4 DEF Steering
<1>15. CASE UNCHANGED <<inputVars, fireVars>>
  BY <1>1, <1>15 DEF vars, inputVars, tableVars, gotVars, callVars, inputBounds, fireVars, GoesOn, HasSteered
<1>16. CASE SessionStep \/ (CrashRestart /\ UNCHANGED fireVars)
  <2>1. ASSUME NEW c \in Callers \ Dispatchers, Return(c) \/ Refuse(c), UNCHANGED fireVars PROVE Steering'
    BY <1>6, <2>1 DEF Return, Refuse, fireVars
  <2> QED BY <1>2, <1>4, <1>8, <1>9, <1>16, <1>5, <2>1, SteerRunGives DEF SessionStep, fireVars
<1> QED BY <1>3, <1>10, <1>11, <1>12, <1>13, <1>14, <1>15, <1>16,
        Kinds DEF DispatcherStep, SessionStep

\* Steering does not reach the agent of a run twice, through any interleaving of
\* calls, executors, stops and losses.
THEOREM NeverSteeredTwice == Spec => []SteeredOnce
<1>1. Init => TypeOK /\ Locked /\ Stored /\ Steering
  <2>1. Init => Steering
    BY NoRequestType DEF Init, InputInit, Steering, Carriage, NotYetGiven, GivenOnce, SteeredOnce,
       Given, Entering
  <2> QED BY <2>1, InitType, InitLocked, InitStored
<1>2. TypeOK /\ Locked /\ Stored /\ Steering /\ [Next]_vars
        => TypeOK' /\ Locked' /\ Stored' /\ Steering'
  BY StepType, LockedStep, StoredStep, SteeringStep
<1>3. Steering => SteeredOnce
  BY DEF Steering
<1> QED BY <1>1, <1>2, <1>3, PTL DEF Spec
=============================================================================
