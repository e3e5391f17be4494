------------------------ MODULE ClawAsyncTasksProofs ------------------------
(***************************************************************************)
(* Proofs about ClawAsyncTasks for every number of child runs, of callers  *)
(* of spawn_delegate and cancel_task, of stops and losses of the process.  *)
(***************************************************************************)
EXTENDS ClawAsyncTasks, FiniteSetTheorems, TLAPS

-----------------------------------------------------------------------------
(***************************************************************************)
(* Type correctness                                                        *)
(***************************************************************************)
LEMMA RunsAreNumbers == Runs \subseteq Nat /\ None \notin Runs
  BY AsyncAssumption DEF Runs, None

\* What a reader of a run, or of a task, gets to see.
LEMMA ReadsType ==
    ASSUME TypeOK, NEW r \in Runs
    PROVE  /\ Reads(r) \in {"absent"} \union Live \union Ends
           /\ Recovered(r) \in ChildStatus
           /\ Recovered(r) \in {"absent"} \union Live \union Ends
           /\ Refreshed(task) \in {"absent"} \union Live \union Ends
<1>1. \A s \in Runs : Reads(s) \in {"absent"} \union Live \union Ends
  BY DEF TypeOK, Reads, ChildStatus, Live, Ends
<1>2. task.run \in Runs \/ task.run = None
  BY DEF TypeOK, Task, RunId
<1> QED BY <1>1, <1>2 DEF TypeOK, Task, Recovered, Refreshed, ChildStatus, Live, Ends

LEMMA InitType == Init => TypeOK
  BY DEF Init, TypeOK, Task, RunId, ChildStatus, Spawn, NoSpawn, SpawnStep,
     Cancel, NoCancel, Parent

LEMMA NoSpawnType == NoSpawn \in Spawn
  BY DEF NoSpawn, Spawn, SpawnStep, RunId

LEMMA CallsType ==
    ASSUME TypeOK, NEW c \in Spawners, NEW call \in Spawn, Calls(c, call)
    PROVE  /\ spawn' \in [Spawners -> Spawn]
           /\ spawn'[c] = call
           /\ \A d \in Spawners : d # c => spawn'[d] = spawn[d]
  BY DEF TypeOK, Calls

\* RunController.create has committed the run r for the call of c.
Creates(c, r) ==
    /\ child[r] = "absent"
    /\ child' = [child EXCEPT ![r] = "created"]
    /\ wanted' = [wanted EXCEPT ![r] = c \in Wakers]
    /\ Overtakes(c, r)
    /\ stale' = IF spawn[c].overtaken THEN stale \union {r} ELSE stale

LEMMA CreatesFacts ==
    ASSUME TypeOK, NEW c \in Spawners, NEW r \in Runs, Creates(c, r)
    PROVE  /\ child' \in [Runs -> ChildStatus] /\ wanted' \in [Runs -> BOOLEAN]
           /\ spawn' \in [Spawners -> Spawn] /\ stale' \in SUBSET Runs
           /\ child'[r] = "created" /\ (wanted'[r] <=> c \in Wakers)
           /\ \A s \in Runs : s # r => child'[s] = child[s] /\ wanted'[s] = wanted[s]
           /\ spawn'[c].step = "created" /\ spawn'[c].run = r
           /\ spawn'[c].policy = spawn[c].policy
           /\ \A d \in Spawners : d # c =>
                /\ spawn'[d].step = spawn[d].step /\ spawn'[d].run = spawn[d].run
                /\ spawn'[d].policy = spawn[d].policy
                /\ spawn[d].step \in {"recorded", "ready"} => spawn'[d].overtaken
<1>1. child' \in [Runs -> ChildStatus] /\ wanted' \in [Runs -> BOOLEAN] /\ stale' \in SUBSET Runs
  BY DEF Creates, TypeOK, ChildStatus
<1>2. /\ child'[r] = "created" /\ (wanted'[r] <=> c \in Wakers)
      /\ \A s \in Runs : s # r => child'[s] = child[s] /\ wanted'[s] = wanted[s]
  BY DEF Creates, TypeOK
<1>3. spawn[c] \in Spawn
  BY DEF TypeOK
<1>4. [spawn[c] EXCEPT !.step = "created", !.run = r, !.flush = "none", !.overtaken = FALSE] \in Spawn
  BY <1>3 DEF Spawn, SpawnStep, RunId
<1>5. ASSUME NEW d \in Spawners
      PROVE  [spawn[d] EXCEPT !.overtaken = @ \/ spawn[d].step \in {"recorded", "ready"}] \in Spawn
  <2>1. spawn[d] \in Spawn
    BY DEF TypeOK
  <2> QED BY <2>1 DEF Spawn
<1>6. spawn' \in [Spawners -> Spawn]
  BY <1>4, <1>5 DEF Creates, Overtakes
<1>7. spawn'[c].step = "created" /\ spawn'[c].run = r /\ spawn'[c].policy = spawn[c].policy
  BY <1>3 DEF Creates, Overtakes, Spawn
<1>8. ASSUME NEW d \in Spawners, d # c
      PROVE  /\ spawn'[d].step = spawn[d].step /\ spawn'[d].run = spawn[d].run
             /\ spawn'[d].policy = spawn[d].policy
             /\ spawn[d].step \in {"recorded", "ready"} => spawn'[d].overtaken
  <2>1. spawn[d] \in Spawn
    BY DEF TypeOK
  <2> QED BY <1>8, <2>1 DEF Creates, Overtakes, Spawn
<1> QED BY <1>1, <1>2, <1>6, <1>7, <1>8

LEMMA RunCreates ==
    ASSUME NEW c \in Spawners, SpawnRun(c)
    PROVE  \E r \in Runs : Creates(c, r)
  BY DEF SpawnRun, Creates

\* What the other steps of a call leave in its record.
LEMMA SpawnSteps ==
    ASSUME TypeOK, NEW c \in Spawners
    PROVE  /\ SpawnNew(c) => \E call \in Spawn : Calls(c, call) /\ call.step = "recorded"
                                /\ ~call.policy /\ call.run = None
           /\ SpawnRead(c) => \E call \in Spawn : Calls(c, call) /\ call.step = "ready"
                                /\ call.policy = spawn[c].policy
                                /\ call.overtaken = spawn[c].overtaken
           /\ SpawnResume(c) => \E call \in Spawn : Calls(c, call) /\ call.step = "ready"
                                /\ (call.policy <=> ((c \in Wakers) # task.wake))
                                /\ (call.overtaken <=> \E d \in Spawners : spawn[d].step = "created")
<1>0. spawn[c] \in Spawn
  BY DEF TypeOK
<1>1. SpawnNew(c) => \E call \in Spawn : Calls(c, call) /\ call.step = "recorded"
                                /\ ~call.policy /\ call.run = None
  <2>1. LET call == [NoSpawn EXCEPT !.step = "recorded"]
        IN call \in Spawn /\ call.step = "recorded" /\ ~call.policy /\ call.run = None
    BY DEF NoSpawn, Spawn, SpawnStep, RunId
  <2> QED BY <2>1 DEF SpawnNew
<1>2. SpawnRead(c) => \E call \in Spawn : Calls(c, call) /\ call.step = "ready"
                                /\ call.policy = spawn[c].policy
                                /\ call.overtaken = spawn[c].overtaken
  <2>1. LET call == [spawn[c] EXCEPT !.step = "ready", !.queues = task.status # "queued"]
        IN call \in Spawn /\ call.step = "ready" /\ call.policy = spawn[c].policy
           /\ call.overtaken = spawn[c].overtaken
    BY <1>0 DEF Spawn, SpawnStep
  <2> QED BY <2>1 DEF SpawnRead
<1>3. SpawnResume(c) => \E call \in Spawn : Calls(c, call) /\ call.step = "ready"
                                /\ (call.policy <=> ((c \in Wakers) # task.wake))
                                /\ (call.overtaken <=> \E d \in Spawners : spawn[d].step = "created")
  <2> DEFINE call ==
               [step |-> "ready", run |-> None,
                flush |-> IF Refreshed(task) = task.status THEN "none" ELSE Refreshed(task),
                queues |-> TRUE, policy |-> (c \in Wakers) # task.wake,
                overtaken |-> \E d \in Spawners : spawn[d].step = "created"]
  <2>1. call.step = "ready" /\ (call.policy <=> ((c \in Wakers) # task.wake))
        /\ (call.overtaken <=> \E d \in Spawners : spawn[d].step = "created")
    OBVIOUS
  <2>2. Refreshed(task) \in Ends => call \in Spawn
    BY DEF Spawn, SpawnStep, RunId
  <2>3. SpawnResume(c) => Refreshed(task) \in Ends /\ Calls(c, call)
    BY DEF SpawnResume
  <2> HIDE DEF call
  <2> QED BY <2>1, <2>2, <2>3
<1> QED BY <1>1, <1>2, <1>3

LEMMA SpawnType ==
    ASSUME TypeOK, NEW c \in Spawners, SpawnNew(c) \/ SpawnResume(c) \/ SpawnProceeds(c)
    PROVE  TypeOK'
<1>0. spawn[c] \in Spawn /\ task \in Task
  BY DEF TypeOK
<1>1. CASE SpawnNew(c)
  <2>1. spawn' \in [Spawners -> Spawn]
    BY <1>1, SpawnSteps, CallsType
  <2>2. task' \in Task
    BY <1>1 DEF SpawnNew, Task, RunId, Live
  <2> QED BY <1>1, <2>1, <2>2 DEF SpawnNew, TypeOK, runVars, parentVars
<1>2. CASE SpawnResume(c) \/ SpawnRead(c)
  <2>1. spawn' \in [Spawners -> Spawn]
    BY <1>2, SpawnSteps, CallsType
  <2> QED BY <1>2, <2>1 DEF SpawnResume, SpawnRead, TypeOK, taskVars, runVars, parentVars
<1>3. CASE SpawnRefused(c)
  <2>1. spawn' \in [Spawners -> Spawn]
    BY <1>3, NoSpawnType, CallsType DEF SpawnRefused
  <2> QED BY <1>3, <2>1 DEF SpawnRefused, TypeOK, taskVars, runVars, parentVars
<1>4. CASE SpawnRun(c)
  <2>1. /\ child' \in [Runs -> ChildStatus] /\ wanted' \in [Runs -> BOOLEAN]
        /\ spawn' \in [Spawners -> Spawn] /\ stale' \in SUBSET Runs
    BY <1>4, RunCreates, CreatesFacts
  <2>2. task' \in Task
    BY <1>0, <1>4 DEF SpawnRun, Task, Spawn
  <2> QED BY <1>4, <2>1, <2>2 DEF SpawnRun, TypeOK, parentVars
<1>5. CASE SpawnStore(c)
  <2>1. spawn' \in [Spawners -> Spawn]
    BY <1>5, NoSpawnType, CallsType DEF SpawnStore
  <2>2. Named(c) \in Task
    <3>1. (IF spawn[c].policy THEN c \in Wakers ELSE task.wake) \in BOOLEAN
      <4>1. task.wake \in BOOLEAN
        BY <1>0 DEF Task
      <4>2. (c \in Wakers) \in BOOLEAN
        OBVIOUS
      <4>3. CASE spawn[c].policy
        BY <4>2, <4>3, Zenon
      <4>4. CASE ~spawn[c].policy
        BY <4>1, <4>4, Zenon
      <4> QED BY <4>3, <4>4
    <3>2. (IF spawn[c].queues THEN "queued" ELSE task.status) \in {"absent"} \union Live \union Ends
      BY <1>0 DEF Task, Live
    <3>3. spawn[c].run \in RunId
      BY <1>0 DEF Spawn
    <3> QED BY <3>1, <3>2, <3>3, Zenon DEF Named, Task
  <2>3. child' \in [Runs -> ChildStatus]
    BY <1>5 DEF SpawnStore, TypeOK, ChildStatus, Live
  <2> QED BY <1>5, <2>1, <2>2, <2>3 DEF SpawnStore, TypeOK, parentVars
<1> QED BY <1>1, <1>2, <1>3, <1>4, <1>5 DEF SpawnProceeds

LEMMA ReadType ==
    ASSUME TypeOK, Refresh \/ \E c \in Cancellers : CancelLoad(c) \/ CancelCommit(c)
    PROVE  TypeOK'
<1>1. CASE Refresh
  <2>1. Refreshed(task) \in {"absent"} \union Live \union Ends
    <3>1. CASE task.run = None
      BY <3>1 DEF Refreshed, TypeOK, Task
    <3>2. CASE task.run \in Runs
      BY <3>2, ReadsType
    <3> QED BY <3>1, <3>2 DEF TypeOK, Task, RunId
  <2>2. task' \in Task
    BY <1>1, <2>1 DEF Refresh, TypeOK, Task
  <2> QED BY <1>1, <2>2 DEF Refresh, TypeOK, runVars, parentVars
<1>2. ASSUME NEW c \in Cancellers, CancelLoad(c) PROVE TypeOK'
  <2>1. [on |-> TRUE, writes |-> task.status # "cancelled",
         run |-> IF task.run # None /\ Reads(task.run) \in Live THEN task.run ELSE None] \in Cancel
    BY DEF TypeOK, Task, Cancel, RunId
  <2>2. cancel' \in [Cancellers -> Cancel]
    BY <1>2, <2>1 DEF CancelLoad, TypeOK
  <2> QED BY <1>2, <2>2 DEF CancelLoad, TypeOK, taskVars, runVars, parentVars
<1>3. ASSUME NEW c \in Cancellers, CancelCommit(c) PROVE TypeOK'
  <2>1. child' \in [Runs -> ChildStatus] /\ task' \in Task
    BY <1>3 DEF CancelCommit, TypeOK, ChildStatus, Task, Ends
  <2>2. NoCancel \in Cancel
    BY DEF NoCancel, Cancel, RunId
  <2>3. cancel' \in [Cancellers -> Cancel] /\ active' \in RunId
    BY <1>3, <2>2 DEF CancelCommit, Released, TypeOK, RunId
  <2> QED BY <1>3, <2>1, <2>3 DEF CancelCommit, TypeOK, parentVars
<1> QED BY <1>1, <1>2, <1>3

LEMMA ChildType ==
    ASSUME TypeOK, NEW r \in Runs, ChildStep(r) \/ StopChild(r)
    PROVE  TypeOK'
<1>1. CASE Start(r)
  BY <1>1 DEF Start, TypeOK, ChildStatus, Live, RunId, taskVars, parentVars
<1>2. CASE End(r)
  BY <1>2 DEF End, TypeOK, ChildStatus, Ends, Released, RunId, taskVars, parentVars
<1>3. CASE Hook(r)
  <2>1. task' \in Task
    BY <1>3 DEF Hook, RunTerminal, TypeOK, Task, Ends
  <2>2. inHandle' \in SUBSET Runs /\ heard' \in SUBSET Runs
    BY <1>3 DEF Hook, RunTerminal, Wake, TypeOK
  <2> QED BY <1>3, <2>1, <2>2 DEF Hook, TypeOK
<1>4. CASE StopChild(r)
  BY <1>4 DEF StopChild, TypeOK, ChildStatus, Ends, Released, RunId, taskVars, parentVars
<1> QED BY <1>1, <1>2, <1>3, <1>4 DEF ChildStep

LEMMA RestType ==
    ASSUME TypeOK, ParentStarts \/ ParentStep \/ CrashRestart
    PROVE  TypeOK'
<1>1. CASE ParentStarts \/ ParentStep
  BY <1>1 DEF ParentStarts, ParentStep, ParentHears, ParentCloses, ParentEnds,
     TypeOK, Parent, taskVars, runVars
<1>2. CASE CrashRestart
  <2>1. child' \in [Runs -> ChildStatus] /\ hook' \in [Runs -> {"none", "completed", "failed", "done"}]
    BY <1>2, ReadsType DEF CrashRestart, TypeOK
  <2>2. task' \in Task
    BY <1>2 DEF CrashRestart, TypeOK, Task
  <2>3. heard' \in SUBSET Runs /\ lost' \in SUBSET Runs /\ inHandle' \in SUBSET Runs
    BY <1>2 DEF CrashRestart, TypeOK, Task, RunId
  <2>4. spawn' \in [Spawners -> Spawn] /\ cancel' \in [Cancellers -> Cancel] /\ parent' \in Parent
    BY <1>2, NoSpawnType DEF CrashRestart, RunId, Cancel, NoCancel, Parent
  <2> QED BY <1>2, <2>1, <2>2, <2>3, <2>4 DEF CrashRestart, TypeOK, RunId
<1> QED BY <1>1, <1>2

LEMMA StepType == TypeOK /\ [Next]_vars => TypeOK'
<1>1. TypeOK /\ Next => TypeOK'
  BY SpawnType, ReadType, ChildType, RestType DEF Next
<1>2. TypeOK /\ UNCHANGED vars => TypeOK'
  BY DEF TypeOK, vars, taskVars, runVars, parentVars
<1> QED BY <1>1, <1>2

\* The types, for any number of runs, overlapping calls and faults.
THEOREM TypesHold == Spec => []TypeOK
  BY InitType, StepType, PTL DEF Spec

-----------------------------------------------------------------------------
(***************************************************************************)
(* The links between the rows: what the task names exists, and a run that  *)
(* a call has created and not stored yet is its own, was created with its  *)
(* wake policy and has not begun, so no end of it was reported.            *)
(***************************************************************************)
Made(c) == spawn[c].step = "created"

Fresh(c, r) ==
    /\ r \in Runs /\ child[r] \in {"created", "cancelled"} /\ hook[r] = "none"
    /\ wanted[r] <=> c \in Wakers
    /\ \A d \in Spawners : Made(d) /\ spawn[d].run = r => d = c

Linked ==
    /\ task.run # None => child[task.run] # "absent"
    /\ task.status = "absent" => task.run = None /\ \A c \in Spawners : spawn[c].step = "idle"
    /\ \A r \in Runs : hook[r] # "none" => child[r] # "absent"
    /\ \A c \in Cancellers : cancel[c].run # None => child[cancel[c].run] # "absent"
    /\ \A c \in Spawners : Made(c) => Fresh(c, spawn[c].run)

LEMMA LinkedInit == Init => Linked
  BY DEF Init, Linked, Made, NoSpawn, NoCancel, None

\* A reader of the task never finds that its run does not exist.
LEMMA RefreshedType ==
    ASSUME TypeOK, Linked
    PROVE  /\ task.run # None => Reads(task.run) # "absent" /\ task.run \in Runs
           /\ Refreshed(task) = "absent" => task.status = "absent"
<1>1. task.run \in Runs \/ task.run = None
  BY DEF TypeOK, Task, RunId
<1>2. task.run # None => Reads(task.run) # "absent"
  BY DEF Linked, Reads
<1> QED BY <1>1, <1>2 DEF Refreshed

\* A step that leaves the calls alone.
LEMMA LinkedKept ==
    ASSUME TypeOK, Linked,
           wanted' = wanted, \A c \in Spawners : spawn'[c] = spawn[c] \/ spawn'[c].step = "idle",
           task'.status = "absent" => task.status = "absent",
           task'.run = task.run,
           \A r \in Runs : child[r] # "absent" => child'[r] # "absent",
           \A r \in Runs : child[r] \in {"created", "cancelled"} /\ (\E c \in Spawners : Made(c) /\ Made(c)')
                              => child'[r] \in {"created", "cancelled"} /\ hook'[r] \in {hook[r], "none"},
           \A r \in Runs : hook'[r] # "none" => child[r] # "absent",
           \A c \in Cancellers : cancel'[c].run \in {None, task.run, cancel[c].run}
    PROVE  Linked'
<1>0. /\ task.run \in Runs \/ task.run = None
      /\ \A c \in Cancellers : cancel[c].run \in Runs \/ cancel[c].run = None
  BY DEF TypeOK, Task, Cancel, RunId
<1>1. \A c \in Spawners : Made(c)' => spawn'[c] = spawn[c] /\ Made(c)
  BY DEF Made
<1>2. ASSUME NEW c \in Spawners, Made(c)' PROVE Fresh(c, spawn[c].run)'
  <2>1. Fresh(c, spawn[c].run) /\ spawn'[c] = spawn[c]
    BY <1>1, <1>2 DEF Linked
  <2>2. child'[spawn[c].run] \in {"created", "cancelled"} /\ hook'[spawn[c].run] = "none"
    BY <1>1, <1>2, <2>1 DEF Fresh
  <2> QED BY <1>1, <2>1, <2>2 DEF Fresh
<1>3. task'.run # None => child'[task'.run] # "absent"
  BY <1>0 DEF Linked
<1>4. \A c \in Cancellers : cancel'[c].run # None => child'[cancel'[c].run] # "absent"
  BY <1>0 DEF Linked
<1>5. task'.status = "absent" => task'.run = None /\ \A c \in Spawners : spawn'[c].step = "idle"
  BY DEF Linked
<1> QED BY <1>2, <1>3, <1>4, <1>5 DEF Linked

LEMMA LinkedStep ==
    ASSUME TypeOK, Linked, [Next]_vars
    PROVE  Linked'
<1>0. /\ task.run \in Runs \/ task.run = None
      /\ child \in [Runs -> ChildStatus] /\ hook \in [Runs -> {"none", "completed", "failed", "done"}]
      /\ cancel \in [Cancellers -> Cancel] /\ spawn \in [Spawners -> Spawn] /\ task \in Task
      /\ wanted \in [Runs -> BOOLEAN]
  BY DEF TypeOK, Task, RunId
<1> USE RunsAreNumbers
\* A call that has no run yet, or gives up.
<1>1. ASSUME NEW c \in Spawners, SpawnNew(c) \/ SpawnRead(c) \/ SpawnResume(c) \/ SpawnRefused(c)
      PROVE  Linked'
  <2>1. PICK call \in Spawn : Calls(c, call) /\ call.step # "created"
    BY <1>1, SpawnSteps, NoSpawnType, Zenon DEF SpawnRefused, NoSpawn
  <2>2. spawn'[c] = call /\ \A d \in Spawners : d # c => spawn'[d] = spawn[d]
    BY <2>1, CallsType
  <2>3. \A d \in Spawners : Made(d)' => Made(d) /\ spawn'[d] = spawn[d]
    BY <2>1, <2>2 DEF Made
  <2>4. UNCHANGED <<wanted, child, hook, cancel>>
    BY <1>1 DEF SpawnNew, SpawnRead, SpawnResume, SpawnRefused, taskVars, runVars
  <2>5. \A d \in Spawners : Made(d)' => Fresh(d, spawn[d].run)'
    BY <2>3, <2>4 DEF Linked, Fresh
  <2>6. task'.status # "absent" /\ (task'.run # None => child[task'.run] # "absent")
    <3>1. CASE SpawnNew(c)
      BY <3>1 DEF SpawnNew
    <3>2. CASE SpawnRead(c) \/ SpawnRefused(c)
      BY <3>2 DEF SpawnRead, SpawnRefused, taskVars, Linked
    <3>3. CASE SpawnResume(c)
      <4>1. task' = task /\ Refreshed(task) \in Ends
        BY <3>3 DEF SpawnResume, taskVars
      <4>2. task.status # "absent"
        BY <4>1 DEF Linked, Refreshed, Ends
      <4> QED BY <4>1, <4>2 DEF Linked
    <3> QED BY <1>1, <3>1, <3>2, <3>3
  <2> QED BY <2>4, <2>5, <2>6 DEF Linked
<1>2. ASSUME NEW c \in Spawners, SpawnRun(c) PROVE Linked'
  <2>1. PICK r \in Runs : Creates(c, r)
    BY <1>2, RunCreates
  <2>2. /\ child'[r] = "created" /\ (wanted'[r] <=> c \in Wakers)
        /\ \A s \in Runs : s # r => child'[s] = child[s] /\ wanted'[s] = wanted[s]
        /\ spawn'[c].step = "created" /\ spawn'[c].run = r
        /\ \A d \in Spawners : d # c => spawn'[d].step = spawn[d].step /\ spawn'[d].run = spawn[d].run
    BY <2>1, CreatesFacts
  <2>3. child[r] = "absent" /\ hook[r] = "none" /\ hook' = hook /\ cancel' = cancel
    BY <1>2, <2>1 DEF Creates, SpawnRun, Linked
  <2>4. \A s \in Runs : child[s] # "absent" => s # r /\ child'[s] = child[s] /\ wanted'[s] = wanted[s]
    BY <2>2, <2>3, Zenon
  <2>5. task'.run = task.run /\ task'.status # "absent"
    <3>1. task.status # "absent"
      BY <1>2 DEF SpawnRun, Linked
    <3>2. spawn[c].flush \in {"none"} \union Ends
      BY <1>0 DEF Spawn
    <3> QED BY <1>0, <1>2, <3>1, <3>2 DEF SpawnRun, Task, Ends
  <2>6. ASSUME NEW d \in Spawners, Made(d)' PROVE Fresh(d, spawn[d].run)'
    <3>1. CASE d = c
      <4>1. ASSUME NEW e \in Spawners, e # c, Made(e)' PROVE spawn'[e].run # r
        <5>1. Made(e) /\ spawn'[e].run = spawn[e].run
          BY <2>2, <4>1 DEF Made
        <5>2. spawn[e].run \in Runs /\ child[spawn[e].run] # "absent"
          BY <5>1 DEF Linked, Fresh
        <5> QED BY <2>3, <5>1, <5>2
      <4> QED BY <2>2, <2>3, <3>1, <4>1 DEF Fresh
    <3>2. CASE d # c
      <4>1. Made(d) /\ spawn'[d].run = spawn[d].run
        BY <2>2, <2>6, <3>2 DEF Made
      <4>2. Fresh(d, spawn[d].run)
        BY <4>1 DEF Linked
      <4>3. spawn[d].run \in Runs /\ child[spawn[d].run] # "absent"
        BY <4>2 DEF Fresh
      <4>4. \A e \in Spawners : Made(e)' /\ spawn'[e].run = spawn[d].run => e = d
        <5> SUFFICES ASSUME NEW e \in Spawners, Made(e)', spawn'[e].run = spawn[d].run PROVE e = d
          OBVIOUS
        <5>1. e # c
          BY <2>2, <2>4, <4>3
        <5> QED BY <2>2, <4>2, <5>1 DEF Fresh, Made
      <4> QED BY <2>3, <2>4, <4>1, <4>2, <4>3, <4>4 DEF Fresh
    <3> QED BY <3>1, <3>2
  <2>7. \A s \in Runs : hook'[s] # "none" => child'[s] # "absent"
    BY <2>3, <2>4, Zenon DEF Linked
  <2>8. \A d \in Cancellers : cancel'[d].run # None => child'[cancel'[d].run] # "absent"
    <3>1. \A d \in Cancellers : cancel[d].run \in Runs \/ cancel[d].run = None
      BY <1>0 DEF Cancel, RunId
    <3> QED BY <2>3, <2>4, <3>1 DEF Linked
  <2>9. task'.run # None => child'[task'.run] # "absent"
    BY <1>0, <2>4, <2>5 DEF Linked
  <2> QED BY <2>5, <2>6, <2>7, <2>8, <2>9 DEF Linked
<1>3. ASSUME NEW c \in Spawners, SpawnStore(c) PROVE Linked'
  <2>1. Made(c) /\ Fresh(c, spawn[c].run)
    BY <1>3 DEF SpawnStore, Linked, Made
  <2>2. /\ spawn'[c] = NoSpawn /\ \A d \in Spawners : d # c => spawn'[d] = spawn[d]
    BY <1>3, NoSpawnType, CallsType DEF SpawnStore
  <2>3. /\ \A s \in Runs : child[s] # "absent" => child'[s] # "absent"
        /\ \A s \in Runs : s # spawn[c].run => child'[s] = child[s]
        /\ wanted' = wanted /\ hook' = hook /\ cancel' = cancel
    BY <1>0, <1>3 DEF SpawnStore
  <2>4. \A d \in Spawners : Made(d)' => d # c /\ Made(d) /\ spawn'[d] = spawn[d]
    BY <2>2 DEF Made, NoSpawn
  <2>5. ASSUME NEW d \in Spawners, Made(d)' PROVE Fresh(d, spawn[d].run)'
    <3>1. Fresh(d, spawn[d].run) /\ spawn[d].run # spawn[c].run
      BY <2>1, <2>4, <2>5 DEF Linked, Fresh
    <3> QED BY <2>3, <2>4, <2>5, <3>1 DEF Fresh
  <2>6. task'.run = spawn[c].run /\ task'.status # "absent"
    <3>1. task.status # "absent"
      BY <2>1 DEF Linked, Made
    <3> QED BY <1>3, <3>1 DEF SpawnStore, Named
  <2>7. task'.run \in Runs /\ child'[task'.run] # "absent"
    BY <2>1, <2>3, <2>6 DEF Fresh
  <2>8. \A d \in Cancellers : cancel'[d].run # None => child'[cancel'[d].run] # "absent"
    <3>1. \A d \in Cancellers : cancel[d].run \in Runs \/ cancel[d].run = None
      BY <1>0 DEF Cancel, RunId
    <3> QED BY <2>3, <3>1 DEF Linked
  <2> QED BY <2>3, <2>5, <2>6, <2>7, <2>8 DEF Linked
<1>4. CASE Refresh
  <2>1. /\ task'.run = task.run /\ task'.status = Refreshed(task) /\ task.status # "absent"
    BY <1>0, <1>4 DEF Refresh, Task
  <2>2. task'.status # "absent"
    BY <2>1, RefreshedType
  <2> QED BY <1>4, <2>1, <2>2, LinkedKept DEF Refresh, runVars, Linked
<1>5. ASSUME NEW c \in Cancellers, CancelLoad(c) PROVE Linked'
  <2>1. \A d \in Cancellers : cancel'[d].run \in {None, task.run, cancel[d].run}
    BY <1>0, <1>5 DEF CancelLoad
  <2> QED BY <1>5, <2>1, LinkedKept DEF CancelLoad, taskVars, runVars, Linked
<1>6. ASSUME NEW c \in Cancellers, CancelCommit(c) PROVE Linked'
  <2>1. \A d \in Cancellers : cancel'[d].run \in {None, task.run, cancel[d].run}
    BY <1>0, <1>6 DEF CancelCommit, NoCancel
  <2>2. \A s \in Runs : child'[s] = child[s] \/ (child'[s] = "cancelled" /\ s = cancel[c].run)
    BY <1>0, <1>6 DEF CancelCommit
  <2>3. \A s \in Runs : child[s] # "absent" => child'[s] # "absent"
    BY <2>2
  <2>4. task'.run = task.run /\ (task'.status = "absent" => task.status = "absent")
    BY <1>0, <1>6 DEF CancelCommit, Task
  <2> QED BY <1>6, <2>1, <2>2, <2>3, <2>4, LinkedKept DEF CancelCommit, Linked
<1>7. ASSUME NEW r \in Runs, Start(r) \/ End(r) \/ StopChild(r) PROVE Linked'
  <2>1. /\ child[r] # "absent" /\ child'[r] # "absent"
        /\ \A s \in Runs : s # r => child'[s] = child[s] /\ hook'[s] = hook[s]
        /\ child[r] \in {"created", "cancelled"} => child'[r] = "cancelled" /\ hook'[r] = hook[r]
    BY <1>0, <1>7 DEF Start, End, StopChild, Reads, Live
  <2>2. task' = task /\ wanted' = wanted /\ cancel' = cancel /\ spawn' = spawn
    BY <1>7 DEF Start, End, StopChild, taskVars
  <2>3. \A s \in Runs : child[s] # "absent" => child'[s] # "absent"
    BY <2>1
  <2>4. \A s \in Runs : hook'[s] # "none" => child[s] # "absent"
    BY <2>1 DEF Linked
  <2>5. \A s \in Runs : child[s] \in {"created", "cancelled"}
                          => child'[s] \in {"created", "cancelled"} /\ hook'[s] = hook[s]
    BY <2>1
  <2> QED BY <2>2, <2>3, <2>4, <2>5, LinkedKept
<1>8. ASSUME NEW r \in Runs, Hook(r) PROVE Linked'
  <2>1. /\ task'.run = task.run
        /\ task'.status = "absent" => task.status = "absent"
    BY <1>0, <1>8 DEF Hook, RunTerminal, Task
  <2>2. /\ hook[r] \in {"completed", "failed"}
        /\ \A s \in Runs : s # r => hook'[s] = hook[s]
        /\ child' = child /\ wanted' = wanted /\ cancel' = cancel /\ spawn' = spawn
    BY <1>0, <1>8 DEF Hook
  <2>3. \A s \in Runs : hook'[s] # "none" => child'[s] # "absent"
    BY <2>2 DEF Linked
  <2>4. \A d \in Spawners : Made(d)' => Fresh(d, spawn[d].run)'
    BY <2>2 DEF Linked, Fresh, Made
  <2> QED BY <2>1, <2>2, <2>3, <2>4 DEF Linked
<1>9. CASE ParentStarts \/ ParentStep \/ UNCHANGED vars
  BY <1>9, LinkedKept DEF ParentStarts, ParentStep, ParentHears, ParentCloses, ParentEnds, Linked,
     taskVars, runVars, vars
<1>10. CASE CrashRestart
  <2>1. /\ \A s \in Runs : child[s] # "absent" => child'[s] # "absent"
        /\ wanted' = wanted
        /\ \A c \in Spawners : spawn'[c].step = "idle"
        /\ \A c \in Cancellers : cancel'[c].run = None
    BY <1>10 DEF CrashRestart, Recovered, Reads, NoCancel, NoSpawn
  <2>2. task'.run = task.run /\ (task'.status = "absent" => task.status = "absent")
    BY <1>0, <1>10 DEF CrashRestart, Task, Ends
  <2>3. \A s \in Runs : hook'[s] # "none" => task.run # None /\ s = task.run
    BY <1>10 DEF CrashRestart
  <2>4. \A c \in Spawners : ~Made(c)'
    BY <2>1 DEF Made
  <2> QED BY <1>0, <2>1, <2>2, <2>3, <2>4, LinkedKept DEF Linked
<1> QED BY <1>1, <1>2, <1>3, <1>4, <1>5, <1>6, <1>7, <1>8, <1>9, <1>10
        DEF Next, SpawnProceeds, ChildStep

-----------------------------------------------------------------------------
(***************************************************************************)
(* The live child runs are accounted for.  Held counts the run of a call   *)
(* that has not stored it yet, live or not.  There may be one more than    *)
(* causes only while the task's run is live or some call has created its   *)
(* run; a call that no other has overtaken has seen that neither is so.    *)
(***************************************************************************)
Held == {r \in Runs : Reads(r) \in Live \/ \E c \in Spawners : Made(c) /\ spawn[c].run = r}
Causes == Cardinality(stale) + faults

TaskLive == task.run # None /\ Reads(task.run) \in Live
NoneMade == \A c \in Spawners : ~Made(c)
Ahead(c) == spawn[c].step \in {"recorded", "ready"} /\ ~spawn[c].overtaken

Counted ==
    /\ \A r \in stale : child[r] # "absent"
    /\ Cardinality(Held) <= Causes + 1
    /\ ~TaskLive /\ NoneMade => Cardinality(Held) <= Causes
    /\ \A c \in Spawners : Ahead(c) => ~TaskLive /\ NoneMade

LEMMA RunSets ==
    ASSUME NEW S \in SUBSET Runs
    PROVE  IsFiniteSet(S) /\ Cardinality(S) \in Nat
<1>1. IsFiniteSet(Runs)
  BY FS_Interval, AsyncAssumption DEF Runs
<1>2. IsFiniteSet(S)
  BY <1>1, FS_Subset
<1> QED BY <1>2, FS_CardinalityType

\* The counts are numbers.
LEMMA CountTypes ==
    ASSUME TypeOK
    PROVE  /\ Held \in SUBSET Runs /\ Cardinality(Held) \in Nat
           /\ Cardinality(stale) \in Nat /\ faults \in Nat /\ Causes \in Nat
<1>1. Held \in SUBSET Runs
  BY DEF Held
<1>2. stale \in SUBSET Runs /\ faults \in Nat
  BY DEF TypeOK
<1> QED BY <1>1, <1>2, RunSets DEF Causes

LEMMA Smaller ==
    ASSUME NEW S \in SUBSET Runs, NEW T \in SUBSET S
    PROVE  /\ Cardinality(T) <= Cardinality(S)
           /\ \A r \in S : r \notin T => Cardinality(T) <= Cardinality(S) - 1
<1>1. IsFiniteSet(S) /\ IsFiniteSet(T) /\ Cardinality(S) \in Nat /\ Cardinality(T) \in Nat
  BY RunSets
<1>2. Cardinality(T) <= Cardinality(S)
  BY <1>1, FS_Subset
<1>3. ASSUME NEW r \in S, r \notin T PROVE Cardinality(T) <= Cardinality(S) - 1
  <2>1. T \subseteq S \ {r}
    BY <1>3
  <2>2. IsFiniteSet(S \ {r}) /\ Cardinality(S \ {r}) = Cardinality(S) - 1
    BY <1>1, <1>3, FS_RemoveElement
  <2>3. Cardinality(T) <= Cardinality(S \ {r})
    BY <2>1, <2>2, FS_Subset
  <2> QED BY <2>2, <2>3
<1> QED BY <1>2, <1>3

LEMMA CountedInit == Init => Counted
<1> SUFFICES ASSUME Init PROVE Counted
  OBVIOUS
<1>1. stale = {} /\ faults = 0 /\ \A c \in Spawners : ~Made(c) /\ ~Ahead(c)
  BY DEF Init, Made, Ahead, NoSpawn
<1>2. Held = {}
  BY <1>1 DEF Init, Held, Reads, Live
<1> QED BY <1>1, <1>2, FS_EmptySet DEF Counted, Causes

\* A step that creates no run, and is no fault.
LEMMA CountedKept ==
    ASSUME TypeOK, TypeOK', Counted, stale' = stale, faults' = faults, task'.run = task.run,
           \A r \in Runs : child[r] # "absent" => child'[r] # "absent",
           \A r \in Runs : Reads(r)' \in Live => Reads(r) \in Live,
           \A c \in Spawners : Made(c)' <=> Made(c),
           \A c \in Spawners : Made(c) => spawn'[c].run = spawn[c].run,
           \A c \in Spawners : Ahead(c)' => Ahead(c) \/ (~TaskLive /\ NoneMade)
    PROVE  Counted'
<1>0. stale \in SUBSET Runs /\ (task.run \in Runs \/ task.run = None)
  BY DEF TypeOK, Task, RunId
<1>1. Held' \subseteq Held
  BY DEF Held
<1>2. Cardinality(Held') <= Cardinality(Held)
  BY <1>1, CountTypes, Smaller
<1>3. Causes' = Causes /\ (NoneMade' <=> NoneMade) /\ (TaskLive' => TaskLive)
  BY <1>0 DEF Causes, NoneMade, TaskLive
<1>4. Cardinality(Held)' = Cardinality(Held') /\ Cardinality(Held') \in Nat
  BY <1>1, CountTypes, RunSets
<1>5. ASSUME ~TaskLive', NoneMade' PROVE Cardinality(Held') <= Causes
  <2>1. CASE ~TaskLive
    BY <1>2, <1>3, <1>4, <1>5, <2>1, CountTypes DEF Counted
  <2>2. CASE TaskLive
    <3>1. task.run \in Held /\ task.run \notin Held'
      BY <1>0, <1>5, <2>2 DEF TaskLive, NoneMade, Held
    <3>2. Cardinality(Held') <= Cardinality(Held) - 1
      BY <1>1, <3>1, CountTypes, Smaller
    <3> QED BY <1>4, <3>2, CountTypes DEF Counted
  <2> QED BY <2>1, <2>2
<1>6. \A c \in Spawners : Ahead(c)' => ~TaskLive' /\ NoneMade'
  BY <1>3 DEF Counted
<1>7. \A r \in stale' : child'[r] # "absent"
  BY <1>0 DEF Counted
<1>8. Cardinality(Held') <= Causes' + 1
  BY <1>2, <1>3, <1>4, CountTypes DEF Counted
<1> QED BY <1>3, <1>4, <1>5, <1>6, <1>7, <1>8 DEF Counted

\* A run is created: it has a cause, or was the only one.
LEMMA CountedCreate ==
    ASSUME TypeOK, TypeOK', Linked, Counted, NEW c \in Spawners, SpawnRun(c)
    PROVE  Counted'
<1>1. PICK r \in Runs : Creates(c, r)
  BY RunCreates
<1>2. /\ child'[r] = "created" /\ \A s \in Runs : s # r => child'[s] = child[s]
      /\ spawn'[c].step = "created" /\ spawn'[c].run = r
      /\ \A d \in Spawners : d # c =>
           /\ spawn'[d].step = spawn[d].step /\ spawn'[d].run = spawn[d].run
           /\ spawn[d].step \in {"recorded", "ready"} => spawn'[d].overtaken
  BY <1>1, CreatesFacts
<1>3. /\ child[r] = "absent" /\ faults' = faults /\ spawn[c].step = "ready"
      /\ stale' = IF spawn[c].overtaken THEN stale \union {r} ELSE stale
  BY <1>1 DEF Creates, SpawnRun
<1>4. Made(c)' /\ \A d \in Spawners : ~Ahead(d)'
  BY <1>2 DEF Made, Ahead
<1>5. r \notin stale /\ stale \in SUBSET Runs
  BY <1>3 DEF Counted, TypeOK
<1>6. Held' \subseteq Held \union {r}
  <2>1. \A s \in Runs : s # r => Reads(s)' = Reads(s)
    BY <1>2 DEF Reads
  <2>2. \A d \in Spawners : Made(d)' /\ spawn'[d].run # r => Made(d) /\ spawn[d].run = spawn'[d].run
    BY <1>2 DEF Made
  <2> QED BY <2>1, <2>2 DEF Held
<1>7. Cardinality(Held') <= Cardinality(Held) + 1 /\ Cardinality(Held') \in Nat
  <2>1. IsFiniteSet(Held) /\ IsFiniteSet(Held \union {r}) /\ Held \union {r} \in SUBSET Runs
    BY CountTypes, RunSets
  <2>2. Cardinality(Held \union {r}) <= Cardinality(Held) + 1
    BY <2>1, CountTypes, FS_AddElement
  <2>3. Cardinality(Held') <= Cardinality(Held \union {r})
    BY <1>6, <2>1, Smaller
  <2> QED BY <1>6, <2>1, <2>2, <2>3, RunSets, CountTypes
<1>8. Cardinality(Held') <= Causes' + 1
  <2>1. CASE spawn[c].overtaken
    <3>1. stale' = stale \union {r} /\ IsFiniteSet(stale)
      BY <1>3, <1>5, <2>1, RunSets
    <3>2. Cardinality(stale') = Cardinality(stale) + 1
      BY <1>5, <3>1, FS_AddElement
    <3> QED BY <1>3, <1>7, <3>2, CountTypes DEF Counted, Causes
  <2>2. CASE ~spawn[c].overtaken
    <3>1. ~TaskLive /\ NoneMade
      BY <1>3, <2>2 DEF Ahead, Counted
    <3>2. Causes' = Causes
      BY <1>3, <2>2 DEF Causes
    <3> QED BY <1>7, <3>1, <3>2, CountTypes DEF Counted
  <2> QED BY <2>1, <2>2
<1>9. \A s \in stale' : child'[s] # "absent"
  BY <1>2, <1>3, <1>5 DEF Counted
<1>10. ~NoneMade'
  BY <1>4 DEF NoneMade
<1> QED BY <1>4, <1>8, <1>9, <1>10 DEF Counted

\* The task takes over the run of a call.
LEMMA CountedStore ==
    ASSUME TypeOK, TypeOK', Linked, Counted, NEW c \in Spawners, SpawnStore(c)
    PROVE  Counted'
<1> DEFINE q == spawn[c].run
<1>1. Made(c) /\ q \in Runs /\ stale' = stale /\ faults' = faults /\ task'.run = q
  BY DEF SpawnStore, Linked, Fresh, Made, Named
<1>2. spawn'[c] = NoSpawn /\ \A d \in Spawners : d # c => spawn'[d] = spawn[d]
  BY NoSpawnType, CallsType DEF SpawnStore
<1>3. \A s \in Runs : /\ Reads(s)' = Reads(s)
                      /\ child[s] # "absent" => child'[s] # "absent"
  BY DEF SpawnStore, Reads, TypeOK
<1>4. \A d \in Spawners : Made(d)' => Made(d) /\ spawn'[d] = spawn[d]
  BY <1>2 DEF Made, NoSpawn
<1>5. Held' \subseteq Held /\ q \in Held
  BY <1>1, <1>3, <1>4 DEF Held
<1>6. Cardinality(Held') <= Cardinality(Held) /\ Cardinality(Held') \in Nat
  BY <1>5, CountTypes, Smaller, RunSets
<1>7. Causes' = Causes
  BY <1>1 DEF Causes
<1>8. ASSUME ~TaskLive', NoneMade' PROVE Cardinality(Held') <= Causes
  <2>1. q \notin Held'
    BY <1>1, <1>8, RunsAreNumbers DEF TaskLive, NoneMade, Held
  <2>2. Cardinality(Held') <= Cardinality(Held) - 1
    BY <1>5, <2>1, CountTypes, Smaller
  <2> QED BY <1>6, <2>2, CountTypes DEF Counted
<1>9. \A d \in Spawners : ~Ahead(d)'
  <2>1. \A d \in Spawners : ~Ahead(d)
    BY <1>1 DEF Counted, NoneMade
  <2> QED BY <1>2, <2>1 DEF Ahead, NoSpawn
<1>10. \A s \in stale' : child'[s] # "absent"
  BY <1>1, <1>3 DEF Counted, TypeOK
<1>11. Cardinality(Held') <= Causes' + 1
  BY <1>6, <1>7, CountTypes DEF Counted
<1> QED BY <1>7, <1>8, <1>9, <1>10, <1>11 DEF Counted

\* A stop or a loss is a cause of its own.
LEMMA CountedFault ==
    ASSUME TypeOK, TypeOK', Counted, CrashRestart \/ \E r \in Runs : StopChild(r)
    PROVE  Counted'
<1>0. stale \in SUBSET Runs /\ (task.run \in Runs \/ task.run = None)
      /\ child \in [Runs -> ChildStatus]
  BY DEF TypeOK, Task, RunId
<1>1. /\ stale' = stale /\ faults' = faults + 1
      /\ \A s \in Runs : Reads(s)' \in Live => Reads(s) \in Live
      /\ \A s \in Runs : child[s] # "absent" => child'[s] # "absent"
  <2>1. CASE CrashRestart
    BY <2>1 DEF CrashRestart, Recovered, Reads, Live
  <2>2. ASSUME NEW r \in Runs, StopChild(r)
        PROVE  /\ \A s \in Runs : Reads(s)' \in Live => Reads(s) \in Live
               /\ \A s \in Runs : child[s] # "absent" => child'[s] # "absent"
    <3>1. child'[r] = "cancelled" /\ \A s \in Runs : s # r => child'[s] = child[s]
      BY <1>0, <2>2 DEF StopChild
    <3> QED BY <3>1 DEF Reads, Live
  <2>3. (\E r \in Runs : StopChild(r)) => stale' = stale /\ faults' = faults + 1
    BY DEF StopChild
  <2> QED BY <2>1, <2>2, <2>3 DEF CrashRestart
<1>2. \A c \in Spawners : spawn'[c] = spawn[c] \/ spawn'[c] = NoSpawn
  BY DEF CrashRestart, StopChild
<1>3. \A c \in Spawners : /\ Made(c)' => Made(c) /\ spawn'[c] = spawn[c]
                          /\ Ahead(c)' => Ahead(c) /\ UNCHANGED task
  <2>1. CASE CrashRestart
    BY <2>1 DEF CrashRestart, Made, Ahead, NoSpawn
  <2>2. CASE \E r \in Runs : StopChild(r)
    BY <2>2 DEF StopChild, Made, Ahead, taskVars
  <2> QED BY <2>1, <2>2
<1>4. Held' \subseteq Held
  BY <1>1, <1>3 DEF Held
<1>5. Cardinality(Held') <= Cardinality(Held) /\ Cardinality(Held') \in Nat
  BY <1>4, CountTypes, Smaller, RunSets
<1>6. Causes' = Causes + 1
  BY <1>1, CountTypes DEF Causes
<1>7. Cardinality(Held') <= Causes'
  BY <1>5, <1>6, CountTypes DEF Counted
<1>8. \A c \in Spawners : Ahead(c)' => ~TaskLive' /\ NoneMade'
  <2> SUFFICES ASSUME NEW c \in Spawners, Ahead(c)' PROVE ~TaskLive' /\ NoneMade'
    OBVIOUS
  <2>1. ~TaskLive /\ NoneMade /\ UNCHANGED task
    BY <1>3 DEF Counted
  <2>2. NoneMade'
    BY <1>3, <2>1 DEF NoneMade
  <2> QED BY <1>0, <1>1, <2>1, <2>2 DEF TaskLive
<1>9. \A r \in stale' : child'[r] # "absent"
  BY <1>0, <1>1 DEF Counted
<1>10. Cardinality(Held') <= Causes' + 1
  BY <1>5, <1>6, <1>7, CountTypes
<1> QED BY <1>7, <1>8, <1>9, <1>10 DEF Counted

LEMMA CountedStep ==
    ASSUME TypeOK, TypeOK', Linked, Counted, [Next]_vars
    PROVE  Counted'
<1>0. /\ task.run \in Runs \/ task.run = None
      /\ child \in [Runs -> ChildStatus] /\ task \in Task
  BY DEF TypeOK, Task, RunId
\* A call looks, reads or gives up.
<1>1. ASSUME NEW c \in Spawners, SpawnNew(c) \/ SpawnRead(c) \/ SpawnResume(c) \/ SpawnRefused(c)
      PROVE  Counted'
  <2>1. PICK call \in Spawn : Calls(c, call) /\ call.step # "created"
    BY <1>1, SpawnSteps, NoSpawnType, Zenon DEF SpawnRefused, NoSpawn
  <2>2. spawn'[c] = call /\ \A d \in Spawners : d # c => spawn'[d] = spawn[d]
    BY <2>1, CallsType
  <2>3. ~Made(c)
    BY <1>1 DEF SpawnNew, SpawnRead, SpawnResume, SpawnRefused, Made
  <2>4. \A d \in Spawners : (Made(d)' <=> Made(d)) /\ (Made(d) => spawn'[d] = spawn[d])
    BY <2>1, <2>2, <2>3 DEF Made
  <2>5. UNCHANGED <<child, stale, faults>> /\ task'.run = task.run
    BY <1>1 DEF SpawnNew, SpawnRead, SpawnResume, SpawnRefused, taskVars, runVars, Linked
  <2>6. Ahead(c)' => Ahead(c) \/ (~TaskLive /\ NoneMade)
    <3>1. CASE SpawnNew(c)
      BY <3>1 DEF SpawnNew, Linked, TaskLive, NoneMade, Made
    <3>2. CASE SpawnRead(c)
      <4>1. \E other \in Spawn : Calls(c, other) /\ other.overtaken = spawn[c].overtaken
        BY <3>2, SpawnSteps
      <4>2. spawn'[c].overtaken = spawn[c].overtaken
        BY <4>1, CallsType
      <4> QED BY <3>2, <4>2 DEF Ahead, SpawnRead
    <3>3. CASE SpawnResume(c)
      <4>1. \E other \in Spawn : Calls(c, other)
                /\ (other.overtaken <=> \E d \in Spawners : spawn[d].step = "created")
        BY <3>3, SpawnSteps
      <4>2. spawn'[c].overtaken <=> \E d \in Spawners : spawn[d].step = "created"
        BY <4>1, CallsType
      <4>3. ~TaskLive
        <5>1. Refreshed(task) \in Ends
          BY <3>3 DEF SpawnResume
        <5> QED BY <5>1 DEF TaskLive, Refreshed, Ends, Live
      <4> QED BY <4>2, <4>3 DEF Ahead, NoneMade, Made
    <3>4. CASE SpawnRefused(c)
      <4>1. spawn'[c] = NoSpawn
        BY <3>4, NoSpawnType, CallsType DEF SpawnRefused
      <4> QED BY <4>1 DEF Ahead, NoSpawn
    <3> QED BY <1>1, <3>1, <3>2, <3>3, <3>4
  <2>7. \A d \in Spawners : Ahead(d)' => Ahead(d) \/ (~TaskLive /\ NoneMade)
    BY <2>2, <2>6 DEF Ahead
  <2>8. \A r \in Runs : Reads(r)' = Reads(r)
    BY <2>5 DEF Reads
  <2> QED BY <2>4, <2>5, <2>7, <2>8, CountedKept
<1>2. CASE Refresh \/ \E c \in Cancellers : CancelLoad(c) \/ CancelCommit(c)
  <2>1. task'.run = task.run /\ UNCHANGED <<spawn, stale, faults>>
    BY <1>0, <1>2 DEF Refresh, CancelLoad, CancelCommit, taskVars, Task
  <2>2. \A s \in Runs : child'[s] = child[s] \/ child'[s] = "cancelled"
    BY <1>0, <1>2 DEF Refresh, CancelLoad, CancelCommit, runVars
  <2>3. \A s \in Runs : /\ Reads(s)' \in Live => Reads(s) \in Live
                        /\ child[s] # "absent" => child'[s] # "absent"
    BY <2>2 DEF Reads, Live
  <2> QED BY <2>1, <2>3, CountedKept DEF Made, Ahead
<1>3. ASSUME NEW r \in Runs, ChildStep(r) PROVE Counted'
  <2>1. task'.run = task.run /\ UNCHANGED <<spawn, stale, faults>>
    BY <1>0, <1>3 DEF ChildStep, Start, End, Hook, RunTerminal, taskVars, Task
  <2>2. \A s \in Runs : /\ Reads(s)' \in Live => Reads(s) \in Live
                        /\ child[s] # "absent" => child'[s] # "absent"
    BY <1>0, <1>3 DEF ChildStep, Start, End, Hook, Reads, Live
  <2> QED BY <2>1, <2>2, CountedKept DEF Made, Ahead
<1>4. CASE ParentStarts \/ ParentStep \/ UNCHANGED vars
  <2>1. UNCHANGED <<task, child, spawn, stale, faults>>
    BY <1>4 DEF ParentStarts, ParentStep, ParentHears, ParentCloses, ParentEnds,
       taskVars, runVars, vars
  <2> QED BY <2>1, CountedKept DEF Made, Ahead, Reads
<1> QED BY <1>1, <1>2, <1>3, <1>4, CountedCreate, CountedStore, CountedFault
        DEF Next, SpawnProceeds

\* However calls of spawn_delegate overlap, and whatever reads, cancels and
\* hooks come between their look at the task and the creation of their run:
\* every live child run but one was created by a call that another had overtaken,
\* or answers to a stop or a loss of the process.
THEOREM ChildRunsAccounted == Spec => []LiveRunsAccounted
<1>1. Init => TypeOK /\ Linked /\ Counted
  BY InitType, LinkedInit, CountedInit
<1>2. TypeOK /\ Linked /\ Counted /\ [Next]_vars => TypeOK' /\ Linked' /\ Counted'
  BY StepType, LinkedStep, CountedStep
<1>3. TypeOK /\ Counted => LiveRunsAccounted
  <2> SUFFICES ASSUME TypeOK, Counted PROVE LiveRunsAccounted
    OBVIOUS
  <2>1. LiveRuns \subseteq Held
    BY DEF LiveRuns, Held
  <2>2. Cardinality(LiveRuns) <= Cardinality(Held) /\ Cardinality(LiveRuns) \in Nat
    BY <2>1, CountTypes, Smaller, RunSets
  <2> QED BY <2>2, CountTypes DEF Counted, Causes, LiveRunsAccounted
<1> QED BY <1>1, <1>2, <1>3, PTL DEF Spec

-----------------------------------------------------------------------------
(***************************************************************************)
(* The wake policy of the task is that of the call whose run it names,     *)
(* unless an overtaken call has come between.  A call that will not write  *)
(* the policy has found it as it wants it, and no other changes it.        *)
(***************************************************************************)
Agreed ==
    /\ stale = {} /\ task.run # None => (wanted[task.run] <=> task.wake)
    /\ \A c \in Spawners : Ahead(c) /\ ~spawn[c].policy => (task.wake <=> c \in Wakers)
    /\ stale = {} => \A c \in Spawners :
         Made(c) => /\ ~spawn[c].policy => (task.wake <=> c \in Wakers)
                    /\ \A d \in Spawners : Made(d) => d = c

LEMMA AgreedInit == Init => Agreed
  BY DEF Init, Agreed, Made, Ahead, NoSpawn, None

LEMMA AgreedKept ==
    ASSUME Agreed, stale' = stale, task'.run = task.run, task'.wake = task.wake,
           task.run # None => wanted'[task.run] = wanted[task.run],
           \A c \in Spawners : Ahead(c)' => Ahead(c) /\ spawn'[c].policy = spawn[c].policy,
           \A c \in Spawners : Made(c)' => Made(c) /\ spawn'[c].policy = spawn[c].policy
    PROVE  Agreed'
<1>1. stale' = {} /\ task'.run # None => (wanted'[task'.run] <=> task'.wake)
  BY Zenon DEF Agreed
<1>2. \A c \in Spawners : Ahead(c)' /\ ~spawn'[c].policy => (task'.wake <=> c \in Wakers)
  BY Zenon DEF Agreed
<1>3. stale' = {} => \A c \in Spawners :
        Made(c)' => /\ ~spawn'[c].policy => (task'.wake <=> c \in Wakers)
                    /\ \A d \in Spawners : Made(d)' => d = c
  BY Zenon DEF Agreed
<1> QED BY <1>1, <1>2, <1>3 DEF Agreed

LEMMA AgreedStep ==
    ASSUME TypeOK, Linked, Counted, Agreed, [Next]_vars
    PROVE  Agreed'
<1>0. /\ task.run \in Runs \/ task.run = None
      /\ task \in Task
  BY DEF TypeOK, Task, RunId
<1> USE RunsAreNumbers
<1>1. ASSUME NEW c \in Spawners, SpawnNew(c) PROVE Agreed'
  <2>1. PICK call \in Spawn : Calls(c, call) /\ call.step = "recorded"
    BY <1>1, SpawnSteps
  <2>2. spawn'[c] = call /\ \A d \in Spawners : d # c => spawn'[d] = spawn[d]
    BY <2>1, CallsType
  <2>3. \A d \in Spawners : d # c => ~Ahead(d)' /\ ~Made(d)'
    BY <1>1, <2>2 DEF SpawnNew, Linked, Ahead, Made
  <2>4. ~Made(c)' /\ task'.run = None /\ (task'.wake <=> c \in Wakers)
    BY <1>1, <2>1, <2>2 DEF SpawnNew, Made
  <2> QED BY <2>3, <2>4 DEF Agreed
<1>2. ASSUME NEW c \in Spawners, SpawnResume(c) PROVE Agreed'
  <2>1. PICK call \in Spawn : /\ Calls(c, call) /\ call.step = "ready"
                              /\ call.policy <=> ((c \in Wakers) # task.wake)
    BY <1>2, SpawnSteps
  <2>2. spawn'[c] = call /\ \A d \in Spawners : d # c => spawn'[d] = spawn[d]
    BY <2>1, CallsType
  <2>3. UNCHANGED <<task, wanted, stale>>
    BY <1>2 DEF SpawnResume, taskVars
  <2>4. ~spawn'[c].policy => (task.wake <=> c \in Wakers)
    <3>1. task.wake \in BOOLEAN
      BY <1>0 DEF Task
    <3> QED BY <2>1, <2>2, <3>1
  <2>5. \A d \in Spawners : Ahead(d)' /\ ~spawn'[d].policy => (task.wake <=> d \in Wakers)
    BY <2>2, <2>4 DEF Agreed, Ahead
  <2>6. \A d \in Spawners : Made(d)' => Made(d) /\ spawn'[d] = spawn[d]
    BY <2>1, <2>2 DEF Made
  <2> QED BY <2>3, <2>5, <2>6 DEF Agreed
<1>3. ASSUME NEW c \in Spawners, SpawnRead(c) \/ SpawnRefused(c) PROVE Agreed'
  <2>1. CASE SpawnRead(c)
    <3>1. PICK call \in Spawn : /\ Calls(c, call) /\ call.step = "ready"
                                /\ call.policy = spawn[c].policy /\ call.overtaken = spawn[c].overtaken
      BY <2>1, SpawnSteps
    <3>2. spawn'[c] = call /\ \A d \in Spawners : d # c => spawn'[d] = spawn[d]
      BY <3>1, CallsType
    <3>3. \A d \in Spawners : /\ Ahead(d)' => Ahead(d) /\ spawn'[d].policy = spawn[d].policy
                              /\ Made(d)' => Made(d) /\ spawn'[d].policy = spawn[d].policy
      BY <2>1, <3>1, <3>2 DEF SpawnRead, Ahead, Made
    <3> QED BY <2>1, <3>3, AgreedKept DEF SpawnRead, taskVars
  <2>2. CASE SpawnRefused(c)
    <3>1. spawn'[c] = NoSpawn /\ \A d \in Spawners : d # c => spawn'[d] = spawn[d]
      BY <2>2, NoSpawnType, CallsType DEF SpawnRefused
    <3>2. \A d \in Spawners : /\ Ahead(d)' => Ahead(d) /\ spawn'[d].policy = spawn[d].policy
                              /\ Made(d)' => Made(d) /\ spawn'[d].policy = spawn[d].policy
      BY <3>1 DEF Ahead, Made, NoSpawn
    <3> QED BY <2>2, <3>2, AgreedKept DEF SpawnRefused, taskVars
  <2> QED BY <1>3, <2>1, <2>2
<1>4. ASSUME NEW c \in Spawners, SpawnRun(c) PROVE Agreed'
  <2>1. PICK r \in Runs : Creates(c, r)
    BY <1>4, RunCreates
  <2>2. /\ \A s \in Runs : s # r => wanted'[s] = wanted[s]
        /\ spawn'[c].policy = spawn[c].policy
        /\ \A d \in Spawners : d # c =>
             /\ spawn'[d].step = spawn[d].step
             /\ spawn[d].step \in {"recorded", "ready"} => spawn'[d].overtaken
        /\ spawn'[c].step = "created"
    BY <2>1, CreatesFacts
  <2>3. task'.run = task.run /\ task'.wake = task.wake /\ (task.run # None => task.run # r)
    BY <1>0, <1>4, <2>1 DEF SpawnRun, Creates, Linked, Task
  <2>4. \A d \in Spawners : ~Ahead(d)'
    BY <2>2 DEF Ahead
  <2>5. ASSUME stale' = {} PROVE stale = {} /\ Ahead(c) /\ NoneMade
    <3>1. ~spawn[c].overtaken /\ stale = {} /\ spawn[c].step = "ready"
      BY <1>4, <2>1, <2>5 DEF Creates, SpawnRun
    <3> QED BY <3>1 DEF Ahead, Counted
  <2>6. stale' = {} => \A d \in Spawners : Made(d)' => d = c
    BY <2>2, <2>5 DEF NoneMade, Made
  <2>7. stale' = {} => (~spawn'[c].policy => (task'.wake <=> c \in Wakers))
    BY <2>2, <2>3, <2>5, Zenon DEF Agreed
  <2>8. stale' = {} /\ task'.run # None => (wanted'[task'.run] <=> task'.wake)
    <3>1. task.run # None => wanted'[task.run] = wanted[task.run]
      BY <1>0, <2>2, <2>3
    <3> QED BY <2>3, <2>5, <3>1, Zenon DEF Agreed
  <2> QED BY <2>4, <2>6, <2>7, <2>8 DEF Agreed
<1>5. ASSUME NEW c \in Spawners, SpawnStore(c) PROVE Agreed'
  <2>1. Made(c) /\ Fresh(c, spawn[c].run) /\ UNCHANGED <<wanted, stale>>
    BY <1>5 DEF SpawnStore, Linked, Made
  <2>2. spawn'[c] = NoSpawn /\ \A d \in Spawners : d # c => spawn'[d] = spawn[d]
    BY <1>5, NoSpawnType, CallsType DEF SpawnStore
  <2>3. \A d \in Spawners : ~Ahead(d)'
    <3>1. \A d \in Spawners : ~Ahead(d)
      BY <2>1 DEF Counted, NoneMade
    <3> QED BY <2>2, <3>1 DEF Ahead, NoSpawn
  <2>4. stale' = {} => \A d \in Spawners : ~Made(d)'
    BY <2>1, <2>2 DEF Agreed, Made, NoSpawn
  <2>5. task'.run = spawn[c].run /\ task'.wake = IF spawn[c].policy THEN c \in Wakers ELSE task.wake
    BY <1>5 DEF SpawnStore, Named
  <2>6. ASSUME stale' = {} PROVE task'.wake <=> c \in Wakers
    <3>1. CASE spawn[c].policy
      BY <2>5, <3>1, Zenon
    <3>2. CASE ~spawn[c].policy
      <4>1. task.wake <=> c \in Wakers
        BY <2>1, <2>6, <3>2, Zenon DEF Agreed
      <4> QED BY <2>5, <3>2, <4>1, Zenon
    <3> QED BY <3>1, <3>2
  <2>7. wanted'[task'.run] <=> c \in Wakers
    BY <2>1, <2>5, Zenon DEF Fresh
  <2>8. stale' = {} /\ task'.run # None => (wanted'[task'.run] <=> task'.wake)
    BY <2>6, <2>7, Zenon
  <2> QED BY <2>3, <2>4, <2>8 DEF Agreed
<1>6. CASE Refresh \/ (\E c \in Cancellers : CancelLoad(c) \/ CancelCommit(c))
           \/ (\E r \in Runs : ChildStep(r) \/ StopChild(r))
  <2>1. task'.run = task.run /\ task'.wake = task.wake /\ UNCHANGED <<spawn, stale, wanted>>
    BY <1>0, <1>6 DEF Refresh, CancelLoad, CancelCommit, ChildStep, Start, End, Hook, RunTerminal,
       StopChild, taskVars, Task
  <2> QED BY <2>1, AgreedKept DEF Ahead, Made
<1>7. CASE ParentStarts \/ ParentStep \/ UNCHANGED vars
  <2>1. UNCHANGED <<task, spawn, stale, wanted>>
    BY <1>7 DEF ParentStarts, ParentStep, ParentHears, ParentCloses, ParentEnds, taskVars, vars
  <2> QED BY <2>1, AgreedKept DEF Ahead, Made
<1>8. CASE CrashRestart
  <2>1. task'.run = task.run /\ task'.wake = task.wake /\ UNCHANGED <<stale, wanted>>
    BY <1>0, <1>8 DEF CrashRestart, Task
  <2>2. \A c \in Spawners : ~Ahead(c)' /\ ~Made(c)'
    BY <1>8 DEF CrashRestart, NoSpawn, Ahead, Made
  <2> QED BY <2>1, <2>2, AgreedKept
<1> QED BY <1>1, <1>2, <1>3, <1>4, <1>5, <1>6, <1>7, <1>8 DEF Next, SpawnProceeds

-----------------------------------------------------------------------------
(***************************************************************************)
(* The end of a run is announced                                           *)
(***************************************************************************)
LEMMA AnnouncedKept ==
    ASSUME EndIsAnnounced, task'.run = task.run, task'.wake = task.wake,
           stale' = {} => stale = {},
           task.run # None => wanted'[task.run] = wanted[task.run]
                              /\ (hook'[task.run] = "done" => hook[task.run] = "done"),
           inHandle \union heard \union lost \subseteq (inHandle \union heard \union lost)'
    PROVE  EndIsAnnounced'
  BY DEF EndIsAnnounced

LEMMA AnnouncedStep ==
    ASSUME TypeOK, Linked, Agreed, EndIsAnnounced, [Next]_vars
    PROVE  EndIsAnnounced'
<1>0. /\ task.run \in Runs \/ task.run = None
      /\ hook \in [Runs -> {"none", "completed", "failed", "done"}]
      /\ task \in Task /\ wanted \in [Runs -> BOOLEAN]
  BY DEF TypeOK, Task, RunId
<1> USE RunsAreNumbers
<1>1. ASSUME NEW c \in Spawners, SpawnNew(c) PROVE EndIsAnnounced'
  BY <1>1 DEF SpawnNew, EndIsAnnounced
<1>2. ASSUME NEW c \in Spawners, SpawnRead(c) \/ SpawnResume(c) \/ SpawnRefused(c) PROVE EndIsAnnounced'
  BY <1>2, AnnouncedKept DEF SpawnRead, SpawnResume, SpawnRefused, taskVars, runVars, parentVars
<1>3. ASSUME NEW c \in Spawners, SpawnRun(c) PROVE EndIsAnnounced'
  <2>1. PICK r \in Runs : Creates(c, r)
    BY <1>3, RunCreates
  <2>2. /\ task'.run = task.run /\ task'.wake = task.wake /\ (task.run # None => task.run # r)
        /\ stale' = {} => stale = {}
        /\ UNCHANGED <<hook, parentVars>>
    BY <1>0, <1>3, <2>1 DEF SpawnRun, Creates, Linked, Task
  <2>3. \A s \in Runs : s # r => wanted'[s] = wanted[s]
    BY <2>1, CreatesFacts
  <2>4. task.run # None => wanted'[task.run] = wanted[task.run]
    BY <1>0, <2>2, <2>3
  <2> QED BY <2>2, <2>4, AnnouncedKept DEF parentVars
<1>4. ASSUME NEW c \in Spawners, SpawnStore(c) PROVE EndIsAnnounced'
  <2>1. hook'[task'.run] = "none"
    BY <1>4 DEF SpawnStore, Named, Linked, Fresh, Made
  <2> QED BY <2>1 DEF EndIsAnnounced
<1>5. CASE Refresh \/ \E c \in Cancellers : CancelLoad(c) \/ CancelCommit(c)
  <2>1. task'.run = task.run /\ task'.wake = task.wake
    BY <1>0, <1>5 DEF Refresh, CancelLoad, CancelCommit, taskVars, Task
  <2>2. UNCHANGED <<wanted, hook, stale, parentVars>>
    BY <1>5 DEF Refresh, CancelLoad, CancelCommit, taskVars, runVars
  <2> QED BY <2>1, <2>2, AnnouncedKept DEF parentVars
<1>6. ASSUME NEW r \in Runs, Start(r) \/ End(r) \/ StopChild(r) PROVE EndIsAnnounced'
  <2>1. \A s \in Runs : hook'[s] = "done" => hook[s] = "done"
    BY <1>0, <1>6 DEF Start, End, StopChild
  <2>2. UNCHANGED <<task, wanted, stale, parentVars>>
    BY <1>6 DEF Start, End, StopChild, taskVars
  <2> QED BY <1>0, <2>1, <2>2, AnnouncedKept DEF parentVars
<1>7. ASSUME NEW r \in Runs, Hook(r) PROVE EndIsAnnounced'
  <2>1. /\ \A s \in Runs : s # r => hook'[s] = hook[s]
        /\ UNCHANGED <<wanted, lost, stale>>
    BY <1>0, <1>7 DEF Hook
  <2>2. /\ task'.run = task.run /\ task'.wake = task.wake
        /\ inHandle \subseteq inHandle' /\ heard \subseteq heard'
    BY <1>0, <1>7 DEF Hook, RunTerminal, Wake, Task
  <2>3. CASE task.run = r
    <3>1. wanted[r] /\ stale = {} => task.wake
      BY <1>7, <2>3, Zenon DEF Agreed
    <3>2. task.wake => r \in inHandle' \union heard'
      BY <1>7, <2>3 DEF Hook, RunTerminal, TaskOf, Wake
    <3> QED BY <2>1, <2>2, <2>3, <3>1, <3>2 DEF EndIsAnnounced
  <2>4. CASE task.run # r
    BY <1>0, <2>1, <2>2, <2>4, AnnouncedKept
  <2> QED BY <2>3, <2>4
<1>8. CASE ParentStarts \/ ParentStep
  BY <1>8, AnnouncedKept DEF ParentStarts, ParentStep, ParentHears, ParentCloses, ParentEnds,
     taskVars, runVars
<1>9. CASE CrashRestart
  <2>1. /\ task'.run = task.run /\ task'.wake = task.wake /\ UNCHANGED <<wanted, stale>>
        /\ inHandle \union heard \union lost \subseteq (inHandle \union heard \union lost)'
    BY <1>0, <1>9 DEF CrashRestart, Task
  <2>2. CASE hook' = [r \in Runs |-> "none"]
    BY <1>0, <2>1, <2>2 DEF EndIsAnnounced
  <2>3. CASE hook' # [r \in Runs |-> "none"]
    <3>1. task.run # None /\ (task.wake => task.run \in heard')
      BY <1>9, <2>3 DEF CrashRestart
    <3>2. stale = {} => (wanted[task.run] <=> task.wake)
      BY <3>1, Zenon DEF Agreed
    <3> QED BY <2>1, <3>1, <3>2 DEF EndIsAnnounced
  <2> QED BY <2>2, <2>3
<1>10. CASE UNCHANGED vars
  BY <1>10, AnnouncedKept DEF vars, taskVars, runVars, parentVars
<1> QED BY <1>1, <1>2, <1>3, <1>4, <1>5, <1>6, <1>7, <1>8, <1>9, <1>10
        DEF Next, SpawnProceeds, ChildStep

\* A parent that asked to be woken has been told of the end of the task's run,
\* whoever read, cancelled or resumed the task, and through any loss; if an
\* overtaken call has left another wake policy, that one decides.
THEOREM EndReported == Spec => []EndIsAnnounced
<1>1. Init => TypeOK /\ Linked /\ Counted /\ Agreed /\ EndIsAnnounced
  <2>1. Init => EndIsAnnounced
    BY DEF Init, EndIsAnnounced
  <2> QED BY <2>1, InitType, LinkedInit, CountedInit, AgreedInit
<1>2. TypeOK /\ Linked /\ Counted /\ Agreed /\ EndIsAnnounced /\ [Next]_vars
      => TypeOK' /\ Linked' /\ Counted' /\ Agreed' /\ EndIsAnnounced'
  BY StepType, LinkedStep, CountedStep, AgreedStep, AnnouncedStep
<1> QED BY <1>1, <1>2, PTL DEF Spec

-----------------------------------------------------------------------------
(***************************************************************************)
(* What was reported is settled                                            *)
(***************************************************************************)

\* A hook is only called for a run that has ended.
HookedEnded == \A r \in Runs : hook[r] # "none" => child[r] \in Ends

\* The task does not read active once the end of its run was reported to it.
ReportedIsSettled ==
    task.run # None /\ hook[task.run] = "done" => task.status \in Ends

LEMMA HookedStep ==
    ASSUME TypeOK, Linked, HookedEnded, [Next]_vars
    PROVE  HookedEnded'
<1>0. /\ child \in [Runs -> ChildStatus]
      /\ hook \in [Runs -> {"none", "completed", "failed", "done"}]
  BY DEF TypeOK
<1>1. ASSUME UNCHANGED hook, \A r \in Runs : child[r] \in Ends => child'[r] \in Ends
      PROVE  HookedEnded'
  BY <1>1 DEF HookedEnded
<1>2. CASE (\E c \in Spawners : SpawnNew(c) \/ SpawnResume(c) \/ SpawnRead(c) \/ SpawnRefused(c))
           \/ Refresh \/ (\E c \in Cancellers : CancelLoad(c)) \/ ParentStarts \/ ParentStep
           \/ UNCHANGED vars
  BY <1>1, <1>2 DEF SpawnNew, SpawnResume, SpawnRead, SpawnRefused, Refresh, CancelLoad,
     ParentStarts, ParentStep, ParentHears, ParentCloses, ParentEnds, runVars, vars
<1>3. ASSUME NEW c \in Spawners, SpawnRun(c) \/ SpawnStore(c) PROVE HookedEnded'
  BY <1>0, <1>1, <1>3 DEF SpawnRun, SpawnStore, Ends
<1>4. ASSUME NEW c \in Cancellers, CancelCommit(c) PROVE HookedEnded'
  BY <1>0, <1>1, <1>4 DEF CancelCommit, Ends
<1>5. ASSUME NEW r \in Runs, Start(r) \/ StopChild(r) PROVE HookedEnded'
  BY <1>0, <1>1, <1>5 DEF Start, StopChild, Ends
<1>6. ASSUME NEW r \in Runs, End(r) PROVE HookedEnded'
  BY <1>0, <1>6 DEF End, HookedEnded, Ends
<1>7. ASSUME NEW r \in Runs, Hook(r) PROVE HookedEnded'
  BY <1>0, <1>7 DEF Hook, HookedEnded
<1>8. CASE CrashRestart
  <2>1. \A r \in Runs : hook'[r] # "none" => Recovered(r) \in Ends
    BY <1>8 DEF CrashRestart
  <2>2. \A r \in Runs : child'[r] = Recovered(r)
    BY <1>8 DEF CrashRestart
  <2> QED BY <2>1, <2>2 DEF HookedEnded
<1> QED BY <1>2, <1>3, <1>4, <1>5, <1>6, <1>7, <1>8 DEF Next, SpawnProceeds, ChildStep

LEMMA SettledStep ==
    ASSUME TypeOK, Linked, HookedEnded, ReportedIsSettled, [Next]_vars
    PROVE  ReportedIsSettled'
<1>0. /\ task.run \in Runs \/ task.run = None
      /\ hook \in [Runs -> {"none", "completed", "failed", "done"}] /\ task \in Task
      /\ spawn \in [Spawners -> Spawn]
  BY DEF TypeOK, Task, RunId
<1> USE RunsAreNumbers
\* Most steps report nothing, and leave the row or end it.
<1>1. ASSUME task'.run = task.run, task'.status \in {task.status} \union Ends,
             task.run # None /\ hook'[task.run] = "done" => hook[task.run] = "done"
      PROVE  ReportedIsSettled'
  BY <1>1 DEF ReportedIsSettled
<1>2. ASSUME NEW c \in Spawners, SpawnNew(c) PROVE ReportedIsSettled'
  BY <1>2 DEF SpawnNew, ReportedIsSettled
<1>3. CASE (\E c \in Spawners : SpawnResume(c) \/ SpawnRead(c) \/ SpawnRefused(c))
           \/ (\E c \in Cancellers : CancelLoad(c)) \/ ParentStarts \/ ParentStep \/ UNCHANGED vars
  <2>1. task' = task /\ hook' = hook
    BY <1>3 DEF SpawnResume, SpawnRead, SpawnRefused, CancelLoad, ParentStarts, ParentStep,
       ParentHears, ParentCloses, ParentEnds, taskVars, runVars, vars
  <2> QED BY <1>1, <2>1
\* The status of the first look, which has found the task at an end.
<1>4. ASSUME NEW c \in Spawners, SpawnRun(c) PROVE ReportedIsSettled'
  <2>1. spawn[c].flush \in {"none"} \union Ends
    BY <1>0 DEF Spawn
  <2>2. task'.run = task.run /\ task'.status \in {task.status} \union Ends /\ hook' = hook
    BY <1>0, <1>4, <2>1 DEF SpawnRun, Task
  <2> QED BY <1>1, <2>2
<1>5. ASSUME NEW c \in Spawners, SpawnStore(c) PROVE ReportedIsSettled'
  <2>1. hook'[task'.run] = "none"
    BY <1>5 DEF SpawnStore, Named, Linked, Fresh, Made
  <2> QED BY <2>1 DEF ReportedIsSettled
\* A reader takes the status of the run, which has ended.
<1>6. CASE Refresh
  <2>1. task'.run = task.run /\ task'.status = Refreshed(task) /\ hook' = hook
    BY <1>0, <1>6 DEF Refresh, runVars, Task
  <2>2. ASSUME task.run # None, hook[task.run] = "done" PROVE Refreshed(task) \in Ends
    <3>1. child[task.run] \in Ends
      BY <1>0, <2>2 DEF HookedEnded
    <3> QED BY <2>2, <3>1 DEF Refreshed, Reads, Ends
  <2> QED BY <2>1, <2>2 DEF ReportedIsSettled
<1>7. ASSUME NEW c \in Cancellers, CancelCommit(c) PROVE ReportedIsSettled'
  BY <1>0, <1>1, <1>7 DEF CancelCommit, Task, Ends
<1>8. ASSUME NEW r \in Runs, Start(r) \/ End(r) \/ StopChild(r) PROVE ReportedIsSettled'
  <2>1. task' = task /\ \A s \in Runs : hook'[s] = "done" => hook[s] = "done"
    BY <1>0, <1>8 DEF Start, End, StopChild, taskVars
  <2> QED BY <1>0, <1>1, <2>1
<1>9. ASSUME NEW r \in Runs, Hook(r) PROVE ReportedIsSettled'
  <2>1. CASE task.run = r
    BY <1>0, <1>9, <2>1 DEF Hook, RunTerminal, TaskOf, ReportedIsSettled, Ends, Task
  <2>2. CASE task.run # r
    BY <1>0, <1>1, <1>9, <2>2 DEF Hook, RunTerminal, TaskOf
  <2> QED BY <2>1, <2>2
<1>10. CASE CrashRestart
  <2>1. CASE task.run # None /\ task.status \in Live /\ Recovered(task.run) \in Ends
    BY <1>0, <1>10, <2>1 DEF CrashRestart, ReportedIsSettled, Task
  <2>2. CASE ~(task.run # None /\ task.status \in Live /\ Recovered(task.run) \in Ends)
    BY <1>0, <1>1, <1>10, <2>2 DEF CrashRestart
  <2> QED BY <2>1, <2>2
<1> QED BY <1>2, <1>3, <1>4, <1>5, <1>6, <1>7, <1>8, <1>9, <1>10 DEF Next, SpawnProceeds, ChildStep

\* Once the hook of the task's run has reported its end, on_run_terminal or the
\* restart, the task reads ended until it is resumed: no read, cancel request,
\* overlapping call or loss makes it active again.
THEOREM ReportedStaysSettled == Spec => []ReportedIsSettled
<1>1. Init => TypeOK /\ Linked /\ HookedEnded /\ ReportedIsSettled
  <2>1. Init => HookedEnded /\ ReportedIsSettled
    BY DEF Init, HookedEnded, ReportedIsSettled
  <2> QED BY <2>1, InitType, LinkedInit
<1>2. TypeOK /\ Linked /\ HookedEnded /\ ReportedIsSettled /\ [Next]_vars
      => TypeOK' /\ Linked' /\ HookedEnded' /\ ReportedIsSettled'
  BY StepType, LinkedStep, HookedStep, SettledStep
<1> QED BY <1>1, <1>2, PTL DEF Spec

-----------------------------------------------------------------------------
(***************************************************************************)
(* An active task has someone to end it                                    *)
(***************************************************************************)
ActiveHasRun ==
    faults = 0 /\ task.status \in Live =>
        task.run # None \/ \E c \in Spawners : spawn[c].step # "idle"

\* The pointer of the child session names a run that runs, and a run is not
\* dispatched before the task names one.
Dispatched ==
    /\ active # None => child[active] = "running"
    /\ faults = 0 /\ task.run = None =>
         /\ \A r \in Runs : child[r] \in {"absent", "created"}
         /\ \A c \in Cancellers : cancel[c].run = None

LEMMA DispatchedStep ==
    ASSUME TypeOK, Linked, Dispatched, [Next]_vars
    PROVE  Dispatched'
<1>0. /\ task.run \in Runs \/ task.run = None
      /\ active \in Runs \/ active = None
      /\ child \in [Runs -> ChildStatus] /\ cancel \in [Cancellers -> Cancel]
      /\ task \in Task /\ faults \in Nat
  BY DEF TypeOK, Task, RunId
<1> USE RunsAreNumbers
<1>1. CASE (\E c \in Spawners : SpawnNew(c) \/ SpawnResume(c) \/ SpawnRead(c) \/ SpawnRefused(c))
           \/ Refresh \/ ParentStarts \/ ParentStep \/ (\E r \in Runs : Hook(r)) \/ UNCHANGED vars
  <2>1. UNCHANGED <<child, active, cancel, faults>>
    BY <1>1 DEF SpawnNew, SpawnResume, SpawnRead, SpawnRefused, Refresh, ParentStarts, ParentStep,
       ParentHears, ParentCloses, ParentEnds, Hook, runVars, vars
  <2>2. task'.run = task.run
    <3>1. ASSUME NEW c \in Spawners, SpawnNew(c) PROVE task'.run = task.run
      BY <3>1 DEF SpawnNew, Linked
    <3>2. CASE Refresh \/ \E r \in Runs : Hook(r)
      BY <1>0, <3>2 DEF Refresh, Hook, RunTerminal, Task
    <3>3. CASE (\E c \in Spawners : SpawnResume(c) \/ SpawnRead(c) \/ SpawnRefused(c))
               \/ ParentStarts \/ ParentStep \/ UNCHANGED vars
      BY <3>3 DEF SpawnResume, SpawnRead, SpawnRefused, ParentStarts, ParentStep, ParentHears,
         ParentCloses, ParentEnds, taskVars, vars
    <3> QED BY <1>1, <3>1, <3>2, <3>3
  <2> QED BY <2>1, <2>2 DEF Dispatched
<1>2. ASSUME NEW c \in Spawners, SpawnRun(c) PROVE Dispatched'
  <2>1. PICK r \in Runs : Creates(c, r)
    BY <1>2, RunCreates
  <2>2. child'[r] = "created" /\ \A s \in Runs : s # r => child'[s] = child[s]
    BY <2>1, CreatesFacts
  <2>3. task'.run = task.run /\ active' = None /\ UNCHANGED <<cancel, faults>>
    BY <1>0, <1>2 DEF SpawnRun, Task
  <2> QED BY <2>2, <2>3 DEF Dispatched
<1>3. ASSUME NEW c \in Spawners, SpawnStore(c) PROVE Dispatched'
  <2>1. task'.run # None /\ active' = active
    BY <1>3 DEF SpawnStore, Named, Linked, Fresh, Made
  <2>2. \A s \in Runs : child[s] = "running" => child'[s] = "running"
    BY <1>0, <1>3 DEF SpawnStore
  <2> QED BY <1>0, <2>1, <2>2 DEF Dispatched
<1>4. ASSUME NEW c \in Cancellers, CancelLoad(c) PROVE Dispatched'
  <2>1. \A d \in Cancellers : cancel'[d].run \in {None, task.run, cancel[d].run}
    BY <1>0, <1>4 DEF CancelLoad
  <2> QED BY <1>4, <2>1 DEF CancelLoad, Dispatched, taskVars, runVars
<1>5. ASSUME NEW c \in Cancellers, CancelCommit(c) PROVE Dispatched'
  <2>1. /\ task'.run = task.run /\ faults' = faults
        /\ \A d \in Cancellers : cancel'[d].run \in {None, cancel[d].run}
    BY <1>0, <1>5 DEF CancelCommit, NoCancel, Task
  <2>2. CASE cancel[c].run = None
    BY <1>5, <2>1, <2>2 DEF CancelCommit, Dispatched
  <2>3. CASE cancel[c].run # None
    <3>1. ~(faults = 0 /\ task.run = None)
      BY <2>3 DEF Dispatched
    <3>2. active' # None => active' = active /\ active # cancel[c].run
      BY <1>5, <2>3 DEF CancelCommit, Released
    <3>3. \A s \in Runs : s # cancel[c].run => child'[s] = child[s]
      BY <1>0, <1>5, <2>3 DEF CancelCommit
    <3> QED BY <1>0, <2>1, <3>1, <3>2, <3>3 DEF Dispatched
  <2> QED BY <2>2, <2>3
<1>6. ASSUME NEW r \in Runs, Start(r) \/ End(r) \/ StopChild(r) PROVE Dispatched'
  <2>1. task' = task /\ cancel' = cancel
    BY <1>6 DEF Start, End, StopChild, taskVars
  <2>2. active' # None => child'[active'] = "running"
    <3>1. CASE Start(r)
      BY <1>0, <3>1 DEF Start
    <3>2. CASE End(r) \/ StopChild(r)
      <4>1. active' # None => active' = active /\ active # r
        BY <3>2 DEF End, StopChild, Released
      <4>2. \A s \in Runs : s # r => child'[s] = child[s]
        BY <1>0, <3>2 DEF End, StopChild
      <4> QED BY <1>0, <4>1, <4>2 DEF Dispatched
    <3> QED BY <1>6, <3>1, <3>2
  <2>3. ~(faults' = 0 /\ task'.run = None)
    <3>1. CASE Start(r) \/ End(r)
      <4>1. child[r] \notin {"absent", "created"} /\ faults' = faults
        BY <3>1 DEF Start, End
      <4> QED BY <2>1, <4>1 DEF Dispatched
    <3>2. CASE StopChild(r)
      BY <1>0, <3>2 DEF StopChild
    <3> QED BY <1>6, <3>1, <3>2
  <2> QED BY <2>2, <2>3 DEF Dispatched
<1>7. CASE CrashRestart
  <2>1. faults' # 0 /\ active' = None
    BY <1>0, <1>7 DEF CrashRestart
  <2> QED BY <2>1 DEF Dispatched
<1> QED BY <1>1, <1>2, <1>3, <1>4, <1>5, <1>6, <1>7 DEF Next, SpawnProceeds, ChildStep

LEMMA ActiveHasRunStep ==
    ASSUME TypeOK, Linked, Dispatched, ActiveHasRun, [Next]_vars
    PROVE  ActiveHasRun'
<1>0. /\ task.run \in Runs \/ task.run = None
      /\ active \in Runs \/ active = None
      /\ task \in Task /\ spawn \in [Spawners -> Spawn] /\ faults \in Nat
  BY DEF TypeOK, Task, RunId
<1>1. SUFFICES ASSUME faults' = 0 PROVE ActiveHasRun'
  BY DEF ActiveHasRun
<1> USE RunsAreNumbers
<1>2. ASSUME faults = 0, task'.run = task.run, task'.status \in Live => task.status \in Live,
             \A c \in Spawners : spawn'[c].step = "idle" => spawn[c].step = "idle"
      PROVE  ActiveHasRun'
  BY <1>2 DEF ActiveHasRun
<1>3. ASSUME NEW c \in Spawners, SpawnNew(c) \/ SpawnResume(c) \/ SpawnRead(c) PROVE ActiveHasRun'
  <2>1. PICK call \in Spawn : Calls(c, call) /\ call.step # "idle"
    BY <1>3, SpawnSteps, Zenon
  <2>2. spawn'[c].step # "idle"
    BY <2>1, CallsType
  <2> QED BY <2>2 DEF ActiveHasRun
\* A new task is not refused: there is no run yet that could be running.
<1>4. ASSUME NEW c \in Spawners, SpawnRefused(c) PROVE ActiveHasRun'
  <2>1. faults = 0 /\ task' = task /\ active # None
    BY <1>1, <1>4 DEF SpawnRefused, taskVars
  <2>2. child[active] = "running" /\ active \in Runs
    BY <1>0, <2>1 DEF Dispatched
  <2>3. task.run # None
    BY <2>1, <2>2 DEF Dispatched
  <2> QED BY <2>1, <2>3 DEF ActiveHasRun
<1>5. ASSUME NEW c \in Spawners, SpawnRun(c) PROVE ActiveHasRun'
  <2>1. PICK r \in Runs : Creates(c, r)
    BY <1>5, RunCreates
  <2>2. spawn'[c].step # "idle"
    BY <2>1, CreatesFacts
  <2> QED BY <2>2 DEF ActiveHasRun
<1>6. ASSUME NEW c \in Spawners, SpawnStore(c) PROVE ActiveHasRun'
  BY <1>6 DEF SpawnStore, Named, Linked, Fresh, Made, ActiveHasRun
<1>7. CASE Refresh
  <2>1. /\ task'.run = task.run /\ task'.status = Refreshed(task)
        /\ spawn' = spawn /\ faults = 0
    BY <1>0, <1>1, <1>7 DEF Refresh, Task
  <2>2. task.run = None => Refreshed(task) = task.status
    BY DEF Refreshed
  <2> QED BY <2>1, <2>2 DEF ActiveHasRun
<1>8. ASSUME NEW c \in Cancellers, CancelLoad(c) \/ CancelCommit(c) PROVE ActiveHasRun'
  <2>1. /\ task'.run = task.run /\ task'.status \in {task.status, "cancelled"}
        /\ spawn' = spawn /\ faults = 0
    BY <1>0, <1>1, <1>8 DEF CancelLoad, CancelCommit, taskVars, Task
  <2> QED BY <1>2, <2>1 DEF Live
<1>9. ASSUME NEW r \in Runs, ChildStep(r) PROVE ActiveHasRun'
  <2>1. spawn' = spawn /\ faults = 0 /\ task'.run = task.run
    BY <1>0, <1>1, <1>9 DEF ChildStep, Start, End, Hook, RunTerminal, taskVars, Task
  <2>2. task' = task \/ task'.status \in {"completed", "failed"}
    BY <1>0, <1>9 DEF ChildStep, Start, End, Hook, RunTerminal, taskVars, Task
  <2> QED BY <1>2, <2>1, <2>2 DEF Live
<1>10. CASE ParentStarts \/ ParentStep \/ UNCHANGED vars
  BY <1>1, <1>2, <1>10 DEF ParentStarts, ParentStep, ParentHears, ParentCloses, ParentEnds,
     taskVars, vars
<1>11. CASE CrashRestart \/ \E r \in Runs : StopChild(r)
  <2>1. faults' = faults + 1
    BY <1>11 DEF CrashRestart, StopChild
  <2> QED BY <1>0, <1>1, <2>1
<1> QED BY <1>3, <1>4, <1>5, <1>6, <1>7, <1>8, <1>9, <1>10, <1>11 DEF Next, SpawnProceeds

\* As long as nothing was stopped or lost, a task that reads active names its
\* run, or some call of spawn_delegate is on its way to give it one, and a call
\* that is refused leaves a task that names a run: the state from which
\* EveryTaskEnds takes it to its end.
THEOREM ActiveTaskHasRun == Spec => []ActiveHasRun
<1>1. Init => TypeOK /\ Linked /\ Dispatched /\ ActiveHasRun
  <2>1. Init => Dispatched /\ ActiveHasRun
    BY DEF Init, Dispatched, ActiveHasRun, Live, NoCancel
  <2> QED BY <2>1, InitType, LinkedInit
<1>2. TypeOK /\ Linked /\ Dispatched /\ ActiveHasRun /\ [Next]_vars
      => TypeOK' /\ Linked' /\ Dispatched' /\ ActiveHasRun'
  BY StepType, LinkedStep, DispatchedStep, ActiveHasRunStep
<1> QED BY <1>1, <1>2, PTL DEF Spec
=============================================================================
