--------------------------- MODULE ClawSchedules ---------------------------
(***************************************************************************)
(* The schedules of ya-claw: a dispatcher that ticks, delivering the fires *)
(* that are pending and then creating and delivering the fires that are    *)
(* due; manual triggers; and edits of the schedules meanwhile.             *)
(*                                                                         *)
(* A tick is one database session.  Its rows are loaded once, a commit     *)
(* writes the columns that changed, and creating the run of a fire commits *)
(* whatever the session holds at that time.  A fire is known by its time,  *)
(* its dedupe key: a second one is refused by the database, which rolls    *)
(* the session back and ends the tick.                                     *)
(*                                                                         *)
(* Definitions marked "faulty" are used by no action.                      *)
(***************************************************************************)
EXTENDS Integers, FiniteSets

CONSTANTS
    Schedules,
    Cron,           \* those that repeat; the others fire once
    Queues, Steers, \* those that continue a session, by their on_active
    Manual,         \* the manual triggers
    MaxNow,         \* bound on the clock; cron schedules fire at every time
    MaxTroubles     \* bound on edits, losses of the process, skipped dispatches

ASSUME SchedulesAssumption ==
    /\ Cron \subseteq Schedules
    /\ Queues \subseteq Schedules /\ Steers \subseteq Schedules \ Queues
    /\ MaxNow \in Nat \ {0} /\ MaxTroubles \in Nat
    /\ \A t \in 1..MaxNow : t \notin Manual

VARIABLES
    now,
    row,        \* table schedules: status, next_fire_at, run_at
    fire,       \* table schedule_fires: status, by schedule and key
    runs,       \* history: runs created for a fire
    busy,       \* active_run_id of the session that schedules continue
    tick,       \* the dispatcher: phase, its now, what it has still to do
    mine,       \* the schedule rows in its session, as loaded and as they are
    unsaved,    \* the fires its session has changed
    trigger,    \* the manual trigger between the commit of its run and its own
    edit,       \* the row an update or deletion has loaded
    upset,      \* history: something happened that the properties exempt
    edits, faults

dbVars == <<row, fire, runs>>
tickVars == <<tick, mine, unsaved>>
callVars == <<trigger, edit, edits>>
vars == <<now, dbVars, busy, tickVars, callVars, upset, faults>>
-----------------------------------------------------------------------------
Never == 0
Times == 1..MaxNow
Keys == Times \union Manual
Fires == Schedules \X Keys

Row == [status : {"active", "paused", "completed", "deleted"},
        next : 0..MaxNow + 1, at : Times]
Held == [on : {TRUE}, was : Row, is : Row]
FireStatus == {"absent", "pending", "submitted", "steered", "skipped", "failed"}

NoTrigger == [on |-> FALSE]
NoEdit == [on |-> FALSE]
NoRows == [s \in Schedules |-> [on |-> FALSE]]
Clean == [f \in Fires |-> "clean"]
Idle == [phase |-> "idle", now |-> 0, fires |-> {}, due |-> {}]

\* compute_schedule_next_fire_at.
NextFireAt(s, r, t) == IF s \in Cron THEN t + 1 ELSE r.at

Init ==
    /\ now = 0
    /\ row = [s \in Schedules |-> [status |-> "active", next |-> 1, at |-> 1]]
    /\ fire = [f \in Fires |-> "absent"]
    /\ runs = [f \in Fires |-> 0]
    /\ busy = FALSE
    /\ tick = Idle /\ mine = NoRows /\ unsaved = Clean
    /\ trigger = NoTrigger /\ edit = NoEdit
    /\ upset = FALSE
    /\ edits = 0 /\ faults = 0

\* A commit writes the columns that differ from what was loaded.
Merged(current, was, is) ==
    [c \in DOMAIN current |-> IF is[c] = was[c] THEN current[c] ELSE is[c]]

Loaded(s) == IF mine[s].on THEN mine[s] ELSE [on |-> TRUE, was |-> row[s], is |-> row[s]]

\* The database once the session of the tick is committed.
SavedRows == [s \in Schedules |-> IF mine[s].on THEN Merged(row[s], mine[s].was, mine[s].is)
                                  ELSE row[s]]
OutcomesLost == fire                \* faulty: outcomes are not saved
SavedFires == [f \in Fires |-> IF unsaved[f] = "clean" THEN fire[f] ELSE unsaved[f]]
Synced(m) == [s \in Schedules |-> IF m[s].on THEN [m[s] EXCEPT !.was = m[s].is] ELSE m[s]]
-----------------------------------------------------------------------------
(***************************************************************************)
(* dispatch_fire, in the session of a tick; r is its row of s afterwards   *)
(* if the fire is left with status st.                                     *)
(***************************************************************************)
Continues(s) == s \in Queues \union Steers

Leave(f, st, m) ==
    /\ unsaved' = [unsaved EXCEPT ![f] = st]
    /\ mine' = [mine EXCEPT ![f[1]] = m]

\* No run: steered, queued behind the active run, or refused.  A one-time schedule
\* whose fire is left pending stays due, and its key taken.
WithoutRun(f, st) ==
    \/ f[1] \in Steers /\ busy /\ st = "steered"
    \/ f[1] \in Queues /\ busy /\ st = "pending"
    \/ st = "failed"

\* RunController.create commits the session, the fire reads pending; what is
\* set after it, and after the dispatch, is not committed.
CreateRun(f, st, m) ==
    /\ ~(Continues(f[1]) /\ busy)
    /\ \/ st = "submitted" /\ UNCHANGED <<upset, faults>>
       \/ st = "pending" /\ edits + faults < MaxTroubles /\ faults' = faults + 1 /\ upset' = TRUE
    /\ row' = SavedRows
    /\ fire' = [SavedFires EXCEPT ![f] = "pending"]
    /\ runs' = [runs EXCEPT ![f] = @ + 1]
    /\ busy' = (busy \/ Continues(f[1]))
    /\ unsaved' = [Clean EXCEPT ![f] = st]
    /\ mine' = [Synced(mine) EXCEPT ![f[1]] = [m EXCEPT !.was = Loaded(f[1]).is]]

Dispatch(f, st, m) ==
    \/ CreateRun(f, st, m)
    \/ /\ WithoutRun(f, st) /\ Leave(f, st, m)
       /\ upset' = (upset \/ (f[1] \notin Cron /\ st = "pending"))
       /\ UNCHANGED <<dbVars, busy, faults>>
-----------------------------------------------------------------------------
(***************************************************************************)
(* dispatch_once: dispatch_pending                                         *)
(***************************************************************************)
StartTick ==
    /\ tick.phase = "idle"
    /\ tick' = [phase |-> "pending", now |-> now, due |-> {},
                fires |-> {f \in Fires : fire[f] = "pending"}]
    /\ UNCHANGED <<now, dbVars, busy, mine, unsaved, callVars, upset, faults>>

StatusOfFire(m) ==                  \* faulty: the status of the fire is copied
    [m EXCEPT !.is = [@ EXCEPT !.status = "submitted", !.next = Never]]
Completed(m) == [m EXCEPT !.is = [@ EXCEPT !.status = "completed", !.next = Never]]

\* A one-time schedule is completed by any fire that is delivered.
AfterPending(s, st) ==
    IF s \notin Cron /\ st # "pending" THEN Completed(Loaded(s)) ELSE Loaded(s)

DispatchPending(f) ==
    /\ tick.phase = "pending" /\ f \in tick.fires
    /\ tick' = [tick EXCEPT !.fires = @ \ {f}]
    /\ IF Loaded(f[1]).is.status = "deleted"
       THEN Leave(f, "skipped", Loaded(f[1])) /\ UNCHANGED <<dbVars, busy, upset, faults>>
       ELSE \E st \in FireStatus : Dispatch(f, st, AfterPending(f[1], st))
    /\ UNCHANGED <<now, callVars>>

(***************************************************************************)
(* dispatch_due, which reads the clock and the schedules anew; a row that  *)
(* the session holds already stays as it is.                               *)
(***************************************************************************)
StartDue ==
    /\ tick.phase = "pending" /\ tick.fires = {}
    /\ row' = SavedRows /\ fire' = SavedFires
    /\ unsaved' = Clean
    /\ LET S == {s \in Schedules : row'[s].status = "active" /\ row'[s].next # Never} IN
         /\ tick' = [phase |-> "due", now |-> now, fires |-> {}, due |-> S]
         /\ mine' = [s \in Schedules |->
                       IF s \in S /\ ~mine[s].on
                       THEN [on |-> TRUE, was |-> row'[s], is |-> row'[s]] ELSE Synced(mine)[s]]
    /\ UNCHANGED <<now, runs, busy, callVars, upset, faults>>

IsDue(s) == LET t == mine[s].is.next IN t # Never /\ t <= tick.now

\* _advance_schedule_after_fire.
StaysDue(s, st) == mine[s]          \* faulty: the schedule is not advanced
Advanced(s, st) ==
    IF s \in Cron THEN [mine[s] EXCEPT !.is = [@ EXCEPT !.next = tick.now + 1]]
    ELSE IF st = "pending" THEN mine[s] ELSE Completed(mine[s])

First(s) == \A d \in tick.due : IsDue(d) => mine[s].is.next <= mine[d].is.next

DispatchDue(s) ==
    LET f == <<s, mine[s].is.next>> IN
      /\ tick.phase = "due" /\ s \in tick.due
      /\ IsDue(s) /\ First(s)
      /\ fire[f] = "absent"
      /\ tick' = [tick EXCEPT !.due = @ \ {s}]
      /\ \E st \in FireStatus : Dispatch(f, st, Advanced(s, st))
      /\ UNCHANGED <<now, callVars>>

\* The dedupe key is taken: the session is rolled back, and _create_fire fails
\* on the row that went with it.
FailTick ==
    /\ tick.phase = "due"
    /\ \E s \in tick.due : IsDue(s) /\ First(s) /\ fire[<<s, mine[s].is.next>>] # "absent"
    /\ tick' = Idle /\ mine' = NoRows /\ unsaved' = Clean
    /\ UNCHANGED <<now, dbVars, busy, callVars, upset, faults>>

EndTick ==
    /\ tick.phase = "due"
    /\ \A s \in tick.due : ~IsDue(s)
    /\ row' = SavedRows /\ fire' = SavedFires
    /\ tick' = Idle /\ mine' = NoRows /\ unsaved' = Clean
    /\ UNCHANGED <<now, runs, busy, callVars, upset, faults>>
-----------------------------------------------------------------------------
(***************************************************************************)
(* trigger, in a session of its own: its run is committed with a fire that *)
(* reads pending, which the dispatcher may find.                           *)
(***************************************************************************)
Trigger(s, k) ==
    LET f == <<s, k>> IN
      /\ ~trigger.on
      /\ row[s].status # "deleted"
      /\ fire[f] = "absent" /\ \A d \in Schedules : fire[<<d, k>>] = "absent"
      /\ \/ /\ ~(Continues(s) /\ busy)
            /\ fire' = [fire EXCEPT ![f] = "pending"]
            /\ runs' = [runs EXCEPT ![f] = @ + 1]
            /\ busy' = (busy \/ Continues(s))
            /\ trigger' = [on |-> TRUE, fire |-> f]
            /\ upset' = (upset \/ s \notin Cron)
         \/ \E st \in FireStatus :
              /\ WithoutRun(f, st)
              /\ fire' = [fire EXCEPT ![f] = st]
              /\ upset' = (upset \/ (s \notin Cron /\ st = "pending"))
              /\ UNCHANGED <<runs, busy, trigger>>
      /\ UNCHANGED <<now, row, tickVars, edit, edits, faults>>

TriggerCommit ==
    /\ trigger.on
    /\ fire' = [fire EXCEPT ![trigger.fire] = "submitted"]
    /\ trigger' = NoTrigger
    /\ UNCHANGED <<now, row, runs, busy, tickVars, edit, edits, upset, faults>>
-----------------------------------------------------------------------------
(***************************************************************************)
(* update and delete                                                       *)
(***************************************************************************)
EditLoad(s) ==
    /\ ~edit.on
    /\ edits + faults < MaxTroubles
    /\ row[s].status # "deleted"
    /\ edit' = [on |-> TRUE, of |-> s, was |-> row[s]]
    /\ edits' = edits + 1
    /\ UNCHANGED <<now, dbVars, busy, tickVars, trigger, upset, faults>>

\* enabled, or any other change, which activates a completed one-time schedule.
Enabled(s, r) ==
    LET status == IF r.status = "completed" /\ s \notin Cron THEN "active" ELSE r.status
    IN  [r EXCEPT !.status = status,
                  !.next = IF status = "active" THEN NextFireAt(s, r, now) ELSE Never]

Edited(s, r) ==
    {[r EXCEPT !.status = "deleted", !.next = Never],
     [r EXCEPT !.status = "paused", !.next = Never],
     Enabled(s, [r EXCEPT !.status = "active"]),
     Enabled(s, r)}
      \union (IF s \in Cron THEN {} ELSE {Enabled(s, [r EXCEPT !.at = t]) : t \in Times})

EditCommit ==
    /\ edit.on
    /\ LET s == edit.of IN
         \E r \in Edited(s, edit.was) :
           /\ row' = [row EXCEPT ![s] = Merged(@, edit.was, r)]
           /\ upset' = (upset \/ s \notin Cron)
    /\ edit' = NoEdit
    /\ UNCHANGED <<now, fire, runs, busy, tickVars, trigger, edits, faults>>
-----------------------------------------------------------------------------
TimePasses ==
    /\ now < MaxNow
    /\ now' = now + 1
    /\ UNCHANGED <<dbVars, busy, tickVars, callVars, upset, faults>>

\* Other runs of the session begin and end.
SessionTurns ==
    /\ busy' = ~busy
    /\ UNCHANGED <<now, dbVars, tickVars, callVars, upset, faults>>

\* Queued runs are submitted again; what was not committed is gone.
CrashRestart ==
    /\ edits + faults < MaxTroubles
    /\ faults' = faults + 1
    /\ upset' = TRUE
    /\ tick' = Idle /\ mine' = NoRows /\ unsaved' = Clean
    /\ trigger' = NoTrigger /\ edit' = NoEdit
    /\ UNCHANGED <<now, dbVars, busy, edits>>
-----------------------------------------------------------------------------
TickStep ==
    \/ StartTick
    \/ \E f \in Fires : DispatchPending(f)
    \/ StartDue
    \/ \E s \in Schedules : DispatchDue(s)
    \/ FailTick \/ EndTick

Next ==
    \/ TickStep
    \/ \E s \in Schedules, k \in Manual : Trigger(s, k)
    \/ TriggerCommit
    \/ \E s \in Schedules : EditLoad(s)
    \/ EditCommit
    \/ TimePasses \/ SessionTurns \/ CrashRestart

Spec == Init /\ [][Next]_vars

\* The dispatcher is a task of the event loop that ticks for ever.
FairSpec == Spec /\ WF_vars(TickStep)
-----------------------------------------------------------------------------
TypeOK ==
    /\ now \in 0..MaxNow
    /\ row \in [Schedules -> Row]
    /\ fire \in [Fires -> FireStatus]
    /\ runs \in [Fires -> Nat]
    /\ busy \in BOOLEAN /\ upset \in BOOLEAN
    /\ tick \in [phase : {"idle", "pending", "due"}, now : 0..MaxNow,
                fires : SUBSET Fires, due : SUBSET Schedules]
    /\ mine \in [Schedules -> Held \union {[on |-> FALSE]}]
    /\ unsaved \in [Fires -> FireStatus \union {"clean"}]
    /\ trigger \in [on : {TRUE}, fire : Fires] \union {NoTrigger}
    /\ edit \in [on : {TRUE}, of : Schedules, was : Row] \union {NoEdit}
    /\ edits \in Nat /\ faults \in Nat

(***************************************************************************)
(* A scheduled time has at most one run, though a fire is committed before *)
(* its outcome and ticks look at pending fires again; unless the process   *)
(* was lost, a dispatch was skipped or a one-time schedule was left due.   *)
(***************************************************************************)
FiredOnce == ~upset => \A s \in Schedules, t \in Times : runs[<<s, t>>] <= 1

(***************************************************************************)
(* Unless one of these happens, a time that is due gets its fire, and one  *)
(* that steers or starts a session of its own gets its outcome, or an edit *)
(* takes the time away.                                                    *)
(***************************************************************************)
Due(s, t) == row[s].status = "active" /\ row[s].next = t /\ t <= now
HasFire(s, t) == fire[<<s, t>>] \notin (IF s \in Queues THEN {"absent"} ELSE {"absent", "pending"})

DueFires ==
    [](~upset) => \A s \in Schedules, t \in Times :
        Due(s, t) ~> HasFire(s, t) \/ (row[s].next # t /\ edits > 0)
=============================================================================
