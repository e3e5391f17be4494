------------------------- MODULE ClawSchedulesProofs -------------------------
(***************************************************************************)
(* ClawSchedules: the type invariant, and that a scheduled time has at     *)
(* most one run.                                                           *)
(*                                                                         *)
(* A commit merges what the session of a tick has changed into rows others *)
(* have changed meanwhile.  The argument speaks of what the database would *)
(* hold once the session is committed (SavedRows, SavedFires): there, and  *)
(* in the session, a schedule has moved beyond every time that has a fire, *)
(* and a time that has a run has an outcome.                               *)
(***************************************************************************)
EXTENDS ClawSchedules, TLAPS

Beyond(n, t) == n = Never \/ n > t
KeysPassed ==
    \A s \in Schedules, t \in Times :
        SavedFires[<<s, t>>] # "absent" =>
            t <= now /\ Beyond(SavedRows[s].next, t) /\ Beyond(Loaded(s).is.next, t)

Settled == FireStatus \ {"absent", "pending"}
RunsSettled ==
    \A s \in Schedules, t \in Times :
        \/ runs[<<s, t>>] = 0
        \/ runs[<<s, t>>] = 1 /\ SavedFires[<<s, t>>] \in Settled

NotYetRun == \A s \in Schedules, t \in Times : <<s, t>> \in tick.fires => runs[<<s, t>>] = 0

\* What a tick keeps between its steps.
TickKeeps ==
    /\ tick.phase = "idle" => unsaved = Clean /\ mine = NoRows
    /\ tick.phase = "pending" =>
         \A s \in Schedules : mine[s].on => mine[s].is.next \in {mine[s].was.next, Never}
    /\ tick.phase = "due" =>
         \A s \in tick.due : mine[s].on /\ mine[s].is.next = mine[s].was.next
    /\ tick.phase # "pending" => tick.fires = {}
    /\ tick.now <= now
    /\ \A f \in Fires : unsaved[f] # "absent"
    /\ \A f \in tick.fires : SavedFires[f] # "absent"
    /\ trigger.on => trigger.fire[2] \in Manual

Fired == TypeOK /\ TickKeeps /\ (~upset => KeysPassed /\ RunsSettled /\ NotYetRun)
-----------------------------------------------------------------------------
(* What a commit writes *)

LEMMA Keyed ==
    /\ Times \subseteq Keys /\ Never \notin Times
    /\ \A t \in Times : t \in Nat /\ t \notin Manual
    /\ \A s \in Schedules, k \in Keys : <<s, k>> \in Fires
    /\ \A f \in Fires : f[1] \in Schedules /\ f[2] \in Keys /\ f = <<f[1], f[2]>>
BY SchedulesAssumption DEF Times, Keys, Never, Fires

LEMMA MergedRow ==
    ASSUME NEW current \in Row, NEW was \in Row, NEW is \in Row
    PROVE  /\ Merged(current, was, is) \in Row
           /\ Merged(current, was, is).next =
                 IF is.next = was.next THEN current.next ELSE is.next
<1>1. DOMAIN current = {"status", "next", "at"}
  BY DEF Row
<1>2. Merged(current, was, is) =
        [status |-> IF is.status = was.status THEN current.status ELSE is.status,
         next |-> IF is.next = was.next THEN current.next ELSE is.next,
         at |-> IF is.at = was.at THEN current.at ELSE is.at]
  BY <1>1 DEF Merged
<1> QED BY <1>2 DEF Row

LEMMA OnIsHeld ==
    ASSUME NEW r, r \in Held \union {[on |-> FALSE]}
    PROVE  r.on <=> r \in Held
<1>1. ASSUME r = [on |-> FALSE] PROVE ~r.on
  <2>1. [on |-> FALSE].on = FALSE
    OBVIOUS
  <2> QED BY <1>1, <2>1, Zenon
<1>2. ASSUME r \in Held PROVE r.on
  BY <1>2 DEF Held
<1> QED BY <1>1, <1>2

LEMMA SavedTypes ==
    ASSUME TypeOK
    PROVE  /\ SavedRows \in [Schedules -> Row]
           /\ SavedFires \in [Fires -> FireStatus]
           /\ \A s \in Schedules : Loaded(s) \in Held
<1>1. \A s \in Schedules : mine[s] \in Held \union {[on |-> FALSE]} /\ row[s] \in Row
  BY DEF TypeOK
<1>2. \A s \in Schedules : mine[s].on => mine[s] \in Held
  BY <1>1, OnIsHeld
<1>3. ASSUME NEW s \in Schedules, mine[s].on
      PROVE  Merged(row[s], mine[s].was, mine[s].is) \in Row
  <2>1. row[s] \in Row /\ mine[s].was \in Row /\ mine[s].is \in Row
    BY <1>1, <1>2, <1>3 DEF Held
  <2> QED BY <2>1, MergedRow
<1>4. SavedRows \in [Schedules -> Row]
  BY <1>1, <1>3 DEF SavedRows
<1>5. SavedFires \in [Fires -> FireStatus]
  BY DEF SavedFires, TypeOK
<1>6. \A s \in Schedules : Loaded(s) \in Held
  BY <1>1, <1>2 DEF Loaded, Held
<1> QED BY <1>4, <1>5, <1>6

\* The next time of a row that is saved: what the session has changed, if it has.
LEMMA SavedNext ==
    ASSUME TypeOK, NEW s \in Schedules
    PROVE  SavedRows[s].next = IF mine[s].on /\ mine[s].is.next # mine[s].was.next
                               THEN mine[s].is.next ELSE row[s].next
<1>1. mine[s] \in Held \union {[on |-> FALSE]} /\ row[s] \in Row
  BY DEF TypeOK
<1>2. CASE mine[s].on
  <2>1. mine[s] \in Held
    BY <1>1, <1>2, OnIsHeld
  <2>2. mine[s].was \in Row /\ mine[s].is \in Row
    BY <2>1 DEF Held
  <2> QED BY <1>1, <1>2, <2>2, MergedRow DEF SavedRows
<1>3. CASE ~mine[s].on
  BY <1>3 DEF SavedRows
<1> QED BY <1>2, <1>3

\* What a fire leaves behind, whether a run was created for it or not.
Dispatched(f, st, m) ==
    /\ SavedFires' = [SavedFires EXCEPT ![f] = st]
    /\ \A s \in Schedules : s # f[1] =>
          SavedRows'[s].next = SavedRows[s].next /\ (Loaded(s)').is.next = Loaded(s).is.next
    /\ mine'[f[1]].on /\ mine'[f[1]].is = m.is
    /\ SavedRows'[f[1]].next =
          IF m.is.next = Loaded(f[1]).is.next THEN SavedRows[f[1]].next ELSE m.is.next
    /\ \A s \in Schedules : s # f[1] /\ mine'[s].on =>
          /\ mine[s].on /\ mine'[s].is = mine[s].is
          /\ mine'[s].was \in {mine[s].was, mine[s].is}
    /\ \A s \in Schedules : s # f[1] /\ mine[s].on => mine'[s].on
    /\ mine'[f[1]].was \in {Loaded(f[1]).was, Loaded(f[1]).is}
    /\ \A g \in Fires : unsaved'[g] \in {unsaved[g], "clean", st}

\* The session goes from the row it has loaded to m.
GoesTo(s, m) ==
    /\ m \in Held /\ m.was = Loaded(s).was
    /\ m.is.next = Loaded(s).is.next \/ m.is.next # m.was.next

TablesType ==
    /\ row \in [Schedules -> Row]
    /\ fire \in [Fires -> FireStatus]
    /\ runs \in [Fires -> Nat]
    /\ mine \in [Schedules -> Held \union {[on |-> FALSE]}]
    /\ unsaved \in [Fires -> FireStatus \union {"clean"}]

LEMMA LeaveDispatched ==
    ASSUME TypeOK, NEW f \in Fires, NEW st \in FireStatus, NEW m, GoesTo(f[1], m),
           Leave(f, st, m), UNCHANGED <<row, fire, runs>>
    PROVE  TablesType' /\ Dispatched(f, st, m)
<1> DEFINE s == f[1]
<1>0. s \in Schedules /\ m \in Held
  BY Keyed DEF GoesTo
<1>1. mine' = [mine EXCEPT ![s] = m] /\ unsaved' = [unsaved EXCEPT ![f] = st]
  BY DEF Leave
<1>2. TablesType'
  BY <1>0, <1>1 DEF TablesType, TypeOK
<1>3. SavedFires' = [SavedFires EXCEPT ![f] = st]
  BY <1>1 DEF SavedFires, TypeOK, FireStatus
<1>4. ASSUME NEW d \in Schedules, d # s
      PROVE  SavedRows'[d].next = SavedRows[d].next /\ (Loaded(d)').is.next = Loaded(d).is.next
  <2>1. mine'[d] = mine[d] /\ row' = row
    BY <1>1, <1>4 DEF TypeOK
  <2> QED BY <2>1 DEF SavedRows, Loaded, Merged
<1>5. mine'[s] = m /\ m.on /\ m.was \in Row /\ m.is \in Row
  BY <1>0, <1>1 DEF TypeOK, Held
<1>6. SavedRows'[s] = Merged(row[s], m.was, m.is) /\ row[s] \in Row
  BY <1>0, <1>5 DEF SavedRows, TypeOK
<1>7. SavedRows'[s].next = IF m.is.next = m.was.next THEN row[s].next ELSE m.is.next
  BY <1>5, <1>6, MergedRow
<1>8. SavedRows'[s].next =
          IF m.is.next = Loaded(s).is.next THEN SavedRows[s].next ELSE m.is.next
  <2>1. CASE mine[s].on
    BY <1>0, <1>7, <2>1, SavedNext DEF GoesTo, Loaded
  <2>2. CASE ~mine[s].on
    <3>1. Loaded(s).was = row[s] /\ Loaded(s).is = row[s]
      BY <2>2 DEF Loaded
    <3> QED BY <1>0, <1>7, <2>2, <3>1, SavedNext DEF GoesTo
  <2> QED BY <2>1, <2>2
<1>9. \A d \in Schedules : d # s => mine'[d] = mine[d]
  BY <1>1 DEF TypeOK
<1>10. \A g \in Fires : unsaved'[g] \in {unsaved[g], "clean", st}
  BY <1>1 DEF TypeOK
<1>11. mine'[s].was = Loaded(s).was
  BY <1>5 DEF GoesTo
<1> QED BY <1>2, <1>3, <1>4, <1>5, <1>8, <1>9, <1>10, <1>11 DEF Dispatched

LEMMA CreateDispatched ==
    ASSUME TypeOK, NEW f \in Fires, NEW st \in FireStatus, NEW m, GoesTo(f[1], m),
           CreateRun(f, st, m)
    PROVE  TablesType' /\ Dispatched(f, st, m)
<1> DEFINE s == f[1]
           h == [m EXCEPT !.was = Loaded(s).is]
<1>0. s \in Schedules /\ m \in Held /\ Loaded(s) \in Held
  BY Keyed, SavedTypes DEF GoesTo
<1>1. /\ row' = SavedRows
      /\ fire' = [SavedFires EXCEPT ![f] = "pending"]
      /\ runs' = [runs EXCEPT ![f] = @ + 1]
      /\ unsaved' = [Clean EXCEPT ![f] = st]
      /\ mine' = [Synced(mine) EXCEPT ![s] = h]
  BY DEF CreateRun
<1>2. h \in Held /\ h.on /\ h.was = Loaded(s).is /\ h.is = m.is
  BY <1>0 DEF Held
<1>3. ASSUME NEW d \in Schedules
      PROVE  /\ Synced(mine)[d] \in Held \union {[on |-> FALSE]}
             /\ IF mine[d].on THEN /\ Synced(mine)[d].on
                                   /\ Synced(mine)[d].was = mine[d].is
                                   /\ Synced(mine)[d].is = mine[d].is
                              ELSE Synced(mine)[d] = mine[d]
  <2>1. mine[d] \in Held \union {[on |-> FALSE]}
    BY <1>3 DEF TypeOK
  <2>2. CASE mine[d].on
    <3>1. mine[d] \in Held
      BY <2>1, <2>2, OnIsHeld
    <3>2. Synced(mine)[d] = [mine[d] EXCEPT !.was = mine[d].is]
      BY <1>3, <2>2 DEF Synced
    <3> QED BY <2>2, <3>1, <3>2 DEF Held
  <2>3. CASE ~mine[d].on
    BY <1>3, <2>1, <2>3 DEF Synced
  <2> QED BY <2>2, <2>3
<1>4. TablesType'
  <2>1. Synced(mine) \in [Schedules -> Held \union {[on |-> FALSE]}]
    BY <1>3 DEF Synced
  <2>2. mine' \in [Schedules -> Held \union {[on |-> FALSE]}]
    BY <1>0, <1>1, <1>2, <2>1
  <2>3. row' \in [Schedules -> Row] /\ fire' \in [Fires -> FireStatus]
    BY <1>1, SavedTypes DEF FireStatus
  <2>4. runs' \in [Fires -> Nat]
    BY <1>1 DEF TypeOK
  <2>5. unsaved' \in [Fires -> FireStatus \union {"clean"}]
    BY <1>1 DEF Clean
  <2> QED BY <2>2, <2>3, <2>4, <2>5 DEF TablesType
<1>5. SavedFires' = [SavedFires EXCEPT ![f] = st]
  BY <1>1 DEF SavedFires, Clean, FireStatus
<1>6. ASSUME NEW d \in Schedules, d # s
      PROVE  SavedRows'[d].next = SavedRows[d].next /\ (Loaded(d)').is.next = Loaded(d).is.next
  <2>1. mine'[d] = Synced(mine)[d] /\ row'[d] = SavedRows[d] /\ SavedRows[d] \in Row
    BY <1>1, <1>6, SavedTypes DEF Synced
  <2>2. CASE mine[d].on
    <3>1. mine'[d].on /\ mine'[d].was = mine[d].is /\ mine'[d].is = mine[d].is
      BY <1>3, <1>6, <2>1, <2>2
    <3>2. mine[d] \in Held
      BY <1>6, <2>2, OnIsHeld DEF TypeOK
    <3>3. mine[d].is \in Row
      BY <3>2 DEF Held
    <3>4. SavedRows'[d] = Merged(SavedRows[d], mine[d].is, mine[d].is)
      BY <1>6, <2>1, <3>1 DEF SavedRows
    <3>5. SavedRows'[d].next = SavedRows[d].next
      BY <2>1, <3>3, <3>4, MergedRow
    <3>6. (Loaded(d)').is = Loaded(d).is
      BY <2>2, <3>1 DEF Loaded
    <3> QED BY <3>5, <3>6
  <2>3. CASE ~mine[d].on
    <3>1. mine'[d] = mine[d] /\ ~mine'[d].on
      BY <1>3, <1>6, <2>1, <2>3
    <3>2. SavedRows'[d] = SavedRows[d] /\ row[d] = SavedRows[d]
      BY <1>6, <2>1, <2>3, <3>1 DEF SavedRows
    <3>3. (Loaded(d)').is = Loaded(d).is
      BY <2>1, <2>3, <3>1, <3>2 DEF Loaded
    <3> QED BY <3>2, <3>3
  <2> QED BY <2>2, <2>3
<1>7. mine'[s] = h
  BY <1>0, <1>1 DEF Synced
<1>8. SavedRows'[s].next =
          IF m.is.next = Loaded(s).is.next THEN SavedRows[s].next ELSE m.is.next
  <2>1. row'[s] = SavedRows[s] /\ SavedRows[s] \in Row /\ h.was \in Row /\ h.is \in Row
    BY <1>0, <1>1, <1>2, SavedTypes DEF Held
  <2>2. SavedRows'[s] = Merged(row'[s], h.was, h.is)
    BY <1>0, <1>2, <1>7 DEF SavedRows
  <2>3. SavedRows'[s].next = IF h.is.next = h.was.next THEN row'[s].next ELSE h.is.next
    BY <2>1, <2>2, MergedRow
  <2> QED BY <1>2, <2>1, <2>3
<1>9. \A d \in Schedules : d # s => mine'[d] = Synced(mine)[d]
  BY <1>1 DEF Synced
<1>10. ASSUME NEW d \in Schedules, d # s
       PROVE  /\ mine'[d].on => /\ mine[d].on /\ mine'[d].is = mine[d].is
                                /\ mine'[d].was = mine[d].is
              /\ mine[d].on => mine'[d].on
  BY <1>3, <1>9, <1>10
<1>11. \A g \in Fires : unsaved'[g] \in {unsaved[g], "clean", st}
  BY <1>1 DEF Clean
<1> QED BY <1>2, <1>4, <1>5, <1>6, <1>7, <1>8, <1>10, <1>11 DEF Dispatched
-----------------------------------------------------------------------------
(* A fire is dispatched *)

\* A fire that had no run, of a schedule that is then beyond all its fires.
LEMMA DispatchKeeps ==
    ASSUME Fired, NEW f \in Fires, NEW st \in FireStatus \ {"absent"}, NEW m \in Held,
           Dispatched(f, st, m), now' = now, ~upset', ~upset,
           f[2] \in Times => runs[f] = 0,
           runs' = runs \/ (runs' = [runs EXCEPT ![f] = @ + 1] /\ st = "submitted"),
           \A t \in Times : t = f[2] \/ SavedFires[<<f[1], t>>] # "absent" =>
              t <= now /\ Beyond(m.is.next, t),
           f[2] \in Times /\ SavedFires[f] = "absent" => m.is.next # Loaded(f[1]).is.next,
           tick'.fires \subseteq tick.fires \ {f}
    PROVE  KeysPassed' /\ RunsSettled' /\ NotYetRun'
<1>0. /\ TypeOK /\ KeysPassed /\ RunsSettled /\ NotYetRun
      /\ f[1] \in Schedules /\ f = <<f[1], f[2]>>
      /\ SavedFires \in [Fires -> FireStatus]
      /\ \A s \in Schedules, t \in Times : <<s, t>> \in Fires
  BY Keyed, SavedTypes DEF Fired
<1>1. SavedFires' = [SavedFires EXCEPT ![f] = st]
  BY DEF Dispatched
<1>2. ASSUME NEW s \in Schedules, NEW t \in Times, SavedFires'[<<s, t>>] # "absent"
      PROVE  t <= now' /\ Beyond(SavedRows'[s].next, t) /\ Beyond((Loaded(s)').is.next, t)
  <2>1. CASE s # f[1]
    <3>1. <<s, t>> # f
      BY <2>1
    <3>2. SavedFires[<<s, t>>] # "absent"
      BY <1>0, <1>1, <1>2, <3>1
    <3> QED BY <1>0, <1>2, <2>1, <3>2 DEF Dispatched, KeysPassed
  <2>2. CASE s = f[1]
    <3>1. t = f[2] \/ SavedFires[<<s, t>>] # "absent"
      BY <1>0, <1>1, <1>2, <2>2
    <3>2. t <= now /\ Beyond(m.is.next, t)
      BY <2>2, <3>1
    <3>3. (Loaded(s)').is.next = m.is.next
      BY <2>2 DEF Dispatched, Loaded
    <3>4. m.is.next = Loaded(s).is.next => Beyond(SavedRows[s].next, t)
      BY <1>0, <2>2, <3>1 DEF KeysPassed
    <3>5. SavedRows'[s].next =
            IF m.is.next = Loaded(s).is.next THEN SavedRows[s].next ELSE m.is.next
      BY <2>2 DEF Dispatched
    <3> QED BY <3>2, <3>3, <3>4, <3>5
  <2> QED BY <2>1, <2>2
<1>3. KeysPassed'
  BY <1>2 DEF KeysPassed
<1>4. ASSUME NEW s \in Schedules, NEW t \in Times
      PROVE  /\ \/ runs'[<<s, t>>] = 0
                \/ runs'[<<s, t>>] = 1 /\ SavedFires'[<<s, t>>] \in Settled
             /\ <<s, t>> \in tick'.fires => runs'[<<s, t>>] = 0
  <2>1. CASE <<s, t>> # f
    <3>1. runs'[<<s, t>>] = runs[<<s, t>>] /\ SavedFires'[<<s, t>>] = SavedFires[<<s, t>>]
      BY <1>0, <1>1, <1>4, <2>1 DEF TypeOK
    <3> QED BY <1>0, <1>4, <3>1 DEF RunsSettled, NotYetRun
  <2>2. CASE <<s, t>> = f
    <3>1. runs[f] = 0 /\ SavedFires'[f] = st /\ f \notin tick'.fires
      BY <1>0, <1>1, <2>2
    <3>2. runs'[f] = 0 \/ (runs'[f] = 1 /\ st = "submitted")
      BY <1>0, <3>1 DEF TypeOK
    <3> QED BY <2>2, <3>1, <3>2 DEF Settled, FireStatus
  <2> QED BY <2>1, <2>2
<1> QED BY <1>3, <1>4 DEF RunsSettled, NotYetRun

\* What a step of a tick leaves of the outcomes, either way.
LEMMA DispatchOutcome ==
    ASSUME Fired, NEW f \in Fires, NEW st \in FireStatus, NEW m, GoesTo(f[1], m),
           Dispatch(f, st, m)
    PROVE  /\ TablesType' /\ Dispatched(f, st, m) /\ st # "absent"
           /\ busy' \in BOOLEAN /\ upset' \in BOOLEAN /\ faults' \in Nat
           /\ upset => upset'
           /\ ~upset' => \/ runs' = runs
                         \/ runs' = [runs EXCEPT ![f] = @ + 1] /\ st = "submitted"
           /\ ~upset' /\ f[1] \notin Cron => st # "pending"
<1>0. TypeOK
  BY DEF Fired
<1>1. CASE CreateRun(f, st, m)
  <2>1. TablesType' /\ Dispatched(f, st, m)
    BY <1>0, <1>1, CreateDispatched
  <2>2. /\ st \in {"submitted", "pending"}
        /\ st = "pending" => upset' = TRUE /\ faults' = faults + 1
        /\ st = "submitted" => upset' = upset /\ faults' = faults
        /\ runs' = [runs EXCEPT ![f] = @ + 1]
        /\ busy' = (busy \/ Continues(f[1]))
    BY <1>1 DEF CreateRun
  <2>3. busy' \in BOOLEAN
    BY <2>2
  <2>4. upset' \in BOOLEAN /\ faults' \in Nat /\ (upset => upset')
    <3>1. faults \in Nat /\ upset \in BOOLEAN
      BY <1>0 DEF TypeOK
    <3>2. CASE st = "submitted"
      BY <2>2, <3>1, <3>2
    <3>3. CASE st = "pending"
      BY <2>2, <3>1, <3>3
    <3> QED BY <2>2, <3>2, <3>3
  <2> QED BY <2>1, <2>2, <2>3, <2>4
<1>2. CASE /\ WithoutRun(f, st) /\ Leave(f, st, m)
           /\ upset' = (upset \/ (f[1] \notin Cron /\ st = "pending"))
           /\ UNCHANGED <<dbVars, busy, faults>>
  <2>1. UNCHANGED <<row, fire, runs, busy, faults>>
    BY <1>2 DEF dbVars
  <2>2. TablesType' /\ Dispatched(f, st, m)
    BY <1>0, <1>2, <2>1, LeaveDispatched
  <2>3. st # "absent"
    BY <1>2 DEF WithoutRun
  <2>4. upset' \in BOOLEAN /\ (upset => upset') /\ (~upset' /\ f[1] \notin Cron => st # "pending")
    BY <1>2
  <2> QED BY <1>0, <2>1, <2>2, <2>3, <2>4 DEF TypeOK
<1> QED BY <1>1, <1>2 DEF Dispatch

LEMMA CompletedHeld ==
    ASSUME NEW h \in Held
    PROVE  /\ Completed(h) \in Held
           /\ Completed(h).was = h.was /\ Completed(h).is.next = Never
<1> DEFINE is == [h.is EXCEPT !.status = "completed", !.next = Never]
<1>1. h.is \in Row /\ h.was \in Row
  BY DEF Held
<1>2. is \in Row /\ is.next = Never
  <2> DEFINE c == [h.is EXCEPT !.status = "completed"]
  <2>1. c \in Row
    BY <1>1 DEF Row
  <2>2. is = [c EXCEPT !.next = Never]
    OBVIOUS
  <2> HIDE DEF c, is
  <2> QED BY <2>1, <2>2, SchedulesAssumption DEF Row, Never
<1>3. Completed(h) = [h EXCEPT !.is = is]
  BY DEF Completed
<1> HIDE DEF is
<1> QED BY <1>1, <1>2, <1>3 DEF Held

LEMMA PendingKeeps ==
    ASSUME Fired, NEW f \in Fires, DispatchPending(f)
    PROVE  Fired'
<1> DEFINE s == f[1]
           old == Loaded(s)
<1>0. /\ TypeOK /\ TickKeeps /\ s \in Schedules /\ old \in Held
      /\ f \in tick.fires /\ tick.phase = "pending"
      /\ tick' = [tick EXCEPT !.fires = @ \ {f}] /\ UNCHANGED <<now, trigger, edit, edits>>
  BY Keyed, SavedTypes DEF Fired, DispatchPending, callVars
<1>1. /\ tick' \in [phase : {"idle", "pending", "due"}, now : 0..MaxNow,
                     fires : SUBSET Fires, due : SUBSET Schedules]
      /\ tick'.phase = "pending" /\ tick'.now = tick.now /\ tick'.fires = tick.fires \ {f}
  BY <1>0 DEF TypeOK
<1>2. old.is.next \in {old.was.next, Never}
  BY <1>0 DEF TickKeeps, Loaded
<1>3. PICK st \in FireStatus, m \in Held :
        /\ GoesTo(s, m) /\ Dispatched(f, st, m) /\ TablesType' /\ st # "absent"
        /\ busy' \in BOOLEAN /\ upset' \in BOOLEAN /\ faults' \in Nat
        /\ upset => upset'
        /\ ~upset' => runs' = runs \/ (runs' = [runs EXCEPT ![f] = @ + 1] /\ st = "submitted")
        /\ m.is.next \in {old.is.next, Never}
  <2>1. CASE old.is.status = "deleted"
    <3>1. Leave(f, "skipped", old) /\ UNCHANGED <<row, fire, runs, busy, upset, faults>>
      BY <2>1 DEF DispatchPending, dbVars
    <3>2. GoesTo(s, old)
      BY <1>0 DEF GoesTo
    <3>3. Dispatched(f, "skipped", old) /\ TablesType'
      BY <1>0, <3>1, <3>2, LeaveDispatched DEF FireStatus
    <3> QED BY <1>0, <3>1, <3>2, <3>3 DEF FireStatus, TypeOK
  <2>2. CASE old.is.status # "deleted"
    <3>1. PICK st \in FireStatus : Dispatch(f, st, AfterPending(s, st))
      BY <2>2 DEF DispatchPending
    <3> DEFINE m == AfterPending(s, st)
    <3>2. m = old \/ m = Completed(old)
      BY DEF AfterPending
    <3>3. Completed(old) \in Held /\ Completed(old).was = old.was /\ Completed(old).is.next = Never
      BY <1>0, CompletedHeld
    <3>4. GoesTo(s, m) /\ m \in Held /\ m.is.next \in {old.is.next, Never}
      BY <1>0, <1>2, <3>2, <3>3 DEF GoesTo
    <3> HIDE DEF m
    <3> QED BY <3>1, <3>4, DispatchOutcome DEF m
  <2> QED BY <2>1, <2>2
<1>4. TypeOK'
  BY <1>0, <1>1, <1>3 DEF TypeOK, TablesType
<1>5. TickKeeps'
  <2>1. ASSUME NEW d \in Schedules, mine'[d].on
        PROVE  mine'[d].is.next \in {mine'[d].was.next, Never}
    <3>1. CASE d = s
      <4>1. mine'[d].is = m.is /\ mine'[d].was \in {old.was, old.is}
        BY <1>3, <3>1 DEF Dispatched
      <4> QED BY <1>2, <1>3, <4>1
    <3>2. CASE d # s
      <4>1. /\ mine[d].on /\ mine'[d].is = mine[d].is
            /\ mine'[d].was \in {mine[d].was, mine[d].is}
        BY <1>3, <2>1, <3>2 DEF Dispatched
      <4> QED BY <1>0, <2>1, <4>1 DEF TickKeeps
    <3> QED BY <3>1, <3>2
  <2>2. \A g \in Fires : unsaved'[g] # "absent"
    BY <1>0, <1>3 DEF TickKeeps, Dispatched
  <2>3. \A g \in tick'.fires : SavedFires'[g] # "absent"
    <3>1. \A g \in tick'.fires : g \in Fires /\ g # f /\ SavedFires[g] # "absent"
      BY <1>0, <1>1 DEF TickKeeps, TypeOK
    <3>2. SavedFires' = [SavedFires EXCEPT ![f] = st] /\ SavedFires \in [Fires -> FireStatus]
      BY <1>0, <1>3, SavedTypes DEF Dispatched
    <3> QED BY <3>1, <3>2
  <2> QED BY <1>0, <1>1, <2>1, <2>2, <2>3 DEF TickKeeps
<1>6. ASSUME ~upset' PROVE KeysPassed' /\ RunsSettled' /\ NotYetRun'
  <2>1. ~upset /\ KeysPassed /\ NotYetRun
    BY <1>3, <1>6 DEF Fired
  <2>2. f[2] \in Times => runs[f] = 0
    BY <1>0, <2>1, Keyed DEF NotYetRun
  <2>3. SavedFires[f] # "absent"
    BY <1>0 DEF TickKeeps
  <2>4. ASSUME NEW t \in Times, t = f[2] \/ SavedFires[<<s, t>>] # "absent"
        PROVE  t <= now /\ Beyond(m.is.next, t)
    <3>1. SavedFires[<<s, t>>] # "absent"
      BY <2>3, <2>4, Keyed
    <3> QED BY <1>0, <1>3, <2>1, <3>1 DEF KeysPassed, Beyond
  <2> QED BY <1>0, <1>1, <1>3, <1>6, <2>1, <2>2, <2>3, <2>4, DispatchKeeps
<1> QED BY <1>4, <1>5, <1>6 DEF Fired

LEMMA AdvancedHeld ==
    ASSUME TypeOK, NEW s \in Schedules, NEW st, mine[s].on
    PROVE  /\ Advanced(s, st) \in Held /\ Advanced(s, st).was = mine[s].was
           /\ \/ s \in Cron /\ Advanced(s, st).is.next = tick.now + 1
              \/ s \notin Cron /\ Advanced(s, st).is.next = Never
              \/ s \notin Cron /\ st = "pending" /\ Advanced(s, st) = mine[s]
<1>1. mine[s] \in Held /\ tick.now \in 0..MaxNow
  BY OnIsHeld DEF TypeOK
<1>2. CASE s \in Cron
  <2> DEFINE is == [mine[s].is EXCEPT !.next = tick.now + 1]
  <2>1. mine[s].is \in Row
    BY <1>1 DEF Held
  <2>2. is \in Row /\ is.next = tick.now + 1
    BY <1>1, <2>1, SchedulesAssumption DEF Row
  <2>3. Advanced(s, st) = [mine[s] EXCEPT !.is = is]
    BY <1>2 DEF Advanced
  <2> HIDE DEF is
  <2> QED BY <1>1, <1>2, <2>2, <2>3 DEF Held
<1>3. CASE s \notin Cron /\ st # "pending"
  BY <1>1, <1>3, CompletedHeld DEF Advanced
<1>4. CASE s \notin Cron /\ st = "pending"
  BY <1>1, <1>4 DEF Advanced
<1> QED BY <1>2, <1>3, <1>4

\* A time that is due has no fire yet, saved or not.
LEMMA DueIsNew ==
    ASSUME Fired, NEW s \in Schedules, tick.phase = "due", s \in tick.due, IsDue(s)
    PROVE  /\ mine[s].on /\ Loaded(s) = mine[s] /\ mine[s].is.next = mine[s].was.next
           /\ mine[s].is.next \in Times
           /\ mine[s].is.next <= tick.now /\ tick.now <= now
           /\ <<s, mine[s].is.next>> \in Fires
           /\ ~upset => SavedFires[<<s, mine[s].is.next>>] = "absent"
<1> DEFINE t == mine[s].is.next
<1>1. TypeOK /\ TickKeeps
  BY DEF Fired
<1>2. mine[s].on /\ Loaded(s) = mine[s] /\ t = mine[s].was.next
  BY <1>1 DEF TickKeeps, Loaded
<1>3. mine[s].is \in Row
  <2>1. mine[s] \in Held
    BY <1>1, <1>2, OnIsHeld DEF TypeOK
  <2> QED BY <2>1 DEF Held
<1>4. t # Never /\ t <= tick.now /\ tick.now <= now /\ now \in 0..MaxNow /\ tick.now \in 0..MaxNow
  BY <1>1 DEF IsDue, TickKeeps, TypeOK
<1>5. t \in Times
  BY <1>3, <1>4, SchedulesAssumption DEF Row, Never, Times
<1>6. ~upset => SavedFires[<<s, t>>] = "absent"
  BY <1>2, <1>4, <1>5, SchedulesAssumption DEF Fired, KeysPassed, Beyond, Times
<1> QED BY <1>2, <1>4, <1>5, <1>6, Keyed

LEMMA DueKeeps ==
    ASSUME Fired, NEW s \in Schedules, DispatchDue(s)
    PROVE  Fired'
<1> DEFINE f == <<s, mine[s].is.next>>
<1>0. /\ TypeOK /\ TickKeeps /\ tick.phase = "due" /\ s \in tick.due /\ IsDue(s)
      /\ tick' = [tick EXCEPT !.due = @ \ {s}] /\ UNCHANGED <<now, trigger, edit, edits>>
  BY DEF Fired, DispatchDue, callVars
<1>1. /\ tick' \in [phase : {"idle", "pending", "due"}, now : 0..MaxNow,
                     fires : SUBSET Fires, due : SUBSET Schedules]
      /\ tick'.phase = "due" /\ tick'.now = tick.now
      /\ tick'.fires = {} /\ tick.fires = {} /\ tick'.due = tick.due \ {s}
  BY <1>0 DEF TypeOK, TickKeeps
<1>2. /\ mine[s].on /\ Loaded(s) = mine[s] /\ mine[s].is.next = mine[s].was.next
      /\ mine[s].is.next \in Times /\ mine[s].is.next <= tick.now /\ tick.now <= now
      /\ f \in Fires /\ f[1] = s /\ f[2] = mine[s].is.next
      /\ ~upset => SavedFires[f] = "absent"
  BY <1>0, DueIsNew
<1>3. PICK st \in FireStatus : Dispatch(f, st, Advanced(s, st))
  BY DEF DispatchDue
<1> DEFINE m == Advanced(s, st)
<1>4. /\ m \in Held /\ m.was = mine[s].was
      /\ \/ s \in Cron /\ m.is.next = tick.now + 1
         \/ s \notin Cron /\ m.is.next = Never
         \/ s \notin Cron /\ st = "pending" /\ m = mine[s]
  BY <1>0, <1>2, AdvancedHeld
<1>t. tick.now \in Nat /\ now \in Nat /\ Times \subseteq Nat \ {0} /\ mine[s].is.next \in Nat \ {0}
  BY <1>0, <1>2, SchedulesAssumption DEF TypeOK, Times
<1> HIDE DEF m, f
<1>5. GoesTo(f[1], m)
  BY <1>2, <1>4, <1>t DEF GoesTo, Never
<1>6. /\ TablesType' /\ Dispatched(f, st, m) /\ st # "absent"
      /\ busy' \in BOOLEAN /\ upset' \in BOOLEAN /\ faults' \in Nat
      /\ upset => upset'
      /\ ~upset' => runs' = runs \/ (runs' = [runs EXCEPT ![f] = @ + 1] /\ st = "submitted")
      /\ ~upset' /\ f[1] \notin Cron => st # "pending"
  BY <1>2, <1>3, <1>5, DispatchOutcome DEF m
<1>7. TypeOK'
  BY <1>0, <1>1, <1>6 DEF TypeOK, TablesType
<1>8. TickKeeps'
  <2>1. ASSUME NEW d \in tick'.due
        PROVE  mine'[d].on /\ mine'[d].is.next = mine'[d].was.next
    <3>1. d \in Schedules /\ d # f[1] /\ mine[d].on /\ mine[d].is.next = mine[d].was.next
      BY <1>0, <1>1, <1>2 DEF TickKeeps, TypeOK
    <3> QED BY <1>6, <3>1 DEF Dispatched
  <2>2. \A g \in Fires : unsaved'[g] # "absent"
    BY <1>0, <1>6 DEF TickKeeps, Dispatched
  <2> QED BY <1>0, <1>1, <2>1, <2>2 DEF TickKeeps
<1>9. ASSUME ~upset' PROVE KeysPassed' /\ RunsSettled' /\ NotYetRun'
  <2>1. ~upset /\ KeysPassed /\ RunsSettled
    BY <1>6, <1>9 DEF Fired
  <2>2. SavedFires[f] = "absent" /\ runs[f] = 0
    BY <1>2, <2>1 DEF RunsSettled, Settled, f
  <2>3. m.is.next = Never \/ m.is.next = tick.now + 1
    BY <1>2, <1>4, <1>6, <1>9
  <2>4. ASSUME NEW t \in Times, t = f[2] \/ SavedFires[<<f[1], t>>] # "absent"
        PROVE  t <= now /\ Beyond(m.is.next, t)
    <3>1. t <= now /\ (t = f[2] \/ Beyond(mine[s].is.next, t))
      BY <1>2, <1>t, <2>1, <2>4 DEF KeysPassed
    <3> QED BY <1>2, <1>t, <2>3, <3>1 DEF Beyond, Never
  <2>5. m.is.next # Loaded(f[1]).is.next
    BY <1>2, <1>t, <2>3 DEF Never
  <2> QED BY <1>0, <1>1, <1>2, <1>4, <1>6, <1>9, <2>1, <2>2, <2>4, <2>5, DispatchKeeps
<1> QED BY <1>7, <1>8, <1>9 DEF Fired
-----------------------------------------------------------------------------
(* The session of a tick begins and is committed *)

LEMMA StartKeeps ==
    ASSUME Fired, StartTick
    PROVE  Fired'
<1>0. /\ TypeOK /\ TickKeeps /\ tick.phase = "idle" /\ unsaved = Clean /\ mine = NoRows
      /\ UNCHANGED <<now, row, fire, runs, busy, mine, unsaved, trigger, edit, edits, upset, faults>>
      /\ tick' = [phase |-> "pending", now |-> now, due |-> {},
                  fires |-> {f \in Fires : fire[f] = "pending"}]
  BY DEF Fired, TickKeeps, StartTick, dbVars, callVars
<1>1. TypeOK'
  BY <1>0 DEF TypeOK
<1>2. /\ SavedFires' = SavedFires /\ SavedRows' = SavedRows
      /\ \A s \in Schedules : Loaded(s)' = Loaded(s)
      /\ \A f \in Fires : SavedFires[f] = fire[f]
  BY <1>0 DEF SavedFires, SavedRows, Loaded, Clean
<1>3. TickKeeps'
  <2>1. \A s \in Schedules : ~mine'[s].on
    BY <1>0 DEF NoRows
  <2>2. \A f \in tick'.fires : SavedFires'[f] # "absent"
    BY <1>0, <1>2
  <2> QED BY <1>0, <2>1, <2>2 DEF TickKeeps, TypeOK
<1>4. ASSUME ~upset' PROVE KeysPassed' /\ RunsSettled' /\ NotYetRun'
  <2>1. KeysPassed /\ RunsSettled
    BY <1>0, <1>4 DEF Fired
  <2>2. KeysPassed' /\ RunsSettled'
    BY <1>0, <1>2, <2>1 DEF KeysPassed, RunsSettled
  <2>3. NotYetRun'
    BY <1>0, <1>2, <2>1 DEF NotYetRun, RunsSettled, Settled
  <2> QED BY <2>2, <2>3
<1> QED BY <1>1, <1>3, <1>4 DEF Fired

\* The session is committed, and has nothing left to save.
LEMMA CommitKeeps ==
    ASSUME Fired, ~upset, row' = SavedRows, fire' = SavedFires, unsaved' = Clean,
           UNCHANGED <<now, runs>>, tick'.fires = {},
           \A s \in Schedules :
              /\ mine'[s].on => mine'[s] \in Held /\ mine'[s].is.next = mine'[s].was.next
              /\ (Loaded(s)').is.next \in {SavedRows[s].next, Loaded(s).is.next}
    PROVE  KeysPassed' /\ RunsSettled' /\ NotYetRun'
<1>0. TypeOK /\ KeysPassed /\ RunsSettled
  BY DEF Fired
<1>1. SavedFires' = SavedFires
  BY DEF SavedFires, Clean
<1>2. ASSUME NEW s \in Schedules PROVE SavedRows'[s].next = SavedRows[s].next
  <2>1. row'[s] = SavedRows[s] /\ SavedRows[s] \in Row
    BY <1>0, SavedTypes
  <2>2. CASE mine'[s].on
    <3>1. mine'[s].was \in Row /\ mine'[s].is \in Row /\ mine'[s].is.next = mine'[s].was.next
      BY <2>2 DEF Held
    <3>2. SavedRows'[s] = Merged(row'[s], mine'[s].was, mine'[s].is)
      BY <2>2 DEF SavedRows
    <3> QED BY <2>1, <3>1, <3>2, MergedRow
  <2>3. CASE ~mine'[s].on
    BY <2>1, <2>3 DEF SavedRows
  <2> QED BY <2>2, <2>3
<1>3. KeysPassed'
  BY <1>0, <1>1, <1>2 DEF KeysPassed
<1>4. RunsSettled' /\ NotYetRun'
  BY <1>0, <1>1 DEF RunsSettled, NotYetRun
<1> QED BY <1>3, <1>4

LEMMA StartDueKeeps ==
    ASSUME Fired, StartDue
    PROVE  Fired'
<1> DEFINE S == {s \in Schedules : row'[s].status = "active" /\ row'[s].next # Never}
<1>0. /\ TypeOK /\ TickKeeps /\ tick.phase = "pending"
      /\ row' = SavedRows /\ fire' = SavedFires /\ unsaved' = Clean
      /\ tick' = [phase |-> "due", now |-> now, fires |-> {}, due |-> S]
      /\ mine' = [s \in Schedules |-> IF s \in S /\ ~mine[s].on
                    THEN [on |-> TRUE, was |-> row'[s], is |-> row'[s]] ELSE Synced(mine)[s]]
      /\ UNCHANGED <<now, runs, busy, trigger, edit, edits, upset, faults>>
  BY DEF Fired, StartDue, callVars
<1>1. row' \in [Schedules -> Row] /\ fire' \in [Fires -> FireStatus]
  BY <1>0, SavedTypes
<1> HIDE DEF S
<1>2. ASSUME NEW s \in Schedules
      PROVE  /\ mine'[s] \in Held \union {[on |-> FALSE]}
             /\ mine'[s].on => mine'[s] \in Held /\ mine'[s].is.next = mine'[s].was.next
             /\ (Loaded(s)').is.next \in {SavedRows[s].next, Loaded(s).is.next}
             /\ s \in S => mine'[s].on
  <2>0. mine[s] \in Held \union {[on |-> FALSE]} /\ row'[s] \in Row /\ row'[s] = SavedRows[s]
    BY <1>0, <1>1, <1>2 DEF TypeOK
  <2>1. CASE mine[s].on
    <3>1. mine[s] \in Held
      BY <2>0, <2>1, OnIsHeld
    <3>2. mine'[s] = [mine[s] EXCEPT !.was = mine[s].is]
      BY <1>0, <1>2, <2>1 DEF Synced
    <3>3. mine'[s] \in Held /\ mine'[s].on /\ mine'[s].is = mine[s].is /\ mine'[s].was = mine[s].is
      BY <3>1, <3>2 DEF Held
    <3> QED BY <2>1, <3>3 DEF Loaded
  <2>2. CASE ~mine[s].on /\ s \in S
    <3>1. mine'[s] = [on |-> TRUE, was |-> row'[s], is |-> row'[s]]
      BY <1>0, <1>2, <2>2
    <3> QED BY <2>0, <3>1 DEF Held, Loaded
  <2>3. CASE ~mine[s].on /\ s \notin S
    <3>1. mine'[s] = mine[s]
      BY <1>0, <1>2, <2>3 DEF Synced
    <3> QED BY <2>0, <2>3, <3>1 DEF Loaded
  <2> QED BY <2>1, <2>2, <2>3
<1>3. mine' \in [Schedules -> Held \union {[on |-> FALSE]}]
  BY <1>0, <1>2
<1>4. S \subseteq Schedules
  BY DEF S
<1>5. TypeOK'
  BY <1>0, <1>1, <1>3, <1>4 DEF TypeOK, Clean
<1>6. TickKeeps'
  <2>1. /\ tick'.phase = "due" /\ tick'.fires = {} /\ tick'.due = S /\ tick'.now = now'
        /\ now' <= now'
    BY <1>0 DEF TypeOK
  <2>2. \A d \in S : mine'[d].on /\ mine'[d].is.next = mine'[d].was.next
    BY <1>2, <1>4
  <2>3. \A f \in Fires : unsaved'[f] # "absent"
    BY <1>0 DEF Clean
  <2>4. trigger'.on => trigger'.fire[2] \in Manual
    BY <1>0 DEF TickKeeps
  <2> QED BY <2>1, <2>2, <2>3, <2>4 DEF TickKeeps
<1>7. ~upset' => KeysPassed' /\ RunsSettled' /\ NotYetRun'
  BY <1>0, <1>2, CommitKeeps
<1> QED BY <1>5, <1>6, <1>7 DEF Fired

\* A tick that has nothing left, in the database or of its own.
LEMMA IdleTypes ==
    ASSUME TypeOK, TickKeeps, tick' = Idle, mine' = NoRows, unsaved' = Clean,
           row' \in [Schedules -> Row], fire' \in [Fires -> FireStatus],
           trigger' \in {trigger, NoTrigger}, edit' \in {edit, NoEdit},
           upset' \in BOOLEAN, faults' \in Nat, UNCHANGED <<now, runs, busy, edits>>
    PROVE  TypeOK' /\ TickKeeps'
<1>1. /\ tick' \in [phase : {"idle", "pending", "due"}, now : 0..MaxNow,
                     fires : SUBSET Fires, due : SUBSET Schedules]
      /\ tick'.phase = "idle" /\ tick'.fires = {} /\ tick'.now = 0
  BY SchedulesAssumption DEF Idle
<1>2. TypeOK'
  BY <1>1 DEF TypeOK, NoRows, Clean
<1>3. trigger'.on => trigger'.fire[2] \in Manual
  <2>1. NoTrigger.on = FALSE
    BY DEF NoTrigger
  <2>2. CASE trigger' = trigger
    BY <2>2 DEF TickKeeps
  <2>3. CASE trigger' = NoTrigger
    BY <2>1, <2>3
  <2> QED BY <2>2, <2>3
<1>4. tick'.now <= now' /\ \A f \in Fires : unsaved'[f] # "absent"
  BY <1>1 DEF TypeOK, Clean
<1> QED BY <1>1, <1>2, <1>3, <1>4 DEF TickKeeps

LEMMA EndKeeps ==
    ASSUME Fired, EndTick
    PROVE  Fired'
<1>0. /\ TypeOK /\ TickKeeps /\ row' = SavedRows /\ fire' = SavedFires
      /\ tick' = Idle /\ mine' = NoRows /\ unsaved' = Clean
      /\ UNCHANGED <<now, runs, busy, trigger, edit, edits, upset, faults>>
  BY DEF Fired, EndTick, callVars
<1>1. TypeOK' /\ TickKeeps'
  BY <1>0, SavedTypes, IdleTypes DEF TypeOK
<1>2. \A s \in Schedules : ~mine'[s].on /\ (Loaded(s)').is.next = SavedRows[s].next
  BY <1>0 DEF NoRows, Loaded
<1>3. tick'.fires = {}
  BY <1>0 DEF Idle
<1> QED BY <1>0, <1>1, <1>2, <1>3, CommitKeeps DEF Fired

\* The database refuses no fire, unless upset.
LEMMA FailKeeps ==
    ASSUME Fired, FailTick
    PROVE  Fired'
<1>0. /\ TypeOK /\ TickKeeps /\ tick.phase = "due"
      /\ tick' = Idle /\ mine' = NoRows /\ unsaved' = Clean
      /\ UNCHANGED <<now, row, fire, runs, busy, trigger, edit, edits, upset, faults>>
  BY DEF Fired, FailTick, callVars, dbVars
<1>1. TypeOK' /\ TickKeeps'
  BY <1>0, IdleTypes DEF TypeOK
<1>2. PICK s \in tick.due : IsDue(s) /\ fire[<<s, mine[s].is.next>>] # "absent"
  BY DEF FailTick
<1>3. s \in Schedules
  BY <1>0 DEF TypeOK
<1>4. /\ <<s, mine[s].is.next>> \in Fires
      /\ ~upset => SavedFires[<<s, mine[s].is.next>>] = "absent"
  BY <1>0, <1>2, <1>3, DueIsNew
<1>5. SavedFires[<<s, mine[s].is.next>>] # "absent"
  BY <1>0, <1>2, <1>4 DEF SavedFires, TickKeeps
<1> QED BY <1>0, <1>1, <1>4, <1>5 DEF Fired
-----------------------------------------------------------------------------
(* What the others do meanwhile *)

\* A step that leaves the schedules and the fires of a time alone.
LEMMA QuietKeeps ==
    ASSUME Fired, TypeOK', UNCHANGED <<row, tick, mine, unsaved>>, now <= now',
           upset => upset',
           \A f \in Fires :
              /\ fire[f] # "absent" => fire'[f] # "absent"
              /\ f[2] \notin Manual => fire'[f] = fire[f] /\ runs'[f] = runs[f],
           trigger'.on => trigger'.fire[2] \in Manual
    PROVE  Fired'
<1>0. TypeOK /\ TickKeeps
  BY DEF Fired
<1>1. \A s \in Schedules, t \in Times :
        SavedFires'[<<s, t>>] = SavedFires[<<s, t>>] /\ runs'[<<s, t>>] = runs[<<s, t>>]
  BY Keyed DEF SavedFires
<1>2. SavedRows' = SavedRows /\ \A s \in Schedules : Loaded(s)' = Loaded(s)
  BY DEF SavedRows, Loaded
<1>3. TickKeeps'
  <2>1. \A f \in tick'.fires : SavedFires'[f] # "absent"
    BY <1>0 DEF TickKeeps, TypeOK, SavedFires
  <2>2. tick'.now <= now'
    BY <1>0 DEF TickKeeps, TypeOK
  <2> QED BY <1>0, <2>1, <2>2 DEF TickKeeps
<1>4. ASSUME ~upset' PROVE KeysPassed' /\ RunsSettled' /\ NotYetRun'
  <2>1. KeysPassed /\ RunsSettled /\ NotYetRun
    BY <1>4 DEF Fired
  <2>2. now \in Nat /\ now' \in Nat /\ Times \subseteq Nat
    BY <1>0, Keyed DEF TypeOK
  <2> QED BY <1>1, <1>2, <2>1, <2>2 DEF KeysPassed, RunsSettled, NotYetRun
<1> QED BY <1>3, <1>4 DEF Fired

LEMMA TriggerKeeps ==
    ASSUME Fired, NEW s \in Schedules, NEW k \in Manual, Trigger(s, k)
    PROVE  Fired'
<1> DEFINE f == <<s, k>>
<1>0. /\ TypeOK /\ TickKeeps /\ f \in Fires /\ fire[f] = "absent" /\ f[2] \in Manual
      /\ UNCHANGED <<now, row, tick, mine, unsaved, edit, edits, faults>>
  BY DEF Fired, Trigger, tickVars, Fires, Keys
<1> HIDE DEF f
<1>1. PICK st \in FireStatus \ {"absent"} :
        /\ fire' = [fire EXCEPT ![f] = st]
        /\ \/ /\ runs' = [runs EXCEPT ![f] = @ + 1] /\ busy' = (busy \/ Continues(s))
              /\ trigger' = [on |-> TRUE, fire |-> f]
              /\ upset' = (upset \/ s \notin Cron)
           \/ /\ upset' = (upset \/ (s \notin Cron /\ st = "pending"))
              /\ UNCHANGED <<runs, busy, trigger>>
  BY DEF Trigger, WithoutRun, FireStatus, f
<1>2. upset' \in BOOLEAN /\ busy' \in BOOLEAN /\ (upset => upset')
  <2>1. CASE UNCHANGED <<runs, busy, trigger>> /\ upset' = (upset \/ (s \notin Cron /\ st = "pending"))
    BY <1>0, <2>1 DEF TypeOK
  <2>2. CASE busy' = (busy \/ Continues(s)) /\ upset' = (upset \/ s \notin Cron)
    BY <2>2
  <2> QED BY <1>1, <2>1, <2>2
<1>3. /\ fire' \in [Fires -> FireStatus] /\ runs' \in [Fires -> Nat]
      /\ trigger' \in [on : {TRUE}, fire : Fires] \union {NoTrigger}
      /\ trigger'.on => trigger'.fire[2] \in Manual
  <2>1. fire' \in [Fires -> FireStatus] /\ runs' \in [Fires -> Nat]
    BY <1>0, <1>1 DEF TypeOK
  <2>2. CASE trigger' = trigger
    BY <1>0, <2>1, <2>2 DEF TypeOK, TickKeeps
  <2>3. CASE trigger' = [on |-> TRUE, fire |-> f]
    BY <1>0, <2>1, <2>3
  <2> QED BY <1>1, <2>2, <2>3
<1>4. TypeOK'
  BY <1>0, <1>2, <1>3 DEF TypeOK
<1>5. \A g \in Fires :
        /\ fire[g] # "absent" => fire'[g] # "absent"
        /\ g[2] \notin Manual => fire'[g] = fire[g] /\ runs'[g] = runs[g]
  BY <1>0, <1>1 DEF TypeOK
<1>6. now <= now'
  BY <1>0 DEF TypeOK
<1> QED BY <1>0, <1>2, <1>3, <1>4, <1>5, <1>6, QuietKeeps

LEMMA TriggerCommitKeeps ==
    ASSUME Fired, TriggerCommit
    PROVE  Fired'
<1>0. /\ TypeOK /\ TickKeeps /\ trigger.on /\ trigger' = NoTrigger
      /\ fire' = [fire EXCEPT ![trigger.fire] = "submitted"]
      /\ UNCHANGED <<now, row, runs, busy, tick, mine, unsaved, edit, edits, upset, faults>>
  BY DEF Fired, TriggerCommit, tickVars
<1>1. trigger.fire[2] \in Manual
  BY <1>0 DEF TickKeeps
<1>2. fire' \in [Fires -> FireStatus]
  BY <1>0 DEF TypeOK, FireStatus
<1>3. TypeOK'
  BY <1>0, <1>2 DEF TypeOK
<1>4. \A f \in Fires :
        /\ fire[f] # "absent" => fire'[f] # "absent"
        /\ f[2] \notin Manual => fire'[f] = fire[f] /\ runs'[f] = runs[f]
  BY <1>0, <1>1 DEF TypeOK
<1>5. now <= now' /\ ~trigger'.on
  BY <1>0 DEF TypeOK, NoTrigger
<1> QED BY <1>0, <1>3, <1>4, <1>5, QuietKeeps

\* Loading a row, the clock and the session leave all of it alone.
LEMMA OthersKeep ==
    ASSUME Fired,
           (\E s \in Schedules : EditLoad(s)) \/ TimePasses \/ SessionTurns \/ UNCHANGED vars
    PROVE  Fired'
<1>0. TypeOK /\ TickKeeps
  BY DEF Fired
<1>1. /\ UNCHANGED <<row, fire, runs, tick, mine, unsaved, trigger, upset, faults>>
      /\ now' \in 0..MaxNow /\ now <= now' /\ busy' \in BOOLEAN /\ edits' \in Nat
      /\ edit' \in [on : {TRUE}, of : Schedules, was : Row] \union {NoEdit}
  <2>1. now \in 0..MaxNow /\ busy \in BOOLEAN /\ edits \in Nat /\ now <= now
    BY <1>0 DEF TypeOK
  <2>2. ASSUME NEW s \in Schedules, EditLoad(s)
        PROVE  /\ UNCHANGED <<row, fire, runs, tick, mine, unsaved, trigger, upset, faults>>
               /\ UNCHANGED <<now, busy>> /\ edits' = edits + 1
               /\ edit' \in [on : {TRUE}, of : Schedules, was : Row]
    <3>1. row[s] \in Row
      BY <1>0 DEF TypeOK
    <3>2. /\ UNCHANGED <<now, row, fire, runs, busy, tick, mine, unsaved, trigger, upset, faults>>
          /\ edits' = edits + 1 /\ edit' = [on |-> TRUE, of |-> s, was |-> row[s]]
      BY <2>2 DEF EditLoad, dbVars, tickVars
    <3> QED BY <3>1, <3>2
  <2>3. CASE \E s \in Schedules : EditLoad(s)
    <3>1. PICK s \in Schedules : EditLoad(s)
      BY <2>3
    <3>2. /\ UNCHANGED <<row, fire, runs, tick, mine, unsaved, trigger, upset, faults>>
          /\ UNCHANGED <<now, busy>> /\ edits' = edits + 1
          /\ edit' \in [on : {TRUE}, of : Schedules, was : Row]
      BY <2>2, <3>1
    <3>3. now' \in 0..MaxNow /\ now <= now' /\ busy' \in BOOLEAN /\ edits' \in Nat
      BY <2>1, <3>2
    <3> QED BY <3>2, <3>3
  <2>4. CASE TimePasses
    <3>1. /\ UNCHANGED <<row, fire, runs, busy, tick, mine, unsaved, trigger, edit, edits, upset, faults>>
          /\ now' = now + 1 /\ now < MaxNow
      BY <2>4 DEF TimePasses, dbVars, tickVars, callVars
    <3>2. now' \in 0..MaxNow /\ now <= now'
      BY <2>1, <3>1, SchedulesAssumption
    <3> QED BY <1>0, <2>1, <3>1, <3>2 DEF TypeOK
  <2>5. CASE SessionTurns
    <3>1. /\ UNCHANGED <<now, row, fire, runs, tick, mine, unsaved, trigger, edit, edits, upset, faults>>
          /\ busy' \in BOOLEAN
      BY <2>5 DEF SessionTurns, dbVars, tickVars, callVars
    <3> QED BY <1>0, <2>1, <3>1 DEF TypeOK
  <2>6. CASE UNCHANGED vars
    BY <1>0, <2>1, <2>6 DEF vars, dbVars, tickVars, callVars, TypeOK
  <2> QED BY <2>3, <2>4, <2>5, <2>6
<1>2. TypeOK'
  BY <1>0, <1>1 DEF TypeOK
<1>3. trigger'.on => trigger'.fire[2] \in Manual
  BY <1>0, <1>1 DEF TickKeeps
<1> QED BY <1>1, <1>2, <1>3, QuietKeeps

LEMMA EnabledRow ==
    ASSUME NEW s \in Schedules, NEW r \in Row, now \in 0..MaxNow
    PROVE  Enabled(s, r) \in Row /\ (s \in Cron => Enabled(s, r).next \in {Never, now + 1})
<1> DEFINE status == IF r.status = "completed" /\ s \notin Cron THEN "active" ELSE r.status
           next == IF status = "active" THEN NextFireAt(s, r, now) ELSE Never
           c == [r EXCEPT !.status = status]
<1>1. r.at \in 0..MaxNow + 1 /\ now + 1 \in 0..MaxNow + 1 /\ Never \in 0..MaxNow + 1
  BY SchedulesAssumption DEF Row, Times, Never
<1>2. next \in 0..MaxNow + 1 /\ (s \in Cron => next \in {Never, now + 1})
  BY <1>1 DEF NextFireAt
<1>3. c \in Row
  BY DEF Row
<1>4. Enabled(s, r) = [c EXCEPT !.next = next]
  BY DEF Enabled
<1> HIDE DEF next, c
<1> QED BY <1>2, <1>3, <1>4 DEF Row

\* Of a cron schedule an edit keeps the next time, clears it, or counts it from now.
LEMMA EditedRow ==
    ASSUME NEW s \in Schedules, NEW was \in Row, NEW r \in Edited(s, was), now \in 0..MaxNow
    PROVE  r \in Row /\ (s \in Cron => r.next \in {Never, now + 1})
<1>1. ASSUME NEW st \in {"deleted", "paused"}, r = [was EXCEPT !.status = st, !.next = Never]
      PROVE  r \in Row /\ r.next = Never
  <2> DEFINE c == [was EXCEPT !.status = st]
  <2>1. c \in Row
    BY DEF Row
  <2>2. r = [c EXCEPT !.next = Never]
    BY <1>1
  <2> HIDE DEF c
  <2> QED BY <2>1, <2>2, SchedulesAssumption DEF Row, Never
<1>2. ASSUME NEW c \in Row, r = Enabled(s, c)
      PROVE  r \in Row /\ (s \in Cron => r.next \in {Never, now + 1})
  BY <1>2, EnabledRow
<1>3. [was EXCEPT !.status = "active"] \in Row /\ \A t \in Times : [was EXCEPT !.at = t] \in Row
  BY DEF Row
<1> QED BY <1>1, <1>2, <1>3 DEF Edited

LEMMA EditKeeps ==
    ASSUME Fired, EditCommit
    PROVE  Fired'
<1> DEFINE s == edit.of
<1>0. /\ TypeOK /\ TickKeeps /\ edit.on /\ edit' = NoEdit
      /\ UNCHANGED <<now, fire, runs, busy, tick, mine, unsaved, trigger, edits, faults>>
  BY DEF Fired, EditCommit, tickVars
<1>1. s \in Schedules /\ edit.was \in Row /\ row[s] \in Row
  <2>1. NoEdit.on = FALSE
    BY DEF NoEdit
  <2>2. edit \in [on : {TRUE}, of : Schedules, was : Row]
    BY <1>0, <2>1 DEF TypeOK
  <2> QED BY <1>0, <2>2 DEF TypeOK
<1>2. PICK r \in Edited(s, edit.was) :
        /\ row' = [row EXCEPT ![s] = Merged(row[s], edit.was, r)]
        /\ upset' = (upset \/ s \notin Cron)
  BY DEF EditCommit
<1>3. r \in Row /\ (s \in Cron => r.next \in {Never, now + 1})
  BY <1>0, <1>1, EditedRow DEF TypeOK
<1>4. /\ Merged(row[s], edit.was, r) \in Row
      /\ Merged(row[s], edit.was, r).next = IF r.next = edit.was.next THEN row[s].next ELSE r.next
  BY <1>1, <1>3, MergedRow
<1>5. /\ row' \in [Schedules -> Row]
      /\ \A d \in Schedules : d # s => row'[d] = row[d]
      /\ s \in Cron => row'[s].next \in {row[s].next, Never, now + 1}
  BY <1>0, <1>1, <1>2, <1>3, <1>4 DEF TypeOK
<1>6. TypeOK'
  <2>1. upset' \in BOOLEAN
    BY <1>2
  <2> QED BY <1>0, <1>5, <2>1 DEF TypeOK
<1>7. TickKeeps' /\ SavedFires' = SavedFires
  BY <1>0 DEF TickKeeps, SavedFires
<1>8. ASSUME ~upset' PROVE KeysPassed' /\ RunsSettled' /\ NotYetRun'
  <2>1. ~upset /\ s \in Cron /\ KeysPassed /\ RunsSettled /\ NotYetRun
    BY <1>2, <1>8 DEF Fired
  <2>2. ASSUME NEW d \in Schedules
        PROVE  /\ SavedRows'[d].next \in {SavedRows[d].next, Never, now + 1}
               /\ (Loaded(d)').is.next \in {Loaded(d).is.next, Never, now + 1}
    <3>0. row[d] \in Row /\ row'[d] \in Row /\ row'[d].next \in {row[d].next, Never, now + 1}
      BY <1>0, <1>5, <2>1 DEF TypeOK
    <3>1. CASE mine[d].on
      <4>1. mine[d] \in Held
        BY <1>0, <3>1, OnIsHeld DEF TypeOK
      <4>2. mine[d].was \in Row /\ mine[d].is \in Row
        BY <4>1 DEF Held
      <4>3. /\ SavedRows[d] = Merged(row[d], mine[d].was, mine[d].is)
            /\ SavedRows'[d] = Merged(row'[d], mine[d].was, mine[d].is)
        BY <1>0, <3>1 DEF SavedRows
      <4>4. SavedRows'[d].next \in {SavedRows[d].next, Never, now + 1}
        BY <3>0, <4>2, <4>3, MergedRow
      <4> QED BY <1>0, <3>1, <4>4 DEF Loaded
    <3>2. CASE ~mine[d].on
      BY <1>0, <3>0, <3>2 DEF SavedRows, Loaded
    <3> QED BY <3>1, <3>2
  <2>3. now \in Nat /\ Times \subseteq Nat
    BY <1>0, Keyed DEF TypeOK
  <2>4. KeysPassed'
    BY <1>0, <1>7, <2>1, <2>2, <2>3 DEF KeysPassed, Beyond
  <2>5. RunsSettled' /\ NotYetRun'
    BY <1>0, <1>7, <2>1 DEF RunsSettled, NotYetRun
  <2> QED BY <2>4, <2>5
<1> QED BY <1>6, <1>7, <1>8 DEF Fired

LEMMA CrashKeeps ==
    ASSUME Fired, CrashRestart
    PROVE  Fired'
<1>1. /\ TypeOK /\ TickKeeps /\ faults' = faults + 1 /\ upset' = TRUE
      /\ tick' = Idle /\ mine' = NoRows /\ unsaved' = Clean
      /\ trigger' = NoTrigger /\ edit' = NoEdit
      /\ UNCHANGED <<now, row, fire, runs, busy, edits>>
  BY DEF Fired, CrashRestart, dbVars
<1>2. /\ row' \in [Schedules -> Row] /\ fire' \in [Fires -> FireStatus]
      /\ upset' \in BOOLEAN /\ faults' \in Nat
  BY <1>1 DEF TypeOK
<1>3. TypeOK' /\ TickKeeps'
  BY <1>1, <1>2, IdleTypes
<1> QED BY <1>1, <1>3 DEF Fired
-----------------------------------------------------------------------------
LEMMA FiredInit == Init => Fired
<1> SUFFICES ASSUME Init PROVE Fired
  OBVIOUS
<1>1. [status |-> "active", next |-> 1, at |-> 1] \in Row /\ 0 \in 0..MaxNow
  BY SchedulesAssumption DEF Row, Times
<1>2. TypeOK
  BY <1>1 DEF Init, TypeOK, Idle, NoRows, Clean, FireStatus
<1>3. /\ tick.phase = "idle" /\ tick.fires = {} /\ tick.now = 0 /\ now = 0
      /\ unsaved = Clean /\ mine = NoRows /\ trigger.on = FALSE
  BY DEF Init, Idle, NoTrigger
<1>4. TickKeeps
  BY <1>3 DEF TickKeeps, Clean
<1>5. \A s \in Schedules, t \in Times : SavedFires[<<s, t>>] = "absent" /\ runs[<<s, t>>] = 0
  BY <1>3, Keyed DEF Init, SavedFires, Clean
<1>6. KeysPassed /\ RunsSettled /\ NotYetRun
  BY <1>3, <1>5 DEF KeysPassed, RunsSettled, NotYetRun
<1> QED BY <1>2, <1>4, <1>6 DEF Fired

LEMMA FiredStep == Fired /\ [Next]_vars => Fired'
<1> SUFFICES ASSUME Fired, [Next]_vars PROVE Fired'
  OBVIOUS
<1>1. CASE StartTick
  BY <1>1, StartKeeps
<1>2. ASSUME NEW f \in Fires, DispatchPending(f) PROVE Fired'
  BY <1>2, PendingKeeps
<1>3. CASE StartDue
  BY <1>3, StartDueKeeps
<1>4. ASSUME NEW s \in Schedules, DispatchDue(s) PROVE Fired'
  BY <1>4, DueKeeps
<1>5. CASE FailTick
  BY <1>5, FailKeeps
<1>6. CASE EndTick
  BY <1>6, EndKeeps
<1>7. ASSUME NEW s \in Schedules, NEW k \in Manual, Trigger(s, k) PROVE Fired'
  BY <1>7, TriggerKeeps
<1>8. CASE TriggerCommit
  BY <1>8, TriggerCommitKeeps
<1>9. CASE EditCommit
  BY <1>9, EditKeeps
<1>10. CASE (\E s \in Schedules : EditLoad(s)) \/ TimePasses \/ SessionTurns \/ UNCHANGED vars
  BY <1>10, OthersKeep
<1>11. CASE CrashRestart
  BY <1>11, CrashKeeps
<1> QED
  BY <1>1, <1>2, <1>3, <1>4, <1>5, <1>6, <1>7, <1>8, <1>9, <1>10, <1>11 DEF Next, TickStep

LEMMA FiredOften == Spec => []Fired
<1> QED BY FiredInit, FiredStep, PTL DEF Spec

(***************************************************************************)
(* Schedules, fires, the session of the tick and what a caller has loaded  *)
(* keep their types, whatever the merges of the commits mix.               *)
(***************************************************************************)
THEOREM TypesHold == Spec => []TypeOK
<1>1. Fired => TypeOK
  BY DEF Fired
<1> QED BY <1>1, FiredOften, PTL

(***************************************************************************)
(* At most one run is created for a scheduled time, unless the process was *)
(* lost, a dispatch was skipped or a one-time schedule was left due or was *)
(* edited: with any number of schedules, edits and manual triggers.        *)
(***************************************************************************)
THEOREM OneRunPerTime == Spec => []FiredOnce
<1>1. Fired => FiredOnce
  <2> SUFFICES ASSUME RunsSettled, NEW s \in Schedules, NEW t \in Times
               PROVE  runs[<<s, t>>] <= 1
    BY DEF Fired, FiredOnce
  <2>1. runs[<<s, t>>] = 0 \/ runs[<<s, t>>] = 1
    BY DEF RunsSettled
  <2> QED BY <2>1
<1> QED BY <1>1, FiredOften, PTL

-----------------------------------------------------------------------------
(***************************************************************************)
(* No time is passed over.  What a tick has moved in its session is judged *)
(* by the database as it would read once the session is committed, as      *)
(* above: there, a time the schedule has left has its fire.                *)
(***************************************************************************)

\* Only fires of a time move the schedule: a one-time schedule is upset by others.
Regular(s) == ~upset \/ s \in Cron

\* The next time is moved by the session of the tick alone, unless edited.
RowsAreOurs == \A s \in Schedules : mine[s].on => mine[s].was.next = row[s].next

MovedHasFire ==
    \A s \in Schedules, t \in Times :
        Regular(s) /\ row[s].next = t /\ SavedRows[s].next # t => SavedFires[<<s, t>>] # "absent"

\* A fire of a one-time schedule is left pending only where that is upset.
PendingRepeats ==
    /\ \A f \in tick.fires : f[1] \in Cron
    /\ \A f \in Fires : SavedFires[f] = "pending" => f[1] \in Cron

Moves ==
    /\ edit.on => edits > 0
    /\ edits = 0 => RowsAreOurs /\ MovedHasFire
    /\ ~upset => PendingRepeats

\* As long as nothing was edited, a step that moves a schedule on from a time
\* has the fire of that time in the database.
MovesOnWithFire ==
    edits' = 0 =>
        \A s \in Schedules, t \in Times :
            Regular(s)' /\ row[s].next = t /\ row'[s].next # t => fire'[<<s, t>>] # "absent"

LEMMA Agreed ==
    ASSUME TypeOK, RowsAreOurs, NEW s \in Schedules
    PROVE  SavedRows[s].next = Loaded(s).is.next
<1>1. CASE mine[s].on
  BY <1>1, SavedNext DEF RowsAreOurs, Loaded
<1>2. CASE ~mine[s].on
  BY <1>2, SavedNext DEF Loaded
<1> QED BY <1>1, <1>2

\* What a dispatch that commits has in its session afterwards.
LEMMA CreateOwns ==
    ASSUME TypeOK, RowsAreOurs, NEW f \in Fires, NEW st \in FireStatus, NEW m, GoesTo(f[1], m),
           CreateRun(f, st, m)
    PROVE  RowsAreOurs'
<1> DEFINE s == f[1]
           h == [m EXCEPT !.was = Loaded(s).is]
<1>0. s \in Schedules /\ m \in Held
  BY Keyed DEF GoesTo
<1>1. row' = SavedRows /\ mine' = [Synced(mine) EXCEPT ![s] = h]
  BY DEF CreateRun
<1>2. ASSUME NEW d \in Schedules, d # s, mine'[d].on
      PROVE  mine'[d].was.next = row'[d].next
  <2>1. mine'[d] = IF mine[d].on THEN [mine[d] EXCEPT !.was = mine[d].is] ELSE mine[d]
    BY <1>1, <1>2 DEF Synced
  <2>2. mine[d].on
    BY <1>2, <2>1
  <2>3. mine[d] \in Held
    BY <1>2, <2>2, OnIsHeld DEF TypeOK
  <2>4. mine'[d].was = mine[d].is
    BY <2>1, <2>2, <2>3 DEF Held
  <2> QED BY <1>1, <1>2, <2>2, <2>4, Agreed DEF Loaded
<1>3. mine'[s].was.next = row'[s].next
  <2>1. mine'[s] = h /\ h.was = Loaded(s).is
    BY <1>0, <1>1 DEF Synced, Held
  <2> QED BY <1>0, <1>1, <2>1, Agreed
<1> QED BY <1>2, <1>3 DEF RowsAreOurs

\* A dispatch, with or without a commit in its middle, that moves its schedule
\* only for the fire of the time the schedule was at.
LEMMA DispatchMoves ==
    ASSUME TypeOK, RowsAreOurs, MovedHasFire,
           NEW f \in Fires, NEW st \in FireStatus \ {"absent"}, NEW m, GoesTo(f[1], m),
           CreateRun(f, st, m) \/ (Leave(f, st, m) /\ UNCHANGED <<row, fire, runs>>),
           upset => upset',
           Regular(f[1])' /\ m.is.next # Loaded(f[1]).is.next => f[2] = Loaded(f[1]).is.next
    PROVE  RowsAreOurs' /\ MovedHasFire' /\ MovesOnWithFire
<1> DEFINE s == f[1]
<1>0. /\ s \in Schedules /\ f = <<s, f[2]>> /\ SavedFires \in [Fires -> FireStatus]
      /\ \A d \in Schedules, t \in Times : <<d, t>> \in Fires
      /\ \A d \in Schedules : Regular(d)' => Regular(d)
  BY Keyed, SavedTypes DEF Regular
<1>1. Dispatched(f, st, m)
  BY LeaveDispatched, CreateDispatched
<1>2. ASSUME NEW d \in Schedules, NEW t \in Times, Regular(d)',
             SavedRows[d].next = t, SavedRows'[d].next # t
      PROVE  SavedFires'[<<d, t>>] # "absent"
  <2>1. d = s /\ m.is.next # Loaded(s).is.next
    BY <1>2, <1>1 DEF Dispatched
  <2>2. f[2] = t
    BY <1>2, <2>1, Agreed
  <2> QED BY <1>0, <1>1, <2>1, <2>2 DEF Dispatched
<1>3. \A d \in Schedules, t \in Times :
        SavedFires[<<d, t>>] # "absent" => SavedFires'[<<d, t>>] # "absent"
  BY <1>0, <1>1 DEF Dispatched
<1>4. CASE Leave(f, st, m) /\ UNCHANGED <<row, fire, runs>>
  <2>1. RowsAreOurs'
    <3>1. mine' = [mine EXCEPT ![s] = m] /\ m.was = Loaded(s).was
      BY <1>4 DEF Leave, GoesTo
    <3>2. Loaded(s).was.next = row[s].next
      BY <1>0 DEF Loaded, RowsAreOurs
    <3> QED BY <1>0, <1>4, <3>1, <3>2 DEF RowsAreOurs, TypeOK
  <2>2. MovedHasFire'
    BY <1>0, <1>2, <1>3, <1>4 DEF MovedHasFire
  <2>3. MovesOnWithFire
    BY <1>4 DEF MovesOnWithFire
  <2> QED BY <2>1, <2>2, <2>3
<1>5. CASE CreateRun(f, st, m)
  <2>1. row' = SavedRows /\ fire' = [SavedFires EXCEPT ![f] = "pending"]
    BY <1>5 DEF CreateRun
  <2>2. MovedHasFire'
    BY <1>2, <2>1 DEF MovedHasFire
  <2>3. MovesOnWithFire
    BY <1>0, <2>1 DEF MovesOnWithFire, MovedHasFire
  <2> QED BY <1>5, <2>2, <2>3, CreateOwns
<1> QED BY <1>4, <1>5

LEMMA PendingMoves ==
    ASSUME Fired, Moves, NEW f \in Fires, DispatchPending(f)
    PROVE  Moves' /\ MovesOnWithFire
<1> DEFINE s == f[1]
           old == Loaded(s)
<1>0. /\ TypeOK /\ TickKeeps /\ s \in Schedules /\ old \in Held
      /\ f \in tick.fires /\ tick.phase = "pending"
      /\ tick' = [tick EXCEPT !.fires = @ \ {f}] /\ UNCHANGED <<now, trigger, edit, edits>>
  BY Keyed, SavedTypes DEF Fired, DispatchPending, callVars
<1>1. old.is.next \in {old.was.next, Never}
  BY <1>0 DEF TickKeeps, Loaded
<1>2. PICK st \in FireStatus \ {"absent"}, m \in Held :
        /\ GoesTo(s, m)
        /\ CreateRun(f, st, m) \/ (Leave(f, st, m) /\ UNCHANGED <<row, fire, runs>>)
        /\ upset => upset'
        /\ ~upset' /\ s \notin Cron => st # "pending"
        /\ m.is.next # old.is.next => s \notin Cron
  <2>1. CASE old.is.status = "deleted"
    <3>1. Leave(f, "skipped", old) /\ UNCHANGED <<row, fire, runs, upset>>
      BY <2>1 DEF DispatchPending, dbVars
    <3>2. GoesTo(s, old)
      BY <1>0 DEF GoesTo
    <3> QED BY <1>0, <3>1, <3>2 DEF FireStatus
  <2>2. CASE old.is.status # "deleted"
    <3>1. PICK st \in FireStatus : Dispatch(f, st, AfterPending(s, st))
      BY <2>2 DEF DispatchPending
    <3> DEFINE m == AfterPending(s, st)
    <3>2. m = old \/ (m = Completed(old) /\ s \notin Cron)
      BY DEF AfterPending
    <3>3. Completed(old) \in Held /\ Completed(old).was = old.was /\ Completed(old).is.next = Never
      BY <1>0, CompletedHeld
    <3>4. GoesTo(s, m) /\ m \in Held /\ (m.is.next # old.is.next => s \notin Cron)
      BY <1>0, <1>1, <3>2, <3>3 DEF GoesTo
    <3> HIDE DEF m
    <3>5. st # "absent" /\ (upset => upset') /\ (~upset' /\ s \notin Cron => st # "pending")
      BY <3>1, <3>4, DispatchOutcome DEF m
    <3>6. CreateRun(f, st, m) \/ (Leave(f, st, m) /\ UNCHANGED <<row, fire, runs>>)
      BY <3>1 DEF Dispatch, dbVars, m
    <3> QED BY <3>4, <3>5, <3>6
  <2> QED BY <2>1, <2>2
\* A pending fire moves a one-time schedule, and only where upset.
<1>3. Regular(s)' => m.is.next = old.is.next
  BY <1>0, <1>2 DEF Regular, Moves, PendingRepeats
<1>4. edits = 0 => RowsAreOurs' /\ MovedHasFire' /\ MovesOnWithFire
  BY <1>0, <1>2, <1>3, DispatchMoves DEF Moves
<1>5. ASSUME ~upset' PROVE PendingRepeats'
  <2>1. tick'.fires \subseteq tick.fires
    BY <1>0 DEF TypeOK
  <2>2. SavedFires' = [SavedFires EXCEPT ![f] = st] /\ SavedFires \in [Fires -> FireStatus]
    BY <1>0, <1>2, LeaveDispatched, CreateDispatched, SavedTypes DEF Dispatched
  <2> QED BY <1>2, <1>5, <2>1, <2>2 DEF Moves, PendingRepeats
<1> QED BY <1>0, <1>4, <1>5 DEF Moves, MovesOnWithFire

LEMMA DueMoves ==
    ASSUME Fired, Moves, NEW s \in Schedules, DispatchDue(s)
    PROVE  Moves' /\ MovesOnWithFire
<1> DEFINE f == <<s, mine[s].is.next>>
<1>0. /\ TypeOK /\ TickKeeps /\ tick.phase = "due" /\ s \in tick.due /\ IsDue(s)
      /\ tick' = [tick EXCEPT !.due = @ \ {s}] /\ UNCHANGED <<now, trigger, edit, edits>>
  BY DEF Fired, DispatchDue, callVars
<1>1. /\ mine[s].on /\ Loaded(s) = mine[s] /\ mine[s].is.next = mine[s].was.next
      /\ mine[s].is.next \in Times /\ mine[s].is.next <= tick.now
      /\ f \in Fires /\ f[1] = s /\ f[2] = mine[s].is.next
  BY <1>0, DueIsNew
<1>2. PICK st \in FireStatus : Dispatch(f, st, Advanced(s, st))
  BY DEF DispatchDue
<1> DEFINE m == Advanced(s, st)
<1>3. /\ m \in Held /\ m.was = mine[s].was
      /\ \/ s \in Cron /\ m.is.next = tick.now + 1
         \/ s \notin Cron /\ m.is.next = Never
         \/ s \notin Cron /\ st = "pending" /\ m = mine[s]
  BY <1>0, <1>1, AdvancedHeld
<1>t. tick.now \in Nat /\ mine[s].is.next \in Nat \ {0}
  BY <1>0, <1>1, SchedulesAssumption DEF TypeOK, Times
<1> HIDE DEF m, f
<1>4. GoesTo(f[1], m)
  BY <1>1, <1>3, <1>t DEF GoesTo, Never
<1>5. /\ Dispatched(f, st, m) /\ st # "absent"
      /\ upset => upset'
      /\ ~upset' /\ f[1] \notin Cron => st # "pending"
      /\ CreateRun(f, st, m) \/ (Leave(f, st, m) /\ UNCHANGED <<row, fire, runs>>)
  <2>1. Fired /\ Dispatch(f, st, m)
    BY <1>2 DEF m
  <2>2. CreateRun(f, st, m) \/ (Leave(f, st, m) /\ UNCHANGED <<row, fire, runs>>)
    BY <2>1 DEF Dispatch, dbVars
  <2> QED BY <1>1, <1>4, <2>1, <2>2, DispatchOutcome
<1>6. edits = 0 => RowsAreOurs' /\ MovedHasFire' /\ MovesOnWithFire
  BY <1>0, <1>1, <1>4, <1>5, DispatchMoves DEF Moves
<1>7. ASSUME ~upset' PROVE PendingRepeats'
  <2>1. tick'.fires = tick.fires
    BY <1>0 DEF TypeOK
  <2>2. SavedFires' = [SavedFires EXCEPT ![f] = st] /\ SavedFires \in [Fires -> FireStatus]
    BY <1>0, <1>5, SavedTypes DEF Dispatched
  <2> QED BY <1>1, <1>5, <1>7, <2>1, <2>2 DEF Moves, PendingRepeats
<1> QED BY <1>0, <1>6, <1>7 DEF Moves, MovesOnWithFire

\* The session is committed: what it had moved is moved, beside its fires.
LEMMA CommitMoves ==
    ASSUME Fired, Moves, row' = SavedRows, fire' = SavedFires, unsaved' = Clean,
           UNCHANGED <<edit, edits, upset>>, tick'.fires = {},
           mine' \in [Schedules -> Held \union {[on |-> FALSE]}],
           \A s \in Schedules : mine'[s].on =>
              mine'[s].was.next = mine'[s].is.next /\ mine'[s].was.next \in {row'[s].next, Loaded(s).is.next}
    PROVE  Moves' /\ MovesOnWithFire
<1>0. TypeOK
  BY DEF Fired
<1>1. SavedFires' = SavedFires
  BY DEF SavedFires, Clean
<1>2. ASSUME NEW s \in Schedules PROVE SavedRows'[s].next = row'[s].next
  <2>1. row'[s] = SavedRows[s] /\ SavedRows[s] \in Row
    BY <1>0, SavedTypes
  <2>2. CASE mine'[s].on
    <3>1. mine'[s] \in Held
      BY <2>2, OnIsHeld
    <3>2. mine'[s].was \in Row /\ mine'[s].is \in Row /\ mine'[s].is.next = mine'[s].was.next
      BY <2>2, <3>1 DEF Held
    <3>3. SavedRows'[s] = Merged(row'[s], mine'[s].was, mine'[s].is)
      BY <2>2 DEF SavedRows
    <3> QED BY <2>1, <3>2, <3>3, MergedRow
  <2>3. CASE ~mine'[s].on
    BY <2>1, <2>3 DEF SavedRows
  <2> QED BY <2>2, <2>3
<1>3. edits = 0 => RowsAreOurs'
  BY <1>0, Agreed DEF Moves, RowsAreOurs
<1>4. MovedHasFire'
  BY <1>2 DEF MovedHasFire
<1>5. ~upset' => PendingRepeats'
  BY <1>1 DEF Moves, PendingRepeats
<1>6. MovesOnWithFire
  BY DEF MovesOnWithFire, Moves, MovedHasFire, Regular
<1> QED BY <1>3, <1>4, <1>5, <1>6 DEF Moves

LEMMA StartDueMoves ==
    ASSUME Fired, Moves, StartDue
    PROVE  Moves' /\ MovesOnWithFire
<1> DEFINE S == {s \in Schedules : row'[s].status = "active" /\ row'[s].next # Never}
<1>0. /\ TypeOK /\ TypeOK'
      /\ row' = SavedRows /\ fire' = SavedFires /\ unsaved' = Clean /\ tick'.fires = {}
      /\ mine' = [s \in Schedules |-> IF s \in S /\ ~mine[s].on
                    THEN [on |-> TRUE, was |-> row'[s], is |-> row'[s]] ELSE Synced(mine)[s]]
      /\ UNCHANGED <<edit, edits, upset>>
  BY StartDueKeeps DEF Fired, StartDue, callVars
<1> HIDE DEF S
<1>1. ASSUME NEW s \in Schedules, mine'[s].on
      PROVE  mine'[s].was.next = mine'[s].is.next /\ mine'[s].was.next \in {row'[s].next, Loaded(s).is.next}
  <2>1. CASE mine[s].on
    <3>1. mine[s] \in Held
      BY <1>0, <2>1, OnIsHeld DEF TypeOK
    <3>2. mine'[s] = [mine[s] EXCEPT !.was = mine[s].is]
      BY <1>0, <2>1 DEF Synced
    <3>3. mine'[s].was = mine[s].is /\ mine'[s].is = mine[s].is
      BY <3>1, <3>2 DEF Held
    <3> QED BY <2>1, <3>3 DEF Loaded
  <2>2. CASE ~mine[s].on /\ s \in S
    BY <1>0, <2>2
  <2>3. CASE ~mine[s].on /\ s \notin S
    BY <1>0, <1>1, <2>3 DEF Synced
  <2> QED BY <2>1, <2>2, <2>3
<1>2. mine' \in [Schedules -> Held \union {[on |-> FALSE]}]
  BY <1>0 DEF TypeOK
<1> QED BY <1>0, <1>1, <1>2, CommitMoves

\* Nothing of the tick is kept, or nothing of it moves.
LEMMA RestMoves ==
    ASSUME Fired, Moves, TypeOK', row' = row, upset => upset',
           edits <= edits', edit'.on => edits' > 0,
           \/ /\ UNCHANGED <<mine, unsaved>>
              /\ \A f \in Fires : fire[f] # "absent" => fire'[f] # "absent"
           \/ mine' = NoRows,
           ~upset' => PendingRepeats'
    PROVE  Moves' /\ MovesOnWithFire
<1>0. edits \in Nat /\ edits' \in Nat
  BY DEF Fired, TypeOK
<1>1. ASSUME edits' = 0 PROVE RowsAreOurs' /\ MovedHasFire'
  <2>1. edits = 0
    BY <1>0, <1>1
  <2>2. CASE /\ UNCHANGED <<mine, unsaved>>
             /\ \A f \in Fires : fire[f] # "absent" => fire'[f] # "absent"
    <3>1. SavedRows' = SavedRows
      BY <2>2 DEF SavedRows
    <3>2. \A f \in Fires : SavedFires[f] # "absent" => SavedFires'[f] # "absent"
      BY <2>2 DEF SavedFires
    <3>3. \A s \in Schedules : Regular(s)' => Regular(s)
      BY DEF Regular
    <3> QED BY <2>1, <2>2, <3>1, <3>2, <3>3, Keyed DEF Moves, RowsAreOurs, MovedHasFire
  <2>3. CASE mine' = NoRows
    <3>1. \A s \in Schedules : ~mine'[s].on /\ SavedRows'[s] = row'[s]
      BY <2>3 DEF NoRows, SavedRows
    <3> QED BY <3>1 DEF RowsAreOurs, MovedHasFire
  <2> QED BY <2>2, <2>3
<1>2. MovesOnWithFire
  BY DEF MovesOnWithFire
<1> QED BY <1>1, <1>2 DEF Moves

\* The database refuses no fire, unless upset.
LEMMA FailIsUpset ==
    ASSUME Fired, FailTick
    PROVE  upset
<1>0. TypeOK /\ TickKeeps /\ tick.phase = "due"
  BY DEF Fired, FailTick
<1>1. PICK s \in tick.due : IsDue(s) /\ fire[<<s, mine[s].is.next>>] # "absent"
  BY DEF FailTick
<1>2. s \in Schedules
  BY <1>0 DEF TypeOK
<1>3. /\ <<s, mine[s].is.next>> \in Fires
      /\ ~upset => SavedFires[<<s, mine[s].is.next>>] = "absent"
  BY <1>0, <1>1, <1>2, DueIsNew
<1> QED BY <1>0, <1>1, <1>3 DEF SavedFires, TickKeeps

LEMMA TriggerMoves ==
    ASSUME Fired, Moves, (\E s \in Schedules, k \in Manual : Trigger(s, k)) \/ TriggerCommit
    PROVE  Moves' /\ MovesOnWithFire
<1>0. TypeOK /\ TypeOK' /\ UNCHANGED <<row, tick, mine, unsaved, edit, edits>> /\ edits <= edits'
  <2>1. TypeOK'
    BY TriggerKeeps, TriggerCommitKeeps DEF Fired
  <2>2. UNCHANGED <<row, tick, mine, unsaved, edit, edits>>
    <3>1. CASE \E s \in Schedules, k \in Manual : Trigger(s, k)
      <4>1. PICK s \in Schedules, k \in Manual : Trigger(s, k)
        BY <3>1
      <4> QED BY <4>1 DEF Trigger, tickVars
    <3>2. CASE TriggerCommit
      BY <3>2 DEF TriggerCommit, tickVars
    <3> QED BY <3>1, <3>2
  <2>3. TypeOK /\ edits \in Nat
    BY DEF Fired, TypeOK
  <2> QED BY <2>1, <2>2, <2>3
<1>1. ASSUME NEW s \in Schedules, NEW k \in Manual, Trigger(s, k)
      PROVE  \E f \in Fires, st \in FireStatus \ {"absent"} :
                /\ fire' = [fire EXCEPT ![f] = st]
                /\ upset => upset'
                /\ ~upset' /\ st = "pending" => f[1] \in Cron
  <2>1. <<s, k>> \in Fires /\ <<s, k>>[1] = s
    BY DEF Fires, Keys
  <2>2. CASE fire' = [fire EXCEPT ![<<s, k>>] = "pending"] /\ upset' = (upset \/ s \notin Cron)
    BY <2>1, <2>2 DEF FireStatus
  <2>3. ASSUME NEW st \in FireStatus, WithoutRun(<<s, k>>, st), fire' = [fire EXCEPT ![<<s, k>>] = st],
               upset' = (upset \/ (s \notin Cron /\ st = "pending"))
        PROVE  \E f \in Fires, z \in FireStatus \ {"absent"} :
                /\ fire' = [fire EXCEPT ![f] = z]
                /\ upset => upset'
                /\ ~upset' /\ z = "pending" => f[1] \in Cron
    <3>1. st # "absent"
      BY <2>3 DEF WithoutRun
    <3> QED BY <2>1, <2>3, <3>1
  <2> QED BY <1>1, <2>2, <2>3 DEF Trigger
<1>2. ASSUME TriggerCommit
      PROVE  \E f \in Fires, st \in FireStatus \ {"absent"} :
                /\ fire' = [fire EXCEPT ![f] = st]
                /\ upset => upset'
                /\ ~upset' /\ st = "pending" => f[1] \in Cron
  <2>1. /\ trigger.on /\ fire' = [fire EXCEPT ![trigger.fire] = "submitted"]
        /\ upset' = upset
    BY <1>2 DEF TriggerCommit
  <2>2. trigger.fire \in Fires
    BY <1>0, <2>1 DEF TypeOK, NoTrigger
  <2>3. "submitted" \in FireStatus \ {"absent"} /\ "submitted" # "pending"
    BY DEF FireStatus
  <2> QED BY <2>1, <2>2, <2>3
<1>3. PICK f \in Fires, st \in FireStatus \ {"absent"} :
        /\ fire' = [fire EXCEPT ![f] = st]
        /\ upset => upset'
        /\ ~upset' /\ st = "pending" => f[1] \in Cron
  BY <1>1, <1>2
<1>4. \A g \in Fires : fire[g] # "absent" => fire'[g] # "absent"
  BY <1>0, <1>3 DEF TypeOK
<1>5. ASSUME ~upset' PROVE PendingRepeats'
  <2>1. PendingRepeats
    BY <1>3, <1>5 DEF Moves
  <2>2. ASSUME NEW g \in Fires, SavedFires'[g] = "pending" PROVE g[1] \in Cron
    <3>1. CASE SavedFires'[g] = SavedFires[g]
      BY <2>1, <2>2, <3>1 DEF PendingRepeats
    <3>2. CASE SavedFires'[g] # SavedFires[g]
      <4>1. g = f /\ SavedFires'[g] = st
        BY <1>0, <1>3, <3>2 DEF SavedFires, TypeOK
      <4> QED BY <1>3, <1>5, <2>2, <4>1
    <3> QED BY <3>1, <3>2
  <2> QED BY <1>0, <2>1, <2>2 DEF PendingRepeats
<1> QED BY <1>0, <1>3, <1>4, <1>5, RestMoves DEF Moves

LEMMA MovesStep ==
    ASSUME Fired, Moves, [Next]_vars
    PROVE  Moves' /\ MovesOnWithFire
<1>0. /\ TypeOK /\ TickKeeps /\ TypeOK' /\ edits \in Nat /\ ~NoEdit.on
  BY FiredStep DEF Fired, TypeOK, NoEdit
<1>1. CASE StartTick
  <2>1. /\ tick.phase = "idle" /\ unsaved = Clean
        /\ UNCHANGED <<row, fire, mine, unsaved, edit, edits, upset>>
        /\ tick'.fires = {f \in Fires : fire[f] = "pending"}
    BY <1>0, <1>1 DEF StartTick, TickKeeps, dbVars, callVars
  <2>2. SavedFires' = SavedFires /\ \A f \in Fires : SavedFires[f] = fire[f]
    BY <2>1 DEF SavedFires, Clean
  <2>3. ~upset' => PendingRepeats'
    BY <2>1, <2>2 DEF Moves, PendingRepeats
  <2> QED BY <1>0, <2>1, <2>3, RestMoves DEF Moves
<1>2. ASSUME NEW f \in Fires, DispatchPending(f) PROVE Moves' /\ MovesOnWithFire
  BY <1>2, PendingMoves
<1>3. CASE StartDue
  BY <1>3, StartDueMoves
<1>4. ASSUME NEW s \in Schedules, DispatchDue(s) PROVE Moves' /\ MovesOnWithFire
  BY <1>4, DueMoves
<1>5. CASE FailTick
  <2>1. upset /\ UNCHANGED <<row, edit, edits, upset>> /\ mine' = NoRows
    BY <1>5, FailIsUpset DEF FailTick, dbVars, callVars
  <2> QED BY <1>0, <2>1, RestMoves DEF Moves
<1>6. CASE EndTick
  <2>1. /\ row' = SavedRows /\ fire' = SavedFires /\ unsaved' = Clean /\ mine' = NoRows
        /\ UNCHANGED <<edit, edits, upset>> /\ tick'.fires = {}
    BY <1>6 DEF EndTick, callVars, Idle
  <2>2. \A s \in Schedules : ~mine'[s].on
    BY <2>1 DEF NoRows
  <2>3. mine' \in [Schedules -> Held \union {[on |-> FALSE]}]
    BY <1>0 DEF TypeOK
  <2> QED BY <2>1, <2>2, <2>3, CommitMoves
<1>7. CASE (\E s \in Schedules, k \in Manual : Trigger(s, k)) \/ TriggerCommit
  BY <1>7, TriggerMoves
<1>8. ASSUME NEW s \in Schedules, EditLoad(s) PROVE Moves' /\ MovesOnWithFire
  <2>1. UNCHANGED <<row, fire, tick, mine, unsaved, upset>> /\ edits' = edits + 1
    BY <1>8 DEF EditLoad, dbVars, tickVars
  <2>2. ~upset' => PendingRepeats'
    BY <2>1 DEF Moves, PendingRepeats, SavedFires
  <2> QED BY <1>0, <2>1, <2>2, RestMoves
<1>9. CASE EditCommit
  <2>1. /\ edits > 0 /\ edits' = edits /\ edit' = NoEdit
        /\ UNCHANGED <<fire, tick, unsaved>>
    BY <1>9 DEF EditCommit, Moves, tickVars
  <2>2. upset => upset'
    BY <1>9 DEF EditCommit
  <2>3. ~upset' => PendingRepeats'
    BY <2>1, <2>2 DEF Moves, PendingRepeats, SavedFires
  <2> QED BY <1>0, <2>1, <2>3 DEF Moves, MovesOnWithFire
<1>10. CASE TimePasses \/ SessionTurns \/ UNCHANGED vars
  <2>1. UNCHANGED <<row, fire, tick, mine, unsaved, edit, edits, upset>>
    BY <1>10 DEF TimePasses, SessionTurns, vars, dbVars, tickVars, callVars
  <2>2. ~upset' => PendingRepeats'
    BY <2>1 DEF Moves, PendingRepeats, SavedFires
  <2> QED BY <1>0, <2>1, <2>2, RestMoves DEF Moves
<1>11. CASE CrashRestart
  <2>1. UNCHANGED <<row, edits>> /\ mine' = NoRows /\ edit' = NoEdit /\ upset' = TRUE
    BY <1>11 DEF CrashRestart, dbVars
  <2> QED BY <1>0, <2>1, RestMoves
<1> QED
  BY <1>1, <1>2, <1>3, <1>4, <1>5, <1>6, <1>7, <1>8, <1>9, <1>10, <1>11 DEF Next, TickStep

(***************************************************************************)
(* A schedule that nobody edits only moves on from a time in the commit    *)
(* that has the fire of that time, or after it: through stale rows, merges,*)
(* skipped dispatches and losses in the middle of a tick.  (A one-time     *)
(* schedule until something upsets it; a manual fire completes it.)        *)
(***************************************************************************)
THEOREM NoTimeIsPassedOver == Spec => [][MovesOnWithFire]_vars
<1>1. Init => Moves
  <2> SUFFICES ASSUME Init PROVE Moves
    OBVIOUS
  <2>1. ~edit.on /\ mine = NoRows /\ tick.fires = {} /\ \A f \in Fires : SavedFires[f] = "absent"
    BY DEF Init, NoEdit, Idle, SavedFires, Clean
  <2>2. \A s \in Schedules : ~mine[s].on /\ SavedRows[s] = row[s]
    BY <2>1 DEF NoRows, SavedRows
  <2> QED BY <2>1, <2>2 DEF Moves, RowsAreOurs, MovedHasFire, PendingRepeats
<1>2. Fired /\ Moves /\ [Next]_vars => Moves' /\ MovesOnWithFire
  BY MovesStep
<1> QED BY <1>1, <1>2, FiredOften, PTL DEF Spec
=============================================================================
