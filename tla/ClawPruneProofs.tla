--------------------------- MODULE ClawPruneProofs ---------------------------
(***************************************************************************)
(* Theorems about ClawPrune: nothing names a row that was deleted, and what *)
(* a session goes on from keeps its files.                                 *)
(***************************************************************************)
EXTENDS ClawPrune, TLAPS
-----------------------------------------------------------------------------
(* Types *)

LEMMA InitTypes == Init => TypeOK
BY PruneAssumption
   DEF Init, TypeOK, SessionRow, RunRow, RunId, RowStatus, LiveStatus, Phase, Idle

LEMMA RowsTypes == TypeOK => /\ There \subseteq Sessions /\ Claimed \subseteq There
                             /\ Rows \subseteq Runs /\ Live \subseteq Rows
BY DEF TypeOK, There, Claimed, Rows, Live, RowStatus

\* Each group of actions keeps the types.
LEMMA CreateTypes ==
    ASSUME TypeOK, NEW s \in Sessions, NEW r \in Runs,
           \/ \E p \in Sessions \union {None} : Begin(s, p, r)
           \/ \E k \in RunId, resets \in BOOLEAN : Create(s, k, resets, r)
    PROVE  TypeOK'
<1>1. ASSUME NEW p \in Sessions \union {None}, Begin(s, p, r) PROVE TypeOK'
  <2>1. session' \in [Sessions -> SessionRow]
    BY <1>1 DEF TypeOK, Begin, SessionRow, RunId
  <2>2. (p # None) \in BOOLEAN
    OBVIOUS
  <2>3. Queued(s, None, p # None) \in RunRow
    BY <2>2 DEF Queued, RunRow, RunId, RowStatus, LiveStatus
  <2>4. run' \in [Runs -> RunRow]
    BY <1>1, <2>3 DEF TypeOK, Begin
  <2> QED
    BY <1>1, <2>1, <2>4 DEF TypeOK, Begin, history
<1>2. ASSUME NEW k \in RunId, NEW resets \in BOOLEAN, Create(s, k, resets, r) PROVE TypeOK'
  <2>1. named' \subseteq Runs
    BY <1>2 DEF TypeOK, Create, GoesBack, RunId
  <2> QED
    BY <1>2, <2>1
       DEF TypeOK, Create, Queued, SessionRow, RunRow, RunId, RowStatus, LiveStatus
<1> QED BY <1>1, <1>2

LEMMA ForkTypes ==
    ASSUME TypeOK, NEW s \in Sessions, NEW p \in Sessions, NEW k \in Runs, Fork(s, p, k)
    PROVE  TypeOK'
<1>1. named' \subseteq Runs
  BY DEF TypeOK, Fork, GoesBack
<1> QED
  BY <1>1 DEF TypeOK, Fork, SessionRow, RunRow, RunId

LEMMA RunTypes ==
    ASSUME TypeOK, NEW r \in Runs, ExecuteStep(r), run[r].session \in Sessions
    PROVE  TypeOK'
<1>1. CASE ClaimRun(r)
  BY <1>1 DEF TypeOK, ClaimRun, SessionRow, RunRow, RunId, RowStatus, LiveStatus, history
<1>2. CASE LoadRestorePoint(r)
  BY <1>2 DEF TypeOK, LoadRestorePoint, RunRow, RunId, RowStatus, LiveStatus, history
<1>3. CASE RestoreRaises(r) \/ Fail(r)
  BY <1>3 DEF TypeOK, RestoreRaises, Fail, FailedRun, FailedSession, SessionRow, RunRow, RunId,
              RowStatus, LiveStatus, history
<1>4. CASE Succeed(r)
  <2>1. session' \in [Sessions -> SessionRow]
    BY <1>4 DEF TypeOK, Succeed, SessionRow, RunId
  <2>2. run' \in [Runs -> RunRow]
    BY <1>4 DEF TypeOK, Succeed, RunRow, RowStatus, LiveStatus
  <2>3. saved' \subseteq Runs /\ missed' \subseteq Runs
    BY <1>4 DEF TypeOK, Succeed
  <2> QED
    BY <1>4, <2>1, <2>2, <2>3 DEF TypeOK, Succeed
<1> QED BY <1>1, <1>2, <1>3, <1>4 DEF ExecuteStep

LEMMA PruneTypes ==
    ASSUME TypeOK, PruneStep
    PROVE  TypeOK'
<1>0. /\ There \subseteq Sessions /\ Claimed \subseteq There
      /\ Rows \subseteq Runs /\ Live \subseteq Rows
  BY RowsTypes
<1>1. CASE Tick
  <2> DEFINE requested == ClaimsToRetry \union Fresh
  <2>1. Deletable(requested) \subseteq Sessions
    BY <1>0 DEF Deletable, Unprotected
  <2>2. Released(requested \ Deletable(requested)) \in [Sessions -> SessionRow]
    BY DEF Released, TypeOK, SessionRow, RunId
  <2> HIDE DEF requested
  <2>3. UNCHANGED <<run, saved, scheduled, ahead, enabled, history, losses>>
    BY <1>1 DEF Tick
  <2>4. CASE enabled
    <3>1. /\ session' = Released(requested \ Deletable(requested))
          /\ GoesUnlessDone("claim", Deletable(requested))
      BY <1>1, <2>4 DEF Tick, requested
    <3>2. pruner' \in [at : Phase, ids : SUBSET Sessions, runs : SUBSET Runs]
      BY <2>1, <3>1 DEF GoesUnlessDone, Goes, Phase
    <3> QED BY <2>2, <2>3, <3>1, <3>2 DEF TypeOK, history
  <2>5. CASE ~enabled
    BY <1>1, <2>3, <2>5 DEF Tick, Goes, Phase, TypeOK, history
  <2> QED BY <2>4, <2>5
<1>2. CASE ClaimSessions
  <2> DEFINE eligible == {s \in pruner.ids \intersect There :
                            session[s].active \in {None, SESSION_PRUNE_CLAIM}}
             taken == {s \in Rechecked(eligible) : session[s].active = None}
  <2>1. taken \subseteq Sessions
    BY <1>0 DEF Rechecked, Deletable, Unprotected
  <2>2. /\ session' = [s \in Sessions |->
             IF s \in taken THEN [session[s] EXCEPT !.active = SESSION_PRUNE_CLAIM]
             ELSE session[s]]
        /\ ahead' = [s \in Sessions |-> IF s \in taken THEN Claimed ELSE ahead[s]]
        /\ GoesUnlessDone("cleanup", pruner.ids \intersect (Claimed \union taken))
        /\ UNCHANGED <<run, saved, scheduled, enabled, history, losses>>
    BY <1>2 DEF ClaimSessions
  <2> HIDE DEF taken
  <2>3. session' \in [Sessions -> SessionRow]
    <3>1. \A s \in Sessions : [session[s] EXCEPT !.active = SESSION_PRUNE_CLAIM] \in SessionRow
      BY DEF TypeOK, SessionRow, RunId
    <3> QED BY <2>2, <3>1 DEF TypeOK
  <2>4. ahead' \in [Sessions -> SUBSET Sessions]
    BY <1>0, <2>2 DEF TypeOK
  <2>5. pruner' \in [at : Phase, ids : SUBSET Sessions, runs : SUBSET Runs]
    BY <1>0, <2>1, <2>2 DEF GoesUnlessDone, Goes, Phase
  <2> QED BY <2>2, <2>3, <2>4, <2>5 DEF TypeOK, history
<1>3. CASE CleanupSandboxes
  BY <1>0, <1>3 DEF CleanupSandboxes, Goes, Phase, TypeOK, tables, history
<1>4. CASE DeleteSessions
  BY <1>0, <1>4 DEF DeleteSessions, Goes, Phase, TypeOK, SessionRow, RunRow, RunId, history
<1>5. CASE EraseRuns
  BY <1>0, <1>5 DEF EraseRuns, Goes, Phase, TypeOK, tables, history
<1>6. CASE LoadSessions
  BY <1>0, <1>6 DEF LoadSessions, SessionHeads, Goes, Phase, TypeOK, tables, history
<1>7. CASE LoadRuns
  BY <1>0, <1>7 DEF LoadRuns, PrunableRuns, Goes, Phase, TypeOK, tables, history
<1>8. CASE PruneRunStore
  BY <1>0, <1>8 DEF PruneRunStore, Goes, Phase, TypeOK, tables, history
<1>9. CASE PruneOrphans
  BY <1>0, <1>9 DEF PruneOrphans, Idle, Phase, TypeOK, tables, history
<1> QED BY <1>1, <1>2, <1>3, <1>4, <1>5, <1>6, <1>7, <1>8, <1>9 DEF PruneStep

\* A restart, field by field.
RestartedActive(s, on) ==
    IF \/ session[s].active \in Orphaned
       \/ ReleasesClaims(on) /\ s \in Claimed
    THEN None ELSE session[s].active

LEMMA RestartFields ==
    ASSUME TypeOK, NEW on \in BOOLEAN, NEW last \in Lasts, Restart(on, last)
    PROVE  /\ losses < MaxLosses /\ losses' = losses + 1
           /\ enabled' = on /\ pruner' = Idle
           /\ UNCHANGED <<saved, scheduled, ahead, named, missed>>
           /\ session' = [s \in Sessions |->
                [session[s] EXCEPT !.head = RecoveredHead(s, last),
                                   !.active = RestartedActive(s, on)]]
           /\ run' = [r \in Runs |->
                IF r \in Orphaned THEN [run[r] EXCEPT !.status = "failed"] ELSE run[r]]
<1>1. /\ losses < MaxLosses /\ losses' = losses + 1
      /\ enabled' = on /\ pruner' = Idle
      /\ UNCHANGED <<saved, scheduled, ahead, history>>
      /\ run' = [r \in Runs |->
            IF r \in Orphaned THEN [run[r] EXCEPT !.status = "failed"] ELSE run[r]]
      /\ session' = [s \in Sessions |->
            [session[s] EXCEPT
               !.head = RecoveredHead(s, last),
               !.active = RestartedActive(s, on)]]
  BY Zenon DEF Restart, RestartedActive
<1> QED BY <1>1 DEF history

LEMMA RestartTypes ==
    ASSUME TypeOK, NEW on \in BOOLEAN, NEW last \in Lasts, Restart(on, last)
    PROVE  TypeOK'
<1>1. last \subseteq Runs
  BY DEF Lasts, Orphaned
<1>2. ASSUME NEW s \in Sessions
      PROVE  /\ RecoveredHead(s, last) \in RunId
             /\ RestartedActive(s, on) \in RunId \union {SESSION_PRUNE_CLAIM}
  BY <1>1 DEF RecoveredHead, RestartedActive, RunId, TypeOK, SessionRow
<1>3. session' \in [Sessions -> SessionRow]
  <2>1. \A s \in Sessions : [session[s] EXCEPT !.head = RecoveredHead(s, last),
                                              !.active = RestartedActive(s, on)] \in SessionRow
    BY <1>2, ZenonT(30) DEF TypeOK, SessionRow
  <2>2. session' = [s \in Sessions |->
                [session[s] EXCEPT !.head = RecoveredHead(s, last),
                                   !.active = RestartedActive(s, on)]]
    BY RestartFields
  <2> QED BY <2>1, <2>2, Zenon
<1>4. run' \in [Runs -> RunRow]
  <2>1. \A r \in Runs : [run[r] EXCEPT !.status = "failed"] \in RunRow
    BY DEF TypeOK, RunRow, RowStatus
  <2> QED BY <2>1, RestartFields DEF TypeOK
<1>5. enabled' \in BOOLEAN
  BY RestartFields, Zenon
<1>6. losses' \in 0..MaxLosses
  <2>1. losses' = losses + 1 /\ losses < MaxLosses
    BY RestartFields, Zenon
  <2> QED BY <2>1, PruneAssumption DEF TypeOK
<1>7. pruner' = Idle /\ UNCHANGED <<saved, scheduled, ahead, named, missed>>
  BY RestartFields, Zenon
<1> QED
  BY <1>3, <1>4, <1>5, <1>6, <1>7 DEF TypeOK, Idle, Phase
-----------------------------------------------------------------------------
(* Nothing names a row that was deleted *)

\* What keeps a row: it is a run of the session that names it, or of one the
\* session descends from.  Such a session has a child, so it is not deleted.
Line(s) == {s} \union Ancestors(s)
Names(s, k) == k = None \/ (k \in Rows /\ run[k].session \in Line(s))

Parentage ==
    \A s \in Sessions :
        /\ session[s].row = "none" =>
              /\ session[s].parent = None
              /\ session[s].success = None
              /\ session[s].active = None
        /\ s \in There => session[s].parent \in There \union {None}

SessionsHold ==
    \A s \in There :
        /\ Names(s, session[s].head) /\ Names(s, session[s].success)
        /\ session[s].active \in LiveOf(s) \union {None, SESSION_PRUNE_CLAIM}

RunsHold ==
    \A r \in Rows : run[r].session \in There /\ Names(run[r].session, run[r].restore)

\* What the loop found when it claimed a session stays as it was.
Closed(s) ==
    /\ LiveOf(s) = {} /\ s \notin scheduled
    /\ \A t \in There : session[t].parent # s
ClaimsClosed == scheduled \subseteq There /\ \A s \in Claimed : Closed(s)

\* The rows that are about to be deleted.
Deleting ==
    pruner.at = "delete" =>
        /\ pruner.ids \subseteq Claimed
        /\ pruner.runs = {r \in Rows : run[r].session \in pruner.ids}

TablesHold == Parentage /\ SessionsHold /\ RunsHold /\ ClaimsClosed
References == TypeOK /\ TablesHold /\ Deleting

LEMMA ReferencesSuffice == References => ReferencesHold
<1>1. SUFFICES ASSUME References PROVE ReferencesHold
  OBVIOUS
<1>2. \A s \in There : LiveOf(s) \subseteq Live
  BY DEF LiveOf
<1> QED
  BY <1>1, <1>2 DEF References, TablesHold, Parentage, SessionsHold, RunsHold, ClaimsClosed,
                    ReferencesHold, Names, There

\* An ancestor of a session that is there is there, and has a child that is.
LEMMA AncestorHasChild ==
    ASSUME TypeOK, Parentage, NEW s \in There, NEW a \in Ancestors(s)
    PROVE  a \in There /\ \E t \in There : session[t].parent = a
<1> DEFINE X == {x \in There : \E t \in There : session[t].parent = x}
<1>1. X \in SUBSET Sessions
  BY DEF There
<1>2. \A t \in X \union {s} : session[t].parent \in X \union {None}
  BY DEF Parentage, There
<1>3. a \in X
  BY <1>1, <1>2, Zenon DEF Ancestors
<1> QED BY <1>3

\* The line of a child holds the line of its parent, after a step that has made it.
LEMMA LineOfParent ==
    ASSUME NEW s \in Sessions, NEW p \in Sessions, session'[s].parent = p, p # None
    PROVE  Line(p)' \subseteq Line(s)'
<1>1. SUFFICES ASSUME NEW a \in Line(p)' PROVE a \in Ancestors(s)'
  BY DEF Line
<1>2. ASSUME NEW X \in SUBSET Sessions,
             \A t \in X \union {s} : session'[t].parent \in X \union {None}
      PROVE  a \in X
  <2>1. p \in X
    BY <1>2
  <2>2. \A t \in X \union {p} : session'[t].parent \in X \union {None}
    BY <1>2, <2>1
  <2> QED BY <1>1, <2>1, <2>2 DEF Line, Ancestors
<1>3. a \in Sessions
  BY <1>1 DEF Line, Ancestors
<1> QED BY <1>2, <1>3 DEF Ancestors

\* A line is not cut off while no parent is changed but that of a new session.
LEMMA LineGrows ==
    ASSUME NEW s \in Sessions,
           \A t \in Sessions : session[t].parent \in {None, session'[t].parent}
    PROVE  Line(s) \subseteq Line(s)'
<1>1. SUFFICES ASSUME NEW a \in Ancestors(s) PROVE a \in Ancestors(s)'
  BY DEF Line
<1>2. ASSUME NEW X \in SUBSET Sessions,
             \A t \in X \union {s} : session'[t].parent \in X \union {None}
      PROVE  a \in X
  <2>1. \A t \in X \union {s} : session[t].parent \in X \union {None}
    BY <1>2
  <2> QED BY <2>1 DEF Ancestors
<1> QED BY <1>2 DEF Ancestors

\* What is named stays named while no row goes.
LEMMA NamesGrow ==
    ASSUME NEW s \in Sessions, NEW k, Names(s, k),
           \A t \in Sessions : session[t].parent \in {None, session'[t].parent},
           \A r \in Rows : r \in Rows' /\ run'[r].session = run[r].session
    PROVE  Names(s, k)'
BY LineGrows DEF Names

\* A step that creates nothing and deletes nothing: it ends runs or claims them,
\* and it claims sessions that are closed or releases them.
LEMMA QuietStep ==
    ASSUME TypeOK, TypeOK', TablesHold,
           \A t \in Sessions : /\ session'[t].row = session[t].row
                               /\ session'[t].parent = session[t].parent,
           \A q \in Runs : /\ run'[q].session = run[q].session
                           /\ run'[q].restore = run[q].restore
                           /\ q \in Rows' <=> q \in Rows
                           /\ q \in Live' => q \in Live,
           scheduled' \subseteq scheduled,
           \A t \in There :
               /\ session'[t].head \in {session[t].head} \union RowsOf(t)
               /\ session'[t].success \in {session[t].success} \union RowsOf(t)
               /\ session'[t].active \in LiveOf(t)' \union {None, SESSION_PRUNE_CLAIM}
               /\ t \in Claimed' => Closed(t),
           \A t \in Sessions : session[t].row = "none" =>
               session'[t].success = None /\ session'[t].active = None
    PROVE  TablesHold'
<1>1. There' = There /\ Rows' = Rows /\ Live' \subseteq Live
  BY DEF There, Rows, Live, TypeOK
<1>2. ASSUME NEW t \in Sessions, NEW k, Names(t, k) PROVE Names(t, k)'
  BY <1>1, <1>2, NamesGrow DEF Rows
<1>3. Parentage'
  BY <1>1 DEF TablesHold, Parentage
<1>4. SessionsHold'
  <2>1. SUFFICES ASSUME NEW t \in There
                 PROVE  (Names(t, session[t].head) /\ Names(t, session[t].success))'
    BY <1>1 DEF SessionsHold
  <2>2. ASSUME NEW k \in RowsOf(t) PROVE Names(t, k)
    BY DEF Names, RowsOf, Line
  <2>3. Names(t, session[t].head) /\ Names(t, session[t].success)
    BY DEF TablesHold, SessionsHold
  <2>4. t \in Sessions
    BY DEF There
  <2> QED BY <1>2, <2>2, <2>3, <2>4
<1>5. RunsHold'
  <2>1. SUFFICES ASSUME NEW q \in Rows
                 PROVE  run'[q].session \in There /\ Names(run[q].session, run[q].restore)'
    BY <1>1 DEF RunsHold
  <2>2. q \in Runs /\ run'[q].session = run[q].session /\ run'[q].restore = run[q].restore
    BY DEF Rows
  <2>3. run[q].session \in There /\ Names(run[q].session, run[q].restore)
    BY DEF TablesHold, RunsHold
  <2> QED BY <1>2, <2>2, <2>3 DEF There
<1>6. ClaimsClosed'
  <2>1. \A t \in There : LiveOf(t)' \subseteq LiveOf(t)
    BY <1>1 DEF LiveOf, Live
  <2>2. \A t \in There : Closed(t) => Closed(t)'
    BY <1>1, <2>1 DEF Closed, There
  <2> QED BY <1>1, <2>2 DEF TablesHold, ClaimsClosed, Claimed
<1> QED BY <1>3, <1>4, <1>5, <1>6 DEF TablesHold

\* A step that adds the run r to the session s, which is not claimed, and lets
\* the session name its own runs, those of its line or nothing.
LEMMA CreatingStep ==
    ASSUME TypeOK, TypeOK', TablesHold,
           NEW s \in Sessions, NEW r \in Runs, run[r].status = "none",
           run' = [run EXCEPT ![r] = run'[r]], run'[r].status = "queued",
           run'[r].session = s, Names(s, run[r].restore)',
           session' = [session EXCEPT ![s] = session'[s]],
           session'[s].row = "there", session'[s].head = r,
           session'[s].success = session[s].success, session'[s].active = None,
           session[s].row # "gone", session[s].active = None,
           session[s].parent \in {None, session'[s].parent},
           session'[s].parent \in There \union {None},
           session'[s].parent # session[s].parent => session'[s].parent \notin Claimed,
           UNCHANGED scheduled
    PROVE  TablesHold'
<1>1. /\ There' = There \union {s} /\ Claimed' = Claimed
      /\ Rows' = Rows \union {r} /\ Live' = Live \union {r}
      /\ r \notin Rows /\ r \notin Live
  <2>1. There' = There \union {s}
    BY DEF There, TypeOK
  <2>2. Claimed' = Claimed
    BY <2>1, PruneAssumption, ZenonT(30) DEF Claimed, TypeOK, There
  <2>3. Rows' = Rows \union {r} /\ Live' = Live \union {r} /\ r \notin Rows /\ r \notin Live
    BY DEF Rows, Live, RowStatus, LiveStatus, TypeOK
  <2> QED BY <2>1, <2>2, <2>3
<1>2. /\ \A t \in Sessions : session[t].parent \in {None, session'[t].parent}
      /\ \A q \in Rows : q \in Rows' /\ run'[q].session = run[q].session
  BY <1>1 DEF TypeOK, Rows
<1>3. ASSUME NEW t \in Sessions, NEW k, Names(t, k) PROVE Names(t, k)'
  BY <1>2, <1>3, NamesGrow
<1>4. Parentage'
  BY <1>1 DEF TablesHold, Parentage, TypeOK
<1>5. SessionsHold'
  <2>1. ASSUME NEW t \in There, t # s
        PROVE  /\ (Names(t, session[t].head) /\ Names(t, session[t].success))'
               /\ session'[t].active \in LiveOf(t)' \union {None, SESSION_PRUNE_CLAIM}
    <3>1. t \in Sessions /\ session'[t] = session[t]
      BY <2>1 DEF There, TypeOK
    <3>2. LiveOf(t) \subseteq LiveOf(t)'
      BY <1>1 DEF LiveOf, TypeOK, Live
    <3>3. Names(t, session[t].head) /\ Names(t, session[t].success)
      BY DEF TablesHold, SessionsHold
    <3> QED BY <1>3, <3>1, <3>2, <3>3 DEF TablesHold, SessionsHold
  <2>2. (Names(s, session[s].head) /\ Names(s, session[s].success))'
    <3>1. Names(s, session[s].success)
      BY DEF Names, TablesHold, SessionsHold, Parentage, There, TypeOK, SessionRow
    <3>2. Names(s, r)'
      BY <1>1 DEF Names, Line
    <3> QED BY <1>3, <3>1, <3>2
  <2> QED BY <1>1, <2>1, <2>2 DEF SessionsHold
<1>6. RunsHold'
  <2>1. ASSUME NEW q \in Rows
        PROVE  run'[q].session \in There /\ Names(run[q].session, run[q].restore)'
    <3>1. q \in Runs /\ run'[q] = run[q]
      BY <1>1 DEF Rows, TypeOK
    <3>2. run[q].session \in There /\ Names(run[q].session, run[q].restore)
      BY DEF TablesHold, RunsHold
    <3> QED BY <1>3, <3>1, <3>2 DEF There
  <2> QED BY <1>1, <2>1 DEF RunsHold
<1>7. ClaimsClosed'
  <2>1. ASSUME NEW c \in Claimed PROVE Closed(c)'
    <3>1. c \in There /\ c # s /\ c \in Sessions /\ session'[c] = session[c]
      BY <2>1, PruneAssumption DEF Claimed, There, TypeOK
    <3>2. Closed(c)
      BY DEF TablesHold, ClaimsClosed
    <3>3. LiveOf(c)' = {}
      BY <1>1, <3>1, <3>2 DEF Closed, LiveOf, Live, TypeOK
    <3>4. \A t \in There' : session'[t].parent # c
      <4>1. session'[s].parent # c
        <5>1. CASE session'[s].parent # session[s].parent
          BY <5>1
        <5>2. CASE session'[s].parent = session[s].parent /\ s \in There
          BY <3>2, <5>2 DEF Closed
        <5>3. CASE session'[s].parent = session[s].parent /\ s \notin There
          BY <5>3, <3>1, PruneAssumption DEF TablesHold, Parentage, There, TypeOK, SessionRow
        <5> QED BY <5>1, <5>2, <5>3
      <4> QED BY <1>1, <3>2, <4>1 DEF Closed, TypeOK, There
    <3> QED BY <3>2, <3>3, <3>4 DEF Closed
  <2> QED BY <1>1, <2>1 DEF TablesHold, ClaimsClosed
<1> QED BY <1>4, <1>5, <1>6, <1>7 DEF TablesHold

\* The rows that are about to be deleted are the same after the step of another.
LEMMA DeletingStays ==
    ASSUME Deleting, UNCHANGED pruner, Claimed \subseteq Claimed',
           \A q \in Rows : q \in Rows' /\ run'[q].session = run[q].session,
           \A q \in Rows' \ Rows : run'[q].session \notin Claimed
    PROVE  Deleting'
<1>1. SUFFICES ASSUME pruner.at = "delete" PROVE Deleting'
  BY DEF Deleting
<1>2. pruner.ids \subseteq Claimed /\ pruner.runs = {r \in Rows : run[r].session \in pruner.ids}
  BY <1>1 DEF Deleting
<1>3. pruner.runs = {r \in Rows' : run'[r].session \in pruner.ids}
  BY <1>2
<1> QED BY <1>2, <1>3 DEF Deleting

LEMMA BeginKeeps ==
    ASSUME References, TypeOK', NEW s \in Sessions, NEW r \in Runs,
           NEW p \in Sessions \union {None}, Begin(s, p, r)
    PROVE  References'
<1>1. /\ session[s].row = "none" /\ run[r].status = "none"
      /\ session[s].parent = None /\ session[s].success = None /\ session[s].active = None
      /\ p # None => p \in There \ Claimed
  BY DEF Begin, IsNext, Referable, References, TablesHold, Parentage
<1>2. /\ session' = [session EXCEPT ![s] = session'[s]]
      /\ session'[s] = [row |-> "there", parent |-> p, head |-> r, success |-> None, active |-> None]
      /\ run' = [run EXCEPT ![r] = run'[r]] /\ run'[r] = Queued(s, None, p # None)
      /\ UNCHANGED scheduled
  BY DEF Begin, References, TypeOK
<1>3. run'[r].status = "queued" /\ run'[r].session = s /\ run'[r].restore = None
  BY <1>2 DEF Queued
<1>4. Names(s, run[r].restore)'
  BY <1>3 DEF Names
<1>5. TablesHold'
  BY <1>1, <1>2, <1>3, <1>4, CreatingStep DEF References
<1>6. Deleting'
  <2>1. Claimed \subseteq Claimed' /\ s \notin Claimed
    BY <1>1, <1>2 DEF Claimed, There, References, TypeOK
  <2>2. Rows' = Rows \union {r} /\ r \notin Rows
    BY <1>1, <1>2, <1>3 DEF Rows, RowStatus, LiveStatus, References, TypeOK
  <2>3. \A q \in Rows : run'[q].session = run[q].session
    BY <1>2, <2>2 DEF Rows, References, TypeOK
  <2> QED BY <1>3, <2>1, <2>2, <2>3, DeletingStays DEF References, Begin
<1> QED BY <1>5, <1>6 DEF References

LEMMA CreateKeeps ==
    ASSUME References, TypeOK', NEW s \in Sessions, NEW r \in Runs,
           NEW k \in RunId, NEW resets \in BOOLEAN, Create(s, k, resets, r)
    PROVE  References'
<1>1. /\ session[s].row = "there" /\ session[s].active = None /\ run[r].status = "none"
      /\ s \in There /\ session[s].parent \in There \union {None}
  BY DEF Create, Free, IsNext, There, References, TablesHold, Parentage
<1>2. /\ session' = [session EXCEPT ![s] = session'[s]]
      /\ session'[s].row = session[s].row /\ session'[s].parent = session[s].parent
      /\ session'[s].success = session[s].success /\ session'[s].active = session[s].active
      /\ session'[s].head = r
      /\ run' = [run EXCEPT ![r] = run'[r]] /\ run'[r] = Queued(s, k, resets)
      /\ UNCHANGED <<scheduled, pruner>>
  BY DEF Create, References, TypeOK, SessionRow
<1>3. run'[r].status = "queued" /\ run'[r].session = s /\ run'[r].restore = k
  BY <1>2 DEF Queued
<1>4. Names(s, k)
  BY DEF Create, Restorable, Names, Line
<1>5. Names(s, run[r].restore)'
  <2>1. \A t \in Sessions : session[t].parent \in {None, session'[t].parent}
    BY <1>2 DEF References, TypeOK
  <2>2. \A q \in Rows : q \in Rows' /\ run'[q].session = run[q].session
    BY <1>1, <1>2 DEF References, TypeOK, Rows, RowStatus, LiveStatus
  <2> QED BY <1>3, <1>4, <2>1, <2>2, NamesGrow
<1>6. TablesHold'
  BY <1>1, <1>2, <1>3, <1>5, CreatingStep DEF References
<1>7. Deleting'
  <2>1. s \notin Claimed
    BY <1>1, PruneAssumption DEF Claimed
  <2>4. \A c \in Claimed : c \in Sessions /\ session'[c] = session[c]
    BY <1>2, <2>1 DEF Claimed, There, References, TypeOK
  <2>5. Claimed \subseteq Claimed'
    BY <2>4 DEF Claimed, There
  <2>2. Rows' = Rows \union {r} /\ r \notin Rows
    BY <1>1, <1>2, <1>3 DEF Rows, RowStatus, LiveStatus, References, TypeOK
  <2>3. \A q \in Rows : run'[q].session = run[q].session
    BY <1>2, <2>2 DEF Rows, References, TypeOK
  <2> QED BY <1>2, <1>3, <2>1, <2>2, <2>3, <2>5, DeletingStays DEF References
<1> QED BY <1>6, <1>7 DEF References

LEMMA ForkKeeps ==
    ASSUME References, TypeOK', NEW s \in Sessions, NEW p \in Sessions, NEW k \in Runs, Fork(s, p, k)
    PROVE  References'
<1>1. /\ session[s].row = "none" /\ session[s].parent = None
      /\ p \in There \ Claimed /\ k \in Rows /\ run[k].session = p /\ s # p
      /\ \A t \in There : session[t].parent # s
  BY PruneAssumption DEF Fork, Referable, RowsOf, References, TablesHold, Parentage, There
<1>2. /\ session' = [session EXCEPT ![s] = session'[s]]
      /\ session'[s].row = "there" /\ session'[s].parent = p /\ session'[s].head = k
      /\ session'[s].active = None /\ session'[s].success \in {k, session[p].success}
      /\ UNCHANGED <<run, scheduled, pruner>>
  BY DEF Fork, References, TypeOK
<1>3. There' = There \union {s} /\ Claimed' = Claimed /\ Rows' = Rows /\ Live' = Live
  <2>1. There' = There \union {s}
    BY <1>2 DEF There, References, TypeOK
  <2>2. Claimed' = Claimed
    BY <1>1, <1>2, <2>1, PruneAssumption DEF Claimed, There, References, TypeOK
  <2> QED BY <1>2, <2>1, <2>2 DEF Rows, Live
<1>4. \A t \in Sessions : session[t].parent \in {None, session'[t].parent}
  BY <1>1, <1>2 DEF References, TypeOK
<1>5. ASSUME NEW t \in Sessions, NEW q, Names(t, q) PROVE Names(t, q)'
  BY <1>2, <1>3, <1>4, <1>5, NamesGrow
<1>6. Parentage'
  BY <1>1, <1>2, <1>3 DEF References, TablesHold, Parentage, TypeOK
<1>7. SessionsHold'
  <2>1. ASSUME NEW t \in There
        PROVE  /\ (Names(t, session[t].head) /\ Names(t, session[t].success))'
               /\ session'[t].active \in LiveOf(t)' \union {None, SESSION_PRUNE_CLAIM}
    <3>1. t \in Sessions /\ session'[t] = session[t] /\ LiveOf(t)' = LiveOf(t)
      BY <1>1, <1>2, <1>3 DEF There, References, TypeOK, LiveOf
    <3>2. Names(t, session[t].head) /\ Names(t, session[t].success)
      BY DEF References, TablesHold, SessionsHold
    <3> QED BY <1>5, <3>1, <3>2 DEF References, TablesHold, SessionsHold
  <2>2. (Names(s, session[s].head) /\ Names(s, session[s].success))'
    <3>1. Names(p, session[p].success) /\ Names(p, k)
      BY <1>1 DEF Names, Line, References, TablesHold, SessionsHold
    <3>2. ASSUME NEW q, Names(p, q)' PROVE Names(s, q)'
      <4>1. Line(p)' \subseteq Line(s)'
        BY <1>2, PruneAssumption, LineOfParent
      <4> QED BY <3>2, <4>1 DEF Names
    <3> QED BY <1>2, <1>5, <3>1, <3>2
  <2> QED BY <1>2, <1>3, <2>1, <2>2 DEF SessionsHold
<1>8. RunsHold'
  <2>1. ASSUME NEW q \in Rows
        PROVE  run'[q].session \in There /\ Names(run[q].session, run[q].restore)'
    <3>1. run[q].session \in There /\ Names(run[q].session, run[q].restore)
      BY DEF References, TablesHold, RunsHold
    <3> QED BY <1>2, <1>5, <3>1 DEF There
  <2> QED BY <1>3, <2>1 DEF RunsHold
<1>9. ClaimsClosed'
  <2>1. ASSUME NEW c \in Claimed PROVE Closed(c)'
    BY <1>1, <1>2, <1>3 DEF Closed, LiveOf, References, TablesHold, ClaimsClosed, TypeOK, There, Claimed
  <2> QED BY <1>2, <1>3, <2>1 DEF References, TablesHold, ClaimsClosed
<1>10. Deleting'
  BY <1>2, <1>3, DeletingStays DEF References
<1> QED BY <1>6, <1>7, <1>8, <1>9, <1>10 DEF References, TablesHold

\* Steps that change neither of the tables.
LEMMA TablesUnchanged ==
    ASSUME TablesHold, UNCHANGED <<session, run>>,
           scheduled' \subseteq scheduled \union (There \ Claimed)
    PROVE  TablesHold'
<1>1. /\ There' = There /\ Claimed' = Claimed /\ Rows' = Rows /\ Live' = Live
      /\ \A s \in Sessions : Line(s)' = Line(s) /\ LiveOf(s)' = LiveOf(s)
  BY DEF There, Claimed, Rows, Live, RowsOf, LiveOf, Line, Ancestors
<1>2. Parentage' /\ SessionsHold' /\ RunsHold'
  BY <1>1 DEF TablesHold, Parentage, SessionsHold, RunsHold, Names, There
<1>3. ClaimsClosed'
  BY <1>1 DEF TablesHold, ClaimsClosed, Closed, There, Claimed
<1> QED BY <1>2, <1>3 DEF TablesHold

\* A run is claimed, goes on, or ends.
LEMMA ExecuteKeeps ==
    ASSUME References, TypeOK', NEW r \in Runs, ExecuteStep(r)
    PROVE  References'
<1>0. r \in Live /\ r \in Rows /\ run[r].session \in There
  <2>1. r \in Live /\ r \in Rows
    BY DEF ExecuteStep, ClaimRun, LoadRestorePoint, RestoreRaises, Succeed, Fail, Live, Rows,
           LiveStatus, RowStatus
  <2> QED BY <2>1 DEF References, TablesHold, RunsHold
<1> PICK s \in There : s = run[r].session
  BY <1>0
<1>1. s \in Sessions /\ s \notin Claimed
  BY <1>0 DEF LiveOf, References, TablesHold, ClaimsClosed, Closed, There
<1>2. /\ run'[r].status \in RowStatus
      /\ run'[r].session = s /\ run'[r].restore = run[r].restore
      /\ \A q \in Runs : q # r => run'[q] = run[q]
  <2> USE <1>0 DEF References, TypeOK, RunRow
  <2>1. CASE ClaimRun(r)
    BY <2>1 DEF ClaimRun, LiveStatus, RowStatus
  <2>2. CASE LoadRestorePoint(r)
    BY <2>2 DEF LoadRestorePoint, LiveStatus, RowStatus
  <2>3. CASE RestoreRaises(r) \/ Fail(r)
    BY <2>3 DEF RestoreRaises, Fail, FailedRun, LiveStatus, RowStatus
  <2>4. CASE Succeed(r)
    BY <2>4 DEF Succeed, RowStatus
  <2> QED BY <2>1, <2>2, <2>3, <2>4 DEF ExecuteStep
<1>3. /\ \A t \in Sessions : t # s => session'[t] = session[t]
      /\ session'[s].row = session[s].row /\ session'[s].parent = session[s].parent
      /\ session'[s].head \in {session[s].head, r}
      /\ session'[s].success \in {session[s].success, r}
      /\ \/ session'[s].active = None
         \/ session'[s].active = session[s].active /\ (session[s].active = r => r \in Live')
         \/ session'[s].active = r /\ r \in Live'
  <2> USE <1>0, <1>1 DEF References, TypeOK, SessionRow
  <2>1. CASE ClaimRun(r)
    <3>1. r \in Live'
      BY <2>1 DEF ClaimRun, Live, LiveStatus, RunRow
    <3> QED BY <2>1, <3>1 DEF ClaimRun
  <2>2. CASE LoadRestorePoint(r)
    <3>1. r \in Live'
      BY <2>2 DEF LoadRestorePoint, Live, LiveStatus, RunRow
    <3> QED BY <2>2, <3>1 DEF LoadRestorePoint
  <2>3. CASE RestoreRaises(r) \/ Fail(r)
    BY <2>3 DEF RestoreRaises, Fail, FailedSession
  <2>4. CASE Succeed(r)
    BY <2>4 DEF Succeed
  <2> QED BY <2>1, <2>2, <2>3, <2>4 DEF ExecuteStep
<1>4. UNCHANGED <<scheduled, pruner>>
  BY DEF ExecuteStep, ClaimRun, LoadRestorePoint, RestoreRaises, Succeed, Fail
<1>5. \A q \in Runs : /\ run'[q].session = run[q].session /\ run'[q].restore = run[q].restore
                      /\ (q \in Rows' <=> q \in Rows) /\ (q \in Live' => q \in Live)
                      /\ q \in Live /\ q # r => q \in Live'
  BY <1>0, <1>2 DEF Rows, Live
<1>6. \A t \in Sessions : session'[t].row = session[t].row /\ session'[t].parent = session[t].parent
  BY <1>3
<1>7. ASSUME NEW t \in There
      PROVE  /\ session'[t].head \in {session[t].head} \union RowsOf(t)
             /\ session'[t].success \in {session[t].success} \union RowsOf(t)
             /\ session'[t].active \in LiveOf(t)' \union {None, SESSION_PRUNE_CLAIM}
             /\ t \in Claimed' => Closed(t)
  <2>1. t \in Sessions /\ session[t].active \in LiveOf(t) \union {None, SESSION_PRUNE_CLAIM}
    BY DEF References, TablesHold, SessionsHold, There
  <2>2. CASE t = s
    <3>1. r \in RowsOf(s) /\ (r \in Live' => r \in LiveOf(s)')
      BY <1>0, <1>2 DEF RowsOf, LiveOf
    <3>2. \A q \in LiveOf(s) : q # r => q \in LiveOf(s)'
      BY <1>5 DEF LiveOf, Live
    <3>3. s \notin Claimed'
      BY <1>1, <1>3, PruneAssumption DEF Claimed, There
    <3> QED BY <1>3, <2>1, <2>2, <3>1, <3>2, <3>3
  <2>3. CASE t # s
    <3>1. \A q \in LiveOf(t) : q \in LiveOf(t)'
      BY <1>0, <1>5, <2>3 DEF LiveOf, Live
    <3>2. t \in Claimed' => t \in Claimed
      BY <1>3, <2>1, <2>3 DEF Claimed, There
    <3> QED BY <1>3, <2>1, <2>3, <3>1, <3>2 DEF References, TablesHold, ClaimsClosed
  <2> QED BY <2>2, <2>3
<1>9. \A t \in Sessions : session[t].row = "none" =>
               session'[t].success = None /\ session'[t].active = None
  BY <1>3 DEF There, References, TablesHold, Parentage
<1>10. TablesHold'
  BY <1>4, <1>5, <1>6, <1>7, <1>9, QuietStep DEF References
<1>11. Claimed \subseteq Claimed'
  BY <1>1, <1>3 DEF Claimed, There
<1>12. Deleting'
  BY <1>4, <1>5, <1>11, DeletingStays DEF References, Rows
<1> QED BY <1>10, <1>12 DEF References

\* A step that changes nothing of the sessions but the claims, and no run.
LEMMA ClaimingStep ==
    ASSUME References, TypeOK', UNCHANGED <<run, scheduled>>,
           \A t \in Sessions :
               /\ session'[t].row = session[t].row /\ session'[t].parent = session[t].parent
               /\ session'[t].head = session[t].head /\ session'[t].success = session[t].success
               /\ \/ session'[t].active \in {session[t].active, None}
                  \/ session'[t].active = SESSION_PRUNE_CLAIM /\ t \in There /\ Closed(t)
    PROVE  TablesHold'
<1>1. Rows' = Rows /\ Live' = Live
  BY DEF Rows, Live
<1>2. ASSUME NEW t \in There
      PROVE  /\ session'[t].active \in LiveOf(t)' \union {None, SESSION_PRUNE_CLAIM}
             /\ t \in Claimed' => Closed(t)
  <2>1. LiveOf(t)' = LiveOf(t)
    BY <1>1 DEF LiveOf
  <2>2. t \in Sessions /\ session[t].active \in LiveOf(t) \union {None, SESSION_PRUNE_CLAIM}
    BY DEF References, TablesHold, SessionsHold, There
  <2>3. t \in Claimed' => t \in Claimed \/ Closed(t)
    BY <2>2, PruneAssumption DEF Claimed, There
  <2> QED BY <2>1, <2>2, <2>3 DEF References, TablesHold, ClaimsClosed
<1>3. \A t \in Sessions : session[t].row = "none" =>
               session'[t].success = None /\ session'[t].active = None
  BY DEF There, References, TablesHold, Parentage
<1> QED BY <1>1, <1>2, <1>3, QuietStep DEF References, There

LEMMA TickKeeps ==
    ASSUME References, TypeOK', Tick
    PROVE  References'
<1>1. pruner'.at # "delete" /\ UNCHANGED <<run, scheduled>>
  BY DEF Tick, GoesUnlessDone, Goes
<1>2. \A t \in Sessions :
               /\ session'[t].row = session[t].row /\ session'[t].parent = session[t].parent
               /\ session'[t].head = session[t].head /\ session'[t].success = session[t].success
               /\ session'[t].active \in {session[t].active, None}
  <2>1. \/ \E ids : session' = Released(ids)
        \/ session' = session
    BY Zenon DEF Tick
  <2>2. ASSUME NEW t \in Sessions, NEW ids, session' = Released(ids)
        PROVE  session'[t] \in {session[t], [session[t] EXCEPT !.active = None]}
    BY <2>2 DEF Released
  <2>3. \A t \in Sessions : session[t] \in SessionRow
    BY DEF References, TypeOK
  <2> QED BY <2>1, <2>2, <2>3 DEF SessionRow
<1>3. TablesHold'
  BY <1>1, <1>2, ClaimingStep
<1> QED BY <1>1, <1>3 DEF References, Deleting

LEMMA ClaimSessionsKeeps ==
    ASSUME References, TypeOK', ClaimSessions
    PROVE  References'
<1>1. pruner'.at # "delete" /\ UNCHANGED <<run, scheduled>>
  BY DEF ClaimSessions, GoesUnlessDone, Goes
<1>2. ASSUME NEW ids, NEW t \in Rechecked(ids)
      PROVE  t \in There /\ Closed(t)
  BY DEF Rechecked, Deletable, Unprotected, Closed, There
<1>3. \A t \in Sessions :
               /\ session'[t].row = session[t].row /\ session'[t].parent = session[t].parent
               /\ session'[t].head = session[t].head /\ session'[t].success = session[t].success
               /\ \/ session'[t].active = session[t].active
                  \/ session'[t].active = SESSION_PRUNE_CLAIM /\ t \in There /\ Closed(t)
  <2>1. PICK ids :
            session' = [s \in Sessions |->
               IF s \in {t \in Rechecked(ids) : session[t].active = None}
               THEN [session[s] EXCEPT !.active = SESSION_PRUNE_CLAIM]
               ELSE session[s]]
    BY Zenon DEF ClaimSessions
  <2>2. \A t \in Sessions : session[t] \in SessionRow
    BY DEF References, TypeOK
  <2>3. ASSUME NEW t \in Sessions
        PROVE  \/ session'[t] = session[t]
               \/ /\ session'[t] = [session[t] EXCEPT !.active = SESSION_PRUNE_CLAIM]
                  /\ t \in There /\ Closed(t)
    BY <1>2, <2>1
  <2> QED BY <2>2, <2>3 DEF SessionRow
<1>4. TablesHold'
  BY <1>1, <1>3, ClaimingStep
<1> QED BY <1>1, <1>4 DEF References, Deleting

LEMMA RestartKeeps ==
    ASSUME References, TypeOK', NEW on \in BOOLEAN, NEW last \in Lasts, Restart(on, last)
    PROVE  References'
<1>1. pruner' = Idle /\ UNCHANGED scheduled
  BY RestartFields DEF References
<1>2. \A t \in Sessions :
        /\ session'[t].row = session[t].row /\ session'[t].parent = session[t].parent
        /\ session'[t].head = RecoveredHead(t, last)
        /\ session'[t].success = session[t].success
        /\ session'[t].active = RestartedActive(t, on)
  <2>1. \A t \in Sessions :
           session'[t] = [session[t] EXCEPT !.head = RecoveredHead(t, last),
                                            !.active = RestartedActive(t, on)]
    BY RestartFields, ZenonT(30) DEF References
  <2>2. \A t \in Sessions : session[t] \in SessionRow
    BY DEF References, TypeOK
  <2> QED BY <2>1, <2>2 DEF SessionRow
<1>3. \A q \in Runs :
        /\ run'[q].session = run[q].session /\ run'[q].restore = run[q].restore
        /\ run'[q].status = IF q \in Orphaned THEN "failed" ELSE run[q].status
  <2>1. \A q \in Runs :
          run'[q] = IF q \in Orphaned THEN [run[q] EXCEPT !.status = "failed"] ELSE run[q]
    BY RestartFields DEF References
  <2>2. \A q \in Runs : run[q] \in RunRow
    BY DEF References, TypeOK
  <2> QED BY <2>1, <2>2 DEF RunRow
<1>4. \A q \in Runs : (q \in Rows' <=> q \in Rows) /\ (q \in Live' <=> q \in Live \ Orphaned)
  BY <1>3 DEF Rows, Live, Orphaned, RowStatus, LiveStatus
<1>5. ASSUME NEW t \in There
      PROVE  /\ session'[t].head \in {session[t].head} \union RowsOf(t)
             /\ session'[t].success \in {session[t].success} \union RowsOf(t)
             /\ session'[t].active \in LiveOf(t)' \union {None, SESSION_PRUNE_CLAIM}
             /\ t \in Claimed' => Closed(t)
  <2>1. t \in Sessions
    BY DEF There
  <2>2. RecoveredHead(t, last) \in {session[t].head} \union RowsOf(t)
    <3>1. last \subseteq Rows
      BY DEF Lasts, Orphaned, Rows, RowStatus, LiveStatus
    <3> QED BY <3>1 DEF RecoveredHead, RowsOf
  <2>3. session[t].active \in LiveOf(t) \union {None, SESSION_PRUNE_CLAIM}
    BY DEF References, TablesHold, SessionsHold
  <2>4. \A q \in LiveOf(t) : q \notin Orphaned => q \in LiveOf(t)'
    BY <1>3, <1>4 DEF LiveOf, Live
  <2>5. session'[t].active \in LiveOf(t)' \union {None, SESSION_PRUNE_CLAIM}
    BY <1>2, <2>1, <2>3, <2>4 DEF RestartedActive
  <2>6. t \in Claimed' => t \in Claimed
    BY <1>2, <2>1, PruneAssumption DEF RestartedActive, Claimed
  <2> QED BY <1>2, <2>1, <2>2, <2>5, <2>6 DEF References, TablesHold, ClaimsClosed
<1>6. \A t \in Sessions : session[t].row = "none" =>
               session'[t].success = None /\ session'[t].active = None
  BY <1>2 DEF References, TablesHold, Parentage, RestartedActive
<1>7. TablesHold'
  BY <1>1, <1>2, <1>3, <1>4, <1>5, <1>6, QuietStep DEF References
<1> QED BY <1>1, <1>7 DEF References, Deleting, Idle

\* Sessions that are closed go with their runs: whoever names a run of theirs
\* would descend from them, and they have no child.
LEMMA DeleteKeeps ==
    ASSUME References, TypeOK', DeleteSessions
    PROVE  References'
<1> DEFINE ids == pruner.ids
<1>1. /\ ids \subseteq Claimed /\ pruner.runs = {r \in Rows : run[r].session \in ids}
      /\ \A t \in There : session[t].parent \notin ids
      /\ \A t \in ids : t \in There /\ LiveOf(t) = {} /\ t \notin scheduled
  BY DEF DeleteSessions, References, Deleting, TablesHold, ClaimsClosed, Closed, Claimed
<1>2. /\ pruner'.at = "erase" /\ UNCHANGED scheduled
      /\ \A t \in Sessions :
            session'[t] = IF t \in ids THEN [session[t] EXCEPT !.row = "gone"] ELSE session[t]
      /\ \A r \in Runs :
            run'[r] = IF r \in pruner.runs THEN [run[r] EXCEPT !.status = "gone"] ELSE run[r]
  <2>1. ids \intersect Claimed = ids
    BY <1>1
  <2> QED BY <1>1, <2>1 DEF DeleteSessions, Goes
<1> HIDE DEF ids
<1>3. /\ There' = There \ ids /\ Claimed' = Claimed \ ids
      /\ Rows' = {r \in Rows : run[r].session \notin ids}
  <2>1. \A t \in Sessions : session[t] \in SessionRow
    BY DEF References, TypeOK
  <2>2. \A t \in ids : t \in Sessions /\ session'[t].row = "gone"
    <3>1. \A t \in ids : t \in Sessions
      BY <1>1 DEF There
    <3>2. \A t \in Sessions : [session[t] EXCEPT !.row = "gone"].row = "gone"
      BY <2>1 DEF SessionRow
    <3> QED BY <1>2, <3>1, <3>2, Zenon
  <2>3. There' = There \ ids
    BY <1>2, <2>2 DEF There
  <2>4. Claimed' = Claimed \ ids
    BY <1>2, <2>3 DEF Claimed, There
  <2>5. \A r \in Runs : run[r] \in RunRow
    BY DEF References, TypeOK
  <2>6. \A r \in Runs : r \in pruner.runs => run'[r].status = "gone"
    BY <1>2, <2>5 DEF RunRow
  <2>7. Rows' = {r \in Rows : run[r].session \notin ids}
    BY <1>1, <1>2, <2>6 DEF Rows, RowStatus, LiveStatus
  <2> QED BY <2>3, <2>4, <2>7
<1>4. \A t \in Sessions : session'[t].parent = session[t].parent
  <2>1. \A t \in Sessions : session[t] \in SessionRow
    BY DEF References, TypeOK
  <2> QED BY <1>2, <2>1 DEF SessionRow
<1>5. \A t \in There' : t \in There /\ t \in Sessions /\ t \notin ids /\ session'[t] = session[t]
  BY <1>2, <1>3 DEF There
<1>6. \A r \in Rows' : r \in Rows /\ r \in Runs /\ run[r].session \notin ids /\ run'[r] = run[r]
  BY <1>1, <1>2, <1>3 DEF Rows
<1>7. ASSUME NEW t \in There', NEW k, Names(t, k) PROVE Names(t, k)'
  <2>1. CASE k = None
    BY <2>1 DEF Names
  <2>2. CASE k \in Rows /\ run[k].session \in Line(t)
    <3>1. run[k].session \notin ids
      <4>1. CASE run[k].session = t
        BY <1>5, <4>1
      <4>2. CASE run[k].session \in Ancestors(t)
        <5>1. \E c \in There : session[c].parent = run[k].session
          BY <1>5, <4>2, AncestorHasChild DEF References, TablesHold
        <5> QED BY <1>1, <5>1
      <4> QED BY <2>2, <4>1, <4>2 DEF Line
    <3>2. k \in Rows' /\ run'[k] = run[k]
      BY <1>3, <1>6, <2>2, <3>1
    <3>3. Line(t) \subseteq Line(t)'
      BY <1>4, <1>5, LineGrows
    <3> QED BY <2>2, <3>2, <3>3 DEF Names
  <2> QED BY <1>7, <2>1, <2>2 DEF Names
<1>8. Parentage'
  <2>1. ASSUME NEW t \in Sessions, session'[t].row = "none" PROVE session'[t] = session[t]
    BY <1>1, <1>2, <2>1 DEF There, References, TypeOK, SessionRow
  <2>2. \A t \in There' : session'[t].parent \in There' \union {None}
    BY <1>1, <1>3, <1>5 DEF References, TablesHold, Parentage
  <2> QED BY <2>1, <2>2 DEF References, TablesHold, Parentage
<1>9. SessionsHold'
  <2>1. ASSUME NEW t \in There'
        PROVE  /\ (Names(t, session[t].head) /\ Names(t, session[t].success))'
               /\ session'[t].active \in LiveOf(t)' \union {None, SESSION_PRUNE_CLAIM}
    <3>1. Names(t, session[t].head) /\ Names(t, session[t].success)
      BY <1>5 DEF References, TablesHold, SessionsHold
    <3>2. (Names(t, session[t].head) /\ Names(t, session[t].success))'
      BY <1>5, <1>7, <3>1
    <3>3. LiveOf(t) \subseteq LiveOf(t)'
      BY <1>1, <1>2, <1>5 DEF LiveOf, Live
    <3> QED BY <1>5, <3>2, <3>3 DEF References, TablesHold, SessionsHold
  <2> QED BY <2>1 DEF SessionsHold
<1>10. RunsHold'
  <2>1. ASSUME NEW r \in Rows'
        PROVE  run'[r].session \in There' /\ Names(run[r].session, run[r].restore)'
    <3>1. /\ run[r].session \in There /\ run[r].session \notin ids
          /\ Names(run[r].session, run[r].restore)
      BY <1>6 DEF References, TablesHold, RunsHold
    <3> QED BY <1>3, <1>6, <1>7, <3>1
  <2> QED BY <2>1 DEF RunsHold
<1>11. ClaimsClosed'
  <2>1. ASSUME NEW c \in Claimed' PROVE Closed(c)'
    <3>1. c \in Claimed /\ Closed(c)
      BY <1>3 DEF References, TablesHold, ClaimsClosed
    <3>2. LiveOf(c)' = {}
      <4>1. \A r \in Live' : r \in Live /\ run'[r] = run[r]
        BY <1>6 DEF Live, Rows, RowStatus
      <4> QED BY <3>1, <4>1 DEF Closed, LiveOf
    <3> QED BY <1>2, <1>5, <3>1, <3>2 DEF Closed
  <2>2. scheduled' \subseteq There'
    BY <1>1, <1>2, <1>3 DEF References, TablesHold, ClaimsClosed
  <2> QED BY <2>1, <2>2 DEF ClaimsClosed
<1> QED BY <1>2, <1>8, <1>9, <1>10, <1>11 DEF References, TablesHold, Deleting

LEMMA PruneKeeps ==
    ASSUME References, TypeOK', PruneStep
    PROVE  References'
<1>1. CASE Tick
  BY <1>1, TickKeeps
<1>2. CASE ClaimSessions
  BY <1>2, ClaimSessionsKeeps
<1>3. CASE CleanupSandboxes
  <2>1. UNCHANGED <<session, run, scheduled>>
    BY <1>3 DEF CleanupSandboxes, tables
  <2>2. pruner'.at = "delete" =>
          /\ pruner'.ids \subseteq Claimed
          /\ pruner'.runs = {r \in Rows : run[r].session \in pruner'.ids}
    BY <1>3 DEF CleanupSandboxes, Goes
  <2>3. Claimed' = Claimed /\ Rows' = Rows
    BY <2>1 DEF Claimed, There, Rows
  <2>4. Deleting'
    BY <2>1, <2>2, <2>3 DEF Deleting
  <2> QED BY <2>1, <2>4, TablesUnchanged DEF References
<1>4. CASE DeleteSessions
  BY <1>4, DeleteKeeps
<1>5. CASE EraseRuns \/ LoadSessions \/ LoadRuns \/ PruneRunStore \/ PruneOrphans
  <2>1. UNCHANGED <<session, run, scheduled>> /\ pruner'.at # "delete"
    BY <1>5 DEF EraseRuns, LoadSessions, LoadRuns, PruneRunStore, PruneOrphans, Goes, Idle, tables
  <2> QED BY <2>1, TablesUnchanged DEF References, Deleting
<1> QED BY <1>1, <1>2, <1>3, <1>4, <1>5 DEF PruneStep

LEMMA TypesStep == References /\ [Next]_vars => TypeOK'
<1>1. SUFFICES ASSUME References, Next PROVE TypeOK'
  BY DEF vars, tables, history, References, TypeOK
<1>2. CASE \E s \in Sessions, r \in Runs :
              \/ \E p \in Sessions \union {None} : Begin(s, p, r)
              \/ \E k \in RunId, resets \in BOOLEAN : Create(s, k, resets, r)
  BY <1>1, <1>2, CreateTypes DEF References
<1>3. CASE \E s, p \in Sessions, k \in Runs : Fork(s, p, k)
  BY <1>1, <1>3, ForkTypes DEF References
<1>4. CASE \E s \in Sessions : Schedule(s) \/ Unschedule(s)
  BY <1>1, <1>4 DEF References, TypeOK, Schedule, Unschedule, tables, history
<1>5. CASE \E r \in Runs : ExecuteStep(r)
  <2>1. PICK r \in Runs : ExecuteStep(r)
    BY <1>5
  <2>2. r \in Rows
    BY <2>1 DEF ExecuteStep, ClaimRun, LoadRestorePoint, RestoreRaises, Succeed, Fail, Live, Rows,
                LiveStatus, RowStatus
  <2> QED BY <1>1, <2>1, <2>2, RunTypes DEF References, TablesHold, RunsHold, There
<1>6. CASE PruneStep
  BY <1>1, <1>6, PruneTypes DEF References
<1>7. CASE \E on \in BOOLEAN : \E last \in Lasts : Restart(on, last)
  BY <1>1, <1>7, RestartTypes DEF References
<1> QED BY <1>1, <1>2, <1>3, <1>4, <1>5, <1>6, <1>7 DEF Next

LEMMA ReferencesStep == References /\ [Next]_vars => References'
<1>0. SUFFICES ASSUME References, [Next]_vars PROVE References'
  OBVIOUS
<1>1. TypeOK'
  BY <1>0, TypesStep
<1>2. CASE \E s \in Sessions, r \in Runs :
              \/ \E p \in Sessions \union {None} : Begin(s, p, r)
              \/ \E k \in RunId, resets \in BOOLEAN : Create(s, k, resets, r)
  BY <1>0, <1>1, <1>2, BeginKeeps, CreateKeeps
<1>3. CASE \E s, p \in Sessions, k \in Runs : Fork(s, p, k)
  BY <1>0, <1>1, <1>3, ForkKeeps
<1>4. CASE \E s \in Sessions : Schedule(s) \/ Unschedule(s)
  <2>1. /\ UNCHANGED <<session, run, pruner>>
        /\ scheduled' \subseteq scheduled \union (There \ Claimed)
    BY <1>4 DEF Schedule, Unschedule, Referable, tables
  <2>2. Claimed' = Claimed /\ Rows' = Rows
    BY <2>1 DEF Claimed, There, Rows
  <2>3. Deleting'
    BY <1>0, <2>1, <2>2, DeletingStays DEF References
  <2> QED BY <1>0, <1>1, <2>1, <2>3, TablesUnchanged DEF References
<1>5. CASE \E r \in Runs : ExecuteStep(r)
  BY <1>0, <1>1, <1>5, ExecuteKeeps
<1>6. CASE PruneStep
  BY <1>0, <1>1, <1>6, PruneKeeps
<1>7. CASE \E on \in BOOLEAN : \E last \in Lasts : Restart(on, last)
  BY <1>0, <1>1, <1>7, RestartKeeps
<1>8. CASE UNCHANGED vars
  <2>1. UNCHANGED <<session, run, scheduled, pruner>>
    BY <1>8 DEF vars, tables
  <2>2. Claimed' = Claimed /\ Rows' = Rows
    BY <2>1 DEF Claimed, There, Rows
  <2>3. Deleting'
    BY <1>0, <2>1, <2>2, DeletingStays DEF References
  <2> QED BY <1>0, <1>1, <2>1, <2>3, TablesUnchanged DEF References
<1> QED BY <1>0, <1>2, <1>3, <1>4, <1>5, <1>6, <1>7, <1>8 DEF Next

LEMMA ReferencesInit == Init => References
BY InitTypes
   DEF Init, References, TablesHold, Parentage, SessionsHold, RunsHold, ClaimsClosed, Deleting,
       There, Claimed, Rows, RowStatus, LiveStatus, Idle

LEMMA ReferencesAlways == Spec => []References
BY ReferencesInit, ReferencesStep, PTL DEF Spec

\* Every variable keeps its type: what the loop works on are sessions and runs, and
\* active_run_id is a run, nothing or the claim (prune_once, claim_run).
THEOREM TypesHold == Spec => []TypeOK
<1>1. References => TypeOK
  BY DEF References
<1> QED BY <1>1, ReferencesAlways, PTL

\* No schedule, fork, head, success or restore source names a row that was
\* deleted, however the claim of a session, the check of what refers to it, its
\* deletion and a loss of the process fall between the transactions of others
\* (_claim_sessions_for_prune, lock_session_reference).
THEOREM ReferencesKept == Spec => []ReferencesHold
BY ReferencesAlways, ReferencesSuffice, PTL
-----------------------------------------------------------------------------
(* What a session goes on from keeps its files *)

Excused == {None} \union named \union missed
Successes == {session[s].success : s \in There}

\* What the loop has read, or is about to delete, between its steps.
Reading ==
    /\ pruner.at = "erase" => \A r \in pruner.runs : run[r].status = "gone"
    /\ pruner.at = "runs" =>
          /\ Successes \subseteq pruner.runs \union Excused
          /\ \A r \in Live : \/ run[r].restore \in pruner.runs \union Excused
                             \/ run[r].session \in pruner.ids
    /\ pruner.at = "store" => pruner.runs \intersect Continuations \subseteq Excused

Restores == References /\ ContinuationKept /\ Reading

LEMMA ContinuationsAreRows ==
    ASSUME References
    PROVE  /\ Continuations \subseteq Rows \union {None}
           /\ Successes \subseteq Continuations
           /\ \A r \in Live : run[r].restore \in Continuations
<1>1. \A s \in There : session[s].success \in Rows \union {None}
  BY DEF References, TablesHold, SessionsHold, Names
<1>2. Live \subseteq Rows
  BY RowsTypes DEF References
<1>3. \A r \in Live : run[r].restore \in Rows \union {None}
  BY <1>2 DEF References, TablesHold, RunsHold, Names
<1> QED BY <1>1, <1>3 DEF Continuations, Successes

\* A step of others: what it goes on from is what a session went on from before,
\* what a client has named, or a run that has its files and that the loop knew.
LEMMA OthersStep ==
    ASSUME Restores, UNCHANGED pruner, saved \subseteq saved',
           named \subseteq named', missed \subseteq missed',
           \A q \in Runs : run[q].status = "gone" => run'[q].status = "gone",
           \A s \in There' :
               \/ session'[s].success \in Successes \union Excused'
               \/ /\ session'[s].success \in saved'
                  /\ pruner.at = "runs" => session'[s].success \in pruner.runs
                  /\ pruner.at = "store" => session'[s].success \notin pruner.runs,
           \A q \in Live' :
               \/ run'[q].restore \in Successes \union Excused'
               \/ /\ q \in Live /\ run'[q].session = run[q].session
                  /\ run'[q].restore = run[q].restore
    PROVE  ContinuationKept' /\ Reading'
<1>1. Excused \subseteq Excused'
  BY DEF Excused
<1>2. /\ \A k \in Continuations : k \in Excused \/ k \in saved
      /\ Successes \subseteq Continuations
      /\ \A q \in Live : run[q].restore \in Continuations
  BY ContinuationsAreRows DEF Restores, ContinuationKept, Excused
<1>3. ASSUME NEW k \in Continuations'
      PROVE  \/ k \in Continuations
             \/ k \in Excused'
             \/ /\ k \in saved'
                /\ pruner.at = "store" => k \notin pruner.runs
  <2>1. CASE \E s \in There' : k = session'[s].success
    BY <1>2, <2>1
  <2>2. CASE \E q \in Live' : k = run'[q].restore
    BY <1>2, <2>2
  <2> QED BY <1>3, <2>1, <2>2 DEF Continuations
<1>4. ContinuationKept'
  BY <1>1, <1>2, <1>3 DEF ContinuationKept, Excused
<1>5. pruner'.at = "erase" => \A r \in pruner'.runs : run'[r].status = "gone"
  BY DEF Restores, Reading, References, TypeOK
<1>6. ASSUME pruner'.at = "runs"
      PROVE  /\ Successes' \subseteq pruner'.runs \union Excused'
             /\ \A r \in Live' : \/ run'[r].restore \in pruner'.runs \union Excused'
                                 \/ run'[r].session \in pruner'.ids
  <2>1. /\ Successes \subseteq pruner.runs \union Excused
        /\ \A r \in Live : \/ run[r].restore \in pruner.runs \union Excused
                           \/ run[r].session \in pruner.ids
    BY <1>6 DEF Restores, Reading
  <2>2. \A s \in There' : session'[s].success \in pruner'.runs \union Excused'
    BY <1>1, <1>6, <2>1
  <2>3. Successes' \subseteq pruner'.runs \union Excused'
    BY <2>2 DEF Successes
  <2> QED BY <1>1, <2>1, <2>3
<1>7. ASSUME pruner'.at = "store"
      PROVE  pruner'.runs \intersect Continuations' \subseteq Excused'
  <2>1. pruner.runs \intersect Continuations \subseteq Excused
    BY <1>7 DEF Restores, Reading
  <2> QED BY <1>1, <1>3, <1>7, <2>1
<1> QED BY <1>4, <1>5, <1>6, <1>7 DEF Reading

LEMMA CreatingContinues ==
    ASSUME Restores, NEW s \in Sessions, NEW r \in Runs,
           \/ \E p \in Sessions \union {None} : Begin(s, p, r)
           \/ \E k \in RunId, resets \in BOOLEAN : Create(s, k, resets, r)
    PROVE  ContinuationKept' /\ Reading'
<1>1. \A t \in There : session[t].success \in Successes
  BY DEF Successes
<1>2. ASSUME NEW p \in Sessions \union {None}, Begin(s, p, r) PROVE ContinuationKept' /\ Reading'
  <2>1. /\ UNCHANGED <<pruner, saved, named, missed>> /\ run[r].status = "none"
        /\ \A q \in Runs : q # r => run'[q] = run[q]
        /\ run'[r] = Queued(s, None, p # None)
        /\ \A t \in Sessions : t # s => session'[t] = session[t]
        /\ session'[s].success = None
    BY <1>2 DEF Begin, IsNext, history, Restores, References, TypeOK
  <2>2. run'[r].status = "queued" /\ run'[r].restore = None
    BY <2>1 DEF Queued
  <2>3. \A q \in Live' : q = r \/ (q \in Live /\ run'[q] = run[q])
    BY <2>1 DEF Live
  <2>4. \A t \in There' : t = s \/ (t \in There /\ session'[t] = session[t])
    BY <2>1 DEF There
  <2> QED BY <1>1, <2>1, <2>2, <2>3, <2>4, OthersStep DEF Excused
<1>3. ASSUME NEW k \in RunId, NEW resets \in BOOLEAN, Create(s, k, resets, r)
      PROVE  ContinuationKept' /\ Reading'
  <2>1. /\ UNCHANGED <<pruner, saved, missed>> /\ run[r].status = "none" /\ s \in There
        /\ \A q \in Runs : q # r => run'[q] = run[q]
        /\ run'[r] = Queued(s, k, resets)
        /\ \A t \in Sessions : session'[t].success = session[t].success
                               /\ session'[t].row = session[t].row
        /\ named' = IF k \in {None, session[s].success} THEN named ELSE named \union {k}
    BY <1>3 DEF Create, Free, GoesBack, IsNext, history, Restores, References, TypeOK, SessionRow
  <2>2. run'[r].status = "queued" /\ run'[r].restore = k
    BY <2>1 DEF Queued
  <2>3. k \in Successes \union Excused'
    BY <1>1, <2>1 DEF Excused
  <2>4. \A q \in Live' : q = r \/ (q \in Live /\ run'[q] = run[q])
    BY <2>1 DEF Live
  <2>5. \A t \in There' : t \in There /\ session'[t].success = session[t].success
    BY <2>1 DEF There
  <2>6. \A q \in Runs : run[q].status = "gone" => run'[q].status = "gone"
    BY <2>1
  <2> QED BY <1>1, <2>1, <2>2, <2>3, <2>4, <2>5, <2>6, OthersStep
<1> QED BY <1>2, <1>3

LEMMA ForkContinues ==
    ASSUME Restores, NEW s \in Sessions, NEW p \in Sessions, NEW k \in Runs, Fork(s, p, k)
    PROVE  ContinuationKept' /\ Reading'
<1>1. /\ UNCHANGED <<pruner, saved, missed, run>> /\ p \in There
      /\ \A t \in Sessions : t # s => session'[t] = session[t]
      /\ session'[s].success \in {k, session[p].success}
      /\ named' = IF k \in {None, session[p].success} THEN named ELSE named \union {k}
  BY DEF Fork, Referable, GoesBack, Restores, References, TypeOK
<1>2. \A t \in There : session[t].success \in Successes
  BY DEF Successes
<1>3. session'[s].success \in Successes \union Excused'
  BY <1>1, <1>2 DEF Excused
<1>4. \A t \in There' : t = s \/ (t \in There /\ session'[t] = session[t])
  BY <1>1 DEF There
<1>5. Live' = Live
  BY <1>1 DEF Live
<1>6. named \subseteq named'
  BY <1>1
<1> QED BY <1>1, <1>2, <1>3, <1>4, <1>5, <1>6, OthersStep

LEMMA ExecuteContinues ==
    ASSUME Restores, NEW r \in Runs, ExecuteStep(r)
    PROVE  ContinuationKept' /\ Reading'
<1>0. r \in Live
  BY DEF ExecuteStep, ClaimRun, LoadRestorePoint, RestoreRaises, Succeed, Fail, Live, LiveStatus
<1>1. /\ \A q \in Runs : /\ run'[q].session = run[q].session /\ run'[q].restore = run[q].restore
                         /\ q # r => run'[q] = run[q]
      /\ UNCHANGED <<pruner, named>>
      /\ \A t \in Sessions : session'[t].row = session[t].row
  <2> USE DEF Restores, References, TypeOK, RunRow, SessionRow
  <2>1. CASE ClaimRun(r)
    BY <2>1 DEF ClaimRun, history
  <2>2. CASE LoadRestorePoint(r)
    BY <2>2 DEF LoadRestorePoint, history
  <2>3. CASE RestoreRaises(r) \/ Fail(r)
    BY <2>3 DEF RestoreRaises, Fail, FailedRun, FailedSession, history
  <2>4. CASE Succeed(r)
    BY <2>4 DEF Succeed
  <2> QED BY <2>1, <2>2, <2>3, <2>4 DEF ExecuteStep
<1>2. /\ saved \subseteq saved' /\ missed \subseteq missed'
      /\ \A t \in Sessions :
            \/ session'[t].success = session[t].success
            \/ /\ session'[t].success = r /\ r \in saved'
               /\ r \in missed' \/ ~Overlooked(r)
  <2> USE DEF Restores, References, TypeOK, SessionRow
  <2>1. CASE ClaimRun(r)
    BY <2>1 DEF ClaimRun, history
  <2>2. CASE LoadRestorePoint(r)
    BY <2>2 DEF LoadRestorePoint, history
  <2>3. CASE RestoreRaises(r) \/ Fail(r)
    BY <2>3 DEF RestoreRaises, Fail, FailedSession, history
  <2>4. CASE Succeed(r)
    BY <2>4 DEF Succeed
  <2> QED BY <2>1, <2>2, <2>3, <2>4 DEF ExecuteStep
<1>3. \A t \in There' : t \in There /\ t \in Sessions /\ session[t].success \in Successes
  BY <1>1 DEF There, Successes
<1>4. \A q \in Live' : q \in Live
  BY <1>0, <1>1 DEF Live
<1>5. \A q \in Runs : run[q].status = "gone" => run'[q].status = "gone"
  BY <1>0, <1>1 DEF Live, LiveStatus
<1>6. \A q \in Live' : q \in Runs
  BY DEF Live
<1> QED
  BY <1>1, <1>2, <1>3, <1>4, <1>5, <1>6, OthersStep DEF Overlooked, Excused

\* A step after which no more is gone on from, and the same files are there.
LEMMA FewerContinuations ==
    ASSUME Restores, UNCHANGED <<saved, named, missed>>, Continuations' \subseteq Continuations
    PROVE  ContinuationKept'
BY DEF Restores, ContinuationKept

\* Steps of the loop that read rows only.
LEMMA TablesRead ==
    ASSUME UNCHANGED <<session, run, named, missed>>
    PROVE  /\ Continuations' = Continuations /\ Excused' = Excused /\ Successes' = Successes
           /\ Rows' = Rows /\ Live' = Live /\ There' = There
BY DEF Continuations, Excused, Successes, Rows, Live, There

LEMMA ProtectedOnes ==
    ASSUME NEW known, NEW heads
    PROVE  /\ heads \subseteq ProtectedRuns(known, heads)
           /\ \A r \in Live : run[r].session \in known /\ run[r].restore # None =>
                  run[r].restore \in ProtectedRuns(known, heads)
<1>1. heads \subseteq ProtectedRuns(known, heads)
  BY DEF ProtectedRuns
<1>2. ASSUME NEW r \in Live, run[r].session \in known, run[r].restore # None
      PROVE  run[r].restore \in ProtectedRuns(known, heads)
  <2>1. r \in UNION {LiveOf(s) : s \in known} /\ r \in Rows
    BY <1>2 DEF LiveOf, Live, Rows, RowStatus
  <2>2. run[r].restore \in RestoredBy(UNION {LiveOf(s) : s \in known})
    BY <1>2, <2>1 DEF RestoredBy
  <2> QED BY <2>2 DEF ProtectedRuns
<1> QED BY <1>1, <1>2

LEMMA PruneContinues ==
    ASSUME Restores, PruneStep
    PROVE  ContinuationKept' /\ Reading'
<1>1. CASE Tick \/ ClaimSessions
  <2>1. /\ UNCHANGED <<run, saved, named, missed>>
        /\ pruner'.at \notin {"erase", "runs", "store"}
    BY <1>1 DEF Tick, ClaimSessions, GoesUnlessDone, Goes, history
  <2>2. \A t \in Sessions : /\ session'[t].row = session[t].row
                            /\ session'[t].success = session[t].success
    <3>1. \A t \in Sessions : session[t] \in SessionRow
      BY DEF Restores, References, TypeOK
    <3>2. \A t \in Sessions : \/ session'[t] = session[t]
                              \/ session'[t] = [session[t] EXCEPT !.active = None]
                              \/ session'[t] = [session[t] EXCEPT !.active = SESSION_PRUNE_CLAIM]
      BY <1>1 DEF Tick, ClaimSessions, Released
    <3> QED BY <3>1, <3>2 DEF SessionRow
  <2>3. Continuations' = Continuations
    BY <2>1, <2>2 DEF Continuations, There, Live
  <2> QED BY <2>1, <2>3, FewerContinuations DEF Reading
<1>2. CASE CleanupSandboxes
  <2>1. UNCHANGED <<session, run, saved, named, missed>> /\ pruner'.at \in {"sessions", "delete"}
    BY <1>2 DEF CleanupSandboxes, Goes, tables, history
  <2> QED BY <2>1, FewerContinuations, TablesRead DEF Reading
<1>3. CASE DeleteSessions
  <2>1. UNCHANGED <<saved, named, missed>> /\ pruner'.at = "erase" /\ pruner'.runs = pruner.runs
    BY <1>3 DEF DeleteSessions, Goes, history
  <2>2. \A r \in Runs :
          run'[r] = IF r \in pruner.runs THEN [run[r] EXCEPT !.status = "gone"] ELSE run[r]
    BY <1>3 DEF DeleteSessions
  <2>3. \A t \in Sessions : \/ session'[t] = [session[t] EXCEPT !.row = "gone"]
                            \/ session'[t] = [session[t] EXCEPT !.parent = None]
                            \/ session'[t] = session[t]
    BY <1>3 DEF DeleteSessions
  <2>4. /\ \A r \in Runs : run[r] \in RunRow
        /\ \A t \in Sessions : session[t] \in SessionRow
        /\ pruner.runs \subseteq Runs
    BY DEF Restores, References, TypeOK
  <2>5. \A r \in pruner.runs : run'[r].status = "gone"
    BY <2>2, <2>4 DEF RunRow
  <2>6. \A r \in Live' : r \in Live /\ run'[r] = run[r]
    BY <2>2, <2>5 DEF Live, LiveStatus
  <2>7. \A t \in There' : t \in There /\ session'[t].success = session[t].success
    BY <2>3, <2>4 DEF There, SessionRow
  <2>8. Continuations' \subseteq Continuations
    BY <2>6, <2>7 DEF Continuations
  <2> QED BY <2>1, <2>5, <2>8, FewerContinuations DEF Reading
<1>4. CASE EraseRuns
  <2>1. /\ UNCHANGED <<session, run, named, missed>> /\ pruner'.at = "sessions"
        /\ saved' = saved \ pruner.runs /\ pruner.at = "erase"
    BY <1>4 DEF EraseRuns, Goes, tables, history
  <2>2. \A r \in pruner.runs : r \notin Rows /\ r # None
    BY <2>1, PruneAssumption
       DEF Restores, References, TypeOK, Reading, Rows, RowStatus, LiveStatus
  <2>3. Continuations \subseteq Rows \union {None}
    BY ContinuationsAreRows DEF Restores
  <2> QED BY <2>1, <2>2, <2>3, TablesRead DEF Restores, ContinuationKept, Reading
<1>5. CASE LoadSessions
  <2>1. /\ UNCHANGED <<session, run, saved, named, missed>>
        /\ pruner' = [at |-> "runs", ids |-> There, runs |-> UNION {SessionHeads(s) : s \in There}]
    BY <1>5 DEF LoadSessions, Goes, tables, history
  <2>2. \A s \in There : session[s].success \in SessionHeads(s) \union {None}
    BY DEF SessionHeads, There, Restores, References, TypeOK, SessionRow, RunId
  <2>3. Successes \subseteq pruner'.runs \union Excused
    BY <2>1, <2>2 DEF Successes, Excused
  <2>4. \A r \in Live : run[r].session \in There
    BY RowsTypes DEF Restores, References, TablesHold, RunsHold
  <2> QED BY <2>1, <2>3, <2>4, FewerContinuations, TablesRead DEF Reading
<1>6. CASE LoadRuns
  <2>1. /\ UNCHANGED <<session, run, saved, named, missed>> /\ pruner.at = "runs"
        /\ pruner' = [at |-> "store", ids |-> {}, runs |-> PrunableRuns(pruner.ids, pruner.runs)]
    BY <1>6 DEF LoadRuns, Goes, tables, history
  <2>2. PrunableRuns(pruner.ids, pruner.runs) \intersect ProtectedRuns(pruner.ids, pruner.runs) = {}
    BY DEF PrunableRuns
  <2>3. /\ Successes \subseteq pruner.runs \union Excused
        /\ \A r \in Live : \/ run[r].restore \in pruner.runs \union Excused
                           \/ run[r].session \in pruner.ids
    BY <2>1 DEF Restores, Reading
  <2>4. ASSUME NEW k \in Continuations, k \notin Excused
        PROVE  k \in ProtectedRuns(pruner.ids, pruner.runs)
    <3>1. CASE k \in Successes
      BY <2>3, <2>4, <3>1, ProtectedOnes
    <3>2. CASE \E r \in Live : k = run[r].restore
      BY <2>3, <2>4, <3>2, ProtectedOnes DEF Excused
    <3> QED BY <3>1, <3>2 DEF Continuations, Successes
  <2>5. pruner'.runs \intersect Continuations \subseteq Excused
    BY <2>1, <2>2, <2>4
  <2> QED BY <2>1, <2>5, FewerContinuations, TablesRead DEF Reading
<1>7. CASE PruneRunStore
  <2>1. /\ UNCHANGED <<session, run, named, missed>> /\ pruner'.at = "orphans"
        /\ saved' = saved \ pruner.runs /\ pruner.at = "store"
    BY <1>7 DEF PruneRunStore, Goes, tables, history
  <2>2. pruner.runs \intersect Continuations \subseteq Excused
    BY <2>1 DEF Restores, Reading
  <2> QED BY <2>1, <2>2, TablesRead DEF Restores, ContinuationKept, Reading, Excused
<1>8. CASE PruneOrphans
  <2>1. /\ UNCHANGED <<session, run, named, missed>> /\ pruner'.at = "idle"
        /\ saved' = saved \ (pruner.runs \ Rows)
    BY <1>8 DEF PruneOrphans, Idle, tables, history
  <2>2. Continuations \subseteq Rows \union {None}
    BY ContinuationsAreRows DEF Restores
  <2> QED BY <2>1, <2>2, TablesRead DEF Restores, ContinuationKept, Reading
<1> QED BY <1>1, <1>2, <1>3, <1>4, <1>5, <1>6, <1>7, <1>8 DEF PruneStep

LEMMA RestartContinues ==
    ASSUME Restores, NEW on \in BOOLEAN, NEW last \in Lasts, Restart(on, last)
    PROVE  ContinuationKept' /\ Reading'
<1>1. pruner' = Idle /\ UNCHANGED <<saved, named, missed>>
  BY RestartFields DEF Restores, References
<1>2. \A t \in Sessions : session'[t].row = session[t].row /\ session'[t].success = session[t].success
  <2>1. \A t \in Sessions :
           session'[t] = [session[t] EXCEPT !.head = RecoveredHead(t, last),
                                            !.active = RestartedActive(t, on)]
    BY RestartFields, ZenonT(30) DEF Restores, References
  <2>2. \A t \in Sessions : session[t] \in SessionRow
    BY DEF Restores, References, TypeOK
  <2> QED BY <2>1, <2>2 DEF SessionRow
<1>3. \A q \in Runs : q \in Live' => q \in Live /\ run'[q] = run[q]
  <2>1. \A q \in Runs :
          run'[q] = IF q \in Orphaned THEN [run[q] EXCEPT !.status = "failed"] ELSE run[q]
    BY RestartFields DEF Restores, References
  <2>2. \A q \in Runs : [run[q] EXCEPT !.status = "failed"].status = "failed"
    BY DEF Restores, References, TypeOK, RunRow
  <2> QED BY <2>1, <2>2 DEF Live, LiveStatus
<1>4. Continuations' \subseteq Continuations
  BY <1>2, <1>3 DEF Continuations, There, Live
<1> QED BY <1>1, <1>4, FewerContinuations DEF Reading, Idle

LEMMA RestoresStep == Restores /\ [Next]_vars => Restores'
<1>0. SUFFICES ASSUME Restores, [Next]_vars PROVE Restores'
  OBVIOUS
<1>1. References'
  BY <1>0, ReferencesStep DEF Restores
<1>2. CASE \E s \in Sessions, r \in Runs :
              \/ \E p \in Sessions \union {None} : Begin(s, p, r)
              \/ \E k \in RunId, resets \in BOOLEAN : Create(s, k, resets, r)
  BY <1>0, <1>1, <1>2, CreatingContinues DEF Restores
<1>3. CASE \E s, p \in Sessions, k \in Runs : Fork(s, p, k)
  BY <1>0, <1>1, <1>3, ForkContinues DEF Restores
<1>4. CASE (\E s \in Sessions : Schedule(s) \/ Unschedule(s)) \/ UNCHANGED vars
  <2>1. UNCHANGED <<session, run, pruner, saved, named, missed>>
    BY <1>4 DEF Schedule, Unschedule, tables, history, vars
  <2> QED BY <1>0, <1>1, <2>1, FewerContinuations, TablesRead DEF Restores, Reading
<1>5. CASE \E r \in Runs : ExecuteStep(r)
  BY <1>0, <1>1, <1>5, ExecuteContinues DEF Restores
<1>6. CASE PruneStep
  BY <1>0, <1>1, <1>6, PruneContinues DEF Restores
<1>7. CASE \E on \in BOOLEAN : \E last \in Lasts : Restart(on, last)
  BY <1>0, <1>1, <1>7, RestartContinues DEF Restores
<1> QED BY <1>0, <1>2, <1>3, <1>4, <1>5, <1>6, <1>7 DEF Next

LEMMA RestoresInit == Init => Restores
BY ReferencesInit
   DEF Init, Restores, ContinuationKept, Reading, Continuations, There, Live, LiveStatus, Idle

\* The loop deletes no directory that a session, or a run that waits, goes on
\* from, although it reads the sessions and the runs at two moments and deletes
\* later, and others commit in between (_select_prunable_run_ids).
THEOREM ContinuationsKept == Spec => []ContinuationKept
<1>1. Init => Restores
  BY RestoresInit
<1>2. Restores => ContinuationKept
  BY DEF Restores
<1> QED BY <1>1, <1>2, RestoresStep, PTL DEF Spec

-----------------------------------------------------------------------------
(* What a deletion takes with it *)

\* Between the claim of a session and its deletion nobody comes to use it.
ClaimedIsClosed == \A s \in Claimed : Closed(s)

\* A session goes claimed and closed, with all of its runs, and no run goes alone.
DeletionIsWhole ==
    /\ \A s \in There \ There' : /\ s \in Claimed /\ Closed(s)
                                 /\ \A r \in RowsOf(s) : r \notin Rows'
    /\ \A r \in Rows \ Rows' : run[r].session \in There \ There'

\* Until the process is lost, a directory has its row, or is about to be erased.
DirectoriesHaveRows ==
    losses = 0 => \A r \in saved : r \in Rows \/ (pruner.at = "erase" /\ r \in pruner.runs)

\* No other step takes a row away, or leaves a directory that has none.
LEMMA RowsStay ==
    ASSUME References, [Next]_vars, ~DeleteSessions
    PROVE  /\ There \subseteq There' /\ Rows \subseteq Rows'
           /\ saved' \subseteq saved \union Rows'
           /\ \/ losses' > 0
              \/ /\ losses' = losses
                 /\ pruner.at = "erase" => pruner' = pruner \/ saved' = saved \ pruner.runs
<1>0. /\ TypeOK /\ losses \in Nat
      /\ \A s \in Sessions : session[s] \in SessionRow
      /\ \A r \in Runs : run[r] \in RunRow
  BY PruneAssumption DEF References, TypeOK
<1>1. ASSUME \A s \in Sessions : session[s].row = "there" => session'[s].row = "there",
             \A r \in Runs : run[r].status \in RowStatus => run'[r].status \in RowStatus,
             saved' \subseteq saved,
             pruner.at = "erase" => pruner' = pruner \/ saved' = saved \ pruner.runs,
             losses' = losses
      PROVE  /\ There \subseteq There' /\ Rows \subseteq Rows'
             /\ saved' \subseteq saved \union Rows'
             /\ \/ losses' > 0
                \/ /\ losses' = losses
                   /\ pruner.at = "erase" => pruner' = pruner \/ saved' = saved \ pruner.runs
  BY <1>1 DEF There, Rows
<1>2. ASSUME NEW s \in Sessions, NEW r \in Runs, NEW p \in Sessions \union {None}, Begin(s, p, r)
      PROVE  /\ \A t \in Sessions : session[t].row = "there" => session'[t].row = "there"
             /\ \A q \in Runs : run[q].status \in RowStatus => run'[q].status \in RowStatus
  BY <1>0, <1>2 DEF Begin, IsNext, TypeOK, RowStatus, LiveStatus
<1>3. ASSUME NEW s \in Sessions, NEW r \in Runs, NEW k \in RunId, NEW resets \in BOOLEAN,
             Create(s, k, resets, r)
      PROVE  /\ \A t \in Sessions : session[t].row = "there" => session'[t].row = "there"
             /\ \A q \in Runs : run[q].status \in RowStatus => run'[q].status \in RowStatus
  BY <1>0, <1>3 DEF Create, IsNext, TypeOK, RowStatus, LiveStatus, SessionRow
<1>4. CASE \E s \in Sessions, r \in Runs :
              \/ \E p \in Sessions \union {None} : Begin(s, p, r)
              \/ \E k \in RunId, resets \in BOOLEAN : Create(s, k, resets, r)
  <2>1. UNCHANGED <<saved, pruner, losses>>
    BY <1>4 DEF Begin, Create
  <2> QED BY <1>1, <1>2, <1>3, <1>4, <2>1
<1>5. CASE \E s, p \in Sessions, k \in Runs : Fork(s, p, k)
  <2>1. PICK s \in Sessions, p \in Sessions, k \in Runs : Fork(s, p, k)
    BY <1>5
  <2>2. UNCHANGED <<run, saved, pruner, losses>>
    BY <2>1 DEF Fork
  <2>3. \A t \in Sessions : session[t].row = "there" => session'[t].row = "there"
    BY <1>0, <2>1 DEF Fork, TypeOK
  <2> QED BY <1>1, <2>2, <2>3
<1>6. CASE (\E s \in Sessions : Schedule(s) \/ Unschedule(s)) \/ UNCHANGED vars
  <2>1. UNCHANGED <<session, run, saved, pruner, losses>>
    BY <1>6 DEF Schedule, Unschedule, tables, vars
  <2> QED BY <1>1, <2>1
<1>7. CASE \E r \in Runs : ExecuteStep(r)
  <2>1. PICK r \in Runs : ExecuteStep(r)
    BY <1>7
  <2>2. UNCHANGED <<pruner, losses>>
    BY <2>1 DEF ExecuteStep, ClaimRun, LoadRestorePoint, RestoreRaises, Succeed, Fail
  <2>3. /\ \A q \in Runs : run[q].status \in RowStatus => run'[q].status \in RowStatus
        /\ \A t \in Sessions : session'[t].row = session[t].row
        /\ saved' \subseteq saved \union {q \in Runs : run'[q].status \in RowStatus}
    <3> USE <1>0 DEF TypeOK, RunRow, SessionRow, RowStatus, LiveStatus
    <3>1. CASE ClaimRun(r)
      BY <3>1 DEF ClaimRun
    <3>2. CASE LoadRestorePoint(r)
      BY <3>2 DEF LoadRestorePoint
    <3>3. CASE RestoreRaises(r) \/ Fail(r)
      BY <3>3 DEF RestoreRaises, Fail, FailedRun, FailedSession
    <3>4. CASE Succeed(r)
      BY <3>4 DEF Succeed
    <3> QED BY <2>1, <3>1, <3>2, <3>3, <3>4 DEF ExecuteStep
  <2> QED BY <1>0, <2>2, <2>3 DEF There, Rows
<1>8. CASE Tick \/ ClaimSessions
  <2>1. UNCHANGED <<run, saved, losses>> /\ pruner.at # "erase"
    BY <1>8 DEF Tick, ClaimSessions
  <2>2. \A t \in Sessions : session'[t].row = session[t].row
    <3>1. CASE ClaimSessions
      <4>1. \A t \in Sessions :
              session'[t] \in {session[t], [session[t] EXCEPT !.active = SESSION_PRUNE_CLAIM]}
        BY <3>1 DEF ClaimSessions
      <4> QED BY <1>0, <4>1 DEF SessionRow
    <3>2. CASE Tick
      <4>1. session' = session \/ \E ids : session' = Released(ids)
        BY <3>2, Zenon DEF Tick
      <4>2. ASSUME NEW t \in Sessions, NEW ids, session' = Released(ids)
            PROVE  session'[t] \in {session[t], [session[t] EXCEPT !.active = None]}
        BY <4>2 DEF Released
      <4> QED BY <1>0, <4>1, <4>2 DEF SessionRow
    <3> QED BY <1>8, <3>1, <3>2
  <2> QED BY <1>1, <2>1, <2>2
<1>9. CASE CleanupSandboxes \/ EraseRuns \/ LoadSessions \/ LoadRuns \/ PruneRunStore \/ PruneOrphans
  <2>1. /\ UNCHANGED <<session, run, losses>> /\ saved' \subseteq saved
        /\ pruner.at = "erase" => saved' = saved \ pruner.runs
    BY <1>9 DEF CleanupSandboxes, EraseRuns, LoadSessions, LoadRuns, PruneRunStore, PruneOrphans, tables
  <2> QED BY <1>1, <2>1
<1>10. ASSUME NEW on \in BOOLEAN, NEW last \in Lasts, Restart(on, last)
       PROVE  /\ There \subseteq There' /\ Rows \subseteq Rows'
              /\ saved' \subseteq saved \union Rows' /\ losses' > 0
  <2>1. losses' = losses + 1 /\ UNCHANGED saved
    BY <1>10 DEF Restart
  <2>2. \A q \in Runs :
          run'[q] = IF q \in Orphaned THEN [run[q] EXCEPT !.status = "failed"] ELSE run[q]
    BY <1>10, RestartFields DEF References
  <2>3. \A t \in Sessions :
           session'[t] = [session[t] EXCEPT !.head = RecoveredHead(t, last),
                                            !.active = RestartedActive(t, on)]
    BY <1>10, RestartFields, ZenonT(30) DEF References
  <2>4. /\ \A t \in Sessions : session'[t].row = session[t].row
        /\ \A q \in Runs : run[q].status \in RowStatus => run'[q].status \in RowStatus
    BY <1>0, <2>2, <2>3, ZenonT(30) DEF SessionRow, RunRow, RowStatus
  <2> QED BY <1>0, <2>1, <2>4 DEF There, Rows
<1> QED BY <1>4, <1>5, <1>6, <1>7, <1>8, <1>9, <1>10 DEF Next, PruneStep

\* A deletion takes the sessions that were claimed, and the runs that were read.
LEMMA DeleteTakes ==
    ASSUME References, DeleteSessions
    PROVE  /\ DeletionIsWhole
           /\ \A r \in Rows \ Rows' : r \in pruner.runs
           /\ pruner' = [at |-> "erase", ids |-> {}, runs |-> pruner.runs]
           /\ UNCHANGED <<saved, losses>>
<1>1. /\ pruner.ids \subseteq Claimed
      /\ pruner.runs = {r \in Rows : run[r].session \in pruner.ids}
  BY DEF DeleteSessions, References, Deleting
<1>2. /\ \A s \in Sessions : session[s] \in SessionRow
      /\ \A r \in Runs : run[r] \in RunRow
      /\ Claimed \subseteq There /\ There \subseteq Sessions /\ Rows \subseteq Runs
  BY RowsTypes DEF References, TypeOK
<1>3. ASSUME NEW s \in There, s \notin pruner.ids PROVE s \in There'
  <2>1. session'[s] \in {session[s], [session[s] EXCEPT !.parent = None]}
    BY <1>2, <1>3 DEF DeleteSessions
  <2> QED BY <1>2, <2>1 DEF There, SessionRow
<1>4. ASSUME NEW s \in pruner.ids PROVE s \notin There'
  <2>1. session'[s] = [session[s] EXCEPT !.row = "gone"]
    BY <1>1, <1>2, <1>4 DEF DeleteSessions
  <2> QED BY <1>1, <1>2, <2>1 DEF There, SessionRow
<1>5. ASSUME NEW r \in Rows PROVE r \in Rows' <=> r \notin pruner.runs
  <2>1. run'[r] = IF r \in pruner.runs THEN [run[r] EXCEPT !.status = "gone"] ELSE run[r]
    BY <1>2 DEF DeleteSessions
  <2> QED BY <1>2, <2>1 DEF Rows, RunRow, RowStatus, LiveStatus
<1>6. \A s \in Claimed : Closed(s)
  BY DEF References, TablesHold, ClaimsClosed
<1>7. DeletionIsWhole
  BY <1>1, <1>2, <1>3, <1>4, <1>5, <1>6 DEF DeletionIsWhole, RowsOf
<1> QED BY <1>5, <1>7 DEF DeleteSessions, Goes

\* A session that is claimed stays without live runs, schedules and forks until it
\* is released or deleted: the claim "closes races with new runs, forks,
\* schedules, and restore references" (session_prune.py), though the loop looks
\* at them only when it claims.
THEOREM ClaimsAreClosed == Spec => []ClaimedIsClosed
<1>1. References => ClaimedIsClosed
  BY DEF References, TablesHold, ClaimsClosed, ClaimedIsClosed
<1> QED BY <1>1, ReferencesAlways, PTL

\* The row of a session only goes while it is claimed and unused, in the step that
\* takes all of its runs, and a run only goes in such a step: the runs that the
\* loop had read before are those the session has when it is deleted.
THEOREM DeletedTogether == Spec => [][DeletionIsWhole]_vars
<1>1. References /\ [Next]_vars => DeletionIsWhole
  <2>1. SUFFICES ASSUME References, [Next]_vars PROVE DeletionIsWhole
    OBVIOUS
  <2>2. CASE DeleteSessions
    BY <2>1, <2>2, DeleteTakes
  <2>3. CASE ~DeleteSessions
    <3>1. There \subseteq There' /\ Rows \subseteq Rows'
      BY <2>1, <2>3, RowsStay
    <3> QED BY <3>1 DEF DeletionIsWhole
  <2> QED BY <2>2, <2>3
<1> QED BY <1>1, ReferencesAlways, PTL DEF Spec

\* As long as the process is not lost, no directory of a run is left behind: it
\* has its row, or the loop that deleted the row is about to remove it
\* (_delete_run_store_paths).  After a loss the orphans are looked for.
THEOREM NoDirectoryIsLeft == Spec => []DirectoriesHaveRows
<1>1. Init => DirectoriesHaveRows
  BY DEF Init, DirectoriesHaveRows
<1>2. References /\ DirectoriesHaveRows /\ [Next]_vars => DirectoriesHaveRows'
  <2>1. SUFFICES ASSUME References, DirectoriesHaveRows, [Next]_vars, losses' = 0
                 PROVE  \A r \in saved' : r \in Rows' \/ (pruner'.at = "erase" /\ r \in pruner'.runs)
    BY DEF DirectoriesHaveRows
  <2>2. CASE DeleteSessions
    <3>1. pruner.at = "delete"
      BY <2>2 DEF DeleteSessions
    <3>2. \A r \in saved : r \in Rows
      BY <2>1, <2>2, <3>1, DeleteTakes DEF DirectoriesHaveRows
    <3> QED BY <2>1, <2>2, <3>2, DeleteTakes
  <2>3. CASE ~DeleteSessions
    <3>1. losses = 0
      BY <2>1, <2>3, RowsStay
    <3>2. \A r \in saved : r \in Rows \/ (pruner.at = "erase" /\ r \in pruner.runs)
      BY <2>1, <3>1 DEF DirectoriesHaveRows
    <3>3. /\ Rows \subseteq Rows' /\ saved' \subseteq saved \union Rows'
          /\ pruner.at = "erase" => pruner' = pruner \/ saved' = saved \ pruner.runs
      BY <2>1, <2>3, <3>1, RowsStay
    <3> QED BY <3>2, <3>3
  <2> QED BY <2>2, <2>3
<1> QED BY <1>1, <1>2, ReferencesAlways, PTL DEF Spec
=============================================================================
