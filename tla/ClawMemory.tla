---------------------------- MODULE ClawMemory ----------------------------
(***************************************************************************)
(* The memory lifecycle of ya-claw: extract and summary runs in the memory *)
(* session of one source session, queued behind each other in a JSON       *)
(* column of session_memory_states.                                        *)
(*                                                                         *)
(* Every operation loads the state row first and locks the source session  *)
(* afterwards, by the first row it writes.  From there to its commit no    *)
(* other transaction writes (SQLite has one writer; elsewhere the lock of  *)
(* the source row), so the rest of an operation is one step that uses a    *)
(* row it may have loaded long before.  The flags pending_extract and      *)
(* pending_summary, which no operation reads, are left out.                *)
(*                                                                         *)
(* Definitions marked "faulty" are used by no action.                      *)
(***************************************************************************)
EXTENDS Integers, Sequences

CONSTANTS
    Slots,          \* places for memory runs that are live or have a hook to run
    Manuals,        \* the manual requests of clients
    TurnsLimit,     \* memory_extract_every_turns
    ExtractsLimit,  \* memory_summary_every_extracts
    Kept,           \* how many pending requests the row keeps (10)
    MaxTurns,       \* bound on the completed runs of the source session
    MaxJumps,       \* bound on extracts of selected turns, by handoff or request
    MaxFaults       \* bound on stops and losses of the process

ASSUME MemoryAssumption ==
    /\ Slots \intersect Manuals = {}
    /\ "source" \notin Slots \union Manuals
    /\ TurnsLimit \in Nat \ {0} /\ ExtractsLimit \in Nat \ {0} /\ Kept \in Nat \ {0}
    /\ MaxTurns \in Nat /\ MaxJumps \in Nat /\ MaxFaults \in Nat

VARIABLES
    row,        \* the columns of session_memory_states
    run,        \* the memory runs, until their hook has returned
    unsent,     \* queued runs that the hook which created them has yet to submit
    left,       \* queued runs that nobody submits before the next start
    call,       \* what hooks and manual requests have loaded
    turn,       \* the last completed run of the source session
    covered,    \* history: turns in the windows of completed extracts
    asked,      \* manual requests that were made
    jumps, faults

vars == <<row, run, unsent, left, call, turn, covered, asked, jumps, faults>>
-----------------------------------------------------------------------------
(***************************************************************************)
(* A request names the window of turns it is about.  An extract of selected*)
(* turns (a handoff, chosen run ids) may leave turns before it out.        *)
(***************************************************************************)
Request == [kind : {"extract", "summary"}, start : Nat, end : Nat]
Extract(a, b) == [kind |-> "extract", start |-> a, end |-> b]
Summary == [kind |-> "summary", start |-> 0, end |-> 0]

Row == [last : Nat, turns : Nat, since : Nat, queue : Seq(Request)]

RunStatus == {"none", "queued", "running", "completed", "signalling", "failed"}
MemoryRun == [status : RunStatus, req : Request]
NoRun == [status |-> "none", req |-> Summary]
Signalling == [status |-> "signalling", req |-> Summary]    \* its hook has committed
Live == {"queued", "running"}

Callers == Slots \union Manuals \union {"source"}
Call == [on : BOOLEAN, seen : Row, req : Request]
NoRow == [last |-> 0, turns |-> 0, since |-> 0, queue |-> <<>>]
NoCall == [on |-> FALSE, seen |-> NoRow, req |-> Summary]

Init ==
    /\ row = NoRow
    /\ run = [s \in Slots |-> NoRun] /\ unsent = {} /\ left = {}
    /\ call = [c \in Callers |-> NoCall]
    /\ turn = 0 /\ covered = {} /\ asked = {}
    /\ jumps = 0 /\ faults = 0

Load(c, q) == call' = [call EXCEPT ![c] = [on |-> TRUE, seen |-> row, req |-> q]]
-----------------------------------------------------------------------------
(***************************************************************************)
(* One transaction: the row object it has loaded, the memory runs as the   *)
(* database has them, and whether the JSON column was assigned.            *)
(***************************************************************************)
Begin(c) == [obj |-> call[c].seen, run |-> run, wrote |-> FALSE]
BeginHook(s, then) == [Begin(s) EXCEPT !.run[s] = then]

\* _memory_session_busy.
BusyRunning(w) ==                   \* faulty: a queued run does not count
    \E s \in Slots : w.run[s].status = "running"
Busy(w) == \E s \in Slots : w.run[s].status \in Live

Free(w) == {s \in Slots : w.run[s].status = "none"}

\* _mark_pending_request: the oldest request falls out.
AppendedOnly(q, e) == Append(q, e)  \* faulty: the row grows without bound
Appended(q, e) == IF Len(q) < Kept THEN Append(q, e) ELSE Append(Tail(q), e)

MarkPending(w, e) ==
    [w EXCEPT !.obj.queue = Appended(@, e), !.wrote = TRUE]

CreateRun(w, e) ==
    LET s == CHOOSE s \in Free(w) : TRUE IN
      [w EXCEPT !.run[s] = [status |-> "queued", req |-> e]]

\* _enqueue_or_mark_pending.
Enqueue(w, e) == IF Busy(w) THEN MarkPending(w, e) ELSE CreateRun(w, e)

\* _enqueue_next_pending: popped, and perhaps put back at the end.
PeekPending(w) == w                 \* faulty: the request stays in the queue
PopPending(w) == [w EXCEPT !.obj.queue = Tail(@), !.wrote = TRUE]
EnqueueNext(w) ==
    IF w.obj.queue = <<>> THEN w ELSE Enqueue(PopPending(w), Head(w.obj.queue))

\* Only columns that were changed are written, over what is there by now.
WrittenRow(seen, w) ==
    [last  |-> IF w.obj.last = seen.last THEN row.last ELSE w.obj.last,
     turns |-> IF w.obj.turns = seen.turns THEN row.turns ELSE w.obj.turns,
     since |-> IF w.obj.since = seen.since THEN row.since ELSE w.obj.since,
     queue |-> IF w.wrote THEN w.obj.queue ELSE row.queue]

Commit(c, w) ==
    /\ row' = WrittenRow(call[c].seen, w)
    /\ call' = [call EXCEPT ![c] = NoCall]
-----------------------------------------------------------------------------
(***************************************************************************)
(* on_run_committed, the hook of a run of the source session.  It is       *)
(* awaited under the lock of that session, so there is one at a time.      *)
(***************************************************************************)
SourceLoad ==
    /\ ~call["source"].on
    /\ turn < MaxTurns
    /\ turn' = turn + 1
    /\ \/ /\ Load("source", Summary)
          /\ UNCHANGED jumps
       \/ /\ jumps < MaxJumps       \* the run has handed its context off
          /\ jumps' = jumps + 1
          /\ Load("source", Extract(turn + 1, turn + 1))
    /\ UNCHANGED <<row, run, unsent, left, covered, asked, faults>>

\* The window of an extract by threshold.
WindowByCount(seen) ==              \* faulty: the turns counted, not those open
    Extract(turn - seen.turns, turn)
Window(seen) == Extract(seen.last + 1, turn)

Counted(w) == IF turn > w.obj.last THEN [w EXCEPT !.obj.turns = @ + 1] ELSE w
Cleared(w) == [w EXCEPT !.obj.turns = 0]

SourceHook ==
    LET c == call["source"]
        w == Counted(Begin("source"))
        done == IF c.req.kind = "extract" THEN Cleared(Enqueue(w, c.req))
                ELSE IF w.obj.turns >= TurnsLimit THEN Cleared(Enqueue(w, Window(c.seen)))
                ELSE w
    IN  /\ c.on
        /\ Free(w) # {}
        /\ Commit("source", done)
        /\ run' = done.run
        /\ UNCHANGED <<unsent, left, turn, covered, asked, jumps, faults>>
-----------------------------------------------------------------------------
(***************************************************************************)
(* The manual requests: all turns so far, selected ones, or a summary.     *)
(***************************************************************************)
ManualLoad(m) ==
    /\ m \notin asked
    /\ asked' = asked \union {m}
    /\ \/ /\ \E q \in {Summary} \union {Extract(1, t) : t \in {turn} \ {0}} : Load(m, q)
          /\ UNCHANGED jumps
       \/ /\ jumps < MaxJumps
          /\ jumps' = jumps + 1
          /\ \E t \in 1..turn : Load(m, Extract(t, t))
    /\ UNCHANGED <<row, run, unsent, left, turn, covered, faults>>

ManualCommit(m) ==
    LET w == Enqueue(Begin(m), call[m].req)
        done == IF call[m].req.kind = "extract" THEN Cleared(w) ELSE w
    IN  /\ call[m].on
        /\ Free(Begin(m)) # {}
        /\ Commit(m, done)
        /\ run' = done.run
        /\ UNCHANGED <<unsent, left, turn, covered, asked, jumps, faults>>
-----------------------------------------------------------------------------
(***************************************************************************)
(* The memory runs                                                         *)
(***************************************************************************)
SetStatus(s, st) == run' = [run EXCEPT ![s].status = st]

\* A task executes the run once it was submitted.
Claim(s) ==
    /\ run[s].status = "queued"
    /\ s \notin unsent \union left
    /\ SetStatus(s, "running")
    /\ UNCHANGED <<row, unsent, left, call, turn, covered, asked, jumps, faults>>

\* The commit and its hook hold the lock of the memory session.
Complete(s) ==
    /\ run[s].status = "running"
    /\ \A t \in Slots : run[t].status \notin {"completed", "signalling"}
    /\ SetStatus(s, "completed")
    /\ UNCHANGED <<row, unsent, left, call, turn, covered, asked, jumps, faults>>

\* The agent raises, or the hook of a completed run did: a run is failed.
FailRun(s) ==
    /\ run[s].status \in {"running", "completed"}
    /\ SetStatus(s, "failed")
    /\ call' = [call EXCEPT ![s] = NoCall]
    /\ UNCHANGED <<row, unsent, left, turn, covered, asked, jumps, faults>>

HookLoad(s) ==
    /\ run[s].status \in {"completed", "failed"}
    /\ ~call[s].on
    /\ Load(s, Summary)
    /\ UNCHANGED <<row, run, unsent, left, turn, covered, asked, jumps, faults>>

\* The counters of a committed extract, and the summary that may be due.
EndOnly(obj, e) == e.end            \* faulty: an older window moves it back
LastExtracted(obj, e) == IF e.end > obj.last THEN e.end ELSE obj.last

Extracted(w, e) ==
    LET obj == [w.obj EXCEPT !.last = LastExtracted(w.obj, e), !.turns = 0, !.since = @ + 1]
        n == [w EXCEPT !.obj = obj]
    IN  IF n.obj.since >= ExtractsLimit THEN Enqueue(n, Summary) ELSE n

\* on_memory_run_committed, up to its commit.
CommitHook(s) ==
    LET e == run[s].req
        b == BeginHook(s, Signalling)
        w == IF e.kind = "extract" THEN Extracted(b, e) ELSE [b EXCEPT !.obj.since = 0]
        done == EnqueueNext(w)
    IN  /\ run[s].status = "completed"
        /\ call[s].on
        /\ Free(b) # {}
        /\ Commit(s, done)
        /\ run' = done.run
        /\ unsent' = {t \in Slots : done.run[t] # b.run[t]}
        /\ covered' = IF e.kind = "extract" THEN covered \union e.start..e.end ELSE covered
        /\ UNCHANGED <<left, turn, asked, jumps, faults>>

\* The agency has been told; what the hook created is submitted.
SignalSent(s) ==
    /\ run[s].status = "signalling"
    /\ run' = [run EXCEPT ![s] = NoRun]
    /\ unsent' = {}
    /\ UNCHANGED <<row, left, call, turn, covered, asked, jumps, faults>>

\* The agency raises (another dispatch has taken the fire: 404), so _submit_all
\* is skipped, and the completed run is failed like one whose agent raised.
SignalRaises(s) ==
    /\ run[s].status = "signalling"
    /\ SetStatus(s, "failed")
    /\ left' = left \union unsent
    /\ unsent' = {}
    /\ UNCHANGED <<row, call, turn, covered, asked, jumps, faults>>

\* on_memory_run_terminal.
TakesNothing(w) == w                \* faulty: only a completed run takes the next
TakesNext(w) == EnqueueNext(w)

TerminalHook(s) ==
    LET done == TakesNext(BeginHook(s, NoRun)) IN
      /\ run[s].status = "failed"
      /\ call[s].on
      /\ Commit(s, done)
      /\ run' = done.run
      /\ UNCHANGED <<unsent, left, turn, covered, asked, jumps, faults>>

\* cancel and interrupt: no hook is called for the run.
Stop(s) ==
    /\ faults < MaxFaults
    /\ faults' = faults + 1
    /\ run[s].status \in Live
    /\ run' = [run EXCEPT ![s] = NoRun]
    /\ unsent' = unsent \ {s} /\ left' = left \ {s}
    /\ UNCHANGED <<row, call, turn, covered, asked, jumps>>

\* Queued runs are submitted again; hooks that were due are not.
CrashRestart ==
    /\ faults < MaxFaults
    /\ faults' = faults + 1
    /\ run' = [s \in Slots |-> IF run[s].status = "queued" THEN run[s] ELSE NoRun]
    /\ unsent' = {} /\ left' = {}
    /\ call' = [c \in Callers |-> NoCall]
    /\ UNCHANGED <<row, turn, covered, asked, jumps>>
-----------------------------------------------------------------------------
RunStep(s) == Claim(s) \/ Complete(s) \/ FailRun(s)
HookStep(s) ==
    HookLoad(s) \/ CommitHook(s) \/ SignalSent(s) \/ SignalRaises(s) \/ TerminalHook(s)

Next ==
    \/ SourceLoad \/ SourceHook
    \/ \E m \in Manuals : ManualLoad(m) \/ ManualCommit(m)
    \/ \E s \in Slots : RunStep(s) \/ HookStep(s) \/ Stop(s)
    \/ CrashRestart

Spec == Init /\ [][Next]_vars

\* A coordinator task executes its run; its hooks and the requests are awaited.
Fairness ==
    /\ WF_vars(SourceHook)
    /\ \A m \in Manuals : WF_vars(ManualCommit(m))
    /\ \A s \in Slots : WF_vars(RunStep(s)) /\ WF_vars(HookStep(s))

FairSpec == Spec /\ Fairness
-----------------------------------------------------------------------------
TypeOK ==
    /\ row \in Row /\ Len(row.queue) <= Kept
    /\ run \in [Slots -> MemoryRun] /\ unsent \subseteq Slots /\ left \subseteq Slots
    /\ call \in [Callers -> Call]
    /\ turn \in Nat /\ jumps \in Nat /\ faults \in Nat
    /\ covered \subseteq Nat
    /\ asked \subseteq Manuals

(***************************************************************************)
(* Memory runs are serialized in the memory session, however the hooks and *)
(* the requests that create them interleave.                               *)
(***************************************************************************)
OneLiveMemoryRun ==
    \A s, t \in Slots : run[s].status \in Live /\ run[t].status \in Live => s = t

(***************************************************************************)
(* A pending request has somebody who will take it: a live memory run (one *)
(* that was left queued takes it after the next start), or one whose hook  *)
(* has not returned.  Only a stop or a loss of the process breaks this,    *)
(* since they end a run without a hook.                                    *)
(***************************************************************************)
PendingHasCarrier ==
    faults = 0 /\ row.queue # <<>> => \E s \in Slots : run[s].status # "none"

(***************************************************************************)
(* What last_extracted_sequence_no passes over has been in the window of a *)
(* completed extract, though requests are lost to stale rows, fail, or are *)
(* served late.  Extracts of selected turns are the exception.             *)
(***************************************************************************)
LastIsCovered == jumps = 0 => 1..row.last \subseteq covered

\* last_extracted_sequence_no never moves back, whatever the order of extracts.
LastExtractedGrows == [][row'.last >= row.last]_vars

\* The queue is emptied again and again, if nothing is stopped or lost and no run
\* is left queued: a failed signal to the agency blocks it until a restart.
QueueDrains == [](faults = 0 /\ left = {}) => []<>(row.queue = <<>>)
=============================================================================
