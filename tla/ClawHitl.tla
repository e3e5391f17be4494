----------------------------- MODULE ClawHitl -----------------------------
(***************************************************************************)
(* Human in the loop: a run of ya-claw asks a batch of questions (tool     *)
(* approvals), keeps them in the database and in memory, and waits until   *)
(* each has an answer in memory.  Clients answer through the row of the    *)
(* pending batch; messages of a chat bridge that arrive meanwhile are      *)
(* stored and forwarded once the questions are answered.                   *)
(*                                                                         *)
(* A question is known by its number, which every batch of the run uses    *)
(* again.  A call loads its rows, resolves the question in memory and      *)
(* commits the row, with awaits in between: it may answer long after the   *)
(* question it was about, and the agent may go on with an answer that is   *)
(* not committed yet and may never be.                                     *)
(*                                                                         *)
(* Definitions marked "faulty" are used by no action.                      *)
(***************************************************************************)
EXTENDS Integers, Sequences

CONSTANTS
    Questions,      \* the numbers of the questions
    MaxBatches,     \* bound on the batches of the run
    Asked,          \* the questions of each batch
    Approvers,      \* who calls respond_interaction to approve,
    Deniers,        \* and who to deny; one call at a time each
    Inputs,         \* messages of the bridge
    MaxFaults       \* bound on stops, lost processes and commits that fail

ASSUME HitlAssumption ==
    /\ Questions # {}
    /\ MaxBatches \in Nat \ {0} /\ MaxFaults \in Nat
    /\ Asked \in [1..MaxBatches -> SUBSET Questions]

VARIABLES
    status,     \* runs.status
    agent,      \* where the executor of the run stands
    batch,      \* the batches so far
    open,       \* hitl_batches.status = "pending"
    answers,    \* hitl_interactions.status
    memory,     \* hitl_states: whether it is there, and what is resolved
    got,        \* history: the answers the agent last went on with
    call,       \* calls of clients
    rivals,     \* history: questions of the batch answered by two calls at
                \* once, or by one of an earlier batch
    unrecorded, \* history: those resolved by a call that was not committed
    stored,     \* hitl_deferred_inputs
    arrivals,   \* their order
    found,      \* the batch a bridge message was found to belong to
    toSend,     \* inputs that are consumed and not yet on the bus
    bus,        \* inputs the agent was sent
    faults

askVars == <<batch, open, answers>>
history == <<rivals, unrecorded>>
callVars == <<call, history>>
inputVars == <<stored, arrivals, found, toSend, bus>>
vars == <<status, agent, askVars, memory, got, callVars, inputVars, faults>>
-----------------------------------------------------------------------------
Clients == Approvers \union Deniers
Batches == 1..MaxBatches
Answer == {"approved", "denied"}
Pending == [q \in Questions |-> "pending"]

\* storing: the rows are flushed and the memory is set, the commit is awaited.
Stage == {"streaming", "storing", "waiting", "processing", "forwarding",
          "leaving", "raising", "over"}

Memory == [on : BOOLEAN, resolved : [Questions -> Answer \union {"pending"}]]
NoMemory == [on |-> FALSE, resolved |-> Pending]
NewMemory == [on |-> TRUE, resolved |-> Pending]

Call == [on : BOOLEAN, batch : 0..MaxBatches, question : Questions,
         answer : Answer, fresh : BOOLEAN, resolved : BOOLEAN, closes : BOOLEAN]
NoCall == [on |-> FALSE, batch |-> 0, question |-> CHOOSE q \in Questions : TRUE,
           answer |-> "denied", fresh |-> FALSE, resolved |-> FALSE, closes |-> FALSE]

Input == [status : {"absent", "pending", "consumed"}, batch : 0..MaxBatches]

Init ==
    /\ status = "running" /\ agent = "streaming"
    /\ batch = 0
    /\ open = [b \in Batches |-> FALSE]
    /\ answers = [b \in Batches |-> Pending]
    /\ memory = NoMemory
    /\ got = Pending
    /\ call = [c \in Clients |-> NoCall]
    /\ rivals = {} /\ unrecorded = {}
    /\ stored = [i \in Inputs |-> [status |-> "absent", batch |-> 0]]
    /\ found = [i \in Inputs |-> 0]
    /\ arrivals = <<>> /\ toSend = <<>> /\ bus = <<>>
    /\ faults = 0

Goto(s) == agent' = s

\* get_pending_batch_for_run: the latest batch that is pending, or none.
PendingBatch == {b \in Batches : open[b] /\ \A d \in Batches : open[d] => d <= b}
-----------------------------------------------------------------------------
(***************************************************************************)
(* The executor                                                            *)
(***************************************************************************)

\* _enter_hitl_pending: create_batch, set_hitl_pending.
EnterPending ==
    /\ agent = "streaming" /\ status = "running"
    /\ batch < MaxBatches
    /\ PendingBatch = {}            \* else create_batch returns the one there is
    /\ batch' = batch + 1
    /\ memory' = NewMemory
    /\ rivals' = {call[c].question : c \in {d \in Clients : call[d].on}}
    /\ unrecorded' = {}
    /\ got' = Pending
    /\ Goto("storing")
    /\ UNCHANGED <<status, open, answers, call, inputVars, faults>>

CommitBatch ==
    /\ agent = "storing"
    /\ open' = [open EXCEPT ![batch] = TRUE]
    /\ Goto("waiting")
    /\ UNCHANGED <<status, batch, answers, memory, got, callVars, inputVars, faults>>

\* wait_hitl_batch looks at nothing but the answers, not at a stop.
AllResolved ==
    /\ agent = "waiting"
    /\ \A q \in Asked[batch] : memory.resolved[q] # "pending"
    /\ got' = memory.resolved
    /\ Goto("processing")
    /\ UNCHANGED <<status, askVars, memory, callVars, inputVars, faults>>

\* consume_deferred_inputs, with its commit, in the order of arrival.
Arrived == {i \in Inputs : stored[i] = [status |-> "pending", batch |-> batch]}
Among(s, S) ==                      \* the entries of s that are in S
    LET kept[k \in 0..Len(s)] ==
          IF k = 0 THEN <<>>
          ELSE IF s[k] \in S THEN Append(kept[k - 1], s[k]) ELSE kept[k - 1]
    IN  kept[Len(s)]
InOrder(S) == Among(arrivals, S)
Consume ==
    /\ agent = "processing"
    /\ stored' = [i \in Inputs |-> IF i \in Arrived THEN [stored[i] EXCEPT !.status = "consumed"]
                                   ELSE stored[i]]
    /\ toSend' = InOrder(Arrived)
    /\ Goto("forwarding")
    /\ UNCHANGED <<status, askVars, memory, got, callVars, arrivals, found, bus, faults>>

SendDeferred ==
    /\ agent = "forwarding"
    /\ toSend # <<>>
    /\ bus' = Append(bus, Head(toSend))
    /\ toSend' = Tail(toSend)
    /\ UNCHANGED <<status, agent, askVars, memory, got, callVars, stored, arrivals, found, faults>>

\* The finally clause, first half: clear_hitl, once all is sent or at an error.
LeavesAtOnce == TRUE                \* faulty: the inputs are not awaited
AllSent == toSend = <<>>

ClearMemory ==
    /\ memory' = NoMemory
    /\ \/ agent = "forwarding" /\ AllSent /\ Goto("leaving")
       \/ agent \in {"processing", "forwarding"} /\ Goto("raising")
    /\ UNCHANGED <<status, askVars, got, callVars, inputVars, faults>>

\* Second half: mark_batch_completed and its commit.
NoneCompleted == open               \* faulty: left to the last answer
BatchCompleted == [b \in Batches |-> open[b] /\ b \notin PendingBatch]

ExitPending ==
    /\ agent \in {"leaving", "raising"}
    /\ open' = BatchCompleted
    /\ \/ agent = "leaving" /\ Goto("streaming") /\ UNCHANGED status
       \/ /\ agent = "raising" /\ Goto("over")
          /\ status' = IF status = "running" THEN "failed" ELSE status
    /\ UNCHANGED <<batch, answers, memory, got, callVars, inputVars, faults>>

\* The stream ends with an output, or sees the stop.
Finish ==
    /\ agent = "streaming"
    /\ Goto("over")
    /\ status' = IF status = "running" THEN "completed" ELSE status
    /\ UNCHANGED <<askVars, memory, got, callVars, inputVars, faults>>
-----------------------------------------------------------------------------
(***************************************************************************)
(* respond_interaction                                                     *)
(***************************************************************************)
RespondLoad(c, q, a) ==
    /\ ~call[c].on
    /\ c \in (IF a = "approved" THEN Approvers ELSE Deniers)
    /\ status = "running"           \* else 409
    /\ \E b \in PendingBatch :      \* else 404
         /\ q \in Asked[b]          \* else 404
         /\ call' = [call EXCEPT ![c] =
                        [on |-> TRUE, batch |-> b, question |-> q, answer |-> a,
                         fresh |-> answers[b][q] = "pending",
                         resolved |-> FALSE, closes |-> FALSE]]
    /\ rivals' = IF \E d \in Clients : call[d].on /\ call[d].question = q
                 THEN rivals \union {q} ELSE rivals
    /\ UNCHANGED <<status, agent, askVars, memory, got, unrecorded, inputVars, faults>>

\* The row is written if it was pending when it was loaded.
FlagWritten(c) ==                   \* faulty: that it is answered, not how
    [answers EXCEPT ![call[c].batch][call[c].question] = "answered"]
AnswersWritten(c) ==
    IF call[c].fresh
    THEN [answers EXCEPT ![call[c].batch][call[c].question] = call[c].answer]
    ELSE answers

\* The rows of all batches of the run are counted, as far as they are committed.
AllButOne(rows) ==                  \* faulty: counted without the answer at hand
    \A p, q \in Asked[batch] : rows[batch][p] = "pending" /\ rows[batch][q] = "pending" => p = q
Counted == {b \in 1..batch : ~(b = batch /\ agent = "storing")}
AllAnswered(rows) == \A b \in Counted : \A q \in Asked[b] : rows[b][q] # "pending"

\* resolve_hitl_interaction: whatever batch is in memory, the first answer stays.
LastAnswerStays(c) == memory.on /\ call[c].question \in Asked[batch]     \* faulty
Resolves(c) ==
    /\ memory.on
    /\ call[c].question \in Asked[batch]    \* else KeyError, which is suppressed
    /\ memory.resolved[call[c].question] = "pending"

\* A call that wrote the row of a question holds it until its transaction ends.
Writing(c) == call[c].resolved /\ call[c].fresh
RowIsHeld(c) ==
    call[c].fresh /\ \E d \in Clients : Writing(d) /\ call[d].batch = call[c].batch
                                        /\ call[d].question = call[c].question

\* The row is flushed with the count of those that are left, and the executor is
\* woken before the transaction is committed.
RespondResolve(c) ==
    /\ call[c].on /\ ~call[c].resolved
    /\ ~RowIsHeld(c)
    /\ memory' = IF Resolves(c)
                 THEN [memory EXCEPT !.resolved[call[c].question] = call[c].answer]
                 ELSE memory
    /\ call' = [call EXCEPT ![c].resolved = TRUE,
                            ![c].closes = AllAnswered(AnswersWritten(c))]
    /\ UNCHANGED <<status, agent, askVars, got, history, inputVars, faults>>

\* The commit of the endpoint: the row, and the batch if nothing was left.
RespondCommit(c) ==
    /\ call[c].resolved
    /\ answers' = AnswersWritten(c)
    /\ open' = [b \in Batches |-> open[b] /\ ~(call[c].closes /\ b = call[c].batch)]
    /\ call' = [call EXCEPT ![c] = NoCall]
    /\ UNCHANGED <<status, agent, batch, memory, got, history, inputVars, faults>>

\* The flush or the commit fails: the rows are rolled back, what was resolved in
\* memory stays.  A call that fails before it gets there leaves nothing.
Unrecorded(S) == {call[c].question : c \in {d \in S : Writing(d)}}
RespondFail(c) ==
    /\ call[c].resolved
    /\ faults < MaxFaults
    /\ faults' = faults + 1
    /\ unrecorded' = unrecorded \union Unrecorded({c})
    /\ call' = [call EXCEPT ![c] = NoCall]
    /\ UNCHANGED <<status, agent, askVars, memory, got, rivals, inputVars>>
-----------------------------------------------------------------------------
(***************************************************************************)
(* A message of the bridge is stored for the batch it was found to wait    *)
(* with; it may be late.                                                   *)
(***************************************************************************)
BridgeLoad(i) ==
    /\ found[i] = 0
    /\ status = "running"           \* the run is active_run_id of the session
    /\ \E b \in PendingBatch : found' = [found EXCEPT ![i] = b]
    /\ UNCHANGED <<status, agent, askVars, memory, got, callVars, stored, arrivals, toSend, bus, faults>>

BridgeStore(i) ==
    /\ found[i] # 0
    /\ stored[i].status = "absent"
    /\ stored' = [stored EXCEPT ![i] = [status |-> "pending", batch |-> found[i]]]
    /\ arrivals' = Append(arrivals, i)
    /\ UNCHANGED <<status, agent, askVars, memory, got, callVars, found, toSend, bus, faults>>

\* cancel and interrupt: the waiting executor is woken, and waits on.
Stop ==
    /\ faults < MaxFaults
    /\ faults' = faults + 1
    /\ status = "running"
    /\ status' = "cancelled"
    /\ UNCHANGED <<agent, askVars, memory, got, callVars, inputVars>>

\* The run is interrupted by the recovery; its rows stay as they are.
CrashRestart ==
    /\ faults < MaxFaults
    /\ faults' = faults + 1
    /\ status' = IF status = "running" THEN "cancelled" ELSE status
    /\ Goto("over")
    /\ memory' = NoMemory
    /\ call' = [c \in Clients |-> NoCall]
    /\ unrecorded' = unrecorded \union Unrecorded(Clients)
    /\ toSend' = <<>>
    /\ UNCHANGED <<askVars, got, rivals, stored, arrivals, found, bus>>
-----------------------------------------------------------------------------
ExecutorStep ==
    \/ EnterPending \/ CommitBatch \/ AllResolved \/ Consume
    \/ SendDeferred \/ ClearMemory \/ ExitPending \/ Finish

Next ==
    \/ ExecutorStep
    \/ \E c \in Clients :
         \/ \E q \in Questions, a \in Answer : RespondLoad(c, q, a)
         \/ RespondResolve(c) \/ RespondCommit(c) \/ RespondFail(c)
    \/ \E i \in Inputs : BridgeLoad(i) \/ BridgeStore(i)
    \/ Stop \/ CrashRestart

Spec == Init /\ [][Next]_vars

\* The executor is a task of the event loop, a call that was made is awaited,
\* and every question that is shown is answered again and again.
Fairness ==
    /\ WF_vars(ExecutorStep)
    /\ \A c \in Clients : WF_vars(RespondResolve(c)) /\ WF_vars(RespondCommit(c))
    /\ \A q \in Questions :
         SF_vars(\E c \in Clients, a \in Answer : RespondLoad(c, q, a))

FairSpec == Spec /\ Fairness
-----------------------------------------------------------------------------
TypeOK ==
    /\ status \in {"running", "completed", "failed", "cancelled"}
    /\ agent \in Stage
    /\ batch \in 0..MaxBatches
    /\ open \in [Batches -> BOOLEAN]
    /\ answers \in [Batches -> [Questions -> Answer \union {"pending"}]]
    /\ memory \in Memory
    /\ got \in [Questions -> Answer \union {"pending"}]
    /\ call \in [Clients -> Call]
    /\ rivals \in SUBSET Questions /\ unrecorded \in SUBSET Questions
    /\ stored \in [Inputs -> Input]
    /\ arrivals \in Seq(Inputs) /\ toSend \in Seq(Inputs) /\ bus \in Seq(Inputs)
    /\ found \in [Inputs -> 0..MaxBatches]
    /\ faults \in Nat

(***************************************************************************)
(* While a run is running, a batch that reads pending is the last one and  *)
(* its executor has not left it: late answers and answers to the wrong     *)
(* batch leave no batch pending that nobody waits for, to which the bridge *)
(* would go on deferring messages.                                         *)
(***************************************************************************)
PendingIsAwaited ==
    \A b \in Batches : status = "running" /\ open[b] =>
        /\ b = batch
        /\ agent \in {"waiting", "processing", "forwarding", "leaving", "raising"}

(***************************************************************************)
(* The answer the agent goes on with is the one the row of its question    *)
(* records or the one an open call is about to commit, although it is used *)
(* before that.  Exempt are questions that two calls answered at once (the *)
(* row keeps the last answer, the memory the first), those with a call of  *)
(* an earlier batch open (the memory takes its answer), and those whose    *)
(* answer was rolled back, which a second answer may then contradict.      *)
(***************************************************************************)
OnItsWay(q) == {call[c].answer : c \in {d \in Clients :
                    Writing(d) /\ call[d].batch = batch /\ call[d].question = q}}

RecordedAnswerIsUsed ==
    \A q \in Questions \ (rivals \union unrecorded) :
        got[q] # "pending" => got[q] \in {answers[batch][q]} \union OnItsWay(q)

(***************************************************************************)
(* Once a run is completed, the agent has been sent every deferred input   *)
(* that was consumed, once, in the order in which they were stored.        *)
(***************************************************************************)
ConsumedIsSent ==
    status = "completed" =>
        bus = InOrder({i \in Inputs : stored[i].status = "consumed"})

\* As long as the run is not stopped, no wait for answers lasts for ever.
EveryWaitEnds ==
    [](status # "cancelled") => (agent = "waiting" ~> agent # "waiting")
=============================================================================
