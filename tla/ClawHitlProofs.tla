--------------------------- MODULE ClawHitlProofs ---------------------------
(***************************************************************************)
(* Proofs about ClawHitl for every set of questions, clients and messages, *)
(* and any number of batches, stops and losses of the process.             *)
(***************************************************************************)
EXTENDS ClawHitl, SequenceTheorems, WellFoundedInduction, TLAPS

-----------------------------------------------------------------------------
(***************************************************************************)
(* The types of what the questions and the answers are kept in             *)
(***************************************************************************)
Answers == [Questions -> Answer \union {"pending"}]

AskTypes ==
    /\ status \in {"running", "completed", "failed", "cancelled"}
    /\ agent \in Stage
    /\ batch \in 0..MaxBatches
    /\ open \in [Batches -> BOOLEAN]
    /\ answers \in [Batches -> Answers]
    /\ memory \in Memory
    /\ got \in Answers
    /\ call \in [Clients -> Call]
    /\ rivals \in SUBSET Questions /\ unrecorded \in SUBSET Questions
    /\ agent = "storing" => batch # 0

LEMMA PendingType == Pending \in Answers /\ NoMemory \in Memory /\ NewMemory \in Memory
  BY DEF Pending, Answers, NoMemory, NewMemory, Memory

LEMMA NoCallType == NoCall \in Call
<1>1. (CHOOSE q \in Questions : TRUE) \in Questions
  BY HitlAssumption
<1>2. 0 \in 0..MaxBatches
  BY HitlAssumption
<1> HIDE DEF NoCall
<1>3. NoCall = [on |-> FALSE, batch |-> 0, question |-> CHOOSE q \in Questions : TRUE,
                answer |-> "denied", fresh |-> FALSE, resolved |-> FALSE, closes |-> FALSE]
  BY DEF NoCall
<1> QED BY <1>1, <1>2, <1>3 DEF Call, Answer

LEMMA InitTypes == Init => AskTypes
  BY HitlAssumption, PendingType, NoCallType DEF Init, AskTypes, Stage

LEMMA ExecutorTypes ==
    ASSUME AskTypes, ExecutorStep
    PROVE  AskTypes'
<1> USE PendingType
<1>0. MaxBatches \in Nat /\ batch \in Nat
  BY HitlAssumption DEF AskTypes
<1>1. CASE EnterPending
  <2>1. batch' \in 0..MaxBatches /\ batch' # 0
    BY <1>0, <1>1 DEF EnterPending
  <2>2. rivals' \in SUBSET Questions /\ unrecorded' \in SUBSET Questions
    BY <1>1 DEF EnterPending, AskTypes, Call
  <2> QED BY <1>1, <2>1, <2>2 DEF EnterPending, AskTypes, Stage, Goto
<1>2. CASE CommitBatch
  BY <1>2 DEF CommitBatch, AskTypes, Stage, Goto, callVars, history, inputVars
<1>3. CASE AllResolved
  <2>1. memory.resolved \in Answers
    BY DEF AskTypes, Memory, Answers
  <2> QED BY <1>3, <2>1 DEF AllResolved, AskTypes, Stage, Goto, askVars, callVars, history
<1>4. CASE Consume
  BY <1>4 DEF Consume, AskTypes, Stage, Goto, askVars, callVars, history
<1>5. CASE SendDeferred
  BY <1>5 DEF SendDeferred, AskTypes, askVars, callVars, history
<1>6. CASE ClearMemory
  BY <1>6 DEF ClearMemory, AskTypes, Stage, Goto, askVars, callVars, history
<1>7. CASE ExitPending
  <2>1. open' \in [Batches -> BOOLEAN]
    BY <1>7 DEF ExitPending, BatchCompleted, AskTypes
  <2> QED BY <1>7, <2>1 DEF ExitPending, AskTypes, Stage, Goto, callVars, history
<1>8. CASE Finish
  BY <1>8 DEF Finish, AskTypes, Stage, Goto, askVars, callVars, history
<1> QED BY <1>1, <1>2, <1>3, <1>4, <1>5, <1>6, <1>7, <1>8 DEF ExecutorStep

LEMMA LoadTypes ==
    ASSUME AskTypes, NEW c \in Clients, NEW q \in Questions, NEW a \in Answer,
           RespondLoad(c, q, a)
    PROVE  AskTypes'
<1>1. PICK b \in PendingBatch :
        call' = [call EXCEPT ![c] =
                  [on |-> TRUE, batch |-> b, question |-> q, answer |-> a,
                   fresh |-> answers[b][q] = "pending", resolved |-> FALSE, closes |-> FALSE]]
  BY DEF RespondLoad
<1>2. b \in 0..MaxBatches
  BY HitlAssumption DEF PendingBatch, Batches
<1>3. [on |-> TRUE, batch |-> b, question |-> q, answer |-> a,
       fresh |-> answers[b][q] = "pending", resolved |-> FALSE, closes |-> FALSE] \in Call
  BY <1>2 DEF Call
<1>4. call' \in [Clients -> Call]
  BY <1>1, <1>3 DEF AskTypes
<1>5. rivals' \in SUBSET Questions
  BY DEF RespondLoad, AskTypes
<1> QED BY <1>4, <1>5 DEF RespondLoad, AskTypes, askVars

LEMMA ResolveTypes ==
    ASSUME AskTypes, NEW c \in Clients, RespondResolve(c)
    PROVE  AskTypes'
<1>1. call[c] \in Call /\ AllAnswered(AnswersWritten(c)) \in BOOLEAN
  BY DEF AskTypes, AllAnswered
<1>2. memory' \in Memory
  <2> DEFINE r == [memory.resolved EXCEPT ![call[c].question] = call[c].answer]
  <2>1. r \in Answers
    BY <1>1 DEF AskTypes, Memory, Answers, Call
  <2>2. memory' = memory \/ memory' = [memory EXCEPT !.resolved = r]
    BY DEF RespondResolve, AskTypes, Memory
  <2> HIDE DEF r
  <2> QED BY <2>1, <2>2 DEF AskTypes, Memory, Answers
<1>3. call' \in [Clients -> Call]
  <2> DEFINE n == [call[c] EXCEPT !.resolved = TRUE, !.closes = AllAnswered(AnswersWritten(c))]
  <2>1. n \in Call
    BY <1>1 DEF Call
  <2>2. call' = [call EXCEPT ![c] = n]
    BY DEF RespondResolve, AskTypes
  <2> QED BY <2>1, <2>2 DEF AskTypes
<1> QED BY <1>2, <1>3 DEF RespondResolve, AskTypes, askVars, history

LEMMA WrittenTypes ==
    ASSUME AskTypes, NEW c \in Clients
    PROVE  AnswersWritten(c) \in [Batches -> Answers]
<1>1. call[c].answer \in Answer
  BY DEF AskTypes, Call
<1>2. \A b \in Batches : [answers[b] EXCEPT ![call[c].question] = call[c].answer] \in Answers
  BY <1>1 DEF AskTypes, Answers
<1> DEFINE n == [answers[call[c].batch] EXCEPT ![call[c].question] = call[c].answer]
<1>3. [answers EXCEPT ![call[c].batch] = n] \in [Batches -> Answers]
  BY <1>2 DEF AskTypes
<1>4. AnswersWritten(c) = answers \/ AnswersWritten(c) = [answers EXCEPT ![call[c].batch] = n]
  BY DEF AnswersWritten
<1> QED BY <1>3, <1>4 DEF AskTypes

LEMMA ClientTypes ==
    ASSUME AskTypes, NEW c \in Clients,
           \/ \E q \in Questions, a \in Answer : RespondLoad(c, q, a)
           \/ RespondResolve(c) \/ RespondCommit(c) \/ RespondFail(c)
    PROVE  AskTypes'
<1>1. CASE RespondCommit(c)
  <2>1. open' \in [Batches -> BOOLEAN] /\ answers' \in [Batches -> Answers]
    BY <1>1, WrittenTypes DEF RespondCommit
  <2>2. call' \in [Clients -> Call]
    BY <1>1, NoCallType DEF RespondCommit, AskTypes
  <2> QED BY <1>1, <2>1, <2>2 DEF RespondCommit, AskTypes, history
<1>2. CASE RespondFail(c)
  <2>1. call' \in [Clients -> Call]
    BY <1>2, NoCallType DEF RespondFail, AskTypes
  <2>2. unrecorded' \in SUBSET Questions
    BY <1>2 DEF RespondFail, Unrecorded, AskTypes, Call
  <2> QED BY <1>2, <2>1, <2>2 DEF RespondFail, AskTypes, askVars
<1> QED BY <1>1, <1>2, LoadTypes, ResolveTypes

LEMMA StepTypes == AskTypes /\ [Next]_vars => AskTypes'
<1> SUFFICES ASSUME AskTypes, [Next]_vars PROVE AskTypes'
  OBVIOUS
<1>1. ASSUME NEW i \in Inputs, BridgeLoad(i) \/ BridgeStore(i) PROVE AskTypes'
  BY <1>1 DEF BridgeLoad, BridgeStore, AskTypes, askVars, callVars, history
<1>2. CASE Stop
  BY <1>2 DEF Stop, AskTypes, askVars, callVars, history
<1>3. CASE CrashRestart
  <2>1. unrecorded' \in SUBSET Questions
    BY <1>3 DEF CrashRestart, Unrecorded, AskTypes, Call
  <2> QED BY <1>3, <2>1, PendingType, NoCallType DEF CrashRestart, AskTypes, Goto, Stage, askVars
<1>4. CASE UNCHANGED vars
  BY <1>4 DEF vars, AskTypes, askVars, callVars, history
<1> QED BY <1>1, <1>2, <1>3, <1>4, ExecutorTypes, ClientTypes DEF Next

-----------------------------------------------------------------------------
(***************************************************************************)
(* A batch that reads pending has an executor that waits                   *)
(***************************************************************************)

\* So the pending batch that a client or the bridge finds is the last one.
LEMMA PendingIsLast ==
    ASSUME AskTypes, PendingIsAwaited, status = "running"
    PROVE  /\ \A b \in PendingBatch : b = batch /\ b \in Batches
           /\ \A b \in Batches : open[b] <=> b \in PendingBatch
  BY HitlAssumption DEF AskTypes, PendingIsAwaited, PendingBatch, Batches

LEMMA AwaitedStep ==
    ASSUME AskTypes, PendingIsAwaited, [Next]_vars
    PROVE  PendingIsAwaited'
<1> SUFFICES ASSUME NEW b \in Batches, status' = "running", open'[b]
             PROVE  b = batch' /\ agent' \in {"waiting", "processing", "forwarding",
                                              "leaving", "raising"}
  BY DEF PendingIsAwaited, Batches
<1>1. CASE EnterPending
  <2>1. status = "running" /\ PendingBatch = {} /\ open[b]
    BY <1>1 DEF EnterPending
  <2> QED BY <2>1, PendingIsLast
<1>2. CASE CommitBatch
  <2>1. status = "running" /\ agent = "storing" /\ agent' = "waiting" /\ batch' = batch
    BY <1>2 DEF CommitBatch, Goto
  <2>2. b = batch \/ open[b]
    BY <1>2 DEF CommitBatch, AskTypes
  <2> QED BY <2>1, <2>2 DEF PendingIsAwaited
<1>3. CASE AllResolved \/ Consume \/ SendDeferred \/ ClearMemory
  BY <1>3 DEF AllResolved, Consume, SendDeferred, ClearMemory, Goto, askVars, PendingIsAwaited
<1>4. CASE ExitPending
  <2>1. status = "running" /\ open[b] /\ b \notin PendingBatch
    BY <1>4 DEF ExitPending, BatchCompleted, AskTypes, Goto
  <2> QED BY <2>1, PendingIsLast
<1>5. CASE Finish
  BY <1>5 DEF Finish, askVars, PendingIsAwaited
<1>6. ASSUME NEW c \in Clients, NEW q \in Questions, NEW a \in Answer, RespondLoad(c, q, a)
      PROVE  b = batch' /\ agent' \in {"waiting", "processing", "forwarding", "leaving", "raising"}
  BY <1>6 DEF RespondLoad, askVars, PendingIsAwaited
<1>7. ASSUME NEW c \in Clients, RespondResolve(c) \/ RespondCommit(c) \/ RespondFail(c)
      PROVE  b = batch' /\ agent' \in {"waiting", "processing", "forwarding", "leaving", "raising"}
  <2>1. open[b] /\ status = "running" /\ batch' = batch /\ agent' = agent
    BY <1>7 DEF RespondResolve, RespondCommit, RespondFail, askVars
  <2> QED BY <2>1 DEF PendingIsAwaited
<1>8. ASSUME NEW i \in Inputs, BridgeLoad(i) \/ BridgeStore(i)
      PROVE  b = batch' /\ agent' \in {"waiting", "processing", "forwarding", "leaving", "raising"}
  BY <1>8 DEF BridgeLoad, BridgeStore, askVars, PendingIsAwaited
<1>9. CASE Stop \/ CrashRestart
  BY <1>9 DEF Stop, CrashRestart
<1>10. CASE UNCHANGED vars
  BY <1>10 DEF vars, askVars, PendingIsAwaited
<1> QED BY <1>1, <1>2, <1>3, <1>4, <1>5, <1>6, <1>7, <1>8, <1>9, <1>10 DEF Next, ExecutorStep

LEMMA InitAwaited == Init => PendingIsAwaited
  BY DEF Init, PendingIsAwaited

\* No batch of a running run reads pending unless its executor is at it.
THEOREM NoBatchAbandoned == Spec => []PendingIsAwaited
<1>1. AskTypes /\ PendingIsAwaited /\ [Next]_vars => AskTypes' /\ PendingIsAwaited'
  BY StepTypes, AwaitedStep
<1> QED BY <1>1, InitTypes, InitAwaited, PTL DEF Spec

-----------------------------------------------------------------------------
(***************************************************************************)
(* The answer that is recorded is the one that is used                     *)
(***************************************************************************)

\* A call that wrote the row of a question of the last batch and has not committed
\* it; without one the row says what there is to say of the question.
Recorder(c, q) == Writing(c) /\ call[c].batch = batch /\ call[c].question = q
Settled(q) == \A c \in Clients : ~Recorder(c, q)

\* The questions about which calls do not contradict each other.
Clear == Questions \ (rivals \union unrecorded)

\* Memory and row, or memory and the open call, agree on such a question as long
\* as the batch is in memory.
MemoryAgrees ==
    /\ agent \in {"storing", "waiting"} => memory.on
    /\ ~memory.on => memory = NoMemory
    /\ memory.on => batch \in Batches
    /\ \A q \in Clear : memory.on /\ q \in Asked[batch] =>
         /\ Settled(q) => memory.resolved[q] = answers[batch][q]
         /\ \A c \in Clients : Recorder(c, q) => memory.resolved[q] = call[c].answer
    /\ \A q \in Questions : memory.on /\ q \notin Asked[batch] => memory.resolved[q] = "pending"
    /\ \A b \in Batches : b > batch => answers[b] = Pending

GotAgrees ==
    \A q \in Clear : got[q] # "pending" =>
        /\ Settled(q) => got[q] = answers[batch][q]
        /\ \A c \in Clients : Recorder(c, q) => got[q] = call[c].answer

\* There is one call about it at most, for the last batch, and the row is still
\* as it was when the call loaded it.
CallIsAlone(c) ==
    /\ call[c].resolved => call[c].on
    /\ call[c].on =>
        /\ call[c].batch \in 1..batch
        /\ call[c].question \in Asked[call[c].batch]
        /\ call[c].question \notin rivals =>
             /\ call[c].batch = batch
             /\ call[c].fresh <=> answers[batch][call[c].question] = "pending"
             /\ \A d \in Clients :
                  call[d].on /\ call[d].question = call[c].question => d = c

CallsAlone == \A c \in Clients : CallIsAlone(c)

AnswerInv == MemoryAgrees /\ GotAgrees /\ CallsAlone

\* What it means that none of the rows, calls and rivals change.
LEMMA SameAnswers ==
    ASSUME AnswerInv, UNCHANGED <<batch, answers, callVars, history>>
    PROVE  /\ CallsAlone'
           /\ got' = got => GotAgrees'
           /\ \/ memory' = memory /\ (agent' \in {"storing", "waiting"} => memory.on)
              \/ memory' = NoMemory /\ agent' \notin {"storing", "waiting"}
              => MemoryAgrees'
<1> USE DEF callVars, history
<1>1. CallsAlone'
  BY DEF AnswerInv, CallsAlone, CallIsAlone
<1>2. /\ Clear' = Clear
      /\ \A q \in Questions, c \in Clients : Recorder(c, q)' <=> Recorder(c, q)
  BY DEF Clear, Recorder, Writing
<1>3. \A q \in Clear : Settled(q)' <=> Settled(q)
  BY <1>2 DEF Settled, Clear
<1>4. got' = got => GotAgrees'
  BY <1>2, <1>3 DEF AnswerInv, GotAgrees, Clear
<1>5. ASSUME memory' = memory, agent' \in {"storing", "waiting"} => memory.on
      PROVE  MemoryAgrees'
  BY <1>2, <1>3, <1>5 DEF AnswerInv, MemoryAgrees, Clear
<1>6. ASSUME memory' = NoMemory, agent' \notin {"storing", "waiting"}
      PROVE  MemoryAgrees'
  BY <1>6 DEF AnswerInv, MemoryAgrees, NoMemory
<1> QED BY <1>1, <1>4, <1>5, <1>6

LEMMA EnterAnswers ==
    ASSUME AskTypes, AnswerInv, EnterPending
    PROVE  AnswerInv'
<1>1. batch \in Nat /\ batch + 1 \in Batches /\ batch' = batch + 1 /\ batch + 1 > batch
  BY HitlAssumption DEF AskTypes, EnterPending, Batches
<1>2. answers' = answers /\ answers[batch + 1] = Pending
  BY <1>1 DEF EnterPending, AnswerInv, MemoryAgrees
<1>3. memory' = NewMemory /\ got' = Pending /\ agent' = "storing" /\ call' = call
  BY DEF EnterPending, Goto
<1>4. \A c \in Clients : call[c].on => call[c].question \in rivals'
  BY DEF EnterPending
<1>5. \A c \in Clients : call[c].on => call[c].batch \in 1..batch' /\ call[c].batch # batch'
  BY <1>1 DEF AnswerInv, CallsAlone, CallIsAlone
<1>6. CallsAlone'
  BY <1>3, <1>4, <1>5 DEF AnswerInv, CallsAlone, CallIsAlone
<1>7. MemoryAgrees'
  <2>1. \A b \in Batches : b > batch' => answers'[b] = Pending
    BY <1>1, <1>2 DEF AnswerInv, MemoryAgrees, Batches
  <2>2. \A q \in Questions, c \in Clients : ~Recorder(c, q)'
    BY <1>3, <1>5 DEF Recorder, Writing, AnswerInv, CallsAlone, CallIsAlone
  <2>3. /\ memory'.on /\ \A q \in Questions : memory'.resolved[q] = "pending"
        /\ \A q \in Questions : answers'[batch'][q] = "pending"
    BY <1>1, <1>2, <1>3 DEF NewMemory, Pending
  <2> QED BY <1>1, <2>1, <2>2, <2>3 DEF MemoryAgrees, Clear
<1>8. GotAgrees'
  BY <1>3 DEF GotAgrees, Pending, Clear
<1> QED BY <1>6, <1>7, <1>8 DEF AnswerInv

LEMMA LoadAnswers ==
    ASSUME AskTypes, PendingIsAwaited, AnswerInv,
           NEW c \in Clients, NEW q \in Questions, NEW a \in Answer, RespondLoad(c, q, a)
    PROVE  AnswerInv'
<1>1. /\ batch \in Batches /\ call'[c].on /\ call'[c].batch = batch /\ ~call'[c].resolved
      /\ call'[c].question = q /\ (call'[c].fresh <=> answers[batch][q] = "pending")
      /\ q \in Asked[batch]
      /\ \A d \in Clients : d # c => call'[d] = call[d]
  <2>1. PICK b \in PendingBatch :
          /\ q \in Asked[b]
          /\ call' = [call EXCEPT ![c] =
                       [on |-> TRUE, batch |-> b, question |-> q, answer |-> a,
                        fresh |-> answers[b][q] = "pending",
                        resolved |-> FALSE, closes |-> FALSE]]
    BY DEF RespondLoad
  <2>2. b = batch /\ batch \in Batches
    BY <2>1, PendingIsLast DEF RespondLoad
  <2>3. call'[c] = [on |-> TRUE, batch |-> b, question |-> q, answer |-> a,
                    fresh |-> answers[b][q] = "pending", resolved |-> FALSE, closes |-> FALSE]
    BY <2>1 DEF AskTypes
  <2>4. \A d \in Clients : d # c => call'[d] = call[d]
    BY <2>1 DEF AskTypes
  <2>5. call'[c].fresh = (answers[b][q] = "pending")
    BY <2>3
  <2>6. call'[c].on /\ call'[c].batch = b /\ call'[c].question = q /\ ~call'[c].resolved
    BY <2>3
  <2> QED BY <2>1, <2>2, <2>4, <2>5, <2>6
<1>2. /\ rivals \subseteq rivals' /\ ~call[c].on
      /\ q \notin rivals' => \A d \in Clients : ~(call[d].on /\ call[d].question = q)
  BY DEF RespondLoad
<1>3. UNCHANGED <<batch, answers, memory, got, agent, unrecorded>>
  BY DEF RespondLoad, askVars
<1>4. batch \in 1..batch
  BY <1>1, HitlAssumption DEF Batches
<1>5. ASSUME NEW d \in Clients PROVE CallIsAlone(d)'
  <2>1. CASE d = c
    BY <1>1, <1>2, <1>3, <1>4, <2>1 DEF CallIsAlone
  <2>2. CASE d # c
    <3>1. CallIsAlone(d)
      BY DEF AnswerInv, CallsAlone
    <3>2. call'[d] = call[d]
      BY <1>1, <2>2
    <3>3. call[d].on /\ call[d].question \notin rivals' => call[d].question # q
      BY <1>2
    <3> QED BY <1>1, <1>2, <1>3, <3>1, <3>2, <3>3 DEF CallIsAlone
  <2> QED BY <2>1, <2>2
<1>6. \A d \in Clients, r \in Questions :
        /\ Recorder(d, r)' <=> Recorder(d, r)
        /\ Recorder(d, r) => call'[d].answer = call[d].answer
  BY <1>1, <1>2, <1>3 DEF Recorder, Writing, AnswerInv, CallsAlone, CallIsAlone
<1>7. Clear' \subseteq Clear /\ \A r \in Clear : Settled(r)' <=> Settled(r)
  BY <1>2, <1>3, <1>6 DEF Clear, Settled
<1>8. MemoryAgrees' /\ GotAgrees'
  BY <1>3, <1>6, <1>7 DEF AnswerInv, MemoryAgrees, GotAgrees, Clear
<1> QED BY <1>5, <1>8 DEF AnswerInv, CallsAlone

\* In memory the answer of a call that is alone is in time if its row is.
LEMMA ResolveAnswers ==
    ASSUME AskTypes, AnswerInv, NEW c \in Clients, RespondResolve(c)
    PROVE  AnswerInv'
<1> DEFINE p == call[c].question
           a == call[c].answer
<1>1. /\ call[c].on /\ ~call[c].resolved
      /\ UNCHANGED <<agent, batch, answers, got, rivals, unrecorded>>
      /\ \A d \in Clients : d # c => call'[d] = call[d]
      /\ call'[c].on /\ call'[c].resolved /\ call'[c].batch = call[c].batch
      /\ call'[c].question = p /\ call'[c].answer = a /\ call'[c].fresh = call[c].fresh
  BY DEF RespondResolve, AskTypes, askVars, history, Call
<1>2. p \in Questions /\ a \in Answer
  BY DEF AskTypes, Call
<1>3. /\ \A q \in Questions : q # p => memory'.resolved[q] = memory.resolved[q]
      /\ memory'.on = memory.on
      /\ memory'.resolved[p] = IF Resolves(c) THEN a ELSE memory.resolved[p]
      /\ ~memory.on => memory' = memory
  BY <1>2 DEF RespondResolve, Resolves, AskTypes, Memory
<1>4. ASSUME NEW d \in Clients
      PROVE  /\ call'[d].on <=> call[d].on
             /\ call'[d].fresh <=> call[d].fresh
             /\ call'[d].question = call[d].question /\ call'[d].batch = call[d].batch
             /\ call'[d].answer = call[d].answer
  <2>1. CASE d = c
    BY <1>1, <2>1
  <2>2. CASE d # c
    BY <1>1, <2>2
  <2> QED BY <2>1, <2>2
<1>5. CallsAlone'
  <2> SUFFICES ASSUME NEW d \in Clients PROVE CallIsAlone(d)'
    BY DEF CallsAlone
  <2>1. CallIsAlone(d) /\ (call'[d].resolved => call'[d].on)
    BY <1>1 DEF AnswerInv, CallsAlone, CallIsAlone
  <2> QED BY <1>1, <1>4, <2>1 DEF CallIsAlone
<1>6. \A d \in Clients, q \in Questions :
        Recorder(d, q)' <=> Recorder(d, q) \/ (d = c /\ q = p /\ call[c].fresh /\ call[c].batch = batch)
  BY <1>1, <1>4 DEF Recorder, Writing
<1>7. Clear' = Clear
  BY <1>1 DEF Clear
<1>8. \A q \in Clear : q # p => (Settled(q)' <=> Settled(q))
  BY <1>6 DEF Settled, Clear
\* Before it resolves, nobody else is about to record the answer.
<1>9. ASSUME p \in Clear
      PROVE  /\ Settled(p) /\ call[c].batch = batch /\ p \in Asked[batch]
             /\ call[c].fresh <=> answers[batch][p] = "pending"
  <2>1. CallIsAlone(c) /\ p \notin rivals
    BY <1>9 DEF AnswerInv, CallsAlone, Clear
  <2>2. \A d \in Clients : call[d].on /\ call[d].question = p => d = c
    BY <1>1, <2>1 DEF CallIsAlone
  <2>3. Settled(p)
    BY <1>1, <2>2 DEF Settled, Recorder, Writing, AnswerInv, CallsAlone, CallIsAlone
  <2> QED BY <1>1, <2>1, <2>3 DEF CallIsAlone
<1>10. ASSUME NEW q \in Clear, memory.on, q \in Asked[batch]
       PROVE  /\ Settled(q)' => memory'.resolved[q] = answers[batch][q]
              /\ \A d \in Clients : Recorder(d, q)' => memory'.resolved[q] = call[d].answer
  <2>1. /\ Settled(q) => memory.resolved[q] = answers[batch][q]
        /\ \A d \in Clients : Recorder(d, q) => memory.resolved[q] = call[d].answer
    BY <1>10 DEF AnswerInv, MemoryAgrees
  <2>2. CASE q # p
    BY <1>3, <1>6, <1>8, <2>1, <2>2 DEF Clear
  <2>3. CASE q = p
    <3>1. /\ Settled(p) /\ memory.resolved[p] = answers[batch][p]
          /\ call[c].fresh <=> memory.resolved[p] = "pending"
          /\ Resolves(c) <=> memory.resolved[p] = "pending"
          /\ call[c].batch = batch
      BY <1>9, <1>10, <2>1, <2>3 DEF Resolves
    <3>2. \A d \in Clients : Recorder(d, q)' <=> d = c /\ call[c].fresh
      BY <1>2, <1>6, <2>3, <3>1 DEF Settled
    <3>3. Settled(q)' <=> ~call[c].fresh
      BY <3>2 DEF Settled
    <3> QED BY <1>3, <2>3, <3>1, <3>2, <3>3
  <2> QED BY <2>2, <2>3
<1>11. MemoryAgrees'
  <2>1. ASSUME NEW q \in Questions, memory'.on, q \notin Asked[batch]
        PROVE  memory'.resolved[q] = "pending"
    BY <1>3, <2>1 DEF AnswerInv, MemoryAgrees, Resolves
  <2> QED BY <1>1, <1>3, <1>4, <1>7, <1>10, <2>1 DEF AnswerInv, MemoryAgrees
<1>12. GotAgrees'
  <2> SUFFICES ASSUME NEW q \in Clear, got[q] # "pending"
               PROVE  /\ Settled(q)' => got[q] = answers[batch][q]
                      /\ \A d \in Clients : Recorder(d, q)' => got[q] = call[d].answer
    BY <1>1, <1>4, <1>7 DEF GotAgrees
  <2>1. /\ Settled(q) => got[q] = answers[batch][q]
        /\ \A d \in Clients : Recorder(d, q) => got[q] = call[d].answer
    BY DEF AnswerInv, GotAgrees
  <2>2. CASE q # p
    BY <1>6, <1>8, <2>1, <2>2 DEF Clear
  <2>3. CASE q = p
    <3>1. Settled(q) /\ ~call[c].fresh
      BY <1>9, <2>1, <2>3
    <3>2. \A d \in Clients : ~Recorder(d, q)'
      BY <1>2, <1>6, <2>3, <3>1 DEF Settled
    <3> QED BY <2>1, <3>1, <3>2
  <2> QED BY <2>2, <2>3
<1> QED BY <1>5, <1>11, <1>12 DEF AnswerInv

LEMMA CommitAnswers ==
    ASSUME AskTypes, AnswerInv, NEW c \in Clients, RespondCommit(c)
    PROVE  AnswerInv'
<1> DEFINE p == call[c].question
           k == call[c].batch
           a == call[c].answer
<1>1. /\ call[c].on /\ call[c].resolved /\ UNCHANGED <<agent, batch, memory, got, rivals, unrecorded>>
      /\ \A d \in Clients : d # c => call'[d] = call[d]
      /\ ~call'[c].on /\ ~call'[c].resolved
  BY DEF RespondCommit, NoCall, AskTypes, history, AnswerInv, CallsAlone, CallIsAlone
<1>2. /\ p \in Questions /\ a \in Answer /\ k \in 1..batch /\ k \in Batches /\ batch \in Batches
  BY <1>1, HitlAssumption DEF AskTypes, Call, AnswerInv, CallsAlone, CallIsAlone, Batches
<1>3. /\ \A b \in Batches : b # k => answers'[b] = answers[b]
      /\ \A q \in Questions : q # p => answers'[k][q] = answers[k][q]
      /\ answers'[k][p] = IF call[c].fresh THEN a ELSE answers[k][p]
  BY <1>2 DEF RespondCommit, AnswersWritten, AskTypes, Answers
<1>4. \A q \in Questions : q # p => answers'[batch][q] = answers[batch][q]
  BY <1>2, <1>3
<1>5. p \notin rivals =>
        /\ k = batch /\ (call[c].fresh <=> answers[batch][p] = "pending")
        /\ \A d \in Clients : call[d].on /\ call[d].question = p => d = c
  BY <1>1 DEF AnswerInv, CallsAlone, CallIsAlone
<1>6. Clear' = Clear
  BY <1>1 DEF Clear
<1>7. \A d \in Clients, q \in Questions : Recorder(d, q)' <=> Recorder(d, q) /\ d # c
  BY <1>1 DEF Recorder, Writing
<1>8. \A q \in Clear : q # p => (Settled(q)' <=> Settled(q))
  BY <1>7 DEF Settled, Recorder, Clear
<1>9. ASSUME NEW q \in Clear, q = p
      PROVE  /\ \A d \in Clients : ~Recorder(d, q)'
             /\ call[c].fresh => Recorder(c, q) /\ answers'[batch][q] = a
             /\ ~call[c].fresh => Settled(q) /\ answers'[batch][q] = answers[batch][q]
  <2>1. k = batch /\ \A d \in Clients : call[d].on /\ call[d].question = q => d = c
    BY <1>5, <1>9 DEF Clear
  <2>2. \A d \in Clients : Recorder(d, q) => d = c
    BY <2>1 DEF Recorder, Writing, AnswerInv, CallsAlone, CallIsAlone
  <2>3. \A d \in Clients : ~Recorder(d, q)'
    BY <1>7, <1>9, <2>2 DEF Clear
  <2>4. call[c].fresh => Recorder(c, q) /\ answers'[batch][q] = a
    BY <1>1, <1>3, <1>9, <2>1 DEF Recorder, Writing
  <2>5. ~call[c].fresh => Settled(q) /\ answers'[batch][q] = answers[batch][q]
    BY <1>3, <1>9, <2>1, <2>2 DEF Settled, Recorder, Writing
  <2> QED BY <2>3, <2>4, <2>5
<1>10. MemoryAgrees'
  <2>1. \A b \in Batches : b > batch => answers'[b] = answers[b]
    BY <1>2, <1>3 DEF Batches
  <2>2. ASSUME NEW q \in Clear, memory.on, q \in Asked[batch]
        PROVE  /\ Settled(q)' => memory.resolved[q] = answers'[batch][q]
               /\ \A d \in Clients : Recorder(d, q)' => memory.resolved[q] = call'[d].answer
    <3>1. /\ Settled(q) => memory.resolved[q] = answers[batch][q]
          /\ \A d \in Clients : Recorder(d, q) => memory.resolved[q] = call[d].answer
      BY <2>2 DEF AnswerInv, MemoryAgrees
    <3>2. CASE q # p
      BY <1>1, <1>4, <1>7, <1>8, <3>1, <3>2 DEF Clear
    <3>3. CASE q = p
      BY <1>9, <3>1, <3>3
    <3> QED BY <3>2, <3>3
  <2> QED BY <1>1, <1>6, <2>1, <2>2 DEF AnswerInv, MemoryAgrees
<1>11. ASSUME NEW d \in Clients PROVE CallIsAlone(d)'
  <2>1. CASE d = c
    BY <1>1, <2>1 DEF CallIsAlone
  <2>2. CASE d # c
    <3>1. CallIsAlone(d) /\ call'[d] = call[d]
      BY <1>1, <2>2 DEF AnswerInv, CallsAlone
    <3>2. call[d].question \in Questions
      BY DEF AskTypes, Call
    <3>3. ASSUME call[d].on, call[d].question \notin rivals
          PROVE  answers'[batch][call[d].question] = answers[batch][call[d].question]
      <4>1. call[d].question # p
        BY <1>5, <2>2, <3>3
      <4> QED BY <1>4, <3>2, <4>1
    <3> QED BY <1>1, <3>1, <3>3 DEF CallIsAlone
  <2> QED BY <2>1, <2>2
<1>12. GotAgrees'
  <2> SUFFICES ASSUME NEW q \in Clear, got[q] # "pending"
               PROVE  /\ Settled(q)' => got[q] = answers'[batch][q]
                      /\ \A d \in Clients : Recorder(d, q)' => got[q] = call'[d].answer
    BY <1>1, <1>6 DEF GotAgrees
  <2>1. /\ Settled(q) => got[q] = answers[batch][q]
        /\ \A d \in Clients : Recorder(d, q) => got[q] = call[d].answer
    BY DEF AnswerInv, GotAgrees
  <2>2. CASE q # p
    BY <1>1, <1>4, <1>7, <1>8, <2>1, <2>2 DEF Clear
  <2>3. CASE q = p
    BY <1>9, <2>1, <2>3
  <2> QED BY <2>2, <2>3
<1> QED BY <1>10, <1>11, <1>12 DEF AnswerInv, CallsAlone

\* Calls that end without a commit leave only questions that are not clear.
LEMMA LostAnswers ==
    ASSUME AskTypes, AnswerInv, NEW S \in SUBSET Clients,
           UNCHANGED <<batch, answers, got, rivals>>,
           unrecorded' = unrecorded \union Unrecorded(S),
           \A d \in Clients : IF d \in S THEN ~call'[d].on /\ ~call'[d].resolved
                              ELSE call'[d] = call[d],
           \/ UNCHANGED <<memory, agent>>
           \/ memory' = NoMemory /\ agent' = "over"
    PROVE  AnswerInv'
<1>1. CallsAlone'
  BY DEF AnswerInv, CallsAlone, CallIsAlone
<1>2. Clear' \subseteq Clear
  BY DEF Clear
<1>3. \A d \in Clients, q \in Questions : Recorder(d, q)' <=> Recorder(d, q) /\ d \notin S
  BY DEF Recorder, Writing
<1>4. \A q \in Clear', d \in S : ~Recorder(d, q)
  BY DEF Clear, Unrecorded, Recorder
<1>5. \A q \in Clear' : Settled(q)' <=> Settled(q)
  BY <1>3, <1>4 DEF Settled, Clear
<1>6. GotAgrees'
  BY <1>2, <1>3, <1>5 DEF AnswerInv, GotAgrees, Clear
<1>7. MemoryAgrees'
  <2>1. CASE UNCHANGED <<memory, agent>>
    BY <1>2, <1>3, <1>5, <2>1 DEF AnswerInv, MemoryAgrees, Clear
  <2>2. CASE memory' = NoMemory /\ agent' = "over"
    BY <2>2 DEF AnswerInv, MemoryAgrees, NoMemory
  <2> QED BY <2>1, <2>2
<1> QED BY <1>1, <1>6, <1>7 DEF AnswerInv

LEMMA AnswerStep ==
    ASSUME AskTypes, PendingIsAwaited, AnswerInv, [Next]_vars
    PROVE  AnswerInv'
<1>1. CASE AllResolved
  <2>1. /\ UNCHANGED <<batch, answers, callVars, history, memory>>
        /\ got' = memory.resolved /\ memory.on
        /\ agent' \notin {"storing", "waiting"}
    BY <1>1 DEF AllResolved, askVars, callVars, history, Goto, AnswerInv, MemoryAgrees
  <2>2. /\ Clear' = Clear /\ \A q \in Questions, c \in Clients : Recorder(c, q)' <=> Recorder(c, q)
    BY <2>1 DEF callVars, history, Clear, Recorder, Writing
  <2>3. \A q \in Clear : Settled(q)' <=> Settled(q)
    BY <2>2 DEF Settled, Clear
  <2>4. GotAgrees'
    BY <2>1, <2>2, <2>3 DEF GotAgrees, AnswerInv, MemoryAgrees, Clear, callVars
  <2> QED BY <2>1, <2>4, SameAnswers DEF AnswerInv
<1>2. CASE CommitBatch \/ Consume \/ SendDeferred \/ ClearMemory \/ ExitPending \/ Finish
           \/ (\E i \in Inputs : BridgeLoad(i) \/ BridgeStore(i)) \/ Stop
           \/ UNCHANGED vars
  <2>1. UNCHANGED <<batch, answers, callVars, history, got>>
    BY <1>2 DEF CommitBatch, Consume, SendDeferred, ClearMemory, ExitPending, Finish,
       BridgeLoad, BridgeStore, Stop, askVars, callVars, history, vars
  <2>2. \/ memory' = memory /\ (agent' \in {"storing", "waiting"} => memory.on)
        \/ memory' = NoMemory /\ agent' \notin {"storing", "waiting"}
    BY <1>2 DEF CommitBatch, Consume, SendDeferred, ClearMemory, ExitPending, Finish,
       BridgeLoad, BridgeStore, Stop, vars, Goto, AnswerInv, MemoryAgrees
  <2> QED BY <2>1, <2>2, SameAnswers DEF AnswerInv
<1>3. ASSUME NEW c \in Clients, RespondFail(c) PROVE AnswerInv'
  <2>1. /\ UNCHANGED <<batch, answers, got, rivals, memory, agent>>
        /\ unrecorded' = unrecorded \union Unrecorded({c})
        /\ \A d \in Clients : IF d \in {c} THEN ~call'[d].on /\ ~call'[d].resolved
                              ELSE call'[d] = call[d]
    BY <1>3 DEF RespondFail, askVars, NoCall, AskTypes
  <2> QED BY <2>1, LostAnswers
<1>4. CASE CrashRestart
  <2>1. /\ UNCHANGED <<batch, answers, got, rivals>>
        /\ unrecorded' = unrecorded \union Unrecorded(Clients)
        /\ \A d \in Clients : ~call'[d].on /\ ~call'[d].resolved
        /\ memory' = NoMemory /\ agent' = "over"
    BY <1>4 DEF CrashRestart, askVars, NoCall, Goto
  <2> QED BY <2>1, LostAnswers
<1> QED BY <1>1, <1>2, <1>3, <1>4, EnterAnswers, LoadAnswers, ResolveAnswers, CommitAnswers
       DEF Next, ExecutorStep

LEMMA AnswerInvariant == Spec => [](AskTypes /\ PendingIsAwaited /\ AnswerInv)
<1>1. Init => AskTypes /\ PendingIsAwaited /\ AnswerInv
  <2>1. ASSUME Init PROVE AnswerInv
    <3>1. ~memory.on /\ memory = NoMemory /\ agent = "streaming"
      BY <2>1 DEF Init, NoMemory
    <3>2. \A c \in Clients : ~call[c].on /\ ~call[c].resolved
      BY <2>1 DEF Init, NoCall
    <3>3. \A b \in Batches : answers[b] = Pending
      BY <2>1 DEF Init
    <3>4. GotAgrees
      BY <2>1 DEF Init, GotAgrees, Clear, Pending
    <3> QED BY <3>1, <3>2, <3>3, <3>4 DEF AnswerInv, MemoryAgrees, CallsAlone, CallIsAlone
  <2> QED BY <2>1, InitTypes, InitAwaited
<1>2. AskTypes /\ PendingIsAwaited /\ AnswerInv /\ [Next]_vars
        => AskTypes' /\ PendingIsAwaited' /\ AnswerInv'
  BY StepTypes, AwaitedStep, AnswerStep
<1> QED BY <1>1, <1>2, PTL DEF Spec

\* Although the agent goes on before the answers are committed, it goes on with
\* what the rows record or an open call is about to commit, but for a question
\* that two calls answered at once, one with a call of an earlier batch open, or
\* one whose answer was rolled back.
THEOREM AnswersAgree == Spec => []RecordedAnswerIsUsed
<1>1. GotAgrees => RecordedAnswerIsUsed
  <2> SUFFICES ASSUME GotAgrees, NEW q \in Clear, got[q] # "pending"
               PROVE  got[q] \in {answers[batch][q]} \union OnItsWay(q)
    BY DEF RecordedAnswerIsUsed, Clear
  <2>1. CASE Settled(q)
    BY <2>1 DEF GotAgrees
  <2>2. ASSUME NEW c \in Clients, Recorder(c, q)
        PROVE  got[q] \in OnItsWay(q)
    BY <2>2 DEF GotAgrees, OnItsWay, Recorder
  <2> QED BY <2>1, <2>2 DEF Settled
<1>2. AnswerInv => GotAgrees
  BY DEF AnswerInv
<1> QED BY AnswerInvariant, <1>1, <1>2, PTL

\* An answer is recorded once, for the batch that is asked: as long as a question
\* has no rivals, no call changes the row of an earlier batch or an answer that is
\* there, although a call writes a row that it loaded before it waited.
AnswersStay ==
    \A b \in Batches : \A q \in Questions \ rivals :
        answers'[b][q] # answers[b][q] => b = batch /\ answers[b][q] = "pending"

\* Through respond, its stale writes, failed commits, new batches and restarts, an
\* answer that was recorded for a question without rivals stays what it was.
THEOREM AnswersAreFinal == Spec => [][AnswersStay]_vars
<1>1. AskTypes /\ AnswerInv /\ [Next]_vars => [AnswersStay]_vars
  <2> SUFFICES ASSUME AskTypes, AnswerInv, Next PROVE AnswersStay
    BY Zenon
  <2>1. CASE \E c \in Clients : RespondCommit(c)
    <3>1. PICK c \in Clients : RespondCommit(c)
      BY <2>1
    <3> DEFINE k == call[c].batch
               p == call[c].question
    <3>2. call[c].on /\ (call[c].fresh \/ answers' = answers)
      BY <3>1 DEF RespondCommit, AnswersWritten, AnswerInv, CallsAlone, CallIsAlone
    <3>3. p \in Questions /\ k \in Batches /\ k \in 1..batch /\ CallIsAlone(c)
      BY <3>2, HitlAssumption DEF AskTypes, Call, AnswerInv, CallsAlone, CallIsAlone, Batches
    <3>4. \A b \in Batches, q \in Questions : b # k \/ q # p => answers'[b][q] = answers[b][q]
      BY <3>1, <3>3 DEF RespondCommit, AnswersWritten, AskTypes, Answers
    <3>5. p \notin rivals /\ call[c].fresh => k = batch /\ answers[k][p] = "pending"
      BY <3>2, <3>3 DEF CallIsAlone
    <3> QED BY <3>2, <3>4, <3>5 DEF AnswersStay
  <2>2. CASE ~ \E c \in Clients : RespondCommit(c)
    <3>1. answers' = answers
      BY <2>2 DEF Next, ExecutorStep, EnterPending, CommitBatch, AllResolved, Consume,
         SendDeferred, ClearMemory, ExitPending, Finish, RespondLoad, RespondResolve,
         RespondFail, BridgeLoad, BridgeStore, Stop, CrashRestart, askVars
    <3> QED BY <3>1 DEF AnswersStay
  <2> QED BY <2>1, <2>2
<1> QED BY AnswerInvariant, <1>1, PTL DEF Spec

(***************************************************************************)
(* No wait is without a way out                                            *)
(***************************************************************************)

\* A question that is not resolved in memory has no answer in its row either, and
\* no call is about to close the batch.
UnresolvedIsOpen ==
    /\ agent \in {"storing", "waiting"} =>
         \A q \in Asked[batch] : memory.resolved[q] = "pending" => answers[batch][q] = "pending"
    /\ agent = "waiting" =>
         \A q \in Asked[batch] : memory.resolved[q] = "pending" => open[batch]
    /\ \A c \in Clients : call[c].on /\ call[c].batch = batch =>
         /\ agent # "storing"
         /\ agent = "waiting" /\ call[c].resolved =>
              /\ memory.resolved[call[c].question] # "pending"
              /\ call[c].closes => \A q \in Asked[batch] : memory.resolved[q] # "pending"

LEMMA OpenResolve ==
    ASSUME AskTypes, AnswerInv, UnresolvedIsOpen, NEW c \in Clients, RespondResolve(c)
    PROVE  UnresolvedIsOpen'
<1> DEFINE p == call[c].question
           a == call[c].answer
<1>1. /\ call[c].on /\ UNCHANGED <<agent, batch, answers, open>>
      /\ \A d \in Clients : d # c => call'[d] = call[d]
      /\ call'[c].on /\ call'[c].batch = call[c].batch /\ call'[c].question = p
      /\ call'[c].closes = AllAnswered(AnswersWritten(c))
  BY DEF RespondResolve, AskTypes, askVars, Call
<1>2. p \in Questions /\ a \in Answer
  BY DEF AskTypes, Call
<1>3. /\ \A q \in Questions : q # p => memory'.resolved[q] = memory.resolved[q]
      /\ memory'.resolved[p] = IF Resolves(c) THEN a ELSE memory.resolved[p]
  BY <1>2 DEF RespondResolve, Resolves, AskTypes, Memory
<1>4. \A q \in Questions : memory'.resolved[q] = "pending" => memory.resolved[q] = "pending"
  BY <1>2, <1>3 DEF Resolves
<1>5. agent \in {"storing", "waiting"} =>
        memory.on /\ batch \in Batches /\ batch \in 1..batch /\ Asked[batch] \subseteq Questions
  BY HitlAssumption DEF AnswerInv, MemoryAgrees, Batches
<1>6. ASSUME agent = "waiting", call[c].batch = batch
      PROVE  /\ memory'.resolved[p] # "pending"
             /\ AllAnswered(AnswersWritten(c)) =>
                  \A q \in Asked[batch] : memory'.resolved[q] # "pending"
  <2>1. p \in Asked[batch] /\ memory'.resolved[p] # "pending"
    BY <1>1, <1>2, <1>3, <1>5, <1>6 DEF AnswerInv, CallsAlone, CallIsAlone, Resolves, Answer
  <2>2. ASSUME NEW q \in Asked[batch], memory'.resolved[q] = "pending"
        PROVE  ~AllAnswered(AnswersWritten(c))
    <3>1. q # p /\ q \in Questions
      BY <1>5, <1>6, <2>1, <2>2
    <3>2. answers[batch][q] = "pending"
      BY <1>4, <1>6, <2>2, <3>1 DEF UnresolvedIsOpen
    <3>3. AnswersWritten(c)[batch][q] = "pending"
      BY <1>2, <1>5, <1>6, <3>1, <3>2 DEF AnswersWritten, AskTypes, Answers
    <3>4. batch \in Counted
      BY <1>5, <1>6 DEF Counted
    <3> QED BY <2>2, <3>3, <3>4 DEF AllAnswered
  <2> QED BY <2>1, <2>2
<1>7. ASSUME NEW d \in Clients, call'[d].on, call'[d].batch = batch
      PROVE  /\ agent # "storing"
             /\ agent = "waiting" /\ call'[d].resolved =>
                  /\ memory'.resolved[call'[d].question] # "pending"
                  /\ call'[d].closes => \A q \in Asked[batch] : memory'.resolved[q] # "pending"
  <2>1. CASE d = c
    BY <1>1, <1>6, <1>7, <2>1 DEF UnresolvedIsOpen
  <2>2. CASE d # c
    <3>1. call'[d] = call[d] /\ call[d].question \in Questions
      BY <1>1, <2>2 DEF AskTypes, Call
    <3> QED BY <1>4, <1>5, <1>7, <3>1 DEF UnresolvedIsOpen
  <2> QED BY <2>1, <2>2
<1> QED BY <1>1, <1>4, <1>5, <1>7 DEF UnresolvedIsOpen

LEMMA OpenCommit ==
    ASSUME AskTypes, AnswerInv, UnresolvedIsOpen, NEW c \in Clients, RespondCommit(c)
    PROVE  UnresolvedIsOpen'
<1> DEFINE k == call[c].batch
           p == call[c].question
<1>1. /\ call[c].on /\ call[c].resolved /\ UNCHANGED <<agent, batch, memory>>
      /\ answers' = AnswersWritten(c)
      /\ \A b \in Batches : open'[b] <=> open[b] /\ ~(call[c].closes /\ b = k)
      /\ \A d \in Clients : d # c => call'[d] = call[d]
      /\ ~call'[c].on
  BY DEF RespondCommit, NoCall, AskTypes, AnswerInv, CallsAlone, CallIsAlone
<1>2. p \in Questions /\ k \in Batches /\ call[c].answer \in Answer
  BY <1>1, HitlAssumption DEF AskTypes, Call, AnswerInv, CallsAlone, CallIsAlone, Batches
<1>3. ASSUME agent \in {"storing", "waiting"}, NEW q \in Asked[batch], memory.resolved[q] = "pending"
      PROVE  answers'[batch][q] = "pending" /\ (agent = "waiting" => open'[batch])
  <2>1. batch \in Batches /\ q \in Questions
    BY <1>3, HitlAssumption DEF AnswerInv, MemoryAgrees, Batches
  <2>2. answers[batch][q] = "pending" /\ (agent = "waiting" => open[batch])
    BY <1>3 DEF UnresolvedIsOpen
  <2>3. k = batch => agent = "waiting" /\ q # p /\ ~call[c].closes
    BY <1>1, <1>3 DEF UnresolvedIsOpen
  <2>4. answers'[batch][q] = answers[batch][q]
    BY <1>1, <1>2, <2>1, <2>3 DEF AnswersWritten, AskTypes, Answers
  <2> QED BY <1>1, <2>1, <2>2, <2>3, <2>4
<1> QED BY <1>1, <1>3 DEF UnresolvedIsOpen

LEMMA OpenStep ==
    ASSUME AskTypes, PendingIsAwaited, AnswerInv, UnresolvedIsOpen, [Next]_vars
    PROVE  UnresolvedIsOpen'
<1>1. CASE EnterPending
  <2>1. batch + 1 \in Batches /\ batch' = batch + 1 /\ batch + 1 > batch /\ batch \in Nat
    BY <1>1, HitlAssumption DEF AskTypes, EnterPending, Batches
  <2>2. /\ answers' = answers /\ answers[batch + 1] = Pending /\ agent' = "storing"
        /\ call' = call
    BY <1>1, <2>1 DEF EnterPending, AnswerInv, MemoryAgrees, Goto
  <2>3. Asked[batch'] \subseteq Questions
    BY <2>1, HitlAssumption DEF Batches
  <2>4. \A c \in Clients : ~(call'[c].on /\ call'[c].batch = batch')
    BY <2>1, <2>2 DEF AnswerInv, CallsAlone, CallIsAlone
  <2> QED BY <2>1, <2>2, <2>3, <2>4 DEF UnresolvedIsOpen, Pending
<1>2. CASE CommitBatch
  <2>1. agent = "storing" /\ agent' = "waiting" /\ batch \in Batches
        /\ UNCHANGED <<batch, answers, memory, call>>
    BY <1>2 DEF CommitBatch, AnswerInv, MemoryAgrees, Goto, callVars, history
  <2>2. open'[batch]
    BY <1>2, <2>1 DEF CommitBatch, AskTypes
  <2>3. \A c \in Clients : ~(call'[c].on /\ call'[c].batch = batch')
    BY <2>1 DEF UnresolvedIsOpen
  <2> QED BY <2>1, <2>2, <2>3 DEF UnresolvedIsOpen
<1>3. ASSUME NEW c \in Clients, NEW q \in Questions, NEW a \in Answer, RespondLoad(c, q, a)
      PROVE  UnresolvedIsOpen'
  <2>1. /\ UNCHANGED <<agent, batch, open, answers, memory>>
        /\ \A d \in Clients : d # c => call'[d] = call[d]
        /\ ~call'[c].resolved
    BY <1>3 DEF RespondLoad, askVars, AskTypes
  <2>2. agent # "storing"
    <3>1. \E b \in Batches : open[b] /\ status = "running"
      BY <1>3 DEF RespondLoad, PendingBatch
    <3> QED BY <3>1 DEF PendingIsAwaited
  <2> QED BY <2>1, <2>2 DEF UnresolvedIsOpen
<1>4. CASE \/ AllResolved \/ Consume \/ SendDeferred \/ ClearMemory \/ ExitPending \/ Finish
           \/ Stop \/ CrashRestart \/ UNCHANGED vars
           \/ \E c \in Clients : RespondFail(c)
           \/ \E i \in Inputs : BridgeLoad(i) \/ BridgeStore(i)
  <2>1. /\ \/ agent' \notin {"storing", "waiting"}
           \/ UNCHANGED <<agent, batch, open, answers, memory>>
        /\ \A c \in Clients : call'[c] = call[c] \/ ~call'[c].on
    <3>1. CASE \E c \in Clients : RespondFail(c)
      BY <3>1 DEF RespondFail, askVars, NoCall, AskTypes
    <3>2. CASE CrashRestart
      BY <3>2 DEF CrashRestart, Goto, NoCall
    <3>3. CASE \/ AllResolved \/ Consume \/ SendDeferred \/ ClearMemory \/ ExitPending
               \/ Finish \/ Stop \/ UNCHANGED vars
               \/ \E i \in Inputs : BridgeLoad(i) \/ BridgeStore(i)
      <4>1. call' = call
        BY <3>3 DEF AllResolved, Consume, SendDeferred, ClearMemory, ExitPending, Finish, Stop,
           BridgeLoad, BridgeStore, vars, callVars
      <4>2. \/ agent' \notin {"storing", "waiting"}
            \/ UNCHANGED <<agent, batch, open, answers, memory>>
        BY <3>3 DEF AllResolved, Consume, SendDeferred, ClearMemory, ExitPending, Finish, Stop,
           BridgeLoad, BridgeStore, Goto, vars, askVars
      <4> QED BY <4>1, <4>2
    <3> QED BY <1>4, <3>1, <3>2, <3>3
  <2> QED BY <2>1 DEF UnresolvedIsOpen
<1> QED BY <1>1, <1>2, <1>3, <1>4, OpenResolve, OpenCommit DEF Next, ExecutorStep

\* While the executor waits for an answer, the row of the question is pending in
\* a batch that is pending, so that a call can still give it: memory, rows and
\* batch are written at different times, and calls of another batch or for the
\* same question, late commits and failed ones never close the batch too early.
UnansweredCanBeAnswered ==
    agent = "waiting" =>
        /\ memory.on
        /\ \A q \in Asked[batch] : memory.resolved[q] = "pending" =>
              open[batch] /\ answers[batch][q] = "pending"

\* A wait always has a way out: each question the executor waits for can still be
\* answered (respond, and the batch it writes).
THEOREM WaitHasWayOut == Spec => []UnansweredCanBeAnswered
<1>1. Init => UnresolvedIsOpen
  BY DEF Init, UnresolvedIsOpen, NoCall
<1>2. AskTypes /\ PendingIsAwaited /\ AnswerInv /\ UnresolvedIsOpen /\ [Next]_vars
        => UnresolvedIsOpen'
  BY OpenStep
<1>3. AnswerInv /\ UnresolvedIsOpen => UnansweredCanBeAnswered
  BY DEF AnswerInv, MemoryAgrees, UnresolvedIsOpen, UnansweredCanBeAnswered
<1> QED BY AnswerInvariant, <1>1, <1>2, <1>3, PTL DEF Spec
-----------------------------------------------------------------------------
(***************************************************************************)
(* What Among keeps of a sequence.  It is defined by recursion over the    *)
(* entries, so its properties are shown by induction, which here takes the *)
(* form of a least counterexample.                                         *)
(***************************************************************************)

\* Induction over the naturals is a least counterexample: a set of naturals that
\* is not empty has a least element.
LEMMA Least ==
    ASSUME NEW T \in SUBSET Nat, T # {}
    PROVE  \E m \in T : \A n \in T : m <= n
<1> DEFINE R == OpToRel(<, Nat)
<1>1. IsWellFoundedOn(R, Nat)
  BY NatLessThanWellFounded
<1> HIDE DEF R
<1>2. PICK m \in T : \A n \in T : <<n, m>> \notin R
  BY <1>1, WFMin
<1> USE DEF R
<1>3. \A n \in T : ~(n < m)
  BY <1>2 DEF OpToRel
<1> QED BY <1>3

\* f is the sequence of what is kept of each of the first n entries of s.
Keeps(f, n, s, S) ==
    f = [k \in 0..n |->
           IF k = 0 THEN <<>>
           ELSE IF s[k] \in S THEN Append(f[k - 1], s[k]) ELSE f[k - 1]]

\* There is such a function.
LEMMA KeepsExists ==
    ASSUME NEW s, NEW S, NEW len \in Nat
    PROVE  \E f : Keeps(f, len, s, S)
<1> DEFINE T == {n \in Nat : ~ \E f : Keeps(f, n, s, S)}
<1> SUFFICES ASSUME T # {} PROVE FALSE
  OBVIOUS
<1>1. PICK m \in T : \A n \in T : m <= n
  BY Least
<1>2. CASE m = 0
  <2> DEFINE f == [k \in 0..0 |-> <<>>]
  <2>1. Keeps(f, 0, s, S)
    BY DEF Keeps
  <2> QED BY <1>2, <2>1
<1>3. CASE m # 0
  <2>1. m - 1 \in Nat /\ m - 1 \notin T
    BY <1>1, <1>3
  <2>2. PICK g : Keeps(g, m - 1, s, S)
    BY <2>1
  <2> DEFINE f == [k \in 0..m |->
                     IF k # m THEN g[k]
                     ELSE IF s[m] \in S THEN Append(g[m - 1], s[m]) ELSE g[m - 1]]
  <2>3. \A k \in 0..m - 1 : f[k] = g[k]
    BY <1>3
  <2>4. \A k \in 0..m - 1 :
           g[k] = IF k = 0 THEN <<>>
                  ELSE IF s[k] \in S THEN Append(g[k - 1], s[k]) ELSE g[k - 1]
    BY <2>2 DEF Keeps
  <2>5. \A k \in 0..m :
           f[k] = IF k = 0 THEN <<>>
                  ELSE IF s[k] \in S THEN Append(f[k - 1], s[k]) ELSE f[k - 1]
    <3> SUFFICES ASSUME NEW k \in 0..m
                 PROVE  f[k] = IF k = 0 THEN <<>>
                               ELSE IF s[k] \in S THEN Append(f[k - 1], s[k]) ELSE f[k - 1]
      OBVIOUS
    <3>1. CASE k = m
      BY <1>3, <2>1, <2>3, <3>1
    <3>2. CASE k # m
      BY <1>3, <2>1, <2>3, <2>4, <3>2
    <3> QED BY <3>1, <3>2
  <2>6. Keeps(f, m, s, S)
    BY <2>5 DEF Keeps
  <2> QED BY <1>1, <2>6
<1> QED BY <1>2, <1>3

\* It does not depend on what follows the n entries.
LEMMA KeepsAgree ==
    ASSUME NEW S, NEW s, NEW t, NEW n \in Nat, NEW m \in Nat, n <= m,
           NEW f, Keeps(f, n, s, S), NEW g, Keeps(g, m, t, S),
           \A k \in 1..n : s[k] = t[k]
    PROVE  f[n] = g[n]
<1> DEFINE T == {k \in 0..n : f[k] # g[k]}
<1> SUFFICES ASSUME T # {} PROVE FALSE
  OBVIOUS
<1>1. T \in SUBSET Nat
  OBVIOUS
<1> HIDE DEF T
<1>2. PICK k \in T : \A j \in T : k <= j
  BY <1>1, Least
<1> USE DEF T
<1>3. k \in 0..n /\ k \in 0..m
  OBVIOUS
<1>4. CASE k = 0
  BY <1>3, <1>4 DEF Keeps
<1>5. CASE k # 0
  <2>1. k - 1 \in 0..n /\ k - 1 \notin T /\ k \in 1..n
    BY <1>2, <1>3, <1>5
  <2>2. f[k - 1] = g[k - 1] /\ s[k] = t[k]
    BY <2>1
  <2>3. f[k] = IF s[k] \in S THEN Append(f[k - 1], s[k]) ELSE f[k - 1]
    BY <1>3, <1>5 DEF Keeps
  <2>4. g[k] = IF t[k] \in S THEN Append(g[k - 1], t[k]) ELSE g[k - 1]
    BY <1>3, <1>5 DEF Keeps
  <2> QED BY <2>2, <2>3, <2>4
<1> QED BY <1>4, <1>5

LEMMA AmongKeeps ==
    ASSUME NEW D, NEW s \in Seq(D), NEW S
    PROVE  \E f : Keeps(f, Len(s), s, S) /\ Among(s, S) = f[Len(s)]
<1> DEFINE f == CHOOSE f : Keeps(f, Len(s), s, S)
<1>1. Keeps(f, Len(s), s, S)
  <2>1. Len(s) \in Nat
    OBVIOUS
  <2>2. \E g : Keeps(g, Len(s), s, S)
    BY <2>1, KeepsExists, Zenon
  <2> QED BY <2>2, Zenon
<1>2. Among(s, S) = f[Len(s)]
  BY DEF Among, Keeps
<1> QED BY <1>1, <1>2

\* What is kept of a sequence, one entry at a time.
LEMMA AmongEmpty == ASSUME NEW S PROVE Among(<<>>, S) = <<>>
<1>1. PICK f : Keeps(f, Len(<<>>), <<>>, S) /\ Among(<<>>, S) = f[Len(<<>>)]
  BY AmongKeeps, EmptySeq
<1>2. Len(<<>>) = 0
  OBVIOUS
<1> QED BY <1>1, <1>2 DEF Keeps

LEMMA AmongAppend ==
    ASSUME NEW D, NEW s \in Seq(D), NEW x \in D, NEW S
    PROVE  Among(Append(s, x), S) =
             IF x \in S THEN Append(Among(s, S), x) ELSE Among(s, S)
<1> DEFINE t == Append(s, x)
           n == Len(s)
<1>1. /\ t \in Seq(D) /\ n \in Nat /\ Len(t) = n + 1 /\ t[n + 1] = x
      /\ \A k \in 1..n : t[k] = s[k]
  BY AppendProperties
<1>2. PICK f : Keeps(f, n, s, S) /\ Among(s, S) = f[n]
  BY AmongKeeps
<1>3. PICK g : Keeps(g, n + 1, t, S) /\ Among(t, S) = g[n + 1]
  BY <1>1, AmongKeeps
<1> HIDE DEF t, n
<1>4. g[n + 1] = IF t[n + 1] \in S THEN Append(g[n], t[n + 1]) ELSE g[n]
  <2>1. n + 1 \in 0..n + 1 /\ n + 1 # 0 /\ (n + 1) - 1 = n
    BY <1>1
  <2> QED BY <1>3, <2>1 DEF Keeps
<1>5. f[n] = g[n]
  BY <1>1, <1>2, <1>3, KeepsAgree
<1> QED BY <1>1, <1>2, <1>3, <1>4, <1>5 DEF t

\* Induction over sequences, by the length of a shortest counterexample.
LEMMA Shortest ==
    ASSUME NEW D, NEW B \in SUBSET Seq(D), B # {}
    PROVE  \E s \in B : \/ s = <<>>
                        \/ \E t \in Seq(D), x \in D : s = Append(t, x) /\ t \notin B
<1> DEFINE T == {n \in Nat : \E s \in B : Len(s) = n}
<1>1. T # {}
  BY LenProperties
<1> HIDE DEF T
<1>2. PICK m \in T : \A n \in T : m <= n
  BY <1>1, Least DEF T
<1> USE DEF T
<1>3. PICK s \in B : Len(s) = m
  OBVIOUS
<1>4. CASE s = <<>>
  BY <1>4
<1>5. ASSUME NEW t \in Seq(D), NEW x \in D, s = Append(t, x)
      PROVE  t \notin B
  <2>1. Len(t) \in Nat /\ Len(t) < m
    BY <1>3, <1>5, AppendProperties, LenProperties
  <2>2. Len(t) \notin T
    BY <1>2, <2>1
  <2> QED BY <2>1, <2>2
<1>6. CASE s # <<>>
  <2>1. PICK t \in Seq(D), x \in D : s = Append(t, x)
    BY <1>6, SequenceEmptyOrAppend
  <2> HIDE DEF T
  <2> QED BY <1>5, <2>1
<1> QED BY <1>4, <1>6

LEMMA AmongType ==
    ASSUME NEW D, NEW s \in Seq(D), NEW S PROVE Among(s, S) \in Seq(D)
<1> DEFINE B == {t \in Seq(D) : Among(t, S) \notin Seq(D)}
<1> SUFFICES ASSUME B # {} PROVE FALSE
  OBVIOUS
<1>1. B \in SUBSET Seq(D)
  OBVIOUS
<1> HIDE DEF B
<1>2. PICK t \in B : \/ t = <<>>
                     \/ \E u \in Seq(D), x \in D : t = Append(u, x) /\ u \notin B
  BY <1>1, Shortest
<1> USE DEF B
<1>3. CASE t = <<>>
  BY <1>3, AmongEmpty
<1>4. ASSUME NEW u \in Seq(D), NEW x \in D, t = Append(u, x), u \notin B PROVE FALSE
  <2>1. Among(u, S) \in Seq(D) /\ Among(t, S) \notin Seq(D)
    BY <1>4
  <2>2. Among(t, S) = IF x \in S THEN Append(Among(u, S), x) ELSE Among(u, S)
    BY <1>4, AmongAppend
  <2>3. Append(Among(u, S), x) \in Seq(D)
    BY <2>1, AppendProperties
  <2> QED BY <2>1, <2>2, <2>3
<1> QED BY <1>2, <1>3, <1>4

\* Nothing is kept of a sequence none of whose entries is in the set.
LEMMA AmongNone ==
    ASSUME NEW D, NEW s \in Seq(D), NEW S, \A k \in 1..Len(s) : s[k] \notin S
    PROVE  Among(s, S) = <<>>
<1> DEFINE B == {t \in Seq(D) : (\A k \in 1..Len(t) : t[k] \notin S) /\ Among(t, S) # <<>>}
<1> SUFFICES ASSUME B # {} PROVE FALSE
  OBVIOUS
<1>1. B \in SUBSET Seq(D)
  OBVIOUS
<1> HIDE DEF B
<1>2. PICK t \in B : \/ t = <<>>
                     \/ \E u \in Seq(D), x \in D : t = Append(u, x) /\ u \notin B
  BY <1>1, Shortest
<1> USE DEF B
<1>3. CASE t = <<>>
  BY <1>3, AmongEmpty
<1>4. ASSUME NEW u \in Seq(D), NEW x \in D, t = Append(u, x), u \notin B PROVE FALSE
  <2>1. /\ Len(u) \in Nat /\ Len(t) = Len(u) + 1 /\ t[Len(u) + 1] = x
        /\ \A k \in 1..Len(u) : t[k] = u[k]
    BY <1>4, AppendProperties
  <2>2. x \notin S /\ \A k \in 1..Len(u) : u[k] \notin S
    BY <2>1
  <2> QED BY <1>4, <2>2, AmongAppend
<1> QED BY <1>2, <1>3, <1>4

\* Where no entry of R comes before one of S, what is kept of both is what is
\* kept of S and then what is kept of R.
Before(s, S, R) ==
    \A p, q \in 1..Len(s) : p <= q /\ s[q] \in S => s[p] \notin R

BothKept(s, S, R) ==
    Before(s, S, R) => Among(s, S \union R) = Among(s, S) \o Among(s, R)

LEMMA AmongBothStep ==
    ASSUME NEW D, NEW u \in Seq(D), NEW x \in D, NEW S, NEW R, BothKept(u, S, R)
    PROVE  BothKept(Append(u, x), S, R)
<1> SUFFICES ASSUME Before(Append(u, x), S, R)
             PROVE  Among(Append(u, x), S \union R) =
                      Among(Append(u, x), S) \o Among(Append(u, x), R)
  BY DEF BothKept
<1> DEFINE t == Append(u, x)
           n == Len(u)
<1>1. /\ n \in Nat /\ Len(t) = n + 1 /\ t[n + 1] = x
      /\ \A k \in 1..n : t[k] = u[k]
  BY AppendProperties
<1>2. Among(t, S) = IF x \in S THEN Append(Among(u, S), x) ELSE Among(u, S)
  BY AmongAppend
<1>3. Among(t, R) = IF x \in R THEN Append(Among(u, R), x) ELSE Among(u, R)
  BY AmongAppend
<1>4. Among(t, S \union R) = IF x \in S \union R THEN Append(Among(u, S \union R), x)
                             ELSE Among(u, S \union R)
  BY AmongAppend
<1>5. Before(t, S, R)
  OBVIOUS
<1> HIDE DEF t, n
<1>6. Before(u, S, R)
  BY <1>1, <1>5 DEF Before, n
<1>7. Among(u, S \union R) = Among(u, S) \o Among(u, R)
  BY <1>6 DEF BothKept
<1>8. Among(u, S) \in Seq(D) /\ Among(u, R) \in Seq(D)
  BY AmongType
<1>9. Among(t, S \union R) = Among(t, S) \o Among(t, R)
  <2>1. CASE x \in S
    <3>1. (\A k \in 1..n : u[k] \notin R) /\ x \notin R
      BY <1>1, <1>5, <2>1 DEF Before
    <3>2. Among(u, R) = <<>>
      BY <3>1, AmongNone DEF n
    <3>3. Among(u, S) \o <<>> = Among(u, S)
      BY <1>8, ConcatEmptySeq
    <3>4. Append(Among(u, S), x) \o <<>> = Append(Among(u, S), x)
      BY <1>8, AppendProperties, ConcatEmptySeq
    <3> QED BY <1>2, <1>3, <1>4, <1>7, <2>1, <3>1, <3>2, <3>3, <3>4
  <2>2. CASE x \notin S /\ x \in R
    <3>1. PICK a \in Seq(D), b \in Seq(D) : a = Among(u, S) /\ b = Among(u, R)
      BY <1>8
    <3>2. a \o b \in Seq(D) /\ <<x>> \in Seq(D)
      BY ConcatProperties
    <3>3. Append(a \o b, x) = (a \o b) \o <<x>> /\ Append(b, x) = b \o <<x>>
      BY <3>2, AppendIsConcat
    <3>4. (a \o b) \o <<x>> = a \o (b \o <<x>>)
      BY <3>2, ConcatAssociative
    <3> QED BY <1>2, <1>3, <1>4, <1>7, <2>2, <3>1, <3>3, <3>4
  <2>3. CASE x \notin S /\ x \notin R
    BY <1>2, <1>3, <1>4, <1>7, <2>3
  <2> QED BY <2>1, <2>2, <2>3
<1> QED BY <1>9 DEF t

LEMMA AmongBoth ==
    ASSUME NEW D, NEW s \in Seq(D), NEW S, NEW R
    PROVE  BothKept(s, S, R)
<1> DEFINE B == {t \in Seq(D) : ~BothKept(t, S, R)}
<1> SUFFICES ASSUME B # {} PROVE FALSE
  OBVIOUS
<1>1. B \in SUBSET Seq(D)
  OBVIOUS
<1> HIDE DEF B
<1>2. PICK t \in B : \/ t = <<>>
                     \/ \E u \in Seq(D), x \in D : t = Append(u, x) /\ u \notin B
  BY <1>1, Shortest
<1> USE DEF B
<1>3. CASE t = <<>>
  <2>1. Among(<<>>, S) = <<>> /\ Among(<<>>, R) = <<>> /\ Among(<<>>, S \union R) = <<>>
    BY AmongEmpty
  <2>2. <<>> \o <<>> = <<>>
    OBVIOUS
  <2>3. Among(<<>>, S \union R) = Among(<<>>, S) \o Among(<<>>, R)
    BY <2>1, <2>2, Zenon
  <2>4. BothKept(<<>>, S, R)
    BY <2>3, Zenon DEF BothKept
  <2> QED BY <1>3, <2>4
<1>4. ASSUME NEW u \in Seq(D), NEW x \in D, t = Append(u, x), u \notin B PROVE FALSE
  BY <1>4, AmongBothStep
<1> QED BY <1>2, <1>3, <1>4

-----------------------------------------------------------------------------
(***************************************************************************)
(* Deferred inputs                                                         *)
(***************************************************************************)
InputTypes ==
    /\ stored \in [Inputs -> Input]
    /\ arrivals \in Seq(Inputs) /\ toSend \in Seq(Inputs) /\ bus \in Seq(Inputs)
    /\ found \in [Inputs -> 0..MaxBatches]
    /\ faults \in Nat

Consumed == {i \in Inputs : stored[i].status = "consumed"}

\* An input comes with a batch that was asked.  Those of earlier batches came
\* before the consumed ones of a later batch, and a batch whose answers are not
\* processed yet has no consumed input.
BatchOrder ==
    /\ \A i \in Inputs : found[i] <= batch /\ stored[i].batch <= batch
    /\ \A k \in 1..Len(arrivals) : stored[arrivals[k]].status # "absent"
    /\ \A p, q \in 1..Len(arrivals) :
          p <= q /\ arrivals[q] \in Consumed =>
            stored[arrivals[p]].batch <= stored[arrivals[q]].batch
    /\ agent \in {"storing", "waiting", "processing"} =>
          \A i \in Consumed : stored[i].batch < batch

\* What is on the bus and what is about to be put there are the consumed inputs.
SentInOrder ==
    /\ agent \notin {"raising", "over"} => bus \o toSend = InOrder(Consumed)
    /\ agent \notin {"forwarding", "raising", "over"} => toSend = <<>>
    /\ status = "completed" => agent = "over" /\ bus = InOrder(Consumed)

InputInv == InputTypes /\ BatchOrder /\ SentInOrder

LEMMA InputInit == Init => InputInv
<1> SUFFICES ASSUME Init PROVE InputInv
  OBVIOUS
<1>1. InputTypes
  BY HitlAssumption DEF Init, InputTypes, Input
<1>2. Consumed = {}
  BY DEF Init, Consumed
<1>3. BatchOrder
  BY <1>2 DEF Init, BatchOrder
<1>4. Among(<<>>, {}) = <<>> /\ <<>> \o <<>> = <<>>
  BY AmongEmpty
<1>5. SentInOrder
  BY <1>2, <1>4 DEF Init, SentInOrder, InOrder
<1> QED BY <1>1, <1>3, <1>5 DEF InputInv

\* Steps that store and consume nothing keep what was sent in order.
LEMMA NothingConsumed ==
    ASSUME BatchOrder, UNCHANGED <<stored, arrivals>>, batch' \in Nat, batch \in Nat,
           batch <= batch', InputTypes,
           \A i \in Inputs : found'[i] <= batch',
           agent' \in {"storing", "waiting", "processing"} =>
              agent \in {"storing", "waiting", "processing"} \/ batch < batch'
    PROVE  /\ Consumed' = Consumed
           /\ InOrder(Consumed)' = InOrder(Consumed)
           /\ BatchOrder'
<1>1. Consumed' = Consumed
  BY DEF Consumed
<1>2. InOrder(Consumed)' = InOrder(Consumed)
  BY <1>1 DEF InOrder
<1>3. \A i \in Inputs : stored[i].batch \in Int
  BY HitlAssumption DEF InputTypes, Input
<1>4. \A i \in Consumed : i \in Inputs
  BY DEF Consumed
<1>5. \A i \in Inputs : stored'[i].batch <= batch'
  BY <1>3 DEF BatchOrder
<1>6. agent' \in {"storing", "waiting", "processing"} =>
        \A i \in Consumed' : stored'[i].batch < batch'
  BY <1>1, <1>3, <1>4 DEF BatchOrder
<1> QED BY <1>1, <1>2, <1>5, <1>6 DEF BatchOrder

\* Answering the questions makes the inputs of the batch consumed, after those
\* of the batches before.
LEMMA ConsumeInputs ==
    ASSUME AskTypes, InputInv, Consume PROVE InputInv'
<1>1. /\ agent = "processing" /\ agent' = "forwarding"
      /\ UNCHANGED <<status, batch, arrivals, found, bus, faults>>
      /\ toSend' = InOrder(Arrived)
      /\ stored' = [i \in Inputs |-> IF i \in Arrived THEN [stored[i] EXCEPT !.status = "consumed"]
                                     ELSE stored[i]]
  BY DEF Consume, Goto, askVars
<1>2. arrivals \in Seq(Inputs) /\ bus \in Seq(Inputs) /\ stored \in [Inputs -> Input]
  BY DEF InputInv, InputTypes
<1>3. \A i \in Inputs :
        /\ stored'[i] \in Input /\ stored'[i].batch = stored[i].batch
        /\ stored'[i].status = IF i \in Arrived THEN "consumed" ELSE stored[i].status
        /\ stored[i].batch \in Int
  <2> SUFFICES ASSUME NEW i \in Inputs
               PROVE  /\ stored'[i] \in Input /\ stored'[i].batch = stored[i].batch
                      /\ stored'[i].status = IF i \in Arrived THEN "consumed"
                                             ELSE stored[i].status
                      /\ stored[i].batch \in Int
    OBVIOUS
  <2>1. stored[i] \in Input /\ stored[i].batch \in Int
    BY <1>2, HitlAssumption DEF Input
  <2>2. CASE i \in Arrived
    <3>1. stored'[i] = [stored[i] EXCEPT !.status = "consumed"]
      BY <1>1, <2>2
    <3> QED BY <2>1, <2>2, <3>1 DEF Input
  <2>3. CASE i \notin Arrived
    <3>1. stored'[i] = stored[i]
      BY <1>1, <2>3
    <3> QED BY <2>1, <2>3, <3>1
  <2> QED BY <2>2, <2>3
<1>4. Consumed' = Consumed \union Arrived
  BY <1>3 DEF Consumed, Arrived
<1>5. \A i \in Arrived : i \in Inputs /\ stored[i].batch = batch
  BY DEF Arrived
<1>6. \A k \in 1..Len(arrivals) : arrivals[k] \in Inputs
  BY <1>2, ElementOfSeq
<1>7. Before(arrivals, Consumed, Arrived)
  <2> SUFFICES ASSUME NEW p \in 1..Len(arrivals), NEW q \in 1..Len(arrivals),
                      p <= q, arrivals[q] \in Consumed, arrivals[p] \in Arrived
               PROVE  FALSE
    BY DEF Before
  <2>1. stored[arrivals[p]].batch <= stored[arrivals[q]].batch
    BY DEF InputInv, BatchOrder
  <2>2. stored[arrivals[q]].batch < batch /\ stored[arrivals[p]].batch = batch
    BY <1>1, <1>5 DEF InputInv, BatchOrder
  <2>3. batch \in Int /\ stored[arrivals[q]].batch \in Int
    BY <1>3, <1>6, HitlAssumption DEF AskTypes
  <2> QED BY <2>1, <2>2, <2>3
<1>8. InOrder(Consumed)' = InOrder(Consumed) \o InOrder(Arrived)
  BY <1>1, <1>2, <1>4, <1>7, AmongBoth DEF BothKept, InOrder
<1>9. InOrder(Arrived) \in Seq(Inputs)
  BY <1>2, AmongType DEF InOrder
<1>10. bus = InOrder(Consumed)
  <2>1. toSend = <<>> /\ bus \o toSend = InOrder(Consumed)
    BY <1>1 DEF InputInv, SentInOrder
  <2> QED BY <1>2, <2>1, ConcatEmptySeq
<1>11. InputTypes'
  BY <1>1, <1>3, <1>9 DEF InputInv, InputTypes
<1>12. SentInOrder'
  BY <1>1, <1>8, <1>10 DEF InputInv, SentInOrder
<1>13. BatchOrder'
  <2>1. \A k \in 1..Len(arrivals) : stored'[arrivals[k]].status # "absent"
    BY <1>3, <1>6 DEF InputInv, BatchOrder
  <2>2. \A i \in Inputs : found'[i] <= batch' /\ stored'[i].batch <= batch'
    BY <1>1, <1>3 DEF InputInv, BatchOrder
  <2>3. ASSUME NEW p \in 1..Len(arrivals), NEW q \in 1..Len(arrivals), p <= q,
               arrivals[q] \in Consumed'
        PROVE  stored'[arrivals[p]].batch <= stored'[arrivals[q]].batch
    <3>1. CASE arrivals[q] \in Consumed
      BY <1>3, <1>6, <2>3, <3>1 DEF InputInv, BatchOrder
    <3>2. CASE arrivals[q] \in Arrived
      BY <1>3, <1>5, <1>6, <3>2 DEF InputInv, BatchOrder
    <3> QED BY <1>4, <2>3, <3>1, <3>2
  <2> QED BY <1>1, <2>1, <2>2, <2>3 DEF BatchOrder
<1> QED BY <1>11, <1>12, <1>13 DEF InputInv

\* A message that is stored is the last to arrive, and not consumed.
LEMMA StoreInputs ==
    ASSUME AskTypes, InputInv, NEW i \in Inputs, BridgeStore(i) PROVE InputInv'
<1>1. /\ UNCHANGED <<status, agent, batch, found, toSend, bus, faults>>
      /\ stored[i].status = "absent"
      /\ stored' = [stored EXCEPT ![i] = [status |-> "pending", batch |-> found[i]]]
      /\ arrivals' = Append(arrivals, i)
  BY DEF BridgeStore, askVars
<1>2. /\ arrivals \in Seq(Inputs) /\ stored \in [Inputs -> Input]
      /\ found \in [Inputs -> 0..MaxBatches]
  BY DEF InputInv, InputTypes
<1>3. /\ stored'[i].status = "pending" /\ stored'[i].batch = found[i] /\ stored'[i] \in Input
      /\ \A j \in Inputs : j # i => stored'[j] = stored[j]
  BY <1>1, <1>2 DEF Input
<1>4. Consumed' = Consumed /\ i \notin Consumed
  BY <1>1, <1>3 DEF Consumed
<1>5. /\ arrivals' \in Seq(Inputs) /\ Len(arrivals') = Len(arrivals) + 1
      /\ Len(arrivals) \in Nat /\ arrivals'[Len(arrivals) + 1] = i
      /\ \A k \in 1..Len(arrivals) : arrivals'[k] = arrivals[k]
  BY <1>1, <1>2, AppendProperties
<1>6. \A k \in 1..Len(arrivals) : arrivals[k] \in Inputs /\ arrivals[k] # i
  BY <1>1, <1>2, ElementOfSeq DEF InputInv, BatchOrder
<1>7. InOrder(Consumed)' = InOrder(Consumed)
  BY <1>1, <1>2, <1>4, AmongAppend DEF InOrder
<1>8. SentInOrder'
  BY <1>1, <1>7 DEF InputInv, SentInOrder
<1>9. InputTypes'
  <2>1. stored' \in [Inputs -> Input]
    BY <1>1, <1>2, <1>3 DEF Input
  <2> QED BY <1>1, <1>5, <2>1 DEF InputInv, InputTypes
<1>10. BatchOrder'
  <2>1. \A j \in Inputs : found'[j] <= batch' /\ stored'[j].batch <= batch'
    BY <1>1, <1>3 DEF InputInv, BatchOrder
  <2>2. \A k \in 1..Len(arrivals') : stored'[arrivals'[k]].status # "absent"
    <3> SUFFICES ASSUME NEW k \in 1..Len(arrivals')
                 PROVE  stored'[arrivals'[k]].status # "absent"
      OBVIOUS
    <3>1. CASE k = Len(arrivals) + 1
      BY <1>3, <1>5, <3>1
    <3>2. CASE k # Len(arrivals) + 1
      <4>1. k \in 1..Len(arrivals)
        BY <1>5, <3>2
      <4> QED BY <1>3, <1>5, <1>6, <4>1 DEF InputInv, BatchOrder
    <3> QED BY <3>1, <3>2
  <2>3. ASSUME NEW p \in 1..Len(arrivals'), NEW q \in 1..Len(arrivals'), p <= q,
               arrivals'[q] \in Consumed'
        PROVE  stored'[arrivals'[p]].batch <= stored'[arrivals'[q]].batch
    <3>1. q # Len(arrivals) + 1
      BY <1>4, <1>5, <2>3
    <3>2. p \in 1..Len(arrivals) /\ q \in 1..Len(arrivals)
      BY <1>5, <2>3, <3>1
    <3>3. arrivals[q] \in Consumed
      BY <1>4, <1>5, <2>3, <3>2
    <3>4. stored[arrivals[p]].batch <= stored[arrivals[q]].batch
      BY <2>3, <3>2, <3>3 DEF InputInv, BatchOrder
    <3> QED BY <1>3, <1>5, <1>6, <3>2, <3>4
  <2>4. agent' \in {"storing", "waiting", "processing"} =>
          \A j \in Consumed' : stored'[j].batch < batch'
    BY <1>1, <1>3, <1>4 DEF InputInv, BatchOrder, Consumed
  <2> QED BY <2>1, <2>2, <2>3, <2>4 DEF BatchOrder
<1> QED BY <1>8, <1>9, <1>10 DEF InputInv

LEMMA SendInputs ==
    ASSUME AskTypes, InputInv, SendDeferred PROVE InputInv'
<1>1. /\ UNCHANGED <<status, agent, batch, stored, arrivals, found, faults>>
      /\ toSend # <<>> /\ agent = "forwarding"
      /\ bus' = Append(bus, Head(toSend)) /\ toSend' = Tail(toSend)
  BY DEF SendDeferred, askVars
<1>2. toSend \in Seq(Inputs) /\ bus \in Seq(Inputs)
  BY DEF InputInv, InputTypes
<1>3. /\ Head(toSend) \in Inputs /\ Tail(toSend) \in Seq(Inputs)
      /\ toSend = <<Head(toSend)>> \o Tail(toSend)
  BY <1>1, <1>2, HeadTailProperties
<1>4. bus' = bus \o <<Head(toSend)>> /\ bus' \in Seq(Inputs)
  BY <1>1, <1>2, <1>3, AppendIsConcat, AppendProperties
<1>5. bus' \o toSend' = bus \o toSend
  <2>1. <<Head(toSend)>> \in Seq(Inputs)
    BY <1>3
  <2>2. (bus \o <<Head(toSend)>>) \o Tail(toSend) = bus \o (<<Head(toSend)>> \o Tail(toSend))
    BY <1>2, <1>3, <2>1, ConcatAssociative
  <2> QED BY <1>1, <1>3, <1>4, <2>2
<1>6. batch \in Nat
  BY HitlAssumption DEF AskTypes
<1>7. BatchOrder' /\ InOrder(Consumed)' = InOrder(Consumed)
  BY <1>1, <1>6, NothingConsumed DEF InputInv, BatchOrder
<1>8. SentInOrder'
  BY <1>1, <1>5, <1>7 DEF InputInv, SentInOrder
<1>9. InputTypes'
  BY <1>1, <1>3, <1>4 DEF InputInv, InputTypes
<1> QED BY <1>7, <1>8, <1>9 DEF InputInv

LEMMA InputStep ==
    ASSUME AskTypes, PendingIsAwaited, InputInv, [Next]_vars
    PROVE  InputInv'
<1>1. batch \in Nat
  BY HitlAssumption DEF AskTypes
<1>2. CASE EnterPending
  <2>1. /\ UNCHANGED <<status, stored, arrivals, found, toSend, bus, faults>>
        /\ batch' = batch + 1 /\ agent = "streaming" /\ agent' = "storing" /\ status = "running"
    BY <1>2 DEF EnterPending, inputVars, Goto
  <2>2. \A i \in Inputs : found'[i] <= batch'
    BY <1>1, <2>1, HitlAssumption DEF InputInv, BatchOrder, InputTypes
  <2>3. BatchOrder' /\ InOrder(Consumed)' = InOrder(Consumed)
    BY <1>1, <2>1, <2>2, NothingConsumed DEF InputInv
  <2>4. InputTypes' /\ SentInOrder'
    BY <2>1, <2>3 DEF InputInv, InputTypes, SentInOrder
  <2> QED BY <2>3, <2>4 DEF InputInv
<1>3. CASE CommitBatch \/ AllResolved \/ ClearMemory \/ ExitPending \/ Finish \/ Stop
           \/ UNCHANGED vars
           \/ (\E c \in Clients : \/ \E q \in Questions, a \in Answer : RespondLoad(c, q, a)
                                 \/ RespondResolve(c) \/ RespondCommit(c) \/ RespondFail(c))
  <2>1. UNCHANGED <<batch, inputVars>> /\ (faults' = faults \/ faults' = faults + 1)
    BY <1>3 DEF CommitBatch, AllResolved, ClearMemory, ExitPending, Finish, Stop, vars,
                RespondResolve, RespondCommit, RespondFail, RespondLoad, askVars
  <2>2. agent' \in {"storing", "waiting", "processing"} =>
          agent \in {"storing", "waiting", "processing"}
    BY <1>3 DEF CommitBatch, AllResolved, ClearMemory, ExitPending, Finish, Stop, vars,
                RespondResolve, RespondCommit, RespondFail, RespondLoad, Goto
  <2>3. BatchOrder' /\ InOrder(Consumed)' = InOrder(Consumed)
    BY <1>1, <2>1, <2>2, NothingConsumed DEF InputInv, BatchOrder, inputVars
  <2>4. InputTypes'
    BY <2>1 DEF InputInv, InputTypes, inputVars
  <2>5. bus \in Seq(Inputs) /\ bus \o <<>> = bus
    BY ConcatEmptySeq DEF InputInv, InputTypes
  <2>6. /\ agent' \notin {"raising", "over"} => agent \notin {"raising", "over"}
        /\ agent' \notin {"forwarding", "raising", "over"} =>
             agent \notin {"forwarding", "raising", "over"} \/ toSend = <<>>
        /\ status' = "completed" => \/ status = "completed" /\ agent' = agent
                                    \/ agent = "streaming" /\ agent' = "over"
    BY <1>3 DEF CommitBatch, AllResolved, ClearMemory, ExitPending, Finish, Stop, vars, AllSent,
                RespondResolve, RespondCommit, RespondFail, RespondLoad, Goto, InputInv, SentInOrder
  <2>7. SentInOrder'
    BY <2>1, <2>3, <2>5, <2>6 DEF InputInv, SentInOrder, inputVars
  <2> QED BY <2>3, <2>4, <2>7 DEF InputInv
<1>4. ASSUME NEW i \in Inputs, BridgeLoad(i) PROVE InputInv'
  <2>1. /\ UNCHANGED <<status, agent, batch, stored, arrivals, toSend, bus, faults>>
        /\ \E b \in PendingBatch : found' = [found EXCEPT ![i] = b] /\ status = "running"
    BY <1>4 DEF BridgeLoad, askVars
  <2>2. PICK b \in PendingBatch : found' = [found EXCEPT ![i] = b] /\ b = batch
    BY <2>1, PendingIsLast
  <2>3. \A j \in Inputs : found'[j] <= batch'
    BY <1>1, <2>1, <2>2 DEF InputInv, InputTypes, BatchOrder
  <2>4. BatchOrder' /\ InOrder(Consumed)' = InOrder(Consumed)
    BY <1>1, <2>1, <2>3, NothingConsumed DEF InputInv
  <2>5. InputTypes' /\ SentInOrder'
    BY <2>1, <2>2, <2>4 DEF InputInv, InputTypes, SentInOrder, AskTypes
  <2> QED BY <2>4, <2>5 DEF InputInv
<1>5. CASE CrashRestart
  <2>1. /\ UNCHANGED <<batch, stored, arrivals, found, bus>>
        /\ toSend' = <<>> /\ agent' = "over" /\ faults' = faults + 1
        /\ status' = "completed" => status = "completed"
    BY <1>5 DEF CrashRestart, askVars, Goto
  <2>2. BatchOrder' /\ InOrder(Consumed)' = InOrder(Consumed)
    BY <1>1, <2>1, NothingConsumed DEF InputInv, BatchOrder
  <2>3. InputTypes'
    BY <2>1, EmptySeq DEF InputInv, InputTypes
  <2>4. SentInOrder'
    BY <2>1, <2>2 DEF InputInv, SentInOrder
  <2> QED BY <2>2, <2>3, <2>4 DEF InputInv
<1> QED BY <1>2, <1>3, <1>4, <1>5, ConsumeInputs, StoreInputs, SendInputs DEF Next, ExecutorStep

LEMMA HitlInvariant == Spec => [](AskTypes /\ PendingIsAwaited /\ InputInv)
<1>1. Init => AskTypes /\ PendingIsAwaited /\ InputInv
  BY InitTypes, InitAwaited, InputInit
<1>2. AskTypes /\ PendingIsAwaited /\ InputInv /\ [Next]_vars
        => AskTypes' /\ PendingIsAwaited' /\ InputInv'
  BY StepTypes, AwaitedStep, InputStep
<1> QED BY <1>1, <1>2, PTL DEF Spec

\* The type invariant of questions, answers and deferred inputs.
THEOREM TypesHold == Spec => []TypeOK
<1>1. AskTypes /\ InputInv => TypeOK
  BY DEF AskTypes, InputInv, InputTypes, TypeOK, Answers
<1> QED BY HitlInvariant, <1>1, PTL

\* Once a run is completed, every deferred input that was consumed has been put
\* on the bus once, in the order in which the inputs were stored, however late
\* they came and whichever calls, stops and losses came in between.
THEOREM InputsSent == Spec => []ConsumedIsSent
<1>1. InputInv => ConsumedIsSent
  BY DEF InputInv, SentInOrder, Consumed, ConsumedIsSent
<1> QED BY HitlInvariant, <1>1, PTL

-----------------------------------------------------------------------------
(***************************************************************************)
(* No input is sent twice                                                  *)
(***************************************************************************)
Distinct(s) == \A p, q \in 1..Len(s) : s[p] = s[q] => p = q

\* What is kept of a sequence was in it.
LEMMA AmongFrom ==
    ASSUME NEW D, NEW s \in Seq(D), NEW S, NEW k \in 1..Len(Among(s, S))
    PROVE  \E p \in 1..Len(s) : Among(s, S)[k] = s[p]
<1> DEFINE Fails(t) == \E j \in 1..Len(Among(t, S)) :
                         \A p \in 1..Len(t) : Among(t, S)[j] # t[p]
           B == {t \in Seq(D) : Fails(t)}
<1> SUFFICES ASSUME B # {} PROVE FALSE
  OBVIOUS
<1>1. B \in SUBSET Seq(D)
  OBVIOUS
<1> HIDE DEF B
<1>2. PICK t \in B : \/ t = <<>>
                     \/ \E u \in Seq(D), x \in D : t = Append(u, x) /\ u \notin B
  BY <1>1, Shortest
<1> USE DEF B
<1>3. CASE t = <<>>
  BY <1>3, AmongEmpty
<1>4. ASSUME NEW u \in Seq(D), NEW x \in D, t = Append(u, x), u \notin B PROVE FALSE
  <2>1. PICK j \in 1..Len(Among(t, S)) : \A p \in 1..Len(t) : Among(t, S)[j] # t[p]
    OBVIOUS
  <2>2. \A i \in 1..Len(Among(u, S)) : \E p \in 1..Len(u) : Among(u, S)[i] = u[p]
    BY <1>4
  <2>3. /\ Len(u) \in Nat /\ Len(t) = Len(u) + 1 /\ t[Len(u) + 1] = x
        /\ \A p \in 1..Len(u) : t[p] = u[p]
    BY <1>4, AppendProperties
  <2>4. Among(t, S) = IF x \in S THEN Append(Among(u, S), x) ELSE Among(u, S)
    BY <1>4, AmongAppend
  <2>5. PICK a \in Seq(D) : a = Among(u, S)
    BY AmongType
  <2>6. /\ Len(a) \in Nat /\ Len(Append(a, x)) = Len(a) + 1
        /\ Append(a, x)[Len(a) + 1] = x
        /\ \A i \in 1..Len(a) : Append(a, x)[i] = a[i]
    BY <2>5, AppendProperties
  <2>7. \A p \in 1..Len(u) : p \in 1..Len(t)
    BY <2>3
  <2>8. (\E i \in 1..Len(a) : Among(t, S)[j] = a[i]) \/ Among(t, S)[j] = x
    <3>1. j \in 1..Len(a) \/ (x \in S /\ j = Len(a) + 1)
      BY <2>1, <2>4, <2>5, <2>6
    <3> QED BY <2>4, <2>5, <2>6, <3>1
  <2> QED BY <2>1, <2>2, <2>3, <2>5, <2>7, <2>8
<1> QED BY <1>2, <1>3, <1>4

\* Nothing is kept twice that was there once.
LEMMA AmongDistinct ==
    ASSUME NEW D, NEW s \in Seq(D), NEW S, Distinct(s)
    PROVE  Distinct(Among(s, S))
<1> DEFINE B == {t \in Seq(D) : Distinct(t) /\ ~Distinct(Among(t, S))}
<1> SUFFICES ASSUME B # {} PROVE FALSE
  OBVIOUS
<1>1. B \in SUBSET Seq(D)
  OBVIOUS
<1> HIDE DEF B
<1>2. PICK t \in B : \/ t = <<>>
                     \/ \E u \in Seq(D), x \in D : t = Append(u, x) /\ u \notin B
  BY <1>1, Shortest
<1> USE DEF B
<1>3. CASE t = <<>>
  BY <1>3, AmongEmpty DEF Distinct
<1>4. ASSUME NEW u \in Seq(D), NEW x \in D, t = Append(u, x), u \notin B PROVE FALSE
  <2>1. /\ Len(u) \in Nat /\ Len(t) = Len(u) + 1 /\ t[Len(u) + 1] = x
        /\ \A p \in 1..Len(u) : t[p] = u[p]
    BY <1>4, AppendProperties
  <2>2. Distinct(u) /\ \A p \in 1..Len(u) : u[p] # x
    <3>1. \A p, q \in 1..Len(t) : t[p] = t[q] => p = q
      BY DEF Distinct
    <3>2. Len(u) + 1 \in 1..Len(t) /\ \A p \in 1..Len(u) : p \in 1..Len(t) /\ p # Len(u) + 1
      BY <2>1
    <3>3. \A p, q \in 1..Len(u) : u[p] = u[q] => p = q
      BY <2>1, <3>1, <3>2
    <3>4. \A p \in 1..Len(u) : u[p] # x
      BY <2>1, <3>1, <3>2
    <3> QED BY <3>3, <3>4 DEF Distinct
  <2>3. Among(t, S) = IF x \in S THEN Append(Among(u, S), x) ELSE Among(u, S)
    BY <1>4, AmongAppend
  <2>4. PICK a \in Seq(D) : a = Among(u, S)
    BY AmongType
  <2>5. /\ Len(a) \in Nat /\ Len(Append(a, x)) = Len(a) + 1
        /\ Append(a, x)[Len(a) + 1] = x
        /\ \A i \in 1..Len(a) : Append(a, x)[i] = a[i]
    BY <2>4, AppendProperties
  <2>6. \A i \in 1..Len(a) : a[i] # x
    <3>1. \A i \in 1..Len(Among(u, S)) : \E p \in 1..Len(u) : Among(u, S)[i] = u[p]
      BY AmongFrom
    <3> QED BY <2>2, <2>4, <3>1
  <2>7. Distinct(a)
    BY <1>4, <2>2, <2>4
  <2>8. Distinct(Append(a, x))
    <3>1. \A i, j \in 1..Len(a) : a[i] = a[j] => i = j
      BY <2>7 DEF Distinct
    <3>2. \A i \in 1..Len(Append(a, x)) : i \in 1..Len(a) \/ i = Len(a) + 1
      BY <2>5
    <3>3. \A i, j \in 1..Len(Append(a, x)) : Append(a, x)[i] = Append(a, x)[j] => i = j
      BY <2>5, <2>6, <3>1, <3>2
    <3> QED BY <3>3 DEF Distinct
  <2> QED BY <1>4, <2>3, <2>4, <2>7, <2>8
<1> QED BY <1>2, <1>3, <1>4

\* An input arrives once, and once sent it is not put on the bus again, although
\* each batch looks for consumed inputs anew and an error or a loss may come
\* between the commit that consumes them and their way to the bus.
SentAtMostOnce == Distinct(bus)

LEMMA OnceStep ==
    ASSUME InputInv, Distinct(arrivals), SentAtMostOnce, [Next]_vars, InputInv'
    PROVE  Distinct(arrivals)' /\ SentAtMostOnce'
<1>1. arrivals \in Seq(Inputs) /\ bus \in Seq(Inputs) /\ toSend \in Seq(Inputs)
  BY DEF InputInv, InputTypes
<1>2. CASE \E i \in Inputs : BridgeStore(i)
  <2>1. PICK i \in Inputs : BridgeStore(i)
    BY <1>2
  <2>2. arrivals' = Append(arrivals, i) /\ bus' = bus /\ stored[i].status = "absent"
    BY <2>1 DEF BridgeStore
  <2>3. \A k \in 1..Len(arrivals) : arrivals[k] # i
    BY <2>2 DEF InputInv, BatchOrder
  <2>4. Distinct(arrivals')
    BY <1>1, <2>2, <2>3, AppendProperties DEF Distinct
  <2> QED BY <2>2, <2>4 DEF Distinct, SentAtMostOnce
<1>3. CASE SendDeferred
  <2>1. arrivals' = arrivals /\ agent' = "forwarding"
    BY <1>3 DEF SendDeferred
  <2>2. bus' \in Seq(Inputs) /\ toSend' \in Seq(Inputs) /\ bus' \o toSend' = InOrder(Consumed)'
    BY <2>1 DEF InputInv, InputTypes, SentInOrder
  <2>3. InOrder(Consumed)' = Among(arrivals, Consumed')
    BY <2>1 DEF InOrder
  <2>4. Distinct(bus' \o toSend')
    BY <1>1, <2>2, <2>3, AmongDistinct
  <2>5. PICK b \in Seq(Inputs), r \in Seq(Inputs) : b = bus' /\ r = toSend'
    BY <2>2
  <2>6. /\ Len(b) \in Nat /\ Len(r) \in Nat /\ Len(b \o r) = Len(b) + Len(r)
        /\ \A k \in 1..Len(b) : (b \o r)[k] = b[k]
    BY <2>5, LenProperties, ConcatProperties
  <2>7. \A k \in 1..Len(b) : k \in 1..Len(b \o r)
    BY <2>6
  <2>8. Distinct(b)
    BY <2>4, <2>5, <2>6, <2>7 DEF Distinct
  <2> QED BY <2>1, <2>5, <2>8 DEF Distinct, SentAtMostOnce
<1>4. CASE ~SendDeferred /\ ~ \E i \in Inputs : BridgeStore(i)
  <2>1. arrivals' = arrivals /\ bus' = bus
    BY <1>4 DEF Next, ExecutorStep, EnterPending, CommitBatch, AllResolved, Consume, ClearMemory,
       ExitPending, Finish, RespondLoad, RespondResolve, RespondCommit, RespondFail, BridgeLoad,
       Stop, CrashRestart, vars,
       inputVars
  <2> QED BY <2>1 DEF Distinct, SentAtMostOnce
<1> QED BY <1>2, <1>3, <1>4

\* The agent is sent each deferred input at most once, whichever errors and losses
\* come between the commit that consumes it and its sending.
THEOREM NeverSentTwice == Spec => []SentAtMostOnce
<1>1. Init => Distinct(arrivals) /\ SentAtMostOnce
  BY DEF Init, Distinct, SentAtMostOnce
<1>2. /\ InputInv /\ InputInv' /\ Distinct(arrivals) /\ SentAtMostOnce /\ [Next]_vars
      => Distinct(arrivals)' /\ SentAtMostOnce'
  BY OnceStep
<1> QED BY HitlInvariant, <1>1, <1>2, PTL DEF Spec
=============================================================================
