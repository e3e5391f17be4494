-------------------------- MODULE ClawMemoryProofs --------------------------
(***************************************************************************)
(* Proofs about ClawMemory for every number of slots, requests, turns,     *)
(* stops and losses, and every threshold.                                  *)
(***************************************************************************)
EXTENDS ClawMemory, SequenceTheorems, TLAPS

-----------------------------------------------------------------------------
(***************************************************************************)
(* The values an operation works on, when its requests are drawn from R:   *)
(* with R the set of all requests this is typing, with a smaller R it says *)
(* what is true of each request wherever it is kept.                       *)
(***************************************************************************)
RowOf(R) == [last : Nat, turns : Nat, since : Nat, queue : {q \in Seq(R) : Len(q) <= Kept}]
RunOf(R) == [status : RunStatus, req : R]
WorkOf(R) == [obj : RowOf(R), run : [Slots -> RunOf(R)], wrote : BOOLEAN]
CallOf(R) == [on : BOOLEAN, seen : RowOf(R), req : R]

\* The queue of a row keeps at most Kept requests, and no others.
LEMMA AppendedType ==
    ASSUME NEW R, NEW q \in Seq(R), Len(q) <= Kept, NEW e \in R
    PROVE  /\ Appended(q, e) \in Seq(R) /\ Len(Appended(q, e)) <= Kept
           /\ Appended(q, e) # <<>>
<1>1. CASE Len(q) < Kept
  BY <1>1, AppendProperties, MemoryAssumption, LenProperties DEF Appended
<1>2. CASE ~(Len(q) < Kept)
  <2>1. q # <<>>
    BY <1>2, MemoryAssumption, EmptySeq
  <2>2. Tail(q) \in Seq(R) /\ Len(Tail(q)) = Len(q) - 1
    BY <2>1, HeadTailProperties
  <2> QED BY <1>2, <2>2, AppendProperties, MemoryAssumption, LenProperties DEF Appended
<1> QED BY <1>1, <1>2

\* _mark_pending_request changes the queue only.
LEMMA MarkPendingWork ==
    ASSUME NEW R, NEW w \in WorkOf(R), NEW e \in R
    PROVE  LET d == MarkPending(w, e) IN
           /\ d \in WorkOf(R) /\ d.run = w.run /\ d.wrote = TRUE
           /\ d.obj.last = w.obj.last /\ d.obj.queue # <<>>
<1> DEFINE a == Appended(w.obj.queue, e)
           o == [w.obj EXCEPT !.queue = a]
<1>1. MarkPending(w, e) = [w EXCEPT !.obj = o, !.wrote = TRUE]
  BY DEF MarkPending, WorkOf
<1>2. a \in Seq(R) /\ Len(a) <= Kept /\ a # <<>>
  BY AppendedType DEF WorkOf, RowOf
<1>3. o \in RowOf(R) /\ o.last = w.obj.last /\ o.queue = a
  BY <1>2 DEF WorkOf, RowOf
<1> QED BY <1>1, <1>2, <1>3 DEF WorkOf

\* _create_memory_run changes one slot, to a queued run.
LEMMA CreateRunWork ==
    ASSUME NEW R, NEW w \in WorkOf(R), NEW e \in R
    PROVE  LET d == CreateRun(w, e) IN
           /\ d \in WorkOf(R) /\ d.obj = w.obj /\ d.wrote = w.wrote
           /\ \E s : /\ d.run = [w.run EXCEPT ![s] = [status |-> "queued", req |-> e]]
                     /\ Free(w) # {} => s \in Free(w)
<1> DEFINE s == CHOOSE s \in Free(w) : TRUE
           q == [status |-> "queued", req |-> e]
           u == [w.run EXCEPT ![s] = q]
<1>1. CreateRun(w, e) = [w EXCEPT !.run = u]
  BY DEF CreateRun, WorkOf
<1>2. q \in RunOf(R)
  BY DEF RunOf, RunStatus
<1>3. u \in [Slots -> RunOf(R)]
  BY <1>2 DEF WorkOf
<1>4. Free(w) # {} => s \in Free(w)
  OBVIOUS
<1>5. [w EXCEPT !.run = u] \in WorkOf(R)
  BY <1>3 DEF WorkOf
<1>6. /\ [w EXCEPT !.run = u].obj = w.obj /\ [w EXCEPT !.run = u].wrote = w.wrote
      /\ [w EXCEPT !.run = u].run = u
  BY DEF WorkOf
<1> HIDE DEF s
<1> QED BY <1>1, <1>4, <1>5, <1>6
-----------------------------------------------------------------------------
(***************************************************************************)
(* From w to d, either no run was created, or one was in a free slot, and  *)
(* then none was live before.  If d has no live run, nothing was appended. *)
(***************************************************************************)
Creates(w, d, t, e) == d.run = [w.run EXCEPT ![t] = [status |-> "queued", req |-> e]]

Follows(w, d) ==
    /\ \/ d.run = w.run
       \/ ~Busy(w) /\ \E t \in Free(w) : \E e : Creates(w, d, t, e)
    /\ \/ Busy(d)
       \/ d.run = w.run /\ d.obj.queue = w.obj.queue /\ d.wrote = w.wrote

\* An operation that may create a run has a slot for it.
Room(w) == Busy(w) \/ Free(w) # {}

\* A run that was created is live.
LEMMA CreatedIsBusy ==
    ASSUME NEW R, NEW w \in WorkOf(R), NEW d, NEW t \in Free(w), NEW e, Creates(w, d, t, e)
    PROVE  Busy(d)
<1>1. t \in Slots /\ d.run[t] = [status |-> "queued", req |-> e]
  BY DEF Creates, WorkOf, Free
<1>2. d.run[t].status \in Live
  BY <1>1 DEF Live
<1> QED BY <1>1, <1>2 DEF Busy

\* Whether a run is created, and where, depends on the runs only.
LEMMA OutcomeOfRuns ==
    ASSUME NEW w, NEW v, NEW d, v.run = w.run, Follows(v, d)
    PROVE  d.run = w.run \/ (~Busy(w) /\ \E t \in Free(w) : \E e : Creates(w, d, t, e))
<1> SUFFICES ASSUME d.run # w.run
             PROVE  ~Busy(w) /\ \E t \in Free(w) : \E e : Creates(w, d, t, e)
  OBVIOUS
<1>1. ~Busy(v) /\ \E t \in Free(v) : \E e : Creates(v, d, t, e)
  BY DEF Follows
<1>2. PICK t, e : t \in Free(v) /\ Creates(v, d, t, e)
  BY <1>1
<1>3. ~Busy(w) /\ t \in Free(w) /\ Creates(w, d, t, e)
  BY <1>1, <1>2 DEF Creates, Busy, Free
<1> QED BY <1>3

\* _enqueue_or_mark_pending leaves a live memory run in any case.
LEMMA EnqueueWork ==
    ASSUME NEW R, NEW w \in WorkOf(R), NEW e \in R, Room(w)
    PROVE  LET d == Enqueue(w, e) IN
           d \in WorkOf(R) /\ d.obj.last = w.obj.last /\ Follows(w, d) /\ Busy(d)
<1>1. CASE Busy(w)
  BY <1>1, MarkPendingWork DEF Enqueue, Follows, Busy
<1>2. CASE ~Busy(w)
  <2> DEFINE d == CreateRun(w, e)
  <2>1. d \in WorkOf(R) /\ d.obj = w.obj /\ \E t \in Free(w) : Creates(w, d, t, e)
    BY <1>2, CreateRunWork DEF Creates, Room
  <2>2. Enqueue(w, e) = d
    BY <1>2 DEF Enqueue
  <2> HIDE DEF d
  <2>3. Busy(d)
    BY <2>1, CreatedIsBusy
  <2>4. Follows(w, d)
    BY <1>2, <2>1, <2>3 DEF Follows
  <2> QED BY <2>1, <2>2, <2>3, <2>4
<1> QED BY <1>1, <1>2

\* Taking the next pending request leaves a live run, if there was a request.
LEMMA EnqueueNextWork ==
    ASSUME NEW R, NEW w \in WorkOf(R), Room(w)
    PROVE  LET d == EnqueueNext(w) IN
           /\ d \in WorkOf(R) /\ d.obj.last = w.obj.last
           /\ Follows(w, d)
           /\ w.obj.queue # <<>> => Busy(d)
<1>1. CASE w.obj.queue = <<>>
  BY <1>1 DEF EnqueueNext, Follows
<1>2. CASE w.obj.queue # <<>>
  <2> DEFINE q == w.obj.queue
             o == [w.obj EXCEPT !.queue = Tail(q)]
             p == PopPending(w)
             d == Enqueue(p, Head(q))
  <2>1. q \in Seq(R) /\ Len(q) <= Kept
    BY DEF WorkOf, RowOf
  <2>2. Head(q) \in R /\ Tail(q) \in Seq(R) /\ Len(Tail(q)) <= Kept
    BY <1>2, <2>1, HeadTailProperties, LenProperties, MemoryAssumption
  <2>3. o \in RowOf(R) /\ o.last = w.obj.last
    BY <2>2 DEF WorkOf, RowOf
  <2>4. p = [w EXCEPT !.obj = o, !.wrote = TRUE]
    BY DEF PopPending, WorkOf
  <2>5. p \in WorkOf(R) /\ p.run = w.run /\ p.obj.last = w.obj.last
    BY <2>3, <2>4 DEF WorkOf
  <2>6. (Busy(p) <=> Busy(w)) /\ Free(p) = Free(w)
    BY <2>5 DEF Busy, Free
  <2>11. Room(p)
    BY <2>6 DEF Room
  <2>7. EnqueueNext(w) = d
    BY <1>2 DEF EnqueueNext
  <2> HIDE DEF p, q
  <2>8. d \in WorkOf(R) /\ d.obj.last = p.obj.last /\ Follows(p, d) /\ Busy(d)
    BY <2>2, <2>5, <2>11, EnqueueWork
  <2> HIDE DEF d
  <2>9. d.run = w.run \/ (~Busy(w) /\ \E t \in Free(w) : \E e : Creates(w, d, t, e))
    BY <2>5, <2>8, OutcomeOfRuns
  <2>10. Follows(w, d)
    BY <2>8, <2>9 DEF Follows
  <2> QED BY <2>5, <2>7, <2>8, <2>10
<1> QED BY <1>1, <1>2

\* Two operations in one transaction create one run at most.
LEMMA FollowsTwice ==
    ASSUME NEW R, NEW w \in WorkOf(R), NEW v \in WorkOf(R), NEW d,
           Follows(w, v), Follows(v, d)
    PROVE  Follows(w, d)
<1>1. CASE v.run = w.run
  <2>2. d.run = w.run \/ (~Busy(w) /\ \E t \in Free(w) : \E e : Creates(w, d, t, e))
    BY <1>1, OutcomeOfRuns
  <2>3. Busy(v) /\ d.run = v.run => Busy(d)
    BY DEF Busy
  <2>4. Busy(d) \/ (d.run = w.run /\ d.obj.queue = w.obj.queue /\ d.wrote = w.wrote)
    BY <2>3 DEF Follows
  <2> QED BY <2>2, <2>4 DEF Follows
<1>2. CASE v.run # w.run
  <2>1. ~Busy(w) /\ \E t \in Free(w) : \E e : Creates(w, v, t, e)
    BY <1>2 DEF Follows
  <2>2. Busy(v)
    BY <2>1, CreatedIsBusy
  <2>3. d.run = v.run
    BY <2>2 DEF Follows
  <2>4. Busy(d)
    BY <2>2, <2>3 DEF Busy
  <2> QED BY <2>1, <2>3, <2>4 DEF Follows, Creates
<1> QED BY <1>1, <1>2

LEMMA FollowsRoom ==
    ASSUME NEW R, NEW w \in WorkOf(R), NEW v \in WorkOf(R), Room(w), Follows(w, v)
    PROVE  Room(v)
<1>1. CASE v.run = w.run
  BY <1>1 DEF Room, Busy, Free
<1>2. CASE v.run # w.run
  BY <1>2, CreatedIsBusy DEF Follows, Room
<1> QED BY <1>1, <1>2

-----------------------------------------------------------------------------
(***************************************************************************)
(* The transactions                                                        *)
(***************************************************************************)

\* A caller writes what follows from w, with l as the last extracted turn; one
\* that takes the next request leaves a live run if it had seen a request.
Transaction(c, w, R, l, takes) ==
    \E d \in WorkOf(R) :
        /\ Follows(w, d)
        /\ d.obj.last = l
        /\ takes /\ w.obj.queue # <<>> => Busy(d)
        /\ row' = WrittenRow(call[c].seen, d)
        /\ run' = d.run
        /\ call' = [call EXCEPT ![c] = NoCall]

\* The values of the state, drawn from R.
Values(R) ==
    /\ row \in RowOf(R)
    /\ run \in [Slots -> RunOf(R)]
    /\ call \in [Callers -> CallOf(R)]

\* An operation begins with the row it has loaded and the runs as they are.
LEMMA BeginWork ==
    ASSUME NEW R, Values(R), NEW c \in Callers
    PROVE  /\ Begin(c) \in WorkOf(R)
           /\ Begin(c).run = run /\ Begin(c).obj = call[c].seen /\ Begin(c).wrote = FALSE
  BY DEF Begin, Values, WorkOf, CallOf

LEMMA BeginHookWork ==
    ASSUME NEW R, Values(R), Summary \in R, NEW s \in Slots, NEW x \in {NoRun, Signalling}
    PROVE  /\ BeginHook(s, x) \in WorkOf(R)
           /\ BeginHook(s, x).run = [run EXCEPT ![s] = x]
           /\ BeginHook(s, x).obj = call[s].seen /\ BeginHook(s, x).wrote = FALSE
           /\ x = NoRun => Room(BeginHook(s, x))
<1> DEFINE u == [run EXCEPT ![s] = x]
<1>1. s \in Callers
  BY DEF Callers
<1>2. x \in RunOf(R)
  BY DEF NoRun, Signalling, RunOf, RunStatus
<1>3. u \in [Slots -> RunOf(R)] /\ u[s] = x
  BY <1>2 DEF Values
<1>4. BeginHook(s, x) = [Begin(s) EXCEPT !.run = u]
  BY <1>1, BeginWork DEF BeginHook, WorkOf
<1>5. /\ BeginHook(s, x) \in WorkOf(R) /\ BeginHook(s, x).run = u
      /\ BeginHook(s, x).obj = call[s].seen /\ BeginHook(s, x).wrote = FALSE
  <2> HIDE DEF u
  <2> QED BY <1>1, <1>3, <1>4, BeginWork DEF WorkOf
<1>6. x = NoRun => s \in Free(BeginHook(s, x))
  BY <1>3, <1>5 DEF Free, NoRun
<1> QED BY <1>5, <1>6 DEF Room

\* The counters of the threshold are columns of their own.
LEMMA CounterWork ==
    ASSUME NEW R, NEW w \in WorkOf(R), NEW n \in Nat
    PROVE  /\ [w EXCEPT !.obj.turns = n] \in WorkOf(R)
           /\ [w EXCEPT !.obj.turns = n].run = w.run
           /\ [w EXCEPT !.obj.turns = n].wrote = w.wrote
           /\ [w EXCEPT !.obj.turns = n].obj.last = w.obj.last
           /\ [w EXCEPT !.obj.turns = n].obj.queue = w.obj.queue
           /\ [w EXCEPT !.obj.since = n] \in WorkOf(R)
           /\ [w EXCEPT !.obj.since = n].run = w.run
           /\ [w EXCEPT !.obj.since = n].wrote = w.wrote
           /\ [w EXCEPT !.obj.since = n].obj.last = w.obj.last
           /\ [w EXCEPT !.obj.since = n].obj.queue = w.obj.queue
<1> DEFINE o == [w.obj EXCEPT !.turns = n]
           p == [w.obj EXCEPT !.since = n]
<1>1. /\ o \in RowOf(R) /\ o.last = w.obj.last /\ o.queue = w.obj.queue
      /\ p \in RowOf(R) /\ p.last = w.obj.last /\ p.queue = w.obj.queue
  BY DEF WorkOf, RowOf
<1>2. /\ [w EXCEPT !.obj.turns = n] = [w EXCEPT !.obj = o]
      /\ [w EXCEPT !.obj.since = n] = [w EXCEPT !.obj = p]
  BY DEF WorkOf
<1> HIDE DEF o, p
<1> QED BY <1>1, <1>2 DEF WorkOf

LEMMA CountedWork ==
    ASSUME NEW R, NEW w \in WorkOf(R)
    PROVE  /\ Counted(w) \in WorkOf(R)
           /\ Counted(w).run = w.run /\ Counted(w).wrote = w.wrote
           /\ Counted(w).obj.last = w.obj.last /\ Counted(w).obj.queue = w.obj.queue
<1> DEFINE n == w.obj.turns + 1
<1>1. n \in Nat
  BY DEF WorkOf, RowOf
<1>2. CASE turn > w.obj.last
  <2>1. Counted(w) = [w EXCEPT !.obj.turns = n]
    BY <1>2 DEF Counted
  <2> DEFINE c == [w EXCEPT !.obj.turns = n]
  <2> HIDE DEF n
  <2>2. /\ c \in WorkOf(R) /\ c.run = w.run /\ c.wrote = w.wrote
        /\ c.obj.last = w.obj.last /\ c.obj.queue = w.obj.queue
    BY <1>1, CounterWork, Zenon
  <2> HIDE DEF c
  <2> QED BY <2>1, <2>2, Zenon DEF c
<1>3. CASE ~(turn > w.obj.last)
  BY <1>3 DEF Counted
<1> QED BY <1>2, <1>3

\* After an extract was asked for, the count of turns starts again.
LEMMA AskedWork ==
    ASSUME NEW R, NEW w \in WorkOf(R), NEW e \in R, Room(w)
    PROVE  LET d == Cleared(Enqueue(w, e)) IN
           d \in WorkOf(R) /\ Follows(w, d) /\ d.obj.last = w.obj.last
<1> DEFINE v == Enqueue(w, e)
           d == Cleared(v)
<1>1. v \in WorkOf(R) /\ Follows(w, v) /\ v.obj.last = w.obj.last
  BY EnqueueWork
<1>2. /\ d \in WorkOf(R) /\ d.obj.last = v.obj.last
      /\ d.run = v.run /\ d.obj.queue = v.obj.queue /\ d.wrote = v.wrote
  <2> HIDE DEF v
  <2> QED BY <1>1, CounterWork, ZenonT(30) DEF Cleared
<1> HIDE DEF v, d
<1>3. Follows(v, d)
  BY <1>2 DEF Follows
<1>4. Follows(w, d)
  BY <1>1, <1>2, <1>3, FollowsTwice
<1> QED BY <1>1, <1>2, <1>4 DEF d, v

\* on_run_committed.
LEMMA SourceTransaction ==
    ASSUME NEW R, Values(R), Summary \in R, SourceHook,
           Window(call["source"].seen) \in R
    PROVE  Transaction("source", Begin("source"), R, call["source"].seen.last, FALSE)
<1> DEFINE c == call["source"]
           b == Begin("source")
           w == Counted(b)
           done == IF c.req.kind = "extract" THEN Cleared(Enqueue(w, c.req))
                   ELSE IF w.obj.turns >= TurnsLimit THEN Cleared(Enqueue(w, Window(c.seen)))
                   ELSE w
<1>1. "source" \in Callers
  BY DEF Callers
<1>2. /\ b \in WorkOf(R) /\ b.run = run /\ b.obj = c.seen
  BY <1>1, BeginWork
<1>3. c.req \in R
  BY <1>1 DEF Values, CallOf
<1> HIDE DEF b
<1>4. /\ w \in WorkOf(R) /\ w.run = b.run /\ w.wrote = b.wrote
      /\ w.obj.last = b.obj.last /\ w.obj.queue = b.obj.queue
  BY <1>2, CountedWork
<1>5. /\ Free(w) # {} /\ row' = WrittenRow(c.seen, done) /\ run' = done.run
      /\ call' = [call EXCEPT !["source"] = NoCall]
  BY DEF SourceHook, Commit, b
<1> HIDE DEF w
<1>6. done \in WorkOf(R) /\ Follows(w, done) /\ done.obj.last = w.obj.last
  <2>1. Follows(w, w)
    BY DEF Follows
  <2> QED BY <1>3, <1>4, <1>5, <2>1, AskedWork DEF Room
<1> HIDE DEF done
<1>7. Follows(b, w)
  BY <1>4 DEF Follows
<1>8. Follows(b, done)
  BY <1>2, <1>4, <1>6, <1>7, FollowsTwice
<1> QED BY <1>2, <1>4, <1>5, <1>6, <1>8 DEF Transaction, b

\* enqueue_manual_extract and enqueue_manual_summary.
LEMMA ManualTransaction ==
    ASSUME NEW R, Values(R), NEW m \in Manuals, ManualCommit(m)
    PROVE  Transaction(m, Begin(m), R, call[m].seen.last, FALSE)
<1> DEFINE b == Begin(m)
           w == Enqueue(b, call[m].req)
           done == IF call[m].req.kind = "extract" THEN Cleared(w) ELSE w
<1>1. m \in Callers
  BY DEF Callers
<1>2. b \in WorkOf(R) /\ b.obj = call[m].seen
  BY <1>1, BeginWork
<1>3. call[m].req \in R
  BY <1>1 DEF Values, CallOf
<1>4. /\ Free(b) # {} /\ row' = WrittenRow(call[m].seen, done) /\ run' = done.run
      /\ call' = [call EXCEPT ![m] = NoCall]
  BY DEF ManualCommit, Commit
<1> HIDE DEF b
<1>5. done \in WorkOf(R) /\ Follows(b, done) /\ done.obj.last = b.obj.last
  BY <1>2, <1>3, <1>4, AskedWork, EnqueueWork DEF Room
<1> HIDE DEF done
<1> QED BY <1>2, <1>4, <1>5 DEF Transaction, b

\* The counters of an extract, and the summary that may be due.
LEMMA ExtractedWork ==
    ASSUME NEW R, NEW w \in WorkOf(R), NEW e \in Request, Summary \in R, Room(w)
    PROVE  LET d == Extracted(w, e) IN
           d \in WorkOf(R) /\ Follows(w, d) /\ d.obj.last = LastExtracted(w.obj, e)
<1> DEFINE l == LastExtracted(w.obj, e)
           o == [w.obj EXCEPT !.last = l, !.turns = 0, !.since = @ + 1]
           n == [w EXCEPT !.obj = o]
           d == IF n.obj.since >= ExtractsLimit THEN Enqueue(n, Summary) ELSE n
<1>1. l \in Nat
  <2>1. w.obj.last \in Nat /\ e.end \in Nat
    BY DEF WorkOf, RowOf, Request
  <2> QED BY <2>1 DEF LastExtracted
<1> HIDE DEF l
<1>2. o \in RowOf(R) /\ o.last = l /\ o.queue = w.obj.queue
  <2>1. w.obj \in RowOf(R) /\ w.obj.since + 1 \in Nat
    BY DEF WorkOf, RowOf
  <2> QED BY <1>1, <2>1 DEF RowOf
<1>3. Extracted(w, e) = d
  BY DEF Extracted, l
<1> HIDE DEF o
<1>4. n \in WorkOf(R) /\ n.obj = o /\ n.run = w.run /\ n.wrote = w.wrote
  BY <1>2 DEF WorkOf
<1> HIDE DEF n
<1>6. Follows(w, n) /\ Follows(n, n)
  BY <1>2, <1>4 DEF Follows
<1>7. Room(n)
  BY <1>4 DEF Room, Busy, Free
<1>8. d \in WorkOf(R) /\ Follows(n, d) /\ d.obj.last = n.obj.last
  BY <1>4, <1>6, <1>7, EnqueueWork
<1> HIDE DEF d
<1>9. Follows(w, d)
  BY <1>4, <1>6, <1>8, FollowsTwice
<1> QED BY <1>2, <1>3, <1>4, <1>8, <1>9 DEF l

\* What a hook has done before it takes the next request leaves a live run, or
\* the queue as it was.
LEMMA TakesNextWork ==
    ASSUME NEW R, NEW b \in WorkOf(R), NEW w \in WorkOf(R), Room(b), Follows(b, w)
    PROVE  LET d == EnqueueNext(w) IN
           /\ d \in WorkOf(R) /\ Follows(b, d) /\ d.obj.last = w.obj.last
           /\ b.obj.queue # <<>> => Busy(d)
<1> DEFINE d == EnqueueNext(w)
<1>1. Room(w)
  BY FollowsRoom
<1>2. /\ d \in WorkOf(R) /\ d.obj.last = w.obj.last /\ Follows(w, d)
      /\ w.obj.queue # <<>> => Busy(d)
  BY <1>1, EnqueueNextWork
<1> HIDE DEF d
<1>3. Follows(b, d)
  BY <1>2, FollowsTwice
<1>4. Busy(w) => Busy(d)
  BY <1>2 DEF Follows, Busy
<1>5. b.obj.queue # <<>> => Busy(d)
  BY <1>2, <1>4 DEF Follows
<1> QED BY <1>2, <1>3, <1>5 DEF d

\* The last extracted turn after the hook of a completed memory run.
LastAfter(s) ==
    IF run[s].req.kind = "extract" THEN LastExtracted(call[s].seen, run[s].req)
    ELSE call[s].seen.last

\* on_memory_run_committed.
LEMMA CommitTransaction ==
    ASSUME NEW R, R \subseteq Request, Values(R), Summary \in R,
           NEW s \in Slots, CommitHook(s)
    PROVE  Transaction(s, BeginHook(s, Signalling), R, LastAfter(s), TRUE)
<1> DEFINE b == BeginHook(s, Signalling)
           e == run[s].req
           w == IF e.kind = "extract" THEN Extracted(b, e) ELSE [b EXCEPT !.obj.since = 0]
           d == EnqueueNext(w)
<1>1. b \in WorkOf(R) /\ b.obj = call[s].seen /\ Room(b)
  BY BeginHookWork DEF CommitHook, Room
<1>2. e \in Request
  BY DEF Values, RunOf
<1>3. row' = WrittenRow(call[s].seen, d) /\ run' = d.run /\ call' = [call EXCEPT ![s] = NoCall]
  BY DEF CommitHook, Commit
<1>4. w \in WorkOf(R) /\ Follows(b, w) /\ w.obj.last = LastAfter(s)
  <2> HIDE DEF b
  <2>1. CASE e.kind = "extract"
    BY <1>1, <1>2, <2>1, ExtractedWork DEF LastAfter
  <2>2. CASE e.kind # "extract"
    <3>1. w = [b EXCEPT !.obj.since = 0]
      BY <2>2
    <3> HIDE DEF w
    <3>2. /\ w \in WorkOf(R) /\ w.run = b.run /\ w.wrote = b.wrote
          /\ w.obj.last = b.obj.last /\ w.obj.queue = b.obj.queue
      BY <1>1, <3>1, CounterWork, ZenonT(30)
    <3>3. Follows(b, w)
      BY <3>2 DEF Follows
    <3>4. w.obj.last = LastAfter(s)
      BY <1>1, <2>2, <3>2 DEF LastAfter
    <3> QED BY <3>2, <3>3, <3>4
  <2> QED BY <2>1, <2>2
<1> HIDE DEF w, b
<1>5. /\ d \in WorkOf(R) /\ Follows(b, d) /\ d.obj.last = w.obj.last
      /\ b.obj.queue # <<>> => Busy(d)
  BY <1>1, <1>4, TakesNextWork
<1> HIDE DEF d
<1> QED BY <1>3, <1>4, <1>5 DEF Transaction, b

\* on_memory_run_terminal.
LEMMA TerminalTransaction ==
    ASSUME NEW R, Values(R), Summary \in R, NEW s \in Slots, TerminalHook(s)
    PROVE  Transaction(s, BeginHook(s, NoRun), R, call[s].seen.last, TRUE)
<1> DEFINE b == BeginHook(s, NoRun)
           d == EnqueueNext(b)
<1>1. b \in WorkOf(R) /\ b.obj = call[s].seen /\ Room(b)
  BY BeginHookWork
<1>2. row' = WrittenRow(call[s].seen, d) /\ run' = d.run /\ call' = [call EXCEPT ![s] = NoCall]
  BY DEF TerminalHook, Commit, TakesNext
<1> HIDE DEF b
<1>3. Follows(b, b)
  BY DEF Follows
<1>4. /\ d \in WorkOf(R) /\ Follows(b, d) /\ d.obj.last = b.obj.last
      /\ b.obj.queue # <<>> => Busy(d)
  BY <1>1, <1>3, TakesNextWork
<1> HIDE DEF d
<1> QED BY <1>1, <1>2, <1>4 DEF Transaction, b

-----------------------------------------------------------------------------
(***************************************************************************)
(* What a transaction leaves, for the invariants                           *)
(***************************************************************************)

\* The caller has committed, over the memory runs B: the runs as they were, or
\* without its own if it is the hook of one.
Committed(c, B, l) ==
    /\ call' = [call EXCEPT ![c] = NoCall]
    /\ row'.last = IF l = call[c].seen.last THEN row.last ELSE l
    /\ \/ run' = B
       \/ /\ \A s \in Slots : B[s].status \notin Live
          /\ \E t \in Slots : \E e :
               /\ B[t].status = "none"
               /\ run' = [B EXCEPT ![t] = [status |-> "queued", req |-> e]]

\* If no memory run is live afterwards, the queue is as it was.
Carried(c, takes) ==
    \/ \E t \in Slots : run'[t].status \in Live
    \/ row'.queue = row.queue /\ ~(takes /\ call[c].seen.queue # <<>>)

LEMMA TransactionCommits ==
    ASSUME NEW R, NEW c, NEW w \in WorkOf(R), NEW l, NEW takes \in BOOLEAN,
           w.obj = call[c].seen, w.wrote = FALSE, Transaction(c, w, R, l, takes)
    PROVE  Committed(c, w.run, l) /\ Carried(c, takes)
<1>1. PICK d \in WorkOf(R) :
        /\ Follows(w, d) /\ d.obj.last = l
        /\ takes /\ w.obj.queue # <<>> => Busy(d)
        /\ row' = WrittenRow(call[c].seen, d)
        /\ run' = d.run
        /\ call' = [call EXCEPT ![c] = NoCall]
  BY DEF Transaction
<1>2. row'.last = IF l = call[c].seen.last THEN row.last ELSE l
  BY <1>1 DEF WrittenRow
<1>3. row'.queue = IF d.wrote THEN d.obj.queue ELSE row.queue
  BY <1>1 DEF WrittenRow
<1>4. Busy(w) <=> \E s \in Slots : w.run[s].status \in Live
  BY DEF Busy
<1>5. Committed(c, w.run, l)
  <2>1. CASE d.run = w.run
    BY <1>1, <1>2, <2>1 DEF Committed
  <2>2. CASE d.run # w.run
    <3>1. PICK t, e : t \in Free(w) /\ ~Busy(w) /\ Creates(w, d, t, e)
      BY <1>1, <2>2 DEF Follows
    <3>2. t \in Slots /\ w.run[t].status = "none"
      BY <3>1 DEF Free
    <3>3. run' = [w.run EXCEPT ![t] = [status |-> "queued", req |-> e]]
      BY <1>1, <3>1 DEF Creates
    <3>4. \A s \in Slots : w.run[s].status \notin Live
      BY <1>4, <3>1
    <3> QED BY <1>1, <1>2, <3>2, <3>3, <3>4 DEF Committed
  <2> QED BY <2>1, <2>2
<1>6. Busy(d) => \E t \in Slots : run'[t].status \in Live
  BY <1>1 DEF Busy
<1>7. CASE ~Busy(d)
  <2>1. d.wrote = FALSE
    BY <1>1, <1>7 DEF Follows
  <2>2. ~(takes /\ call[c].seen.queue # <<>>)
    BY <1>1, <1>7
  <2> QED BY <1>3, <1>5, <2>1, <2>2 DEF Carried
<1> QED BY <1>5, <1>6, <1>7 DEF Carried

\* The values a transaction writes are drawn from where its own come from.
LEMMA TransactionValues ==
    ASSUME NEW R, Values(R), Summary \in R, NEW c \in Callers, NEW w, NEW l, NEW takes,
           Transaction(c, w, R, l, takes)
    PROVE  row' \in RowOf(R) /\ run' \in [Slots -> RunOf(R)] /\ call' \in [Callers -> CallOf(R)]
<1>1. PICK d \in WorkOf(R) :
        /\ row' = WrittenRow(call[c].seen, d) /\ run' = d.run
        /\ call' = [call EXCEPT ![c] = NoCall]
  BY DEF Transaction
<1>2. NoRow \in RowOf(R)
  BY EmptySeq, MemoryAssumption DEF NoRow, RowOf
<1>3. NoCall \in CallOf(R)
  BY <1>2 DEF NoCall, CallOf
<1>4. row \in RowOf(R) /\ d.obj \in RowOf(R)
  BY DEF Values, WorkOf
<1>5. WrittenRow(call[c].seen, d) \in RowOf(R)
  BY <1>4 DEF WrittenRow, RowOf
<1> QED BY <1>1, <1>3, <1>5 DEF Values, WorkOf

-----------------------------------------------------------------------------
(***************************************************************************)
(* Every step keeps the requests within R, if those it makes are in R      *)
(***************************************************************************)

\* An operation that loads the row keeps a request from R.
LEMMA LoadValues ==
    ASSUME NEW R, Values(R), NEW c \in Callers, NEW q \in R, Load(c, q)
    PROVE  call' \in [Callers -> CallOf(R)]
<1>1. [on |-> TRUE, seen |-> row, req |-> q] \in CallOf(R)
  BY DEF Values, CallOf
<1> QED BY <1>1 DEF Load, Values

\* A run that moves on keeps its request.
LEMMA StatusValues ==
    ASSUME NEW R, Values(R), NEW s \in Slots, NEW st \in RunStatus, SetStatus(s, st)
    PROVE  run' \in [Slots -> RunOf(R)]
<1>1. [run[s] EXCEPT !.status = st] \in RunOf(R)
  BY DEF Values, RunOf
<1>2. run' = [run EXCEPT ![s] = [run[s] EXCEPT !.status = st]]
  BY DEF SetStatus
<1> QED BY <1>1, <1>2 DEF Values

LEMMA StepValues ==
    ASSUME NEW R, R \subseteq Request, Summary \in R, Values(R), turn \in Nat,
           jumps \in Nat, \A t \in Nat : Extract(1, t) \in R,
           call["source"].on => Window(call["source"].seen) \in R,
           jumps' = jumps \/ R = Request,
           [Next]_vars
    PROVE  /\ row' \in RowOf(R)
           /\ run' \in [Slots -> RunOf(R)]
           /\ call' \in [Callers -> CallOf(R)]
<1> DEFINE Kept1 == row' \in RowOf(R) /\ run' \in [Slots -> RunOf(R)]
                    /\ call' \in [Callers -> CallOf(R)]
<1>1. /\ "source" \in Callers
      /\ \A m \in Manuals : m \in Callers
      /\ \A s \in Slots : s \in Callers
  BY DEF Callers
<1>2. /\ row \in RowOf(R) /\ run \in [Slots -> RunOf(R)] /\ call \in [Callers -> CallOf(R)]
  BY DEF Values
<1>3. NoRun \in RunOf(R) /\ NoCall \in CallOf(R)
  BY EmptySeq, MemoryAssumption DEF NoRun, RunOf, RunStatus, NoRow, RowOf, NoCall, CallOf
<1>4. CASE SourceLoad
  <2>1. CASE Load("source", Summary)
    BY <1>1, <1>2, <1>4, <2>1, LoadValues DEF SourceLoad
  <2>2. CASE jumps' = jumps + 1 /\ Load("source", Extract(turn + 1, turn + 1))
    <3>1. Extract(turn + 1, turn + 1) \in R
      BY <2>2 DEF Extract, Request
    <3> QED BY <1>1, <1>2, <1>4, <2>2, <3>1, LoadValues DEF SourceLoad
  <2> QED BY <1>4, <2>1, <2>2 DEF SourceLoad
<1>5. CASE SourceHook
  BY <1>1, <1>5, SourceTransaction, TransactionValues DEF SourceHook
<1>6. ASSUME NEW m \in Manuals, ManualLoad(m) PROVE Kept1
  <2>1. CASE \E q \in {Summary} \union {Extract(1, t) : t \in {turn} \ {0}} : Load(m, q)
    BY <1>1, <1>2, <1>6, <2>1, LoadValues DEF ManualLoad
  <2>2. CASE jumps' = jumps + 1 /\ \E t \in 1..turn : Load(m, Extract(t, t))
    <3>1. \A t \in 1..turn : Extract(t, t) \in R
      BY <2>2 DEF Extract, Request
    <3> QED BY <1>1, <1>2, <1>6, <2>2, <3>1, LoadValues DEF ManualLoad
  <2> QED BY <1>6, <2>1, <2>2 DEF ManualLoad
<1>7. ASSUME NEW m \in Manuals, ManualCommit(m) PROVE Kept1
  BY <1>1, <1>7, ManualTransaction, TransactionValues
<1>8. ASSUME NEW s \in Slots, CommitHook(s) PROVE Kept1
  BY <1>1, <1>8, CommitTransaction, TransactionValues
<1>9. ASSUME NEW s \in Slots, TerminalHook(s) PROVE Kept1
  BY <1>1, <1>9, TerminalTransaction, TransactionValues
<1>10. ASSUME NEW s \in Slots, RunStep(s) PROVE Kept1
  <2>1. row' = row /\ \E st \in RunStatus : SetStatus(s, st)
    BY <1>10 DEF RunStep, Claim, Complete, FailRun, RunStatus
  <2>2. call' = call \/ call' = [call EXCEPT ![s] = NoCall]
    BY <1>10 DEF RunStep, Claim, Complete, FailRun
  <2> QED BY <1>2, <1>3, <2>1, <2>2, StatusValues
<1>11. ASSUME NEW s \in Slots, HookLoad(s) PROVE Kept1
  BY <1>1, <1>2, <1>11, LoadValues DEF HookLoad
<1>12. ASSUME NEW s \in Slots, Stop(s) PROVE Kept1
  BY <1>2, <1>3, <1>12 DEF Stop
<1>13. CASE CrashRestart
  BY <1>2, <1>3, <1>13 DEF CrashRestart
<1>14. CASE UNCHANGED vars
  BY <1>2, <1>14 DEF vars
<1>15. ASSUME NEW s \in Slots, SignalSent(s) \/ SignalRaises(s) PROVE Kept1
  BY <1>2, <1>3, <1>15, StatusValues DEF SignalSent, SignalRaises, RunStatus
<1> QED
  BY <1>4, <1>5, <1>6, <1>7, <1>8, <1>9, <1>10, <1>11, <1>12, <1>13, <1>14,
     <1>15
  DEF Next, HookStep

-----------------------------------------------------------------------------
(***************************************************************************)
(* Type correctness                                                        *)
(***************************************************************************)

\* The rows that operations have loaded are bounded like the one that is stored.
TypeInv ==
    /\ Values(Request)
    /\ turn \in Nat /\ jumps \in Nat /\ faults \in Nat
    /\ covered \subseteq Nat /\ asked \subseteq Manuals
    /\ unsent \subseteq Slots /\ left \subseteq Slots

LEMMA TypeInvImplies == TypeInv => TypeOK
<1> SUFFICES ASSUME TypeInv PROVE TypeOK
  OBVIOUS
<1>1. \A r \in RowOf(Request) : r \in Row /\ Len(r.queue) <= Kept
  BY DEF Row, RowOf
<1>2. RunOf(Request) = MemoryRun
  BY DEF RunOf, MemoryRun
<1>3. \A x \in CallOf(Request) : x \in Call
  BY <1>1 DEF Call, CallOf
<1>4. call \in [Callers -> Call]
  BY <1>3 DEF TypeInv, Values
<1> QED BY <1>1, <1>2, <1>4 DEF TypeInv, TypeOK, Values

LEMMA WindowType ==
    ASSUME TypeInv PROVE Window(call["source"].seen) \in Request
<1>1. call["source"].seen.last \in Nat /\ turn \in Nat
  BY DEF TypeInv, Values, CallOf, RowOf, Callers
<1> QED BY <1>1 DEF Window, Extract, Request

LEMMA SmallRequests == Summary \in Request /\ \A t \in Nat : Extract(1, t) \in Request
  BY DEF Summary, Extract, Request

LEMMA InitType == Init => TypeInv
<1> SUFFICES ASSUME Init PROVE TypeInv
  OBVIOUS
<1>1. NoRow \in RowOf(Request)
  BY EmptySeq, MemoryAssumption DEF NoRow, RowOf
<1>2. NoRun \in RunOf(Request) /\ NoCall \in CallOf(Request)
  BY <1>1, SmallRequests DEF NoRun, RunOf, RunStatus, NoCall, CallOf
<1> QED BY <1>1, <1>2 DEF Init, Values, TypeInv

LEMMA StepType == TypeInv /\ [Next]_vars => TypeInv'
<1> SUFFICES ASSUME TypeInv, [Next]_vars PROVE TypeInv'
  OBVIOUS
<1>1. /\ row' \in RowOf(Request) /\ run' \in [Slots -> RunOf(Request)]
      /\ call' \in [Callers -> CallOf(Request)]
  BY StepValues, WindowType, SmallRequests DEF TypeInv
<1>2. /\ turn' = turn \/ turn' = turn + 1
      /\ jumps' = jumps \/ jumps' = jumps + 1
      /\ faults' = faults \/ faults' = faults + 1
  BY DEF Next, SourceLoad, SourceHook, ManualLoad, ManualCommit, RunStep, Claim,
     Complete, FailRun, HookStep, HookLoad, CommitHook, SignalSent, SignalRaises,
     TerminalHook, Stop, CrashRestart, vars
<1>3. turn' \in Nat /\ jumps' \in Nat /\ faults' \in Nat
  BY <1>2 DEF TypeInv
<1>4. asked' \subseteq Manuals
  <2>1. asked' = asked \/ \E m \in Manuals : asked' = asked \union {m}
    BY DEF Next, SourceLoad, SourceHook, ManualLoad, ManualCommit, RunStep, Claim,
       Complete, FailRun, HookStep, HookLoad, CommitHook, SignalSent, SignalRaises,
     TerminalHook, Stop, CrashRestart, vars
  <2> QED BY <2>1 DEF TypeInv
<1>5. covered' \subseteq Nat
  <2>1. ASSUME NEW s \in Slots, CommitHook(s) PROVE covered' \subseteq Nat
    <3>1. run[s].req.start \in Nat /\ run[s].req.end \in Nat
      BY DEF TypeInv, Values, RunOf, Request
    <3> QED BY <2>1, <3>1 DEF CommitHook, TypeInv
  <2>2. (\E s \in Slots : CommitHook(s)) \/ covered' = covered
    BY DEF Next, SourceLoad, SourceHook, ManualLoad, ManualCommit, RunStep, Claim,
       Complete, FailRun, HookStep, HookLoad, SignalSent, SignalRaises, TerminalHook, Stop, CrashRestart, vars
  <2> QED BY <2>1, <2>2 DEF TypeInv
<1>6. Values(Request)'
  BY <1>1 DEF Values, RowOf, RunOf, CallOf
<1>7. unsent' \subseteq Slots /\ left' \subseteq Slots
  BY DEF TypeInv, Next, SourceLoad, SourceHook, ManualLoad, ManualCommit, RunStep, Claim,
     Complete, FailRun, HookStep, HookLoad, CommitHook, SignalSent, SignalRaises,
     TerminalHook, Stop, CrashRestart, vars
<1> QED BY <1>3, <1>4, <1>5, <1>6, <1>7 DEF TypeInv

\* The types, for any number of slots, requests, turns and faults.
THEOREM TypesHold == Spec => []TypeOK
<1>1. Init => TypeInv
  BY InitType
<1>2. TypeInv /\ [Next]_vars => TypeInv'
  BY StepType
<1>3. TypeInv => TypeOK
  BY TypeInvImplies
<1> QED BY <1>1, <1>2, <1>3, PTL DEF Spec

-----------------------------------------------------------------------------
(***************************************************************************)
(* The four transactions, seen alike                                       *)
(***************************************************************************)

\* The runs a caller starts from.
Before(c, B) ==
    \/ c \notin Slots /\ B = run
    \/ /\ c \in Slots /\ run[c].status \in {"completed", "failed"}
       /\ \E x \in {NoRun, Signalling} : B = [run EXCEPT ![c] = x]

\* Only the hook of a completed run moves the last extracted turn.
LastOf(c, l) ==
    l = call[c].seen.last \/ (c \in Slots /\ run[c].status = "completed" /\ l = LastAfter(c))

CommitStep(c) ==
    /\ call[c].on
    /\ \E B, l : Before(c, B) /\ LastOf(c, l) /\ Committed(c, B, l)
    /\ Carried(c, c \in Slots)

Transacts ==
    \/ SourceHook
    \/ \E m \in Manuals : ManualCommit(m)
    \/ \E s \in Slots : CommitHook(s) \/ TerminalHook(s)

LEMMA CommitSteps ==
    ASSUME TypeInv, Transacts
    PROVE  \E c \in Callers : CommitStep(c)
<1> USE SmallRequests DEF TypeInv
<1>1. /\ "source" \in Callers /\ "source" \notin Slots
      /\ \A m \in Manuals : m \in Callers /\ m \notin Slots
      /\ \A s \in Slots : s \in Callers
  BY MemoryAssumption DEF Callers
<1>2. CASE SourceHook
  <2> DEFINE c == "source"
             l == call[c].seen.last
  <2>1. Transaction(c, Begin(c), Request, l, FALSE)
    BY <1>2, SourceTransaction, WindowType
  <2>2. /\ Begin(c) \in WorkOf(Request) /\ Begin(c).run = run
        /\ Begin(c).obj = call[c].seen /\ Begin(c).wrote = FALSE
    BY <1>1, BeginWork
  <2>3. Committed(c, Begin(c).run, l) /\ Carried(c, FALSE)
    BY <2>1, <2>2, TransactionCommits
  <2>4. Before(c, run) /\ LastOf(c, l) /\ Committed(c, run, l) /\ Carried(c, c \in Slots)
    BY <1>1, <2>2, <2>3 DEF Before, LastOf, Carried
  <2>5. call[c].on
    BY <1>2 DEF SourceHook
  <2> QED BY <1>1, <2>4, <2>5 DEF CommitStep
<1>3. ASSUME NEW m \in Manuals, ManualCommit(m) PROVE CommitStep(m)
  <2> DEFINE l == call[m].seen.last
  <2>1. Transaction(m, Begin(m), Request, l, FALSE)
    BY <1>3, ManualTransaction
  <2>2. /\ Begin(m) \in WorkOf(Request) /\ Begin(m).run = run
        /\ Begin(m).obj = call[m].seen /\ Begin(m).wrote = FALSE
    BY <1>1, BeginWork
  <2>3. Committed(m, Begin(m).run, l) /\ Carried(m, FALSE)
    BY <2>1, <2>2, TransactionCommits
  <2>4. Before(m, run) /\ LastOf(m, l) /\ Committed(m, run, l) /\ Carried(m, m \in Slots)
    BY <1>1, <2>2, <2>3 DEF Before, LastOf, Carried
  <2>5. call[m].on
    BY <1>3 DEF ManualCommit
  <2> QED BY <2>4, <2>5 DEF CommitStep
<1>4. ASSUME NEW s \in Slots, NEW l, NEW x \in {NoRun, Signalling},
             Transaction(s, BeginHook(s, x), Request, l, TRUE), LastOf(s, l),
             call[s].on, run[s].status \in {"completed", "failed"}
      PROVE  CommitStep(s)
  <2> DEFINE B == [run EXCEPT ![s] = x]
  <2>1. /\ BeginHook(s, x) \in WorkOf(Request) /\ BeginHook(s, x).run = B
        /\ BeginHook(s, x).obj = call[s].seen /\ BeginHook(s, x).wrote = FALSE
    BY BeginHookWork
  <2>2. Committed(s, BeginHook(s, x).run, l) /\ Carried(s, TRUE)
    BY <1>4, <2>1, TransactionCommits
  <2>3. Before(s, B) /\ Committed(s, B, l) /\ Carried(s, s \in Slots)
    BY <1>4, <2>1, <2>2 DEF Before, Carried
  <2> QED BY <1>4, <2>3 DEF CommitStep
<1>5. ASSUME NEW s \in Slots, CommitHook(s) PROVE CommitStep(s)
  <2>1. Transaction(s, BeginHook(s, Signalling), Request, LastAfter(s), TRUE)
    BY <1>5, CommitTransaction
  <2>2. call[s].on /\ run[s].status = "completed"
    BY <1>5 DEF CommitHook
  <2> QED BY <1>4, <2>1, <2>2 DEF LastOf
<1>6. ASSUME NEW s \in Slots, TerminalHook(s) PROVE CommitStep(s)
  <2>1. Transaction(s, BeginHook(s, NoRun), Request, call[s].seen.last, TRUE)
    BY <1>6, TerminalTransaction
  <2>2. call[s].on /\ run[s].status = "failed"
    BY <1>6 DEF TerminalHook
  <2> QED BY <1>4, <2>1, <2>2 DEF LastOf
<1> QED BY <1>1, <1>2, <1>3, <1>5, <1>6 DEF Transacts

\* A slot keeps its run, has seen its hook commit, or is given the one live run.
LEMMA CommitRuns ==
    ASSUME TypeInv, NEW c \in Callers, CommitStep(c), NEW s \in Slots
    PROVE  \/ s # c /\ run'[s] = run[s]
           \/ s = c /\ run'[s] \in {NoRun, Signalling}
           \/ /\ run'[s].status = "queued" /\ (s = c \/ run[s].status = "none")
              /\ \A t \in Slots : t # s => run'[t].status \notin Live
<1>1. PICK B, l : Before(c, B) /\ Committed(c, B, l)
  BY DEF CommitStep
<1>2. B \in [Slots -> RunOf(Request)]
  BY <1>1, SmallRequests DEF Before, TypeInv, Values, RunOf, NoRun, Signalling, RunStatus
<1>3. /\ s # c => B[s] = run[s]
      /\ s = c /\ c \in Slots => B[s] \in {NoRun, Signalling}
      /\ s = c => c \in Slots
  BY <1>1 DEF Before, TypeInv, Values
<1>4. CASE run' = B
  BY <1>3, <1>4
<1>5. CASE run' # B
  <2>1. PICK t, e :
          /\ t \in Slots /\ B[t].status = "none"
          /\ run' = [B EXCEPT ![t] = [status |-> "queued", req |-> e]]
          /\ \A u \in Slots : B[u].status \notin Live
    BY <1>1, <1>5 DEF Committed
  <2>2. CASE s = t
    BY <1>2, <1>3, <2>1, <2>2
  <2>3. CASE s # t
    BY <1>2, <1>3, <2>1, <2>3
  <2> QED BY <2>2, <2>3
<1> QED BY <1>4, <1>5

-----------------------------------------------------------------------------
(***************************************************************************)
(* Memory runs are serialized                                              *)
(***************************************************************************)

\* A step is a transaction, or it makes no run live.
LEMMA OneLiveStep ==
    ASSUME TypeInv, OneLiveMemoryRun, [Next]_vars
    PROVE  OneLiveMemoryRun'
<1> USE DEF Live
<1>1. ASSUME NEW c \in Callers, CommitStep(c) PROVE OneLiveMemoryRun'
  <2> SUFFICES ASSUME NEW s \in Slots, NEW t \in Slots,
                      run'[s].status \in Live, run'[t].status \in Live
               PROVE  s = t
    BY DEF OneLiveMemoryRun
  <2>1. NoRun.status \notin Live /\ Signalling.status \notin Live
    BY DEF NoRun, Signalling
  <2>2. CASE run'[s] = run[s] /\ run'[t] = run[t]
    BY <2>2 DEF OneLiveMemoryRun
  <2>3. CASE run'[s] # run[s] \/ run'[t] # run[t]
    BY <1>1, <2>1, <2>3, CommitRuns
  <2> QED BY <2>2, <2>3
<1>2. ASSUME NEW s \in Slots, RunStep(s) PROVE OneLiveMemoryRun'
  <2>1. PICK st : SetStatus(s, st) /\ (run[s].status = "queued" \/ st \notin Live)
    BY <1>2 DEF RunStep, Claim, Complete, FailRun
  <2>2. /\ \A t \in Slots : t # s => run'[t] = run[t]
        /\ run'[s].status = st
    BY <2>1 DEF SetStatus, TypeInv, Values, RunOf
  <2> QED BY <2>1, <2>2 DEF OneLiveMemoryRun
<1>3. ASSUME \A s \in Slots : run'[s] = run[s] \/ run'[s] = NoRun PROVE OneLiveMemoryRun'
  BY <1>3 DEF OneLiveMemoryRun, NoRun
<1>4. CASE SourceLoad \/ (\E m \in Manuals : ManualLoad(m)) \/ UNCHANGED vars
           \/ \E s \in Slots : HookLoad(s)
  <2>1. run' = run
    BY <1>4 DEF SourceLoad, ManualLoad, HookLoad, vars
  <2> QED BY <1>3, <2>1
<1>5. ASSUME NEW s \in Slots, Stop(s) PROVE OneLiveMemoryRun'
  BY <1>3, <1>5 DEF Stop, TypeInv, Values
<1>6. CASE CrashRestart
  BY <1>3, <1>6 DEF CrashRestart
<1>7. CASE Transacts
  BY <1>1, <1>7, CommitSteps
<1>8. ASSUME NEW s \in Slots, SignalSent(s) PROVE OneLiveMemoryRun'
  BY <1>3, <1>8 DEF SignalSent, TypeInv, Values
<1>9. ASSUME NEW s \in Slots, SignalRaises(s) PROVE OneLiveMemoryRun'
  <2>1. /\ \A t \in Slots : t # s => run'[t] = run[t]
        /\ run'[s].status = "failed"
    BY <1>9 DEF SignalRaises, SetStatus, TypeInv, Values, RunOf
  <2> QED BY <2>1 DEF OneLiveMemoryRun
<1> QED BY <1>2, <1>4, <1>5, <1>6, <1>7, <1>8, <1>9 DEF Next, HookStep, Transacts

\* Memory runs are serialized, however hooks and requests interleave.
THEOREM Serialized == Spec => []OneLiveMemoryRun
<1>1. Init => TypeInv /\ OneLiveMemoryRun
  <2>1. Init => OneLiveMemoryRun
    BY DEF Init, OneLiveMemoryRun, NoRun, Live
  <2> QED BY <2>1, InitType
<1>2. TypeInv /\ OneLiveMemoryRun /\ [Next]_vars => TypeInv' /\ OneLiveMemoryRun'
  BY StepType, OneLiveStep
<1> QED BY <1>1, <1>2, PTL DEF Spec

-----------------------------------------------------------------------------
(***************************************************************************)
(* The order of the hooks: only a hook of a completed run moves the last   *)
(* extracted turn, there is one at a time, and so what it has seen of that *)
(* column is what it finds there.                                          *)
(***************************************************************************)
HookOrder ==
    /\ \A s \in Slots : call[s].on => run[s].status \in {"completed", "failed"}
    /\ \A s, t \in Slots : run[s].status = "completed" /\ run[t].status = "completed" => s = t
    /\ \A s \in Slots : run[s].status = "completed" /\ call[s].on
                          => call[s].seen.last = row.last

LEMMA LastOfCommit ==
    ASSUME TypeInv, HookOrder, NEW c \in Callers, CommitStep(c)
    PROVE  /\ row'.last >= row.last
           /\ row'.last # row.last => c \in Slots /\ run[c].status = "completed"
<1>1. PICK l : LastOf(c, l) /\ row'.last = IF l = call[c].seen.last THEN row.last ELSE l
  BY DEF CommitStep, Committed
<1>2. row.last \in Nat
  BY DEF TypeInv, Values, RowOf
<1>3. CASE l = call[c].seen.last
  BY <1>1, <1>2, <1>3
<1>4. CASE l # call[c].seen.last
  <2>1. c \in Slots /\ run[c].status = "completed" /\ l = LastAfter(c) /\ row'.last = l
    BY <1>1, <1>4 DEF LastOf
  <2>2. call[c].seen.last = row.last
    BY <2>1 DEF HookOrder, CommitStep
  <2>3. run[c].req.end \in Nat
    BY <2>1 DEF TypeInv, Values, RunOf, Request
  <2>4. l >= row.last
    BY <1>2, <2>1, <2>2, <2>3 DEF LastAfter, LastExtracted
  <2> QED BY <2>1, <2>4
<1> QED BY <1>3, <1>4

LEMMA OrderStep ==
    ASSUME TypeInv, HookOrder, [Next]_vars
    PROVE  HookOrder'
<1> USE DEF Live
<1>0. /\ \A s \in Slots : s \in Callers
      /\ "source" \notin Slots /\ \A m \in Manuals : m \notin Slots
  BY MemoryAssumption DEF Callers
<1>1. ASSUME NEW c \in Callers, CommitStep(c) PROVE HookOrder'
  <2>1. call' = [call EXCEPT ![c] = NoCall]
    BY <1>1 DEF CommitStep, Committed
  <2>2. \A s \in Slots : call'[s].on => s # c /\ call'[s] = call[s]
    BY <1>0, <2>1 DEF TypeInv, Values, NoCall
  <2>3. ASSUME NEW s \in Slots, run'[s].status = "completed"
        PROVE  s # c /\ run[s].status = "completed"
    BY <1>1, <2>3, CommitRuns DEF NoRun, Signalling
  <2>4. ASSUME NEW s \in Slots, call'[s].on PROVE run'[s] = run[s]
    <3>1. s # c /\ run[s].status \in {"completed", "failed"}
      BY <2>2, <2>4 DEF HookOrder
    <3> QED BY <1>1, <3>1, CommitRuns
  <2>5. ASSUME NEW s \in Slots, run'[s].status = "completed", call'[s].on
        PROVE  call'[s].seen.last = row'.last
    <3>1. s # c /\ run[s].status = "completed" /\ call'[s] = call[s]
      BY <2>2, <2>3, <2>5
    <3>2. row'.last = row.last
      BY <1>1, <3>1, LastOfCommit DEF HookOrder
    <3> QED BY <2>5, <3>1, <3>2 DEF HookOrder
  <2>6. \A s \in Slots : call'[s].on => run'[s].status \in {"completed", "failed"}
    BY <2>2, <2>4 DEF HookOrder
  <2>7. \A s, t \in Slots :
          run'[s].status = "completed" /\ run'[t].status = "completed" => s = t
    BY <2>3 DEF HookOrder
  <2> QED BY <2>5, <2>6, <2>7 DEF HookOrder
<1>2. ASSUME NEW s \in Slots, Claim(s) PROVE HookOrder'
  <2>1. /\ run[s].status = "queued" /\ run'[s].status = "running"
        /\ \A t \in Slots : t # s => run'[t] = run[t]
        /\ row' = row /\ call' = call
    BY <1>2 DEF Claim, SetStatus, TypeInv, Values, RunOf
  <2> QED BY <2>1 DEF HookOrder
<1>3. ASSUME NEW s \in Slots, Complete(s) PROVE HookOrder'
  <2>1. /\ run[s].status = "running" /\ run'[s].status = "completed"
        /\ \A t \in Slots : run[t].status # "completed"
        /\ \A t \in Slots : t # s => run'[t] = run[t]
        /\ row' = row /\ call' = call
    BY <1>3 DEF Complete, SetStatus, TypeInv, Values, RunOf
  <2> QED BY <2>1 DEF HookOrder
<1>4. ASSUME NEW s \in Slots, FailRun(s) PROVE HookOrder'
  <2>1. /\ run'[s].status = "failed" /\ call'[s] = NoCall
        /\ \A t \in Slots : t # s => run'[t] = run[t] /\ call'[t] = call[t]
        /\ row' = row
    BY <1>0, <1>4 DEF FailRun, SetStatus, TypeInv, Values, RunOf
  <2> QED BY <2>1 DEF HookOrder, NoCall
<1>5. ASSUME NEW s \in Slots, HookLoad(s) PROVE HookOrder'
  <2>1. /\ run[s].status \in {"completed", "failed"} /\ call'[s].seen = row
        /\ \A t \in Slots : t # s => call'[t] = call[t]
        /\ row' = row /\ run' = run
    BY <1>0, <1>5 DEF HookLoad, Load, TypeInv, Values
  <2> QED BY <2>1 DEF HookOrder
<1>6. CASE SourceLoad \/ \E m \in Manuals : ManualLoad(m)
  <2>1. row' = row /\ run' = run
    BY <1>6 DEF SourceLoad, ManualLoad
  <2>2. PICK c, q : c \notin Slots /\ Load(c, q)
    <3>1. CASE SourceLoad
      BY <1>0, <3>1 DEF SourceLoad
    <3>2. ASSUME NEW m \in Manuals, ManualLoad(m) PROVE \E q : Load(m, q)
      BY <3>2 DEF ManualLoad
    <3> QED BY <1>0, <1>6, <3>1, <3>2
  <2>3. \A s \in Slots : call'[s] = call[s]
    BY <1>0, <2>2 DEF Load, TypeInv, Values
  <2> QED BY <2>1, <2>3 DEF HookOrder
<1>7. ASSUME NEW s \in Slots, Stop(s) PROVE HookOrder'
  <2>1. /\ run[s].status \in Live /\ run'[s] = NoRun
        /\ \A t \in Slots : t # s => run'[t] = run[t]
        /\ row' = row /\ call' = call
    BY <1>7 DEF Stop, TypeInv, Values
  <2> QED BY <2>1 DEF HookOrder, NoRun
<1>8. CASE CrashRestart
  <2>1. \A s \in Slots : ~call'[s].on /\ run'[s].status # "completed"
    BY <1>0, <1>8 DEF CrashRestart, NoCall, NoRun
  <2> QED BY <2>1 DEF HookOrder
<1>9. CASE UNCHANGED vars
  BY <1>9 DEF vars, HookOrder
<1>10. CASE Transacts
  BY <1>1, <1>10, CommitSteps
<1>11. ASSUME NEW s \in Slots, SignalSent(s) \/ SignalRaises(s) PROVE HookOrder'
  <2>1. /\ run[s].status = "signalling" /\ run'[s].status \in {"none", "failed"}
        /\ \A t \in Slots : t # s => run'[t] = run[t]
        /\ row' = row /\ call' = call
    BY <1>11 DEF SignalSent, SignalRaises, SetStatus, NoRun, TypeInv, Values, RunOf
  <2> QED BY <2>1 DEF HookOrder
<1> QED BY <1>2, <1>3, <1>4, <1>5, <1>6, <1>7, <1>8, <1>9, <1>10, <1>11
        DEF Next, RunStep, HookStep, Transacts

\* last_extracted_sequence_no never moves back, whatever order extracts end in.
THEOREM LastGrows == Spec => LastExtractedGrows
<1>1. Init => TypeInv /\ HookOrder
  <2>1. Init => HookOrder
    BY MemoryAssumption DEF Init, HookOrder, NoRun, NoCall, Callers
  <2> QED BY <2>1, InitType
<1>2. TypeInv /\ HookOrder /\ [Next]_vars => TypeInv' /\ HookOrder'
  BY StepType, OrderStep
<1>3. TypeInv /\ HookOrder /\ [Next]_vars => [row'.last >= row.last]_vars
  <2> SUFFICES ASSUME TypeInv, HookOrder, Next PROVE row'.last >= row.last
    BY DEF vars
  <2>1. row.last \in Nat
    BY DEF TypeInv, Values, RowOf
  <2>2. CASE Transacts
    BY <2>2, CommitSteps, LastOfCommit
  <2>3. CASE row' = row
    BY <2>1, <2>3
  <2>4. Transacts \/ row' = row
    BY DEF Next, Transacts, SourceLoad, ManualLoad, RunStep, Claim, Complete, FailRun,
       HookStep, HookLoad, SignalSent, SignalRaises, Stop, CrashRestart
  <2> QED BY <2>2, <2>3, <2>4
<1> QED BY <1>1, <1>2, <1>3, PTL DEF Spec, LastExtractedGrows

-----------------------------------------------------------------------------
(***************************************************************************)
(* A pending request is carried                                            *)
(***************************************************************************)

\* The run is live, or its hook will find the queue: it has yet to load the row,
\* or has loaded one with a request in it.
Carries(s) ==
    \/ run[s].status \in Live
    \/ /\ run[s].status \in {"completed", "failed"}
       /\ call[s].on => call[s].seen.queue # <<>>

HasCarrier == faults = 0 /\ row.queue # <<>> => \E s \in Slots : Carries(s)

\* A hook that leaves requests it has not seen leaves their carrier too.
LEMMA CommitCarries ==
    ASSUME TypeInv, HookOrder, HasCarrier, NEW c \in Callers, CommitStep(c),
           faults' = 0, faults = 0, row'.queue # <<>>
    PROVE  \E s \in Slots : Carries(s)'
<1>1. CASE \E t \in Slots : run'[t].status \in Live
  BY <1>1 DEF Carries
<1>2. CASE row'.queue = row.queue /\ ~(c \in Slots /\ call[c].seen.queue # <<>>)
  <2>1. PICK s \in Slots : Carries(s)
    BY <1>2 DEF HasCarrier
  <2>2. c \in Slots => ~Carries(c)
    BY <1>2 DEF Carries, HookOrder, CommitStep, Live
  <2>3. s # c
    BY <2>1, <2>2
  <2>4. s \in Callers
    BY DEF Callers
  <2>5. call'[s] = call[s]
    BY <2>3, <2>4 DEF CommitStep, Committed, TypeInv, Values
  <2>6. run'[s] = run[s] \/ run'[s].status = "queued"
    BY <2>3, CommitRuns
  <2>7. Carries(s)'
    BY <2>1, <2>5, <2>6 DEF Carries, Live
  <2> QED BY <2>7
<1> QED BY <1>1, <1>2 DEF CommitStep, Carried

LEMMA CarrierStep ==
    ASSUME TypeInv, HookOrder, HasCarrier, [Next]_vars
    PROVE  HasCarrier'
<1> SUFFICES ASSUME faults' = 0, row'.queue # <<>>
             PROVE  \E s \in Slots : Carries(s)'
  BY DEF HasCarrier
<1> USE DEF Live
<1>0. \A s \in Slots : s \in Callers
  BY DEF Callers
<1>1. CASE Transacts
  <2>1. PICK c \in Callers : CommitStep(c)
    BY <1>1, CommitSteps
  <2>2. faults = 0
    BY <1>1 DEF Transacts, SourceHook, ManualCommit, CommitHook, TerminalHook
  <2> QED BY <2>1, <2>2, CommitCarries
<1>2. ASSUME NEW t \in Slots, RunStep(t) PROVE \E s \in Slots : Carries(s)'
  <2>1. faults = 0 /\ row' = row
    BY <1>2 DEF RunStep, Claim, Complete, FailRun
  <2>2. PICK s \in Slots : Carries(s)
    BY <2>1 DEF HasCarrier
  <2>3. CASE s # t
    <3>1. run'[s] = run[s] /\ call'[s] = call[s]
      BY <1>0, <1>2, <2>3 DEF RunStep, Claim, Complete, FailRun, SetStatus, TypeInv, Values
    <3> QED BY <2>2, <3>1 DEF Carries
  <2>4. CASE s = t /\ Claim(t)
    <3>1. run'[t].status = "running"
      BY <2>4 DEF Claim, SetStatus, TypeInv, Values, RunOf
    <3> QED BY <3>1 DEF Carries
  <2>5. CASE s = t /\ Complete(t)
    <3>1. run'[t].status = "completed" /\ call' = call /\ run[t].status = "running"
      BY <2>5 DEF Complete, SetStatus, TypeInv, Values, RunOf
    <3>2. ~call[t].on \/ run[t].status \in {"completed", "failed"}
      BY DEF HookOrder
    <3> QED BY <3>1, <3>2 DEF Carries
  <2>6. CASE s = t /\ FailRun(t)
    <3>1. run'[t].status = "failed" /\ call'[t] = NoCall
      BY <1>0, <2>6 DEF FailRun, SetStatus, TypeInv, Values, RunOf
    <3> QED BY <3>1 DEF Carries, NoCall
  <2> QED BY <1>2, <2>3, <2>4, <2>5, <2>6 DEF RunStep
<1>3. ASSUME NEW t \in Slots, HookLoad(t) PROVE \E s \in Slots : Carries(s)'
  <2>1. /\ run'[t].status \in {"completed", "failed"}
        /\ call'[t].seen = row /\ row' = row
    BY <1>0, <1>3 DEF HookLoad, Load, TypeInv, Values
  <2> QED BY <2>1 DEF Carries
<1>4. CASE SourceLoad \/ \E m \in Manuals : ManualLoad(m)
  <2>1. faults = 0 /\ row' = row /\ run' = run
    BY <1>4 DEF SourceLoad, ManualLoad
  <2>2. PICK c, q : c \notin Slots /\ Load(c, q)
    <3>1. CASE SourceLoad
      BY <3>1, MemoryAssumption DEF SourceLoad
    <3>2. ASSUME NEW m \in Manuals, ManualLoad(m) PROVE m \notin Slots /\ \E q : Load(m, q)
      BY <3>2, MemoryAssumption DEF ManualLoad
    <3> QED BY <1>4, <3>1, <3>2
  <2>3. \A s \in Slots : call'[s] = call[s]
    BY <1>0, <2>2 DEF Load, TypeInv, Values
  <2>4. PICK s \in Slots : Carries(s)
    BY <2>1 DEF HasCarrier
  <2> QED BY <2>1, <2>3, <2>4 DEF Carries
<1>5. CASE CrashRestart \/ \E s \in Slots : Stop(s)
  <2>1. faults' = faults + 1
    BY <1>5 DEF CrashRestart, Stop
  <2> QED BY <2>1 DEF TypeInv
<1>6. CASE UNCHANGED vars
  BY <1>6 DEF vars, HasCarrier, Carries
<1>7. ASSUME NEW t \in Slots, SignalSent(t) \/ SignalRaises(t)
      PROVE  \E s \in Slots : Carries(s)'
  <2>1. /\ faults = 0 /\ row' = row /\ call' = call /\ run[t].status = "signalling"
        /\ \A s \in Slots : s # t => run'[s] = run[s]
    BY <1>7 DEF SignalSent, SignalRaises, SetStatus, TypeInv, Values
  <2>2. PICK s \in Slots : Carries(s)
    BY <2>1 DEF HasCarrier
  <2>3. s # t
    BY <2>1, <2>2 DEF Carries
  <2> QED BY <2>1, <2>2, <2>3 DEF Carries
<1> QED BY <1>1, <1>2, <1>3, <1>4, <1>5, <1>6, <1>7 DEF Next, HookStep, Transacts

\* Without stops and losses a pending request has a memory run that will take it.
THEOREM RequestsAreCarried == Spec => []PendingHasCarrier
<1>1. Init => TypeInv /\ HookOrder /\ HasCarrier
  <2>1. Init => HookOrder
    BY MemoryAssumption DEF Init, HookOrder, NoRun, NoCall, Callers
  <2>2. Init => HasCarrier
    BY DEF Init, HasCarrier, NoRow
  <2> QED BY <2>1, <2>2, InitType
<1>2. TypeInv /\ HookOrder /\ HasCarrier /\ [Next]_vars
        => TypeInv' /\ HookOrder' /\ HasCarrier'
  BY StepType, OrderStep, CarrierStep
<1>3. HasCarrier => PendingHasCarrier
  BY DEF HasCarrier, PendingHasCarrier, Carries, Live
<1> QED BY <1>1, <1>2, <1>3, PTL DEF Spec

-----------------------------------------------------------------------------
(***************************************************************************)
(* What last_extracted_sequence_no passes over was extracted               *)
(***************************************************************************)

\* Requests whose window leaves out no turn that is not in C.
Good(C) == {e \in Request : e.kind = "extract" => 1..(e.start - 1) \subseteq C}

Coverage ==
    jumps = 0 => /\ Values(Good(covered))
                 /\ 1..row.last \subseteq covered
                 /\ \A c \in Callers : 1..call[c].seen.last \subseteq covered

\* More coverage spoils no request.
LEMMA GoodGrows ==
    ASSUME NEW C, NEW D, C \subseteq D,
           NEW r \in RowOf(Good(C)), NEW u \in [Slots -> RunOf(Good(C))],
           NEW k \in [Callers -> CallOf(Good(C))]
    PROVE  /\ r \in RowOf(Good(D)) /\ u \in [Slots -> RunOf(Good(D))]
           /\ k \in [Callers -> CallOf(Good(D))]
<1>1. Good(C) \subseteq Good(D)
  BY DEF Good
<1>2. Seq(Good(C)) \subseteq Seq(Good(D))
  BY <1>1, SeqMonotonic
<1>3. RowOf(Good(C)) \subseteq RowOf(Good(D))
  BY <1>2 DEF RowOf
<1>4. RunOf(Good(C)) \subseteq RunOf(Good(D))
  BY <1>1 DEF RunOf
<1>5. CallOf(Good(C)) \subseteq CallOf(Good(D))
  BY <1>1, <1>3 DEF CallOf
<1> QED BY <1>3, <1>4, <1>5

\* A transaction other than the hook of a completed run keeps the column.
LEMMA OthersKeepLast ==
    ASSUME TypeInv, SourceHook \/ (\E m \in Manuals : ManualCommit(m))
                    \/ (\E s \in Slots : TerminalHook(s))
    PROVE  row'.last = row.last
<1>0. "source" \in Callers /\ \A m \in Manuals : m \in Callers
  BY DEF Callers
<1>1. CASE SourceHook
  <2>1. Transaction("source", Begin("source"), Request, call["source"].seen.last, FALSE)
    BY <1>1, SourceTransaction, WindowType, SmallRequests DEF TypeInv
  <2>2. PICK d : d.obj.last = call["source"].seen.last /\ row' = WrittenRow(call["source"].seen, d)
    BY <2>1 DEF Transaction
  <2> QED BY <2>2 DEF WrittenRow
<1>2. ASSUME NEW m \in Manuals, ManualCommit(m) PROVE row'.last = row.last
  <2>1. Transaction(m, Begin(m), Request, call[m].seen.last, FALSE)
    BY <1>2, ManualTransaction DEF TypeInv
  <2>2. PICK d : d.obj.last = call[m].seen.last /\ row' = WrittenRow(call[m].seen, d)
    BY <2>1 DEF Transaction
  <2> QED BY <2>2 DEF WrittenRow
<1>3. ASSUME NEW s \in Slots, TerminalHook(s) PROVE row'.last = row.last
  <2>1. Transaction(s, BeginHook(s, NoRun), Request, call[s].seen.last, TRUE)
    BY <1>3, TerminalTransaction, SmallRequests DEF TypeInv
  <2>2. PICK d : d.obj.last = call[s].seen.last /\ row' = WrittenRow(call[s].seen, d)
    BY <2>1 DEF Transaction
  <2> QED BY <2>2 DEF WrittenRow
<1> QED BY <1>1, <1>2, <1>3

\* The hook of a completed run extends the coverage as far as it moves the column.
LEMMA CommitCovers ==
    ASSUME TypeInv, Coverage, jumps = 0, NEW s \in Slots, CommitHook(s)
    PROVE  1..row'.last \subseteq covered'
<1> DEFINE e == run[s].req
           seen == call[s].seen
<1>1. Transaction(s, BeginHook(s, Signalling), Request, LastAfter(s), TRUE)
  BY CommitTransaction, SmallRequests DEF TypeInv
<1>2. PICK d : d.obj.last = LastAfter(s) /\ row' = WrittenRow(seen, d)
  BY <1>1 DEF Transaction
<1>3. row'.last = row.last \/ row'.last = LastAfter(s)
  BY <1>2 DEF WrittenRow
<1>4. /\ 1..row.last \subseteq covered /\ 1..seen.last \subseteq covered
      /\ covered' = IF e.kind = "extract" THEN covered \union e.start..e.end ELSE covered
  BY DEF Coverage, CommitHook, Callers
<1>5. /\ e.kind = "extract" => 1..(e.start - 1) \subseteq covered
      /\ e.start \in Nat /\ e.end \in Nat
  BY DEF Coverage, Values, RunOf, Good, Request
<1>6. LastAfter(s) = seen.last \/ (e.kind = "extract" /\ LastAfter(s) = e.end)
  BY DEF LastAfter, LastExtracted
<1>7. CASE e.kind = "extract" /\ row'.last = e.end
  <2> SUFFICES ASSUME NEW t \in 1..e.end PROVE t \in covered'
    BY <1>7
  <2>1. CASE t < e.start
    BY <1>4, <1>5, <1>7, <2>1
  <2>2. CASE ~(t < e.start)
    BY <1>4, <1>5, <1>7, <2>2
  <2> QED BY <2>1, <2>2
<1>8. covered \subseteq covered'
  BY <1>4
<1> QED BY <1>3, <1>4, <1>6, <1>7, <1>8

LEMMA CoverageStep ==
    ASSUME TypeInv, Coverage, [Next]_vars
    PROVE  Coverage'
<1> SUFFICES ASSUME jumps' = 0 PROVE /\ Values(Good(covered))'
                                     /\ 1..row'.last \subseteq covered'
                                     /\ \A c \in Callers : 1..call'[c].seen.last \subseteq covered'
  BY DEF Coverage
<1> DEFINE R == Good(covered)
<1>1. jumps = 0
  <2>1. jumps' = jumps \/ jumps' = jumps + 1
    BY DEF Next, SourceLoad, SourceHook, ManualLoad, ManualCommit, RunStep, Claim,
       Complete, FailRun, HookStep, HookLoad, CommitHook, SignalSent, SignalRaises,
     TerminalHook, Stop, CrashRestart, vars
  <2> QED BY <2>1 DEF TypeInv
<1>2. /\ Values(R) /\ 1..row.last \subseteq covered
      /\ \A c \in Callers : 1..call[c].seen.last \subseteq covered
  BY <1>1 DEF Coverage
<1>3. covered \subseteq covered'
  BY DEF Next, SourceLoad, SourceHook, ManualLoad, ManualCommit, RunStep, Claim,
     Complete, FailRun, HookStep, HookLoad, CommitHook, SignalSent, SignalRaises,
     TerminalHook, Stop, CrashRestart, vars
<1>4. R \subseteq Request /\ Summary \in R /\ \A t \in Nat : Extract(1, t) \in R
  BY SmallRequests DEF Good, Summary, Extract
<1>5. Window(call["source"].seen) \in R
  <2>1. call["source"].seen.last \in Nat /\ "source" \in Callers
    BY DEF TypeInv, Values, CallOf, RowOf, Callers
  <2>2. call["source"].seen.last + 1 - 1 = call["source"].seen.last
    BY <2>1
  <2> QED BY <1>2, <2>1, <2>2, WindowType DEF Good, Window, Extract
<1>6. /\ row' \in RowOf(R) /\ run' \in [Slots -> RunOf(R)] /\ call' \in [Callers -> CallOf(R)]
  BY <1>1, <1>2, <1>4, <1>5, StepValues DEF TypeInv
<1>7. Values(Good(covered))'
  <2>1. /\ row' \in RowOf(Good(covered')) /\ run' \in [Slots -> RunOf(Good(covered'))]
        /\ call' \in [Callers -> CallOf(Good(covered'))]
    BY <1>3, <1>6, GoodGrows
  <2> QED BY <2>1 DEF Values, RowOf, RunOf, CallOf, Good
<1>8. 1..row'.last \subseteq covered'
  <2>1. CASE \E s \in Slots : CommitHook(s)
    BY <1>1, <2>1, CommitCovers
  <2>2. CASE SourceHook \/ (\E m \in Manuals : ManualCommit(m)) \/ (\E s \in Slots : TerminalHook(s))
    BY <1>2, <1>3, <2>2, OthersKeepLast
  <2>3. CASE row' = row
    BY <1>2, <1>3, <2>3
  <2> QED BY <2>1, <2>2, <2>3 DEF Next, SourceLoad, ManualLoad, RunStep, Claim, Complete,
          FailRun, HookStep, HookLoad, SignalSent, SignalRaises, Stop, CrashRestart, vars
<1>9. ASSUME NEW c \in Callers PROVE 1..call'[c].seen.last \subseteq covered'
  <2>1. call'[c] = call[c] \/ call'[c] = NoCall \/ call'[c].seen = row
    <3>1. CASE call' = call
      BY <3>1
    <3>2. CASE \E x : call' = [call EXCEPT ![x] = NoCall]
      BY <3>2 DEF TypeInv, Values
    <3>3. CASE \E x, q : Load(x, q)
      BY <3>3 DEF Load, TypeInv, Values
    <3>4. CASE CrashRestart
      BY <3>4 DEF CrashRestart
    <3>5. CASE SourceLoad \/ (\E m \in Manuals : ManualLoad(m)) \/ \E s \in Slots : HookLoad(s)
      BY <3>3, <3>5 DEF SourceLoad, ManualLoad, HookLoad
    <3>6. CASE Transacts
      <4>1. PICK x \in Callers : CommitStep(x)
        BY <3>6, CommitSteps
      <4> QED BY <3>2, <4>1 DEF CommitStep, Committed
    <3>7. CASE \E s \in Slots : RunStep(s) \/ SignalSent(s) \/ SignalRaises(s) \/ Stop(s)
      BY <3>1, <3>2, <3>7 DEF RunStep, Claim, Complete, FailRun, SignalSent, SignalRaises, Stop
    <3>8. CASE UNCHANGED vars
      BY <3>1, <3>8 DEF vars
    <3> QED BY <3>4, <3>5, <3>6, <3>7, <3>8 DEF Next, HookStep, Transacts
  <2>2. CASE call'[c] = call[c]
    BY <1>2, <1>3, <2>2
  <2>3. CASE call'[c] = NoCall
    BY <2>3 DEF NoCall, NoRow
  <2>4. CASE call'[c].seen = row
    BY <1>2, <1>3, <2>4
  <2> QED BY <2>1, <2>2, <2>3, <2>4
<1> QED BY <1>7, <1>8, <1>9

\* Nothing that the column passes over was left out, though requests are dropped,
\* lost, failed and served late, unless an extract of selected turns was asked for.
THEOREM PassedIsCovered == Spec => []LastIsCovered
<1>1. Init => TypeInv /\ Coverage
  <2>1. ASSUME Init PROVE Coverage
    <3>1. Summary \in Good(covered) /\ NoRow \in RowOf(Good(covered))
      BY SmallRequests, EmptySeq, MemoryAssumption DEF Good, Summary, NoRow, RowOf
    <3>2. Values(Good(covered))
      BY <2>1, <3>1 DEF Init, Values, NoRun, RunOf, RunStatus, NoCall, CallOf
    <3> QED BY <2>1, <3>2 DEF Init, Coverage, NoRow, NoCall
  <2> QED BY <2>1, InitType
<1>2. TypeInv /\ Coverage /\ [Next]_vars => TypeInv' /\ Coverage'
  BY StepType, CoverageStep
<1>3. Coverage => LastIsCovered
  BY DEF Coverage, LastIsCovered
<1> QED BY <1>1, <1>2, <1>3, PTL DEF Spec
=============================================================================
