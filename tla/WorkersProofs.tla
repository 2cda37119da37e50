---------------------------- MODULE WorkersProofs ----------------------------
(***************************************************************************)
(* What the engine's threads keep true for any number of threads, calls    *)
(* and wakers, whichever threads the system refuses: no answer waits       *)
(* without a poll to come for it, every waiting call has one job or one    *)
(* answer, and the answer says what became of the work.                    *)
(***************************************************************************)
EXTENDS Workers, Functions, SequenceTheorems, FiniteSetTheorems, TLAPS

-----------------------------------------------------------------------------
(* Queues: what is in one (Range) and whether it is there once (IsInjective) *)

\* An item sent is behind the others.
LEMMA ItemSent ==
  ASSUME NEW S, NEW q \in Seq(S), NEW c \in S
  PROVE  /\ Append(q, c) \in Seq(S) /\ Append(q, c) # <<>>
         /\ Range(Append(q, c)) = Range(q) \cup {c}
         /\ IsInjective(q) /\ c \notin Range(q) => IsInjective(Append(q, c))
<1>1. /\ Len(q) \in Nat /\ DOMAIN q = 1 .. Len(q)
      /\ DOMAIN Append(q, c) = 1 .. Len(q) + 1
      /\ \A i \in 1 .. Len(q) : Append(q, c)[i] = q[i]
      /\ Append(q, c)[Len(q) + 1] = c
      /\ Append(q, c) \in Seq(S) /\ Append(q, c) # <<>>
  BY LenProperties, AppendProperties
<1>2. \A i \in DOMAIN Append(q, c) : i \in DOMAIN q \/ i = Len(q) + 1
  BY <1>1
<1>3. \A i \in DOMAIN q : i # Len(q) + 1 /\ i \in DOMAIN Append(q, c)
  BY <1>1
<1>4. Range(Append(q, c)) = Range(q) \cup {c}
  BY <1>1, <1>2, <1>3 DEF Range
<1>5. ASSUME IsInjective(q), c \notin Range(q) PROVE IsInjective(Append(q, c))
  BY <1>1, <1>2, <1>3, <1>5 DEF Range, IsInjective
<1> QED BY <1>1, <1>4, <1>5

\* An item taken is in its queue no more, and the others are.
LEMMA ItemTaken ==
  ASSUME NEW S, NEW q \in Seq(S), q # <<>>
  PROVE  /\ Tail(q) \in Seq(S) /\ Head(q) \in Range(q) /\ Head(q) \in S
         /\ Range(Tail(q)) \subseteq Range(q)
         /\ IsInjective(q) => /\ Range(Tail(q)) = Range(q) \ {Head(q)}
                              /\ IsInjective(Tail(q))
<1>1. /\ Len(q) \in Nat /\ Len(q) > 0 /\ DOMAIN q = 1 .. Len(q) /\ Head(q) = q[1]
      /\ DOMAIN Tail(q) = 1 .. Len(q) - 1
      /\ \A i \in 1 .. Len(q) - 1 : Tail(q)[i] = q[i + 1]
      /\ Tail(q) \in Seq(S) /\ Head(q) \in S
  BY LenProperties, HeadTailProperties, EmptySeq
<1>2. /\ \A i \in DOMAIN Tail(q) : i + 1 \in DOMAIN q /\ i + 1 # 1
      /\ \A i \in DOMAIN q : i = 1 \/ (i - 1 \in DOMAIN Tail(q) /\ Tail(q)[i - 1] = q[i])
      /\ \A i, j \in DOMAIN Tail(q) : i + 1 = j + 1 => i = j
      /\ 1 \in DOMAIN q
  BY <1>1
<1>3. /\ Head(q) \in Range(q) /\ Range(Tail(q)) \subseteq Range(q)
      /\ Range(q) \ {Head(q)} \subseteq Range(Tail(q))
  <2>1. Head(q) \in Range(q)
    BY <1>1, <1>2 DEF Range
  <2>2. Range(Tail(q)) \subseteq Range(q)
    BY <1>1, <1>2 DEF Range
  <2>3. ASSUME NEW i \in DOMAIN q, q[i] # Head(q) PROVE q[i] \in Range(Tail(q))
    <3>1. i - 1 \in DOMAIN Tail(q) /\ Tail(q)[i - 1] = q[i]
      BY <1>1, <1>2, <2>3
    <3> QED BY <3>1 DEF Range
  <2>4. Range(q) \ {Head(q)} \subseteq Range(Tail(q))
    BY <2>3 DEF Range
  <2> QED BY <2>1, <2>2, <2>4
<1>4. ASSUME IsInjective(q) PROVE Head(q) \notin Range(Tail(q)) /\ IsInjective(Tail(q))
  BY <1>1, <1>2, <1>4 DEF Range, IsInjective
<1> QED BY <1>1, <1>3, <1>4

-----------------------------------------------------------------------------
(* The inductive invariant *)

Busy(t) == worker[t].pc \in {"run", "fill"}

\* a job is to be done, or being done: its call is made, and has no answer yet
Pending(c) ==
  /\ call[c] \in {"waiting", "dropped"}
  /\ c \in AsyncCalls => slot[c].value = "none"

WorkerFacts == [pc : {"idle", "run", "fill", "wake", "ended"}, job : Calls \cup {NoCall},
                out : Answers \cup {"none"}, waker : Wakers \cup {NoWaker}]
SlotFacts == [value : Answers \cup {"none"}, waker : Wakers \cup {NoWaker}]
TaskFacts == [due : BOOLEAN, waker : Wakers \cup {NoWaker}]

Typed ==
  /\ engine \in BOOLEAN /\ ran \subseteq Calls
  /\ queue \in [Pools -> Seq(Calls)]
  /\ worker \in [Threads -> WorkerFacts]
  /\ call \in [Calls -> {"new", "waiting", "answered", "dropped"}]
  /\ got \in [Calls -> Answers \cup {"none"}]
  /\ flag \in [AsyncCalls -> BOOLEAN]
  /\ slot \in [AsyncCalls -> SlotFacts] /\ task \in [AsyncCalls -> TaskFacts]

\* A queue has each job once, for calls of its pool with no answer, and a thread to take them.
QueuesRight ==
  \A p \in Pools :
    /\ IsInjective(queue[p])
    /\ queue[p] # <<>> => Served(p)
    /\ \A c \in Range(queue[p]) : PoolFor(c) = p /\ Pending(c)

\* A job with a thread is in no queue and with no other thread, and has no answer yet.
ThreadsRight ==
  \A t \in Threads : Busy(t) =>
    /\ worker[t].job \in Calls /\ Pending(worker[t].job)
    /\ \A p \in Pools : worker[t].job \notin Range(queue[p])
    /\ \A u \in Threads : Busy(u) /\ worker[u].job = worker[t].job => u = t

\* A call waiting is somewhere: in its queue, with a thread, or answered in its slot.
Somewhere ==
  \A c \in Calls : call[c] = "waiting" =>
    \/ c \in Range(queue[PoolFor(c)])
    \/ \E t \in Threads : Busy(t) /\ worker[t].job = c
    \/ c \in AsyncCalls /\ slot[c].value # "none"

\* What a thread is about to answer is so, and its job's work was begun if it runs.
OutcomesTrue ==
  \A t \in Threads :
    /\ worker[t].pc = "run" => worker[t].job \in ran
    /\ worker[t].pc = "fill" =>
         \/ worker[t].out \in {"value", "panic"} /\ worker[t].job \in ran
         \/ worker[t].out = "cancelled" /\ Flagged(worker[t].job)

\* So is what a slot has, and what a call was answered; a call new has been nowhere.
AnswersKept ==
  /\ \A c \in AsyncCalls :
       /\ slot[c].value \in {"value", "panic"} => c \in ran
       /\ slot[c].value = "cancelled" => flag[c]
       /\ slot[c].value = "gone" => c \notin ran /\ ~Served("long")
  /\ \A c \in Calls :
       /\ got[c] # "none" => call[c] = "answered"
       /\ call[c] = "new" => c \notin ran /\ (c \in AsyncCalls => slot[c].value = "none")

\* A task not due whose future has no answer waits on the waker its slot has.
WakerLeft ==
  \A c \in AsyncCalls :
    call[c] = "waiting" /\ slot[c].value = "none" /\ ~task[c].due =>
      slot[c].waker = task[c].waker /\ slot[c].waker \in Wakers

\* A thread about to wake has a waker of a future.
WakersRight ==
  \A t \in Threads :
    worker[t].pc = "wake" => worker[t].job \in AsyncCalls /\ worker[t].waker \in Wakers

Inv ==
  /\ Typed /\ QueuesRight /\ ThreadsRight /\ Somewhere
  /\ OutcomesTrue /\ AnswersKept /\ AnswersTrue
  /\ WakerLeft /\ WakersRight /\ NoLostWakeup

-----------------------------------------------------------------------------
(* Types *)

\* What the steps write to a thread, a slot or a task is a thread's, a slot's or a task's.
LEMMA WorkerType ==
  ASSUME worker \in [Threads -> WorkerFacts], NEW t \in Threads,
         NEW pc \in {"idle", "run", "fill", "wake", "ended"}
  PROVE  /\ [worker EXCEPT ![t].pc = pc] \in [Threads -> WorkerFacts]
         /\ \A out \in Answers :
              [worker EXCEPT ![t].pc = pc, ![t].out = out] \in [Threads -> WorkerFacts]
         /\ \A c \in Calls :
              [worker EXCEPT ![t].job = c, ![t].pc = pc] \in [Threads -> WorkerFacts]
         /\ \A c \in Calls, out \in Answers :
              [worker EXCEPT ![t].job = c, ![t].pc = pc, ![t].out = out]
                \in [Threads -> WorkerFacts]
         /\ \A w \in Wakers : [worker EXCEPT ![t] = [@ EXCEPT !.pc = pc, !.waker = w]]
                                \in [Threads -> WorkerFacts]
<1>0. worker[t] \in WorkerFacts
  OBVIOUS
<1>1. [worker EXCEPT ![t].pc = pc] \in [Threads -> WorkerFacts]
  BY <1>0 DEF WorkerFacts
<1>2. ASSUME NEW out \in Answers
      PROVE  [worker EXCEPT ![t].pc = pc, ![t].out = out] \in [Threads -> WorkerFacts]
  BY <1>0 DEF WorkerFacts
<1>3. ASSUME NEW c \in Calls
      PROVE  [worker EXCEPT ![t].job = c, ![t].pc = pc] \in [Threads -> WorkerFacts]
  BY <1>0 DEF WorkerFacts
<1>4. ASSUME NEW c \in Calls, NEW out \in Answers
      PROVE  [worker EXCEPT ![t].job = c, ![t].pc = pc, ![t].out = out]
               \in [Threads -> WorkerFacts]
  BY <1>0 DEF WorkerFacts
<1>5. ASSUME NEW w \in Wakers
      PROVE  [worker EXCEPT ![t] = [@ EXCEPT !.pc = pc, !.waker = w]] \in [Threads -> WorkerFacts]
  BY <1>0 DEF WorkerFacts
<1> QED BY <1>1, <1>2, <1>3, <1>4, <1>5

\* A thread done with its job is a thread.
LEMMA ThreadFreed ==
  ASSUME worker \in [Threads -> WorkerFacts], NEW t \in Threads
  PROVE  [worker EXCEPT ![t] = Start] \in [Threads -> WorkerFacts]
<1>1. Start \in WorkerFacts
  BY DEF Start, WorkerFacts
<1> QED BY <1>1

\* So for a slot...
LEMMA SlotType ==
  ASSUME slot \in [AsyncCalls -> SlotFacts], NEW c \in AsyncCalls,
         NEW a \in Answers \cup {"none"}, NEW w \in Wakers \cup {NoWaker}
  PROVE  /\ [slot EXCEPT ![c].value = a] \in [AsyncCalls -> SlotFacts]
         /\ [slot EXCEPT ![c].waker = w] \in [AsyncCalls -> SlotFacts]
         /\ [slot EXCEPT ![c] = [value |-> a, waker |-> w]] \in [AsyncCalls -> SlotFacts]
<1>0. slot[c] \in SlotFacts
  OBVIOUS
<1>1. [slot EXCEPT ![c].value = a] \in [AsyncCalls -> SlotFacts]
  BY <1>0 DEF SlotFacts
<1>2. [slot EXCEPT ![c].waker = w] \in [AsyncCalls -> SlotFacts]
  BY <1>0 DEF SlotFacts
<1>3. [value |-> a, waker |-> w] \in SlotFacts
  BY DEF SlotFacts
<1> QED BY <1>1, <1>2, <1>3

\* ... and for a future's task.
LEMMA TaskType ==
  ASSUME task \in [AsyncCalls -> TaskFacts], NEW c \in AsyncCalls, NEW due \in BOOLEAN
  PROVE  /\ [task EXCEPT ![c].due = due] \in [AsyncCalls -> TaskFacts]
         /\ \A w \in Wakers :
              [task EXCEPT ![c] = [due |-> due, waker |-> w]] \in [AsyncCalls -> TaskFacts]
<1>0. task[c] \in TaskFacts
  OBVIOUS
<1>1. [task EXCEPT ![c].due = due] \in [AsyncCalls -> TaskFacts]
  BY <1>0 DEF TaskFacts
<1>2. ASSUME NEW w \in Wakers PROVE [due |-> due, waker |-> w] \in TaskFacts
  BY DEF TaskFacts
<1> QED BY <1>1, <1>2

-----------------------------------------------------------------------------
(* The host's steps *)

\* A call on the host's own thread has its answer at once.
LEMMA RunInlineStep ==
  ASSUME Inv, NEW c \in Calls, RunInline(c)
  PROVE  Inv'
<1> USE WorkersAssumption DEF Inv, Typed, Calls, RunInline, New, Answer
<1>1. Typed'
  BY DEF Answers
<1> USE DEF WorkerFacts, SlotFacts, TaskFacts
<1>2. QueuesRight'
  BY DEF QueuesRight, Pending, Served, PoolFor
<1>3. ThreadsRight'
  BY DEF ThreadsRight, Busy, Pending
<1>4. Somewhere'
  BY DEF Somewhere, Busy, PoolFor
<1>5. OutcomesTrue'
  BY DEF OutcomesTrue, Flagged
<1>6. AnswersKept'
  BY DEF AnswersKept, Served
<1>7. AnswersTrue'
  BY DEF AnswersTrue, AnswersKept, Served, PoolFor
<1>8. WakerLeft'
  BY DEF WakerLeft
<1>9. WakersRight'
  BY DEF WakersRight
<1>10. NoLostWakeup'
  BY DEF NoLostWakeup, WakerLeft
<1> QED BY <1>1, <1>2, <1>3, <1>4, <1>5, <1>6, <1>7, <1>8, <1>9, <1>10

\* A call new is sent to the queue of its pool, which a thread serves.
LEMMA SendStep ==
  ASSUME Inv, NEW c \in Calls, call[c] = "new", Served(PoolFor(c)),
         queue' = [queue EXCEPT ![PoolFor(c)] = Append(@, c)],
         call' = [call EXCEPT ![c] = "waiting"],
         c \in SyncCalls => task' = task,
         c \in AsyncCalls => task' = [task EXCEPT ![c].due = TRUE],
         UNCHANGED <<engine, worker, got, flag, slot, ran>>
  PROVE  Inv'
<1> USE WorkersAssumption DEF Inv, Typed, Calls
<1>0. /\ PoolFor(c) \in Pools /\ c \notin Range(queue[PoolFor(c)])
      /\ queue' \in [Pools -> Seq(Calls)]
      /\ \A p \in Pools : Range(queue'[p]) = IF p = PoolFor(c) THEN Range(queue[p]) \cup {c}
                                             ELSE Range(queue[p])
      /\ IsInjective(queue'[PoolFor(c)])
      /\ \A p \in Pools : p # PoolFor(c) => queue'[p] = queue[p]
  <2>1. PoolFor(c) \in Pools /\ c \notin Range(queue[PoolFor(c)])
    BY DEF PoolFor, Pools, QueuesRight, Pending
  <2>2. IsInjective(queue[PoolFor(c)]) /\ queue[PoolFor(c)] \in Seq(Calls)
    BY <2>1 DEF QueuesRight
  <2>3. LET q == queue[PoolFor(c)] IN
          /\ Append(q, c) \in Seq(Calls) /\ Range(Append(q, c)) = Range(q) \cup {c}
          /\ IsInjective(Append(q, c))
    BY <2>1, <2>2, ItemSent
  <2> QED BY <2>1, <2>2, <2>3
<1>1. Typed'
  <2>1. task' \in [AsyncCalls -> TaskFacts]
    <3>1. CASE c \in SyncCalls
      BY <3>1
    <3>2. CASE c \in AsyncCalls
      <4>1. [task EXCEPT ![c].due = TRUE] \in [AsyncCalls -> TaskFacts]
        BY <3>2, TaskType
      <4> QED BY <3>2, <4>1
    <3> QED BY <3>1, <3>2
  <2>2. call' \in [Calls -> {"new", "waiting", "answered", "dropped"}]
    OBVIOUS
  <2> QED BY <1>0, <2>1, <2>2
<1> USE DEF WorkerFacts, SlotFacts, TaskFacts
<1>2. QueuesRight'
  <2> SUFFICES ASSUME NEW p \in Pools
               PROVE  /\ IsInjective(queue'[p])
                      /\ queue'[p] # <<>> => Served(p)'
                      /\ \A d \in Range(queue'[p]) : PoolFor(d) = p /\ Pending(d)'
    BY DEF QueuesRight
  <2>1. \A d \in Range(queue[p]) : d # c /\ PoolFor(d) = p /\ Pending(d)'
    BY DEF QueuesRight, Pending
  <2>2. Pending(c)'
    BY DEF Pending, AnswersKept
  <2>3. Served(p)' = Served(p)
    BY DEF Served
  <2>4. CASE p = PoolFor(c)
    <3>1. Range(queue'[p]) = Range(queue[p]) \cup {c} /\ Served(p)'
      BY <1>0, <2>3, <2>4
    <3> QED BY <1>0, <2>1, <2>2, <2>4, <3>1
  <2>5. CASE p # PoolFor(c)
    BY <1>0, <2>1, <2>3, <2>5 DEF QueuesRight
  <2> QED BY <2>4, <2>5
<1>3. ThreadsRight'
  <2> SUFFICES ASSUME NEW t \in Threads, Busy(t)
               PROVE  /\ worker[t].job \in Calls /\ Pending(worker[t].job)'
                      /\ \A p \in Pools : worker[t].job \notin Range(queue'[p])
                      /\ \A u \in Threads : Busy(u) /\ worker[u].job = worker[t].job => u = t
    BY DEF ThreadsRight, Busy
  <2>1. worker[t].job \in Calls \ {c} /\ Pending(worker[t].job)
    BY DEF ThreadsRight, Pending
  <2>2. Pending(worker[t].job)'
    BY <2>1 DEF Pending
  <2> QED BY <1>0, <2>1, <2>2 DEF ThreadsRight
<1>4. Somewhere'
  <2> SUFFICES ASSUME NEW d \in Calls, call'[d] = "waiting"
               PROVE  \/ d \in Range(queue'[PoolFor(d)])
                      \/ \E t \in Threads : Busy(t) /\ worker[t].job = d
                      \/ d \in AsyncCalls /\ slot[d].value # "none"
    BY DEF Somewhere, Busy
  <2>1. CASE d = c
    BY <1>0, <2>1
  <2>2. CASE d # c
    <3>1. PoolFor(d) \in Pools /\ call[d] = "waiting"
      BY <2>2 DEF PoolFor, Pools
    <3> QED BY <1>0, <3>1 DEF Somewhere
  <2> QED BY <2>1, <2>2
<1>5. OutcomesTrue'
  BY DEF OutcomesTrue, Flagged
<1>6. AnswersKept'
  BY DEF AnswersKept, Served
<1>7. AnswersTrue'
  BY DEF AnswersTrue, AnswersKept, Served, PoolFor
<1>8. WakerLeft'
  BY DEF WakerLeft
<1>9. WakersRight'
  BY DEF WakersRight
<1>10. NoLostWakeup'
  BY DEF NoLostWakeup, WakerLeft
<1> QED BY <1>1, <1>2, <1>3, <1>4, <1>5, <1>6, <1>7, <1>8, <1>9, <1>10

\* A sync call that no thread will run is answered at once.
LEMMA NotSentStep ==
  ASSUME Inv, NEW c \in Calls, c \in SyncCalls, call[c] = "new", ~Served("live"), Answer(c, "gone"),
         UNCHANGED <<engine, queue, worker, flag, slot, task, ran>>
  PROVE  Inv'
<1> USE WorkersAssumption DEF Inv, Typed, Calls, Answer
<1>1. Typed'
  BY DEF Answers
<1> USE DEF WorkerFacts, SlotFacts, TaskFacts
<1>2. QueuesRight'
  BY DEF QueuesRight, Pending, Served, PoolFor
<1>3. ThreadsRight'
  BY DEF ThreadsRight, Busy, Pending
<1>4. Somewhere'
  BY DEF Somewhere, Busy, PoolFor
<1>5. OutcomesTrue'
  BY DEF OutcomesTrue, Flagged
<1>6. AnswersKept'
  BY DEF AnswersKept, Served
<1>7. AnswersTrue'
  BY DEF AnswersTrue, AnswersKept, Served, PoolFor
<1>8. WakerLeft'
  BY DEF WakerLeft
<1>9. WakersRight'
  BY DEF WakersRight
<1>10. NoLostWakeup'
  BY DEF NoLostWakeup, WakerLeft
<1> QED BY <1>1, <1>2, <1>3, <1>4, <1>5, <1>6, <1>7, <1>8, <1>9, <1>10

\* A sync call is sent, or refused.
LEMMA RunOnStep ==
  ASSUME Inv, NEW c \in Calls, RunOn(c)
  PROVE  Inv'
<1>1. CASE Served("live")
  <2>1. PoolFor(c) = "live" /\ c \notin AsyncCalls /\ call[c] = "new"
    BY WorkersAssumption DEF RunOn, New, PoolFor
  <2>2. /\ queue' = [queue EXCEPT ![PoolFor(c)] = Append(@, c)]
        /\ call' = [call EXCEPT ![c] = "waiting"]
        /\ UNCHANGED <<engine, worker, got, flag, slot, task, ran>>
    BY <1>1, <2>1 DEF RunOn
  <2> QED BY <1>1, <2>1, <2>2, SendStep
<1>2. CASE ~Served("live")
  BY <1>2, NotSentStep DEF RunOn, New
<1> QED BY <1>1, <1>2

\* An async call cancelled already, or that no thread will run, has its answer from the start.
LEMMA FilledAtOnceStep ==
  ASSUME Inv, NEW c \in AsyncCalls, NEW a \in {"cancelled", "gone"}, call[c] = "new",
         a = "cancelled" => flag[c], a = "gone" => ~Served("long"),
         call' = [call EXCEPT ![c] = "waiting"], task' = [task EXCEPT ![c].due = TRUE],
         slot' = [slot EXCEPT ![c].value = a],
         UNCHANGED <<engine, queue, worker, got, flag, ran>>
  PROVE  Inv'
<1> USE WorkersAssumption DEF Inv, Typed, Calls
<1>1. Typed'
  <2>1. a \in Answers
    BY DEF Answers
  <2>2. slot' \in [AsyncCalls -> SlotFacts] /\ task' \in [AsyncCalls -> TaskFacts]
    BY <2>1, SlotType, TaskType
  <2>3. call' \in [Calls -> {"new", "waiting", "answered", "dropped"}]
    OBVIOUS
  <2> QED BY <2>2, <2>3
<1> USE DEF WorkerFacts, SlotFacts, TaskFacts
<1>2. QueuesRight'
  BY DEF QueuesRight, Pending, Served, PoolFor
<1>3. ThreadsRight'
  BY DEF ThreadsRight, Busy, Pending
<1>4. Somewhere'
  BY DEF Somewhere, Busy, PoolFor
<1>5. OutcomesTrue'
  BY DEF OutcomesTrue, Flagged
<1>6. AnswersKept'
  BY DEF AnswersKept, Served
<1>7. AnswersTrue'
  BY DEF AnswersTrue, AnswersKept, Served, PoolFor
<1>8. WakerLeft'
  BY DEF WakerLeft
<1>9. WakersRight'
  BY DEF WakersRight
<1>10. NoLostWakeup'
  BY DEF NoLostWakeup, WakerLeft
<1> QED BY <1>1, <1>2, <1>3, <1>4, <1>5, <1>6, <1>7, <1>8, <1>9, <1>10

\* An async call is sent, or its slot is filled at once.
LEMMA SpawnStep ==
  ASSUME Inv, NEW c \in Calls, Spawn(c)
  PROVE  Inv'
<1>0. c \in AsyncCalls /\ call[c] = "new" /\ PoolFor(c) = "long"
  BY WorkersAssumption DEF Spawn, New, PoolFor
<1>1. CASE flag[c]
  BY <1>0, <1>1, FilledAtOnceStep DEF Spawn
<1>2. CASE ~flag[c] /\ ~Served("long")
  BY <1>0, <1>2, FilledAtOnceStep DEF Spawn
<1>3. CASE ~flag[c] /\ Served("long")
  <2>1. /\ c \notin SyncCalls /\ queue' = [queue EXCEPT ![PoolFor(c)] = Append(@, c)]
        /\ call' = [call EXCEPT ![c] = "waiting"] /\ task' = [task EXCEPT ![c].due = TRUE]
        /\ UNCHANGED <<engine, worker, got, flag, slot, ran>>
    BY <1>0, <1>3, WorkersAssumption DEF Spawn
  <2> QED BY <1>0, <1>3, <2>1, SendStep
<1> QED BY <1>1, <1>2, <1>3

\* A flag set makes no answer untrue.
LEMMA CancelStep ==
  ASSUME Inv, NEW c \in Calls, Cancel(c)
  PROVE  Inv'
<1> USE WorkersAssumption DEF Inv, Typed, Calls, Cancel, New
<1>1. Typed'
  BY DEF Typed
<1> USE DEF WorkerFacts, SlotFacts, TaskFacts
<1>2. QueuesRight'
  BY DEF QueuesRight, Pending, Served, PoolFor
<1>3. ThreadsRight'
  BY DEF ThreadsRight, Busy, Pending
<1>4. Somewhere'
  BY DEF Somewhere, Busy, PoolFor
<1>5. OutcomesTrue'
  BY DEF OutcomesTrue, Flagged
<1>6. AnswersKept'
  BY DEF AnswersKept, Served
<1>7. AnswersTrue'
  BY DEF AnswersTrue, AnswersKept, Served, PoolFor
<1>8. WakerLeft'
  BY DEF WakerLeft
<1>9. WakersRight'
  BY DEF WakersRight
<1>10. NoLostWakeup'
  BY DEF NoLostWakeup, WakerLeft
<1> QED BY <1>1, <1>2, <1>3, <1>4, <1>5, <1>6, <1>7, <1>8, <1>9, <1>10

\* A poll finds the answer...
LEMMA TakeAnswerStep ==
  ASSUME Inv, NEW c \in AsyncCalls, call[c] = "waiting", slot[c].value # "none",
         Answer(c, slot[c].value),
         slot' = [slot EXCEPT ![c].value = "none"], task' = [task EXCEPT ![c].due = FALSE],
         UNCHANGED <<engine, queue, worker, flag, ran>>
  PROVE  Inv'
<1> USE WorkersAssumption DEF Inv, Typed, Calls, Answer
<1>1. Typed'
  <2>1. slot[c].value \in Answers \cup {"none"}
    BY DEF SlotFacts
  <2>2. slot' \in [AsyncCalls -> SlotFacts] /\ task' \in [AsyncCalls -> TaskFacts]
    BY SlotType, TaskType
  <2> QED BY <2>1, <2>2
<1> USE DEF WorkerFacts, SlotFacts, TaskFacts
<1>2. QueuesRight'
  BY DEF QueuesRight, Pending, Served, PoolFor
<1>3. ThreadsRight'
  BY DEF ThreadsRight, Busy, Pending
<1>4. Somewhere'
  BY DEF Somewhere, Busy, PoolFor
<1>5. OutcomesTrue'
  BY DEF OutcomesTrue, Flagged
<1>6. AnswersKept'
  BY DEF AnswersKept, Served
<1>7. AnswersTrue'
  BY DEF AnswersTrue, AnswersKept, Served, PoolFor
<1>8. WakerLeft'
  BY DEF WakerLeft
<1>9. WakersRight'
  BY DEF WakersRight
<1>10. NoLostWakeup'
  BY DEF NoLostWakeup, WakerLeft
<1> QED BY <1>1, <1>2, <1>3, <1>4, <1>5, <1>6, <1>7, <1>8, <1>9, <1>10

\* ... or leaves its waker.
LEMMA LeaveWakerStep ==
  ASSUME Inv, NEW c \in AsyncCalls, NEW w \in Wakers, call[c] = "waiting", slot[c].value = "none",
         slot' = [slot EXCEPT ![c].waker = w],
         task' = [task EXCEPT ![c] = [due |-> FALSE, waker |-> w]],
         UNCHANGED <<engine, queue, worker, call, got, flag, ran>>
  PROVE  Inv'
<1> USE WorkersAssumption DEF Inv, Typed, Calls
<1>1. Typed'
  BY SlotType, TaskType
<1> USE DEF WorkerFacts, SlotFacts, TaskFacts
<1>2. QueuesRight'
  BY DEF QueuesRight, Pending, Served, PoolFor
<1>3. ThreadsRight'
  BY DEF ThreadsRight, Busy, Pending
<1>4. Somewhere'
  BY DEF Somewhere, Busy, PoolFor
<1>5. OutcomesTrue'
  BY DEF OutcomesTrue, Flagged
<1>6. AnswersKept'
  BY DEF AnswersKept, Served
<1>7. AnswersTrue'
  BY DEF AnswersTrue, AnswersKept, Served, PoolFor
<1>8. WakerLeft'
  BY DEF WakerLeft
<1>9. WakersRight'
  BY DEF WakersRight
<1>10. NoLostWakeup'
  BY DEF NoLostWakeup, WakerLeft
<1> QED BY <1>1, <1>2, <1>3, <1>4, <1>5, <1>6, <1>7, <1>8, <1>9, <1>10

\* A poll takes the answer, or leaves its waker where fill will find it.
LEMMA PollStep ==
  ASSUME Inv, NEW c \in Calls, NEW w \in Wakers, Poll(c, w)
  PROVE  Inv'
<1>1. CASE slot[c].value # "none"
  BY <1>1, TakeAnswerStep DEF Poll
<1>2. CASE slot[c].value = "none"
  BY <1>2, LeaveWakerStep DEF Poll, LastWaker
<1> QED BY <1>1, <1>2

\* A dropped future's job stays where it is.
LEMMA DropPendingStep ==
  ASSUME Inv, NEW c \in Calls, DropPending(c)
  PROVE  Inv'
<1> USE WorkersAssumption DEF Inv, Typed, Calls, DropPending, DropCancels
<1>1. Typed'
  BY DEF Typed
<1> USE DEF WorkerFacts, SlotFacts, TaskFacts
<1>2. QueuesRight'
  BY DEF QueuesRight, Pending, Served, PoolFor
<1>3. ThreadsRight'
  BY DEF ThreadsRight, Busy, Pending
<1>4. Somewhere'
  BY DEF Somewhere, Busy, PoolFor
<1>5. OutcomesTrue'
  BY DEF OutcomesTrue, Flagged
<1>6. AnswersKept'
  BY DEF AnswersKept, Served
<1>7. AnswersTrue'
  BY DEF AnswersTrue, AnswersKept, Served, PoolFor
<1>8. WakerLeft'
  BY DEF WakerLeft
<1>9. WakersRight'
  BY DEF WakersRight
<1>10. NoLostWakeup'
  BY DEF NoLostWakeup, WakerLeft
<1> QED BY <1>1, <1>2, <1>3, <1>4, <1>5, <1>6, <1>7, <1>8, <1>9, <1>10

\* A task due is one that needs no waker.
LEMMA RepollStep ==
  ASSUME Inv, NEW c \in Calls, Repoll(c)
  PROVE  Inv'
<1> USE WorkersAssumption DEF Inv, Typed, Calls, Repoll
<1>1. Typed'
  <2>1. task' \in [AsyncCalls -> TaskFacts]
    BY TaskType
  <2> QED BY <2>1
<1> USE DEF WorkerFacts, SlotFacts, TaskFacts
<1>2. QueuesRight'
  BY DEF QueuesRight, Pending, Served, PoolFor
<1>3. ThreadsRight'
  BY DEF ThreadsRight, Busy, Pending
<1>4. Somewhere'
  BY DEF Somewhere, Busy, PoolFor
<1>5. OutcomesTrue'
  BY DEF OutcomesTrue, Flagged
<1>6. AnswersKept'
  BY DEF AnswersKept, Served
<1>7. AnswersTrue'
  BY DEF AnswersTrue, AnswersKept, Served, PoolFor
<1>8. WakerLeft'
  BY DEF WakerLeft
<1>9. WakersRight'
  BY DEF WakersRight
<1>10. NoLostWakeup'
  BY DEF NoLostWakeup, WakerLeft
<1> QED BY <1>1, <1>2, <1>3, <1>4, <1>5, <1>6, <1>7, <1>8, <1>9, <1>10

-----------------------------------------------------------------------------
(* A thread's steps *)

\* A job taken goes from its queue to one thread.
LEMMA TakeStep ==
  ASSUME Inv, NEW t \in Threads, Take(t)
  PROVE  Inv'
<1> USE WorkersAssumption DEF Inv, Typed, Calls, Take, MayTake
<1>0. /\ PoolOf(t) \in Pools /\ Head(queue[PoolOf(t)]) \in Calls
      /\ Pending(Head(queue[PoolOf(t)]))
      /\ queue' \in [Pools -> Seq(Calls)]
      /\ \A p \in Pools : /\ Head(queue[PoolOf(t)]) \notin Range(queue'[p])
                          /\ IsInjective(queue'[p])
                          /\ p # PoolOf(t) => queue'[p] = queue[p]
                          /\ queue'[p] # <<>> => queue[p] # <<>>
                          /\ Range(queue'[p]) = Range(queue[p]) \ {Head(queue[PoolOf(t)])}
      /\ \A u \in Threads : Busy(u) => worker[u].job # Head(queue[PoolOf(t)])
  <2>1. PoolOf(t) \in Pools
    BY DEF PoolOf, Pools
  <2>2. /\ IsInjective(queue[PoolOf(t)]) /\ queue[PoolOf(t)] \in Seq(Calls)
        /\ queue[PoolOf(t)] # <<>>
    BY <2>1 DEF QueuesRight
  <2>3. /\ Head(queue[PoolOf(t)]) \in Range(queue[PoolOf(t)])
        /\ Head(queue[PoolOf(t)]) \in Calls
        /\ Tail(queue[PoolOf(t)]) \in Seq(Calls)
        /\ Range(Tail(queue[PoolOf(t)])) = Range(queue[PoolOf(t)]) \ {Head(queue[PoolOf(t)])}
        /\ IsInjective(Tail(queue[PoolOf(t)]))
    BY <2>2, ItemTaken
  <2>4. /\ Pending(Head(queue[PoolOf(t)])) /\ PoolFor(Head(queue[PoolOf(t)])) = PoolOf(t)
        /\ \A p \in Pools : p # PoolOf(t) => Head(queue[PoolOf(t)]) \notin Range(queue[p])
    BY <2>1, <2>3 DEF QueuesRight
  <2>5. \A u \in Threads : Busy(u) => worker[u].job # Head(queue[PoolOf(t)])
    BY <2>1, <2>3 DEF ThreadsRight
  <2> QED BY <2>1, <2>2, <2>3, <2>4, <2>5 DEF QueuesRight
<1>w. /\ worker'[t].job = Head(queue[PoolOf(t)]) /\ worker'[t].pc \in {"run", "fill"}
      /\ \A u \in Threads : u # t => worker'[u] = worker[u]
      /\ worker[t].pc = "idle"
  BY DEF Begin, WorkerFacts
<1>s. \A p \in Pools : Served(p)' = Served(p)
  <2>1. \A u \in Threads : worker'[u].pc # "ended" <=> worker[u].pc # "ended"
    BY <1>w
  <2> QED BY <2>1 DEF Served
<1>1. Typed'
  <2>1. CASE Flagged(Head(queue[PoolOf(t)]))
    <3>1. "cancelled" \in Answers /\ "fill" \in {"idle", "run", "fill", "wake", "ended"}
      BY DEF Answers
    <3>2. /\ ran' = ran /\ LET c == Head(queue[PoolOf(t)]) IN
            worker' = [worker EXCEPT ![t].job = c, ![t].pc = "fill", ![t].out = "cancelled"]
      BY <2>1 DEF Begin
    <3>3. \A c \in Calls, out \in Answers :
            [worker EXCEPT ![t].job = c, ![t].pc = "fill", ![t].out = out]
              \in [Threads -> WorkerFacts]
      BY <3>1, WorkerType
    <3>4. worker' \in [Threads -> WorkerFacts]
      BY <1>0, <3>1, <3>2, <3>3
    <3> QED BY <1>0, <3>2, <3>4
  <2>2. CASE ~Flagged(Head(queue[PoolOf(t)]))
    <3>1. \A c \in Calls :
            [worker EXCEPT ![t].job = c, ![t].pc = "run"] \in [Threads -> WorkerFacts]
      BY WorkerType
    <3>2. LET c == Head(queue[PoolOf(t)]) IN
            worker' = [worker EXCEPT ![t].job = c, ![t].pc = "run"] /\ ran' = ran \cup {c}
      BY <2>2 DEF Begin
    <3>3. worker' \in [Threads -> WorkerFacts]
      BY <1>0, <3>1, <3>2
    <3> QED BY <1>0, <3>2, <3>3
  <2> QED BY <2>1, <2>2
<1> USE DEF WorkerFacts, SlotFacts, TaskFacts
<1>2. QueuesRight'
  <2>1. ASSUME NEW p \in Pools
        PROVE  queue'[p] # <<>> => Served(p)'
    BY <1>0, <1>s DEF QueuesRight
  <2>2. ASSUME NEW p \in Pools
        PROVE  /\ IsInjective(queue'[p])
               /\ \A d \in Range(queue'[p]) : PoolFor(d) = p /\ Pending(d)'
    BY <1>0 DEF QueuesRight, Pending
  <2> QED BY <2>1, <2>2 DEF QueuesRight
<1>3. ThreadsRight'
  BY <1>0 DEF ThreadsRight, Busy, Pending, Begin
<1>4. Somewhere'
  <2> SUFFICES ASSUME NEW d \in Calls, call[d] = "waiting"
               PROVE  \/ d \in Range(queue'[PoolFor(d)])
                      \/ \E u \in Threads : Busy(u)' /\ worker'[u].job = d
                      \/ d \in AsyncCalls /\ slot[d].value # "none"
    BY DEF Somewhere
  <2>1. CASE d = Head(queue[PoolOf(t)])
    BY <2>1, <1>w DEF Busy
  <2>2. CASE d # Head(queue[PoolOf(t)]) /\ d \in Range(queue[PoolFor(d)])
    BY <1>0, <2>2 DEF PoolFor, Pools
  <2>3. ASSUME NEW u \in Threads, Busy(u), worker[u].job = d PROVE Busy(u)' /\ worker'[u].job = d
    BY <1>w, <2>3 DEF Busy
  <2> QED BY <2>1, <2>2, <2>3 DEF Somewhere
<1>5. OutcomesTrue'
  <2>1. CASE Flagged(Head(queue[PoolOf(t)]))
    BY <1>0, <2>1 DEF OutcomesTrue, Flagged, Begin
  <2>2. CASE ~Flagged(Head(queue[PoolOf(t)]))
    BY <1>0, <2>2 DEF OutcomesTrue, Flagged, Begin
  <2> QED BY <2>1, <2>2
<1>6. AnswersKept'
  BY <1>0, <1>s DEF AnswersKept, Begin, Pending, Pools
<1>7. AnswersTrue'
  BY <1>0, <1>s DEF AnswersTrue, AnswersKept, Begin, PoolFor, Pools, Pending
<1>8. WakerLeft'
  BY DEF WakerLeft
<1>9. WakersRight'
  BY <1>w DEF WakersRight
<1>10. NoLostWakeup'
  <2>1. \A u \in Threads : worker[u].pc = "wake" => worker'[u] = worker[u]
    BY <1>w
  <2> QED BY <2>1 DEF NoLostWakeup
<1> QED BY <1>1, <1>2, <1>3, <1>4, <1>5, <1>6, <1>7, <1>8, <1>9, <1>10

\* A thread ends only with nothing queued, so none is left behind.
LEMMA ThreadEndsStep ==
  ASSUME Inv, NEW t \in Threads, ThreadEnds(t)
  PROVE  Inv'
<1> USE WorkersAssumption DEF Inv, Typed, Calls, ThreadEnds, MayTake
<1>1. Typed'
  <2>1. worker' \in [Threads -> WorkerFacts]
    BY WorkerType
  <2> QED BY <2>1
<1> USE DEF WorkerFacts, SlotFacts, TaskFacts
<1>2. QueuesRight'
  BY DEF QueuesRight, Pending, Served, PoolFor
<1>3. ThreadsRight'
  BY DEF ThreadsRight, Busy, Pending
<1>4. Somewhere'
  BY DEF Somewhere, Busy, PoolFor
<1>5. OutcomesTrue'
  BY DEF OutcomesTrue, Flagged
<1>6. AnswersKept'
  BY DEF AnswersKept, Served
<1>7. AnswersTrue'
  BY DEF AnswersTrue, AnswersKept, Served, PoolFor
<1>8. WakerLeft'
  BY DEF WakerLeft
<1>9. WakersRight'
  BY DEF WakersRight
<1>10. NoLostWakeup'
  BY DEF NoLostWakeup, WakerLeft
<1> QED BY <1>1, <1>2, <1>3, <1>4, <1>5, <1>6, <1>7, <1>8, <1>9, <1>10

\* Work cancelled is answered so.
LEMMA CheckpointStep ==
  ASSUME Inv, NEW t \in Threads, Checkpoint(t)
  PROVE  Inv'
<1> USE WorkersAssumption DEF Inv, Typed, Calls, Checkpoint, Outcome, Running
<1>1. Typed'
  <2>1. worker' \in [Threads -> WorkerFacts]
    BY WorkerType DEF Answers
  <2> QED BY <2>1
<1> USE DEF WorkerFacts, SlotFacts, TaskFacts
<1>2. QueuesRight'
  BY DEF QueuesRight, Pending, Served, PoolFor
<1>3. ThreadsRight'
  BY DEF ThreadsRight, Busy, Pending
<1>4. Somewhere'
  <2>1. \A u \in Threads : Busy(u) => Busy(u)' /\ worker'[u].job = worker[u].job
    BY DEF Busy
  <2> QED BY <2>1 DEF Somewhere
<1>5. OutcomesTrue'
  BY DEF OutcomesTrue, Flagged
<1>6. AnswersKept'
  BY DEF AnswersKept, Served
<1>7. AnswersTrue'
  BY DEF AnswersTrue, AnswersKept, Served, PoolFor
<1>8. WakerLeft'
  BY DEF WakerLeft
<1>9. WakersRight'
  BY DEF WakersRight
<1>10. NoLostWakeup'
  BY DEF NoLostWakeup, WakerLeft
<1> QED BY <1>1, <1>2, <1>3, <1>4, <1>5, <1>6, <1>7, <1>8, <1>9, <1>10

\* Work ended is answered so.
LEMMA FinishStep ==
  ASSUME Inv, NEW t \in Threads, Finish(t)
  PROVE  Inv'
<1> USE WorkersAssumption DEF Inv, Typed, Calls, Finish, Outcome, Running
<1>1. Typed'
  <2>1. worker' \in [Threads -> WorkerFacts]
    <3>1. PICK out \in {"value", "panic"} :
            worker' = [worker EXCEPT ![t].pc = "fill", ![t].out = out]
      OBVIOUS
    <3>2. out \in Answers
      BY DEF Answers
    <3> QED BY <3>1, <3>2, WorkerType
  <2> QED BY <2>1
<1> USE DEF WorkerFacts, SlotFacts, TaskFacts
<1>2. QueuesRight'
  BY DEF QueuesRight, Pending, Served, PoolFor
<1>3. ThreadsRight'
  BY DEF ThreadsRight, Busy, Pending
<1>4. Somewhere'
  <2>1. \A u \in Threads : Busy(u) => Busy(u)' /\ worker'[u].job = worker[u].job
    BY DEF Busy
  <2> QED BY <2>1 DEF Somewhere, PoolFor
<1>5. OutcomesTrue'
  BY DEF OutcomesTrue, Flagged
<1>6. AnswersKept'
  BY DEF AnswersKept, Served
<1>7. AnswersTrue'
  BY DEF AnswersTrue, AnswersKept, Served, PoolFor
<1>8. WakerLeft'
  BY DEF WakerLeft
<1>9. WakersRight'
  BY DEF WakersRight
<1>10. NoLostWakeup'
  BY DEF NoLostWakeup, WakerLeft
<1> QED BY <1>1, <1>2, <1>3, <1>4, <1>5, <1>6, <1>7, <1>8, <1>9, <1>10

\* A sync call's answer is given, and its thread has no job.
LEMMA SendAnswerStep ==
  ASSUME Inv, NEW t \in Threads, SendAnswer(t)
  PROVE  Inv'
<1> USE WorkersAssumption DEF Inv, Typed, Calls, SendAnswer, Answer, Start
<1>1. Typed'
  <2>1. worker' \in [Threads -> WorkerFacts]
    BY ThreadFreed DEF Start
  <2>2. worker[t].out \in Answers \cup {"none"}
    BY DEF WorkerFacts
  <2> QED BY <2>1, <2>2
<1> USE DEF WorkerFacts, SlotFacts, TaskFacts
<1>s. \A p \in Pools : Served(p)' = Served(p)
  BY DEF Served
<1>o. worker[t].out \in {"value", "panic"} /\ worker[t].job \in ran
  BY DEF OutcomesTrue, Flagged
<1>2. QueuesRight'
  <2>1. \A p \in Pools : worker[t].job \notin Range(queue[p])
    BY DEF ThreadsRight, Busy
  <2> QED BY <1>s, <2>1 DEF QueuesRight, Pending
<1>3. ThreadsRight'
  BY DEF ThreadsRight, Busy, Pending
<1>4. Somewhere'
  BY DEF Somewhere, Busy, PoolFor
<1>5. OutcomesTrue'
  BY DEF OutcomesTrue, Flagged
<1>6. AnswersKept'
  BY DEF AnswersKept, Served
<1>7. AnswersTrue'
  BY <1>s, <1>o DEF AnswersTrue, PoolFor, Pools
<1>8. WakerLeft'
  BY DEF WakerLeft
<1>9. WakersRight'
  BY DEF WakersRight
<1>10. NoLostWakeup'
  BY DEF NoLostWakeup, WakerLeft
<1> QED BY <1>1, <1>2, <1>3, <1>4, <1>5, <1>6, <1>7, <1>8, <1>9, <1>10

\* An async call's answer is in its slot, and the waker left there is to be called.
LEMMA FillStep ==
  ASSUME Inv, NEW t \in Threads, Fill(t)
  PROVE  Inv'
<1> USE WorkersAssumption DEF Inv, Typed, Calls
<1>0. /\ worker[t].job \in AsyncCalls /\ worker[t].pc = "fill"
      /\ slot'[worker[t].job] = [value |-> worker[t].out, waker |-> NoWaker]
      /\ \A c \in AsyncCalls : c # worker[t].job => slot'[c] = slot[c]
      /\ \/ slot[worker[t].job].waker = NoWaker /\ worker' = [worker EXCEPT ![t] = Start]
         \/ /\ slot[worker[t].job].waker \in Wakers
            /\ worker' = [worker EXCEPT ![t] = [@ EXCEPT !.pc = "wake",
                                                         !.waker = slot[worker[t].job].waker]]
      /\ slot' \in [AsyncCalls -> SlotFacts]
  <2>1. worker[t].out \in Answers \cup {"none"}
    BY DEF WorkerFacts
  <2>2. slot[worker[t].job] \in SlotFacts /\ slot' \in [AsyncCalls -> SlotFacts]
    BY <2>1, SlotType DEF Fill
  <2> QED BY <2>2 DEF Fill, TakeWaker, SlotFacts
<1>u. UNCHANGED <<engine, queue, call, got, flag, task, ran>>
  BY DEF Fill
<1>1. Typed'
  <2>1. ASSUME worker' = [worker EXCEPT ![t] = Start] PROVE worker' \in [Threads -> WorkerFacts]
    BY <2>1, ThreadFreed
  <2>2. ASSUME NEW w \in Wakers,
               worker' = [worker EXCEPT ![t] = [@ EXCEPT !.pc = "wake", !.waker = w]]
        PROVE  worker' \in [Threads -> WorkerFacts]
    BY <2>2, WorkerType
  <2> QED BY <1>0, <1>u, <2>1, <2>2
<1> USE DEF WorkerFacts, SlotFacts, TaskFacts
<1>w. /\ worker'[t].pc \in {"idle", "wake"}
      /\ worker'[t].pc = "wake" => /\ worker'[t].job = worker[t].job
                                   /\ worker'[t].waker = slot[worker[t].job].waker
      /\ slot[worker[t].job].waker \in Wakers => worker'[t].pc = "wake"
      /\ \A u \in Threads : u # t => worker'[u] = worker[u]
  <2>1. CASE worker' = [worker EXCEPT ![t] = Start] /\ slot[worker[t].job].waker = NoWaker
    BY <1>0, <2>1 DEF Start
  <2>2. CASE /\ slot[worker[t].job].waker \in Wakers
             /\ worker' = [worker EXCEPT ![t] = [@ EXCEPT !.pc = "wake",
                                                    !.waker = slot[worker[t].job].waker]]
    BY <1>0, <2>2
  <2> QED BY <1>0, <2>1, <2>2
<1>s. \A p \in Pools : Served(p)' = Served(p)
  <2>1. \A u \in Threads : worker'[u].pc # "ended" <=> worker[u].pc # "ended"
    BY <1>0, <1>w
  <2> QED BY <2>1 DEF Served
<1>p. Pending(worker[t].job) /\ slot[worker[t].job].value = "none"
  BY <1>0 DEF ThreadsRight, Busy, Pending
<1>o. \/ worker[t].out \in {"value", "panic"} /\ worker[t].job \in ran
      \/ worker[t].out = "cancelled" /\ flag[worker[t].job]
  BY <1>0 DEF OutcomesTrue, Flagged
<1>2. QueuesRight'
  <2>1. \A p \in Pools : worker[t].job \notin Range(queue[p])
    BY <1>0 DEF ThreadsRight, Busy
  <2>2. \A p \in Pools : \A c \in Range(queue[p]) : Pending(c)'
    <3>1. \A p \in Pools : \A c \in Range(queue[p]) : c # worker[t].job /\ Pending(c)
      BY <2>1 DEF QueuesRight
    <3> QED BY <1>0, <1>u, <3>1 DEF Pending
  <2> QED BY <1>u, <1>s, <2>2 DEF QueuesRight
<1>3. ThreadsRight'
  <2> SUFFICES ASSUME NEW u \in Threads, Busy(u)'
               PROVE  /\ worker'[u].job \in Calls /\ Pending(worker[u].job)'
                      /\ \A p \in Pools : worker'[u].job \notin Range(queue[p])
                      /\ \A v \in Threads : Busy(v)' /\ worker'[v].job = worker'[u].job => v = u
    BY <1>u DEF ThreadsRight
  <2>1. u # t /\ Busy(u) /\ worker'[u] = worker[u] /\ worker[u].job # worker[t].job
    BY <1>0, <1>w DEF ThreadsRight, Busy
  <2>2. \A v \in Threads : Busy(v)' => Busy(v) /\ worker'[v] = worker[v]
    BY <1>w DEF Busy
  <2>3. worker[u].job \in Calls /\ Pending(worker[u].job)
    BY <2>1 DEF ThreadsRight
  <2>4. Pending(worker[u].job)'
    BY <1>0, <1>u, <2>1, <2>3 DEF Pending
  <2> QED BY <2>1, <2>2, <2>3, <2>4 DEF ThreadsRight
<1>4. Somewhere'
  <2> SUFFICES ASSUME NEW c \in Calls, call[c] = "waiting"
               PROVE  \/ c \in Range(queue[PoolFor(c)])
                      \/ \E u \in Threads : Busy(u)' /\ worker'[u].job = c
                      \/ c \in AsyncCalls /\ slot'[c].value # "none"
    BY <1>u DEF Somewhere, PoolFor
  <2>1. CASE c = worker[t].job
    BY <1>0, <1>o, <2>1
  <2>2. CASE c # worker[t].job
    <3>1. \A u \in Threads : Busy(u) /\ worker[u].job = c => u # t /\ worker'[u] = worker[u]
      BY <1>w, <2>2
    <3>2. c \in AsyncCalls => slot'[c] = slot[c]
      BY <1>0, <2>2
    <3> QED BY <3>1, <3>2 DEF Somewhere, Busy
  <2> QED BY <2>1, <2>2
<1>5. OutcomesTrue'
  BY <1>u, <1>w DEF OutcomesTrue, Flagged
<1>6. AnswersKept'
  <2>1. \A c \in AsyncCalls :
          /\ slot'[c].value \in {"value", "panic"} => c \in ran
          /\ slot'[c].value = "cancelled" => flag[c]
          /\ slot'[c].value = "gone" => c \notin ran /\ ~Served("long")'
    <3> SUFFICES ASSUME NEW c \in AsyncCalls
                 PROVE  /\ slot'[c].value \in {"value", "panic"} => c \in ran
                        /\ slot'[c].value = "cancelled" => flag[c]
                        /\ slot'[c].value = "gone" => c \notin ran /\ ~Served("long")
      BY <1>s DEF Pools
    <3>1. CASE c = worker[t].job
      BY <1>0, <1>o, <3>1
    <3>2. CASE c # worker[t].job
      BY <1>0, <3>2 DEF AnswersKept
    <3> QED BY <3>1, <3>2
  <2>2. \A c \in Calls : call[c] = "new" => c # worker[t].job
    BY <1>p DEF Pending
  <2> QED BY <1>0, <1>u, <2>1, <2>2 DEF AnswersKept
<1>7. AnswersTrue'
  BY <1>u, <1>s DEF AnswersTrue, PoolFor, Pools
<1>8. WakerLeft'
  BY <1>0, <1>u, <1>o DEF WakerLeft
<1>9. WakersRight'
  <2>1. worker'[t].pc = "wake" => slot[worker[t].job].waker \in Wakers
    BY <1>0, <1>w DEF Start
  <2> QED BY <1>0, <1>w, <2>1 DEF WakersRight
<1>10. NoLostWakeup'
  <2> SUFFICES ASSUME NEW c \in AsyncCalls, call[c] = "waiting", slot'[c].value # "none",
                      ~task[c].due
               PROVE  \E u \in Threads : /\ worker'[u].pc = "wake" /\ worker'[u].job = c
                                         /\ worker'[u].waker = task[c].waker
    BY <1>u DEF NoLostWakeup
  <2>1. CASE c = worker[t].job
    BY <1>w, <1>p, <2>1 DEF WakerLeft
  <2>2. CASE c # worker[t].job
    <3>1. PICK u \in Threads : /\ worker[u].pc = "wake" /\ worker[u].job = c
                               /\ worker[u].waker = task[c].waker
      BY <1>0, <2>2 DEF NoLostWakeup
    <3>2. u # t
      BY <1>0, <3>1
    <3> QED BY <1>w, <3>1, <3>2
  <2> QED BY <2>1, <2>2
<1> QED BY <1>1, <1>2, <1>3, <1>4, <1>5, <1>6, <1>7, <1>8, <1>9, <1>10

\* The waker called is the one the task waits on, or the task waits on it no more.
LEMMA WakeStep ==
  ASSUME Inv, NEW t \in Threads, Wake(t)
  PROVE  Inv'
<1> USE WorkersAssumption DEF Inv, Typed, Calls, Wake
<1>0. /\ worker[t].pc = "wake" /\ worker[t].job \in AsyncCalls
      /\ worker' = [worker EXCEPT ![t] = Start]
      /\ UNCHANGED <<engine, queue, call, got, flag, slot, ran>>
  BY DEF WakersRight
<1>1. Typed'
  <2>1. worker' \in [Threads -> WorkerFacts]
    BY <1>0, ThreadFreed
  <2>2. task' \in [AsyncCalls -> TaskFacts]
    BY <1>0, TaskType
  <2> QED BY <2>1, <2>2
<1> USE DEF WorkerFacts, SlotFacts, TaskFacts
<1>w. worker'[t].pc = "idle" /\ \A u \in Threads : u # t => worker'[u] = worker[u]
  BY <1>0 DEF Start
<1>s. \A p \in Pools : Served(p)' = Served(p)
  <2>1. \A u \in Threads : worker'[u].pc # "ended" <=> worker[u].pc # "ended"
    BY <1>0, <1>w
  <2> QED BY <2>1 DEF Served
<1>b. \A u \in Threads : /\ Busy(u)' <=> Busy(u)
                         /\ Busy(u) => worker'[u] = worker[u]
  BY <1>0, <1>w DEF Busy
<1>d. \A c \in AsyncCalls : task'[c].waker = task[c].waker /\ (task[c].due => task'[c].due)
  BY <1>0
<1>2. QueuesRight'
  BY <1>0, <1>s DEF QueuesRight, Pending
<1>3. ThreadsRight'
  BY <1>0, <1>b DEF ThreadsRight, Pending
<1>4. Somewhere'
  BY <1>0, <1>b DEF Somewhere, PoolFor
<1>5. OutcomesTrue'
  BY <1>0, <1>w DEF OutcomesTrue, Flagged
<1>6. AnswersKept'
  BY <1>0, <1>s DEF AnswersKept, Pools
<1>7. AnswersTrue'
  BY <1>0, <1>s DEF AnswersTrue, PoolFor, Pools
<1>8. WakerLeft'
  BY <1>0, <1>d DEF WakerLeft
<1>9. WakersRight'
  BY <1>0, <1>w DEF WakersRight
<1>10. NoLostWakeup'
  <2> SUFFICES ASSUME NEW c \in AsyncCalls, call[c] = "waiting", slot[c].value # "none",
                      ~task'[c].due
               PROVE  \E u \in Threads : /\ worker'[u].pc = "wake" /\ worker'[u].job = c
                                         /\ worker'[u].waker = task'[c].waker
    BY <1>0 DEF NoLostWakeup
  <2>1. PICK u \in Threads : /\ worker[u].pc = "wake" /\ worker[u].job = c
                             /\ worker[u].waker = task[c].waker
    BY <1>d DEF NoLostWakeup
  <2>2. u # t
    BY <1>0, <2>1
  <2> QED BY <1>w, <1>d, <2>1, <2>2
<1> QED BY <1>1, <1>2, <1>3, <1>4, <1>5, <1>6, <1>7, <1>8, <1>9, <1>10

\* The engine's end leaves the calls as they are.
LEMMA DropEngineStep ==
  ASSUME Inv, DropEngine
  PROVE  Inv'
<1> USE DEF DropEngine, Inv
<1>1. Typed'
  BY DEF Typed
<1>2. QueuesRight' /\ ThreadsRight' /\ Somewhere'
  BY DEF QueuesRight, ThreadsRight, Somewhere, Busy, Pending, Served
<1>3. OutcomesTrue' /\ AnswersKept' /\ AnswersTrue'
  BY DEF OutcomesTrue, AnswersKept, AnswersTrue, Flagged, Served
<1>4. WakerLeft' /\ WakersRight' /\ NoLostWakeup'
  BY DEF WakerLeft, WakersRight, NoLostWakeup
<1> QED BY <1>1, <1>2, <1>3, <1>4

\* Nothing moves.
LEMMA Idles ==
  ASSUME Inv, UNCHANGED workersVars
  PROVE  Inv'
<1> USE DEF workersVars, Inv
<1>1. Typed'
  BY DEF Typed
<1>2. QueuesRight' /\ ThreadsRight' /\ Somewhere'
  BY DEF QueuesRight, ThreadsRight, Somewhere, Busy, Pending, Served
<1>3. OutcomesTrue' /\ AnswersKept' /\ AnswersTrue'
  BY DEF OutcomesTrue, AnswersKept, AnswersTrue, Flagged, Served
<1>4. WakerLeft' /\ WakersRight' /\ NoLostWakeup'
  BY DEF WakerLeft, WakersRight, NoLostWakeup
<1> QED BY <1>1, <1>2, <1>3, <1>4

-----------------------------------------------------------------------------
(* The theorems *)

\* The invariant holds at first, whichever threads are refused.
LEMMA InvInit == WorkersInit => Inv
<1> SUFFICES ASSUME WorkersInit PROVE Inv
  OBVIOUS
<1> USE WorkersAssumption DEF WorkersInit
<1>1. Start \in WorkerFacts /\ Refused \in WorkerFacts
  BY DEF Start, Refused, WorkerFacts
<1>2. worker \in [Threads -> WorkerFacts]
  BY <1>1
<1>3. Typed
  <2>1. <<>> \in Seq(Calls)
    BY EmptySeq
  <2> QED BY <1>2, <2>1 DEF Typed, SlotFacts, TaskFacts
<1>4. \A t \in Threads : worker[t].pc \in {"idle", "ended"}
  BY DEF Start, Refused
<1>5. \A p \in Pools : queue[p] = <<>> /\ DOMAIN queue[p] = {}
  BY EmptySeq, LenProperties
<1>6. QueuesRight
  BY <1>5 DEF QueuesRight, IsInjective, Range
<1>7. ThreadsRight /\ OutcomesTrue /\ WakersRight
  BY <1>4 DEF ThreadsRight, OutcomesTrue, WakersRight, Busy
<1>8. Somewhere /\ AnswersKept /\ AnswersTrue
  BY DEF Somewhere, AnswersKept, AnswersTrue, Calls
<1>9. WakerLeft /\ NoLostWakeup
  BY DEF WakerLeft, NoLostWakeup, Calls
<1> QED BY <1>3, <1>6, <1>7, <1>8, <1>9 DEF Inv

\* Every step keeps it.
LEMMA InvNext == Inv /\ [WorkersNext]_workersVars => Inv'
<1> SUFFICES ASSUME Inv, [WorkersNext]_workersVars PROVE Inv'
  OBVIOUS
<1>1. ASSUME NEW c \in Calls, Host(c) PROVE Inv'
  BY <1>1, RunInlineStep, RunOnStep, SpawnStep, CancelStep, DropPendingStep, RepollStep DEF Host
<1>2. ASSUME NEW c \in Calls, NEW w \in Wakers, Poll(c, w) PROVE Inv'
  BY <1>2, PollStep
<1>3. ASSUME NEW t \in Threads, ThreadStep(t) \/ Finish(t) PROVE Inv'
  BY <1>3, TakeStep, ThreadEndsStep, CheckpointStep, FinishStep, SendAnswerStep, FillStep, WakeStep
     DEF ThreadStep
<1>4. CASE DropEngine
  BY <1>4, DropEngineStep
<1>5. CASE UNCHANGED workersVars
  BY <1>5, Idles
<1> QED BY <1>1, <1>2, <1>3, <1>4, <1>5 DEF WorkersNext

\* A call waiting is counted once: the places the invariant keeps apart have it together once.
LEMMA CountedOnce == Inv => OneJobEach
<1> SUFFICES ASSUME Inv, NEW c \in Calls, call[c] = "waiting"
             PROVE  LET queued == Cardinality({i \in DOMAIN queue[PoolFor(c)] :
                                                 queue[PoolFor(c)][i] = c})
                        taken  == Cardinality({t \in Threads : worker[t].pc \in {"run", "fill"}
                                                               /\ worker[t].job = c})
                        filled == IF c \in AsyncCalls /\ slot[c].value # "none" THEN 1 ELSE 0
                    IN queued + taken + filled = 1 /\ (queued = 1 => Served(PoolFor(c)))
  BY DEF OneJobEach
<1> DEFINE q == queue[PoolFor(c)]
           Q == {i \in DOMAIN q : q[i] = c}
           T == {t \in Threads : worker[t].pc \in {"run", "fill"} /\ worker[t].job = c}
<1>0. PoolFor(c) \in Pools
  BY DEF PoolFor, Pools
<1>1. c \notin Range(q) => Q = {}
  BY DEF Range
<1>2. c \in Range(q) => /\ \E i : Q = {i}
                        /\ Served(PoolFor(c)) /\ T = {} /\ Pending(c)
  <2> SUFFICES ASSUME c \in Range(q)
               PROVE  (\E i : Q = {i}) /\ Served(PoolFor(c)) /\ T = {} /\ Pending(c)
    OBVIOUS
  <2>1. PICK i \in DOMAIN q : q[i] = c
    BY DEF Range
  <2>2. Q = {i}
    BY <1>0, <2>1 DEF Inv, QueuesRight, IsInjective
  <2>3. q # <<>>
    <3>1. DOMAIN q = 1 .. Len(q) /\ Len(q) \in Nat
      BY <1>0, LenProperties DEF Inv, Typed
    <3> QED BY <2>1, <3>1, EmptySeq
  <2>4. T = {}
    BY <1>0 DEF Inv, ThreadsRight, Busy
  <2>5. Served(PoolFor(c)) /\ Pending(c)
    BY <1>0, <2>3 DEF Inv, QueuesRight
  <2> QED BY <2>2, <2>4, <2>5
<1>3. T = {} \/ ((\E t : T = {t}) /\ c \notin Range(q) /\ Pending(c))
  <2> SUFFICES ASSUME NEW t \in T PROVE T = {t} /\ c \notin Range(q) /\ Pending(c)
    OBVIOUS
  <2> QED BY <1>0 DEF Inv, ThreadsRight, Busy
<1>4. c \in Range(q) \/ T # {} \/ (c \in AsyncCalls /\ slot[c].value # "none")
  BY DEF Inv, Somewhere, Busy
<1>5. Cardinality({}) = 0 /\ \A x : Cardinality({x}) = 1
  BY FS_EmptySet, FS_Singleton
<1>6. CASE c \in Range(q)
  <2>1. Cardinality(Q) = 1 /\ Cardinality(T) = 0
    BY <1>2, <1>5, <1>6
  <2> QED BY <1>2, <1>6, <2>1 DEF Pending
<1>7. CASE c \notin Range(q) /\ T # {}
  <2>1. Cardinality(Q) = 0 /\ Cardinality(T) = 1
    BY <1>1, <1>3, <1>5, <1>7
  <2> QED BY <1>3, <1>7, <2>1 DEF Pending
<1>8. CASE c \notin Range(q) /\ T = {}
  <2>1. Cardinality(Q) = 0 /\ Cardinality(T) = 0
    BY <1>1, <1>5, <1>8
  <2> QED BY <1>4, <1>8, <2>1
<1> QED BY <1>6, <1>7, <1>8

\* The invariant holds of every behaviour of the hosts, the pools' threads and the executors.
THEOREM WorkersInvariant == WorkersSpec => []Inv
BY InvInit, InvNext, PTL DEF WorkersSpec

\* An answer that is in its slot is polled for: however a poll, a fill and a wake interleave,
\* and whichever wakers the executor polls with, no future is left asleep on an answer.
THEOREM WakeupsReach == WorkersSpec => []NoLostWakeup
<1>1. Inv => NoLostWakeup
  BY DEF Inv
<1> QED BY <1>1, WorkersInvariant, PTL

\* Every waiting call has one job or one answer, no job is queued with no thread left to run
\* it, and a call is answered what became of its work.
THEOREM AnsweredTruly == WorkersSpec => []AnsweredOnce
<1>1. Inv => WorkersTypeOK
  <2> SUFFICES ASSUME Inv PROVE WorkersTypeOK
    OBVIOUS
  <2>1. \A t \in Threads : worker[t] \in WorkerFacts
    BY DEF Inv, Typed
  <2>2. \A t \in Threads :
          /\ worker[t].pc \in {"idle", "run", "fill", "wake", "ended"}
          /\ worker[t].pc \in {"run", "fill", "wake"} => worker[t].job \in Calls
          /\ worker[t].pc = "wake" => worker[t].waker \in Wakers
    BY <2>1 DEF Inv, ThreadsRight, WakersRight, Busy, WorkerFacts, Calls
  <2> QED BY <2>2 DEF Inv, Typed, WorkersTypeOK, SlotFacts, TaskFacts
<1>2. Inv => AnswersTrue
  BY DEF Inv
<1>3. Inv => AnsweredOnce
  BY <1>1, <1>2, CountedOnce DEF AnsweredOnce
<1> QED BY <1>3, WorkersInvariant, PTL

\* An answer is the call's last: no step gives another, nor begins the call's work after it.
AnswerIsFinal ==
  \A c \in Calls : call[c] = "answered" =>
    call'[c] = "answered" /\ got'[c] = got[c] /\ (c \in ran' => c \in ran)

\* A call answered stays as it was answered: no thread has its job still, whatever was refused,
\* cancelled or polled meanwhile.
THEOREM AnsweredForGood == WorkersSpec => [][AnswerIsFinal]_workersVars
<1>1. Inv /\ [WorkersNext]_workersVars => AnswerIsFinal
  <2> SUFFICES ASSUME Inv, [WorkersNext]_workersVars PROVE AnswerIsFinal
    OBVIOUS
  <2> USE DEF Inv, Typed, AnswerIsFinal
  <2>1. ASSUME NEW c \in Calls, Host(c) PROVE AnswerIsFinal
    BY <2>1 DEF Host, RunInline, RunOn, Spawn, Cancel, DropPending, Repoll, New, Answer
  <2>2. ASSUME NEW c \in Calls, NEW w \in Wakers, Poll(c, w) PROVE AnswerIsFinal
    BY <2>2 DEF Poll, Answer
  <2>3. ASSUME NEW t \in Threads, Take(t) PROVE AnswerIsFinal
    <3>1. PoolOf(t) \in Pools /\ queue[PoolOf(t)] # <<>>
      BY <2>3 DEF Take, PoolOf, Pools
    <3>2. Head(queue[PoolOf(t)]) \in Range(queue[PoolOf(t)])
      BY <3>1, ItemTaken
    <3>3. call[Head(queue[PoolOf(t)])] # "answered"
      BY <3>1, <3>2 DEF QueuesRight, Pending
    <3> QED BY <2>3, <3>3 DEF Take, Begin
  <2>4. ASSUME NEW t \in Threads, SendAnswer(t) PROVE AnswerIsFinal
    <3>1. worker[t].job \in Calls /\ call[worker[t].job] # "answered"
      BY <2>4 DEF SendAnswer, ThreadsRight, Busy, Pending
    <3> QED BY <2>4, <3>1 DEF SendAnswer, Answer
  <2>5. ASSUME NEW t \in Threads,
               ThreadEnds(t) \/ Checkpoint(t) \/ Fill(t) \/ Wake(t) \/ Finish(t)
        PROVE  AnswerIsFinal
    BY <2>5 DEF ThreadEnds, Checkpoint, Fill, Wake, Finish
  <2>6. CASE DropEngine \/ UNCHANGED workersVars
    BY <2>6 DEF DropEngine, workersVars
  <2> QED BY <2>1, <2>2, <2>3, <2>4, <2>5, <2>6 DEF WorkersNext, ThreadStep
<1> QED BY <1>1, WorkersInvariant, PTL DEF WorkersSpec
=============================================================================
