------------------------------- MODULE Workers -------------------------------
(***************************************************************************)
(* The engine's threads (native/ffi: worker.rs, cancel.rs; core: work.rs). *)
(* A sync call sends its job to a pool of one thread and blocks for the    *)
(* answer; an async call sends it to the pool for long work and gets a     *)
(* future over a slot of one answer and one waker.  Host threads, the      *)
(* pool's threads, the executor that polls the futures and whoever cancels *)
(* or drops one interleave: a step is one critical section of a lock (the  *)
(* queue's, a slot's) or one access to a cancel flag.                      *)
(***************************************************************************)
EXTENDS Integers, Sequences, FiniteSets

CONSTANTS
  LiveThreads, LongThreads,  \* the threads of the two pools
  SyncCalls, AsyncCalls,     \* the calls a host makes, each with a token of its own
  Endless,                   \* the async calls whose work may never end by itself
  MaxCalls,                  \* bound: the calls made
  Wakers,                    \* the wakers an executor polls a future with
  NoCall, NoWaker

ASSUME WorkersAssumption ==
  /\ SyncCalls \cap AsyncCalls = {} /\ Endless \subseteq AsyncCalls
  /\ LiveThreads \cap LongThreads = {}
  /\ MaxCalls \in Nat /\ NoCall \notin SyncCalls \cup AsyncCalls /\ NoWaker \notin Wakers

VARIABLES
  engine,    \* whether the engine is there, and with it the queues' senders
  queue,     \* the jobs in each pool's channel
  worker,    \* each pool thread: where it is, its job, that job's answer, a waker it took
  call,      \* each call: "new", "waiting", "answered", "dropped"
  got,       \* what the call was answered
  flag,      \* each token's flag
  slot,      \* each async call's Slot
  task,      \* each future's task: whether it is to be polled, and the waker it waits on
  ran        \* the calls whose work was begun (no variable of the source)

workersVars == <<engine, queue, worker, call, got, flag, slot, task, ran>>

-----------------------------------------------------------------------------
(* Values *)

Calls == SyncCalls \cup AsyncCalls
Threads == LiveThreads \cup LongThreads
Pools == {"live", "long"}
PoolOf(t) == IF t \in LiveThreads THEN "live" ELSE "long"
PoolFor(c) == IF c \in SyncCalls THEN "live" ELSE "long"

\* "value": what the job's closure returned; "gone": no thread to run it
Answers == {"value", "panic", "cancelled", "gone"}

Start == [pc |-> "idle", job |-> NoCall, out |-> "none", waker |-> NoWaker]
Refused == [Start EXCEPT !.pc = "ended"]
Running(t) == worker[t].pc = "run"

\* the Receiver is there while a thread has it: Sender::send succeeds
Served(p) == \E t \in Threads : PoolOf(t) = p /\ worker[t].pc # "ended"

Outcome(t, out) == [worker EXCEPT ![t].pc = "fill", ![t].out = out]

-----------------------------------------------------------------------------
(* The host's calls *)

New(c) ==
  /\ engine /\ call[c] = "new"
  /\ Cardinality({d \in Calls : call[d] # "new"}) < MaxCalls

Answer(c, a) ==
  /\ call' = [call EXCEPT ![c] = "answered"]
  /\ got' = [got EXCEPT ![c] = a]

\* run_on on a thread of run_engine_calls_here
RunInline(c) ==
  /\ c \in SyncCalls /\ New(c)
  /\ \E a \in {"value", "panic"} : Answer(c, a)
  /\ ran' = ran \cup {c}
  /\ UNCHANGED <<engine, queue, worker, flag, slot, task>>

\* run_on: the job is sent, and the host blocks for its answer
RunOn(c) ==
  /\ c \in SyncCalls /\ New(c)
  /\ IF Served("live")
       THEN /\ queue' = [queue EXCEPT !["live"] = Append(@, c)]
            /\ call' = [call EXCEPT ![c] = "waiting"]
            /\ UNCHANGED got
       ELSE Answer(c, "gone") /\ UNCHANGED queue
  /\ UNCHANGED <<engine, worker, flag, slot, task, ran>>

\* spawn: a call cancelled already, or that no thread will run, finds its slot filled
Spawn(c) ==
  /\ c \in AsyncCalls /\ New(c)
  /\ call' = [call EXCEPT ![c] = "waiting"]
  /\ task' = [task EXCEPT ![c].due = TRUE]
  /\ CASE flag[c] -> slot' = [slot EXCEPT ![c].value = "cancelled"] /\ UNCHANGED queue
       [] ~flag[c] /\ ~Served("long") ->
            slot' = [slot EXCEPT ![c].value = "gone"] /\ UNCHANGED queue
       [] OTHER -> queue' = [queue EXCEPT !["long"] = Append(@, c)] /\ UNCHANGED slot
  /\ UNCHANGED <<engine, worker, got, flag, ran>>

\* CancelToken::cancel
Cancel(c) ==
  /\ c \in AsyncCalls /\ ~flag[c] /\ (call[c] = "waiting" \/ New(c))
  /\ flag' = [flag EXCEPT ![c] = TRUE]
  /\ UNCHANGED <<engine, queue, worker, call, got, slot, task, ran>>

\* mutant: the first waker stays
FirstWaker(c, w) == IF slot[c].waker = NoWaker THEN w ELSE slot[c].waker

\* the slot keeps the waker of the last poll
LastWaker(c, w) == w

\* Pending::poll, the slot locked: the answer is taken, or the waker left
Poll(c, w) ==
  /\ c \in AsyncCalls /\ call[c] = "waiting" /\ task[c].due
  /\ IF slot[c].value # "none"
       THEN /\ Answer(c, slot[c].value)
            /\ slot' = [slot EXCEPT ![c].value = "none"]
            /\ task' = [task EXCEPT ![c].due = FALSE]
       ELSE /\ slot' = [slot EXCEPT ![c].waker = LastWaker(c, w)]
            /\ task' = [task EXCEPT ![c] = [due |-> FALSE, waker |-> w]]
            /\ UNCHANGED <<call, got>>
  /\ UNCHANGED <<engine, queue, worker, flag, ran>>

\* mutant: the job of a dropped future goes on
DropOnly(c) == flag

\* Pending::drop, the answer not taken
DropCancels(c) == [flag EXCEPT ![c] = TRUE]

DropPending(c) ==
  /\ c \in AsyncCalls /\ call[c] = "waiting"
  /\ call' = [call EXCEPT ![c] = "dropped"]
  /\ flag' = DropCancels(c)
  /\ UNCHANGED <<engine, queue, worker, got, slot, task, ran>>

\* an executor may poll a future again unasked, with another waker
Repoll(c) ==
  /\ c \in AsyncCalls /\ call[c] = "waiting" /\ ~task[c].due
  /\ task' = [task EXCEPT ![c].due = TRUE]
  /\ UNCHANGED <<engine, queue, worker, call, got, flag, slot, ran>>

\* the engine's last owner lets it go; a host in a sync call owns it
DropEngine ==
  /\ engine /\ \A c \in SyncCalls : call[c] # "waiting"
  /\ engine' = FALSE
  /\ UNCHANGED <<queue, worker, call, got, flag, slot, task, ran>>

-----------------------------------------------------------------------------
(* A pool's thread: spawn_worker's loop *)

\* mutant: the Receiver's lock lasts as long as the job it gave
LockKept(t) ==
  worker[t].pc = "idle" /\ \A u \in Threads : PoolOf(u) = PoolOf(t) => ~Running(u)

\* the Receiver's lock is held while waiting for a job only: any thread with none gets the next
MayTake(t) == worker[t].pc = "idle"

\* the flag of a job's call is set; a sync call's job runs with none
Flagged(c) == c \in AsyncCalls /\ flag[c]

\* a job looks at its flag once before it calls the closure
Begin(t, c) ==
  IF Flagged(c)
    THEN /\ worker' = [worker EXCEPT ![t].job = c, ![t].pc = "fill", ![t].out = "cancelled"]
         /\ UNCHANGED ran
    ELSE /\ worker' = [worker EXCEPT ![t].job = c, ![t].pc = "run"]
         /\ ran' = ran \cup {c}

Take(t) ==
  /\ MayTake(t) /\ queue[PoolOf(t)] # <<>>
  /\ queue' = [queue EXCEPT ![PoolOf(t)] = Tail(@)]
  /\ Begin(t, Head(queue[PoolOf(t)]))
  /\ UNCHANGED <<engine, call, got, flag, slot, task>>

\* mutant: whatever is queued
EndsAtOnce(t) ==
  /\ MayTake(t) /\ ~engine
  /\ worker' = [worker EXCEPT ![t].pc = "ended"]
  /\ UNCHANGED <<engine, queue, call, got, flag, slot, task, ran>>

\* recv fails: nothing queued, and no sender any more
ThreadEnds(t) ==
  /\ MayTake(t) /\ queue[PoolOf(t)] = <<>> /\ ~engine
  /\ worker' = [worker EXCEPT ![t].pc = "ended"]
  /\ UNCHANGED <<engine, queue, call, got, flag, slot, task, ran>>

\* work::spend or WorkBudget::over finds the flag set, and the closure unwinds
Checkpoint(t) ==
  /\ Running(t) /\ Flagged(worker[t].job)
  /\ worker' = Outcome(t, "cancelled")
  /\ UNCHANGED <<engine, queue, call, got, flag, slot, task, ran>>

\* the closure returns or panics
Finish(t) ==
  /\ Running(t)
  /\ \E out \in {"value", "panic"} : worker' = Outcome(t, out)
  /\ UNCHANGED <<engine, queue, call, got, flag, slot, task, ran>>

\* a sync call's answer: the host blocked on it goes on
SendAnswer(t) ==
  /\ worker[t].pc = "fill" /\ worker[t].job \in SyncCalls
  /\ Answer(worker[t].job, worker[t].out)
  /\ worker' = [worker EXCEPT ![t] = Start]
  /\ UNCHANGED <<engine, queue, flag, slot, task, ran>>

\* the waker is taken with the slot locked, to be called after
TakeWaker(t) ==
  LET w == slot[worker[t].job].waker IN
    [worker EXCEPT ![t] = IF w = NoWaker THEN Start ELSE [@ EXCEPT !.pc = "wake", !.waker = w]]

\* fill, the slot locked
Fill(t) ==
  /\ worker[t].pc = "fill" /\ worker[t].job \in AsyncCalls
  /\ slot' = [slot EXCEPT ![worker[t].job] = [value |-> worker[t].out, waker |-> NoWaker]]
  /\ worker' = TakeWaker(t)
  /\ UNCHANGED <<engine, queue, call, got, flag, task, ran>>

\* Waker::wake: the task is polled again if that is the waker it waits on
Wake(t) ==
  /\ worker[t].pc = "wake"
  /\ LET c == worker[t].job IN
       task' = IF task[c].waker = worker[t].waker THEN [task EXCEPT ![c].due = TRUE] ELSE task
  /\ worker' = [worker EXCEPT ![t] = Start]
  /\ UNCHANGED <<engine, queue, call, got, flag, slot, ran>>

-----------------------------------------------------------------------------
\* the system may refuse any of the threads
WorkersInit ==
  /\ engine = TRUE
  /\ queue = [p \in Pools |-> <<>>]
  /\ \E refused \in SUBSET Threads :
       worker = [t \in Threads |-> IF t \in refused THEN Refused ELSE Start]
  /\ call = [c \in Calls |-> "new"] /\ got = [c \in Calls |-> "none"]
  /\ flag = [c \in AsyncCalls |-> FALSE]
  /\ slot = [c \in AsyncCalls |-> [value |-> "none", waker |-> NoWaker]]
  /\ task = [c \in AsyncCalls |-> [due |-> FALSE, waker |-> NoWaker]]
  /\ ran = {}

Host(c) ==
  \/ RunInline(c) \/ RunOn(c) \/ Spawn(c) \/ Cancel(c) \/ DropPending(c) \/ Repoll(c)

\* the thread's steps, but for the closure's own end
ThreadStep(t) ==
  \/ Take(t) \/ ThreadEnds(t) \/ Checkpoint(t)
  \/ SendAnswer(t) \/ Fill(t) \/ Wake(t)

WorkersNext ==
  \/ \E c \in Calls : Host(c) \/ \E w \in Wakers : Poll(c, w)
  \/ DropEngine
  \/ \E t \in Threads : ThreadStep(t) \/ Finish(t)

WorkersSpec == WorkersInit /\ [][WorkersNext]_workersVars

\* the system runs every thread, an executor polls a task that was woken, and a closure
\* ends unless it is one that may not
WorkersFairSpec ==
  /\ WorkersSpec
  /\ \A t \in Threads : /\ WF_workersVars(ThreadStep(t))
                        /\ WF_workersVars(worker[t].job \notin Endless /\ Finish(t))
  /\ \A c \in AsyncCalls : WF_workersVars(\E w \in Wakers : Poll(c, w))

-----------------------------------------------------------------------------
(* Properties *)

WorkersTypeOK ==
  /\ engine \in BOOLEAN /\ ran \subseteq Calls
  /\ \A p \in Pools : queue[p] \in Seq(Calls)
  /\ \A t \in Threads :
       /\ worker[t].pc \in {"idle", "run", "fill", "wake", "ended"}
       /\ worker[t].pc \in {"run", "fill", "wake"} => worker[t].job \in Calls
       /\ worker[t].pc = "wake" => worker[t].waker \in Wakers
  /\ call \in [Calls -> {"new", "waiting", "answered", "dropped"}]
  /\ got \in [Calls -> Answers \cup {"none"}]
  /\ flag \in [AsyncCalls -> BOOLEAN]
  /\ slot \in [AsyncCalls -> [value : Answers \cup {"none"}, waker : Wakers \cup {NoWaker}]]
  /\ task \in [AsyncCalls -> [due : BOOLEAN, waker : Wakers \cup {NoWaker}]]

\* A future whose answer is there is polled for it: its task is due, or a thread is about
\* to call the very waker the task waits on, whatever was polled while the answer came.
NoLostWakeup ==
  \A c \in AsyncCalls :
    (call[c] = "waiting" /\ slot[c].value # "none") =>
      \/ task[c].due
      \/ \E t \in Threads : /\ worker[t].pc = "wake" /\ worker[t].job = c
                            /\ worker[t].waker = task[c].waker

\* A call waiting has one job, queued or with a thread, or its answer: none is lost between
\* the pool's threads, none is run twice, and none is queued with no thread left to run it,
\* also once the engine has gone.
OneJobEach ==
  \A c \in Calls : call[c] = "waiting" =>
    LET queued == Cardinality({i \in DOMAIN queue[PoolFor(c)] : queue[PoolFor(c)][i] = c})
        taken  == Cardinality({t \in Threads : worker[t].pc \in {"run", "fill"}
                                               /\ worker[t].job = c})
        filled == IF c \in AsyncCalls /\ slot[c].value # "none" THEN 1 ELSE 0
    IN queued + taken + filled = 1 /\ (queued = 1 => Served(PoolFor(c)))

\* A call is answered what became of it: a value or a panic only of work begun, `cancelled`
\* only with its flag set, and that no thread is there only if none is.
AnswersTrue ==
  \A c \in Calls :
    /\ got[c] \in {"value", "panic"} => c \in ran
    /\ got[c] = "cancelled" => c \in AsyncCalls /\ flag[c]
    /\ got[c] = "gone" => c \notin ran /\ ~Served(PoolFor(c))

\* With both threads of the long pool there, a call is answered unless its future is dropped,
\* however long another's work lasts, and also once the engine has gone.
CallsAnswered ==
  \A c \in Calls \ Endless :
    (call[c] = "waiting" /\ \A t \in LongThreads : worker[t].pc # "ended")
      ~> call[c] \in {"answered", "dropped"}

InWork(c) == \E t \in Threads : Running(t) /\ worker[t].job = c

\* A thread whose call's future was dropped is free again, though its work
\* would never end.
CancelledStops ==
  \A c \in Endless : (call[c] = "dropped" /\ InWork(c)) ~> ~InWork(c)
\* Every call has one job or one answer, and the answer says what became of the work.
AnsweredOnce == WorkersTypeOK /\ OneJobEach /\ AnswersTrue
===============================================================================
