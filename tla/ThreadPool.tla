----------------------------- MODULE ThreadPool -----------------------------
(***************************************************************************)
(* coro::ThreadPool: a mutex, a condition variable, a queue of coroutine   *)
(* handles, workers that resume them and a destructor that drains the      *)
(* queue.  Every critical section of mutex_ is one step; notify_one is a   *)
(* step of its own because Enqueue calls it after unlocking.               *)
(***************************************************************************)
EXTENDS Naturals, Sequences

CONSTANTS Worker,      \* workers_
          Client,      \* threads outside the pool that call Enqueue
          Handle,      \* coroutine handles
          NoHandle,    \* a worker that resumes nothing
          MaxQueue,    \* config_.max_queue, 0 = unlimited
          MaxEnqueues  \* bound: Enqueue calls for one handle

ASSUME PoolAssumption ==
    /\ Worker # {}
    /\ NoHandle \notin Handle
    /\ MaxQueue \in Nat
    /\ MaxEnqueues \in Nat

VARIABLES queue,       \* queue_
          stop,        \* stop_
          handle,      \* where each coroutine is
          wpc,         \* where each worker is in WorkerLoop
          job,         \* the coroutine a worker resumes
          cpc,         \* where each client is in Enqueue
          dtor,        \* where the destructor is
          enqueues     \* bounded counter

vars == <<queue, stop, handle, wpc, job, cpc, dtor, enqueues>>

TypeOK ==
    /\ queue \in Seq(Handle)
    /\ MaxQueue > 0 => Len(queue) <= MaxQueue
    /\ stop \in BOOLEAN
    /\ handle \in [Handle -> {"suspended", "queued", "running", "dropped"}]
    /\ wpc \in [Worker -> {"check", "asleep", "run", "notify", "exited"}]
    /\ job \in [Worker -> Handle \cup {NoHandle}]
    /\ cpc \in [Client -> {"idle", "notify"}]
    /\ dtor \in {"none", "notify_all", "join", "destroyed"}
    /\ enqueues \in [Handle -> 0..MaxEnqueues]

Init ==
    /\ queue = <<>>
    /\ stop = FALSE
    /\ handle = [h \in Handle |-> "suspended"]
    /\ wpc = [w \in Worker |-> "check"]
    /\ job = [w \in Worker |-> NoHandle]
    /\ cpc = [c \in Client |-> "idle"]
    /\ dtor = "none"
    /\ enqueues = [h \in Handle |-> 0]

-----------------------------------------------------------------------------
(***************************************************************************)
(* Enqueue.                                                                *)
(***************************************************************************)

Full == MaxQueue > 0 /\ Len(queue) >= MaxQueue

\* Mutant: the capacity test is off by one.
AcceptOffByOne(h) ==
    /\ enqueues[h] < MaxEnqueues
    /\ enqueues' = [enqueues EXCEPT ![h] = @ + 1]
    /\ MaxQueue > 0 => Len(queue) <= MaxQueue
    /\ queue' = Append(queue, h)
    /\ handle' = [handle EXCEPT ![h] = "queued"]

\* The critical section of Enqueue when there is room.
Accept(h) ==
    /\ enqueues[h] < MaxEnqueues
    /\ enqueues' = [enqueues EXCEPT ![h] = @ + 1]
    /\ ~Full
    /\ queue' = Append(queue, h)
    /\ handle' = [handle EXCEPT ![h] = "queued"]

\* The critical section of Enqueue at the limit: the handle is dropped and its
\* coroutine never runs again.
Drop(h) ==
    /\ enqueues[h] < MaxEnqueues
    /\ enqueues' = [enqueues EXCEPT ![h] = @ + 1]
    /\ Full
    /\ handle' = [handle EXCEPT ![h] = "dropped"]
    /\ UNCHANGED queue

\* cv_.notify_one(): one sleeping worker, if there is one, gets up.
\* (`busy` is the program counter of the workers before the notification.)
NotifyOne(busy) ==
    IF \E w \in Worker : busy[w] = "asleep"
    THEN \E w \in Worker :
            /\ busy[w] = "asleep"
            /\ wpc' = [busy EXCEPT ![w] = "check"]
    ELSE wpc' = busy

\* Mutant: notify_one only when the queue was empty before the push.
ClientNotifyIfFirst(c) ==
    /\ cpc[c] = "notify"
    /\ cpc' = [cpc EXCEPT ![c] = "idle"]
    /\ IF Len(queue) = 1 THEN NotifyOne(wpc) ELSE UNCHANGED wpc
    /\ UNCHANGED <<queue, stop, handle, job, dtor, enqueues>>

\* A thread outside the pool enqueues a suspended coroutine.
ClientEnqueue(c, h) ==
    /\ dtor = "none"
    /\ cpc[c] = "idle"
    /\ handle[h] = "suspended"
    /\ \/ Accept(h) /\ cpc' = [cpc EXCEPT ![c] = "notify"]
       \/ Drop(h) /\ UNCHANGED cpc
    /\ UNCHANGED <<stop, wpc, job, dtor>>

ClientNotify(c) ==
    /\ cpc[c] = "notify"
    /\ cpc' = [cpc EXCEPT ![c] = "idle"]
    /\ NotifyOne(wpc)
    /\ UNCHANGED <<queue, stop, handle, job, dtor, enqueues>>

-----------------------------------------------------------------------------
(***************************************************************************)
(* WorkerLoop.                                                             *)
(***************************************************************************)

\* cv_.wait: the predicate is false, the worker sleeps.
Sleep(w) ==
    /\ wpc[w] = "check"
    /\ ~stop
    /\ queue = <<>>
    /\ wpc' = [wpc EXCEPT ![w] = "asleep"]
    /\ UNCHANGED <<queue, stop, handle, job, cpc, dtor, enqueues>>

\* A condition variable may wake up without a notification.
SpuriousWakeup(w) ==
    /\ wpc[w] = "asleep"
    /\ wpc' = [wpc EXCEPT ![w] = "check"]
    /\ UNCHANGED <<queue, stop, handle, job, cpc, dtor, enqueues>>

\* Mutant: a worker leaves as soon as stop_ is set.
ExitOnStop(w) ==
    /\ wpc[w] = "check"
    /\ stop
    /\ wpc' = [wpc EXCEPT ![w] = "exited"]
    /\ UNCHANGED <<queue, stop, handle, job, cpc, dtor, enqueues>>

Exit(w) ==
    /\ wpc[w] = "check"
    /\ stop
    /\ queue = <<>>
    /\ wpc' = [wpc EXCEPT ![w] = "exited"]
    /\ UNCHANGED <<queue, stop, handle, job, cpc, dtor, enqueues>>

\* Mutant: the front of the queue is read but not removed.
TakeWithoutPop(w) ==
    /\ wpc[w] = "check"
    /\ queue # <<>>
    /\ job' = [job EXCEPT ![w] = Head(queue)]
    /\ handle' = [handle EXCEPT ![Head(queue)] = "running"]
    /\ wpc' = [wpc EXCEPT ![w] = "run"]
    /\ UNCHANGED <<queue, stop, cpc, dtor, enqueues>>

\* Pop the front and resume it outside the lock.
Take(w) ==
    /\ wpc[w] = "check"
    /\ queue # <<>>
    /\ job' = [job EXCEPT ![w] = Head(queue)]
    /\ handle' = [handle EXCEPT ![Head(queue)] = "running"]
    /\ queue' = Tail(queue)
    /\ wpc' = [wpc EXCEPT ![w] = "run"]
    /\ UNCHANGED <<stop, cpc, dtor, enqueues>>

-----------------------------------------------------------------------------
(***************************************************************************)
(* What a resumed coroutine does with the pool.                            *)
(***************************************************************************)

\* co_await pool.Schedule(): the coroutine enqueues itself and suspends; once
\* accepted it may already run on another worker while this one notifies.
Reschedule(w) ==
    /\ wpc[w] = "run"
    /\ job' = [job EXCEPT ![w] = NoHandle]
    /\ \/ Accept(job[w]) /\ wpc' = [wpc EXCEPT ![w] = "notify"]
       \/ Drop(job[w]) /\ wpc' = [wpc EXCEPT ![w] = "check"]
    /\ UNCHANGED <<stop, cpc, dtor>>

\* The coroutine starts another one that schedules itself on the pool.
Spawn(w, h) ==
    /\ wpc[w] = "run"
    /\ handle[h] = "suspended"
    /\ \/ Accept(h) /\ wpc' = [wpc EXCEPT ![w] = "notify"]
       \/ Drop(h) /\ UNCHANGED wpc
    /\ UNCHANGED <<stop, job, cpc, dtor>>

\* The coroutine suspends on something else or ends: resume() returns.
Yield(w) ==
    /\ wpc[w] = "run"
    /\ handle' = [handle EXCEPT ![job[w]] = "suspended"]
    /\ job' = [job EXCEPT ![w] = NoHandle]
    /\ wpc' = [wpc EXCEPT ![w] = "check"]
    /\ UNCHANGED <<queue, stop, cpc, dtor, enqueues>>

\* notify_one of an Enqueue made on a worker.
WorkerNotify(w) ==
    /\ wpc[w] = "notify"
    /\ NotifyOne([wpc EXCEPT ![w] = IF job[w] = NoHandle THEN "check" ELSE "run"])
    /\ UNCHANGED <<queue, stop, handle, job, cpc, dtor, enqueues>>

-----------------------------------------------------------------------------
(***************************************************************************)
(* The destructor.  C++ object lifetime: it starts when no thread outside  *)
(* the pool is inside Enqueue.                                             *)
(***************************************************************************)
SetStop ==
    /\ dtor = "none"
    /\ \A c \in Client : cpc[c] = "idle"
    /\ stop' = TRUE
    /\ dtor' = "notify_all"
    /\ UNCHANGED <<queue, handle, wpc, job, cpc, enqueues>>

\* Mutant: one worker is told to stop instead of all.
NotifyStopOne ==
    /\ dtor = "notify_all"
    /\ dtor' = "join"
    /\ NotifyOne(wpc)
    /\ UNCHANGED <<queue, stop, handle, job, cpc, enqueues>>

NotifyAll ==
    /\ dtor = "notify_all"
    /\ dtor' = "join"
    /\ wpc' = [w \in Worker |-> IF wpc[w] = "asleep" THEN "check" ELSE wpc[w]]
    /\ UNCHANGED <<queue, stop, handle, job, cpc, enqueues>>

Join ==
    /\ dtor = "join"
    /\ \A w \in Worker : wpc[w] = "exited"
    /\ dtor' = "destroyed"
    /\ UNCHANGED <<queue, stop, handle, wpc, job, cpc, enqueues>>

Destroyed == dtor = "destroyed" /\ UNCHANGED vars

-----------------------------------------------------------------------------
CoroutineStep(w) == Reschedule(w) \/ Yield(w) \/ \E h \in Handle : Spawn(w, h)
WorkerStep(w) == Sleep(w) \/ Exit(w) \/ Take(w) \/ CoroutineStep(w) \/ WorkerNotify(w)

Next ==
    \/ \E c \in Client : ClientNotify(c) \/ \E h \in Handle : ClientEnqueue(c, h)
    \/ \E w \in Worker : WorkerStep(w) \/ SpuriousWakeup(w)
    \/ SetStop \/ NotifyAll \/ Join
    \/ Destroyed

Spec == Init /\ [][Next]_vars

\* The threads inside Enqueue, WorkerLoop and the destructor are scheduled.
\* Nobody owes an Enqueue, a destruction or a spurious wake-up.
Fairness ==
    /\ \A c \in Client : WF_vars(ClientNotify(c))
    /\ \A w \in Worker : WF_vars(WorkerStep(w))
    /\ WF_vars(NotifyAll)
    /\ WF_vars(Join)

FairSpec == Spec /\ Fairness

-----------------------------------------------------------------------------
(***************************************************************************)
(* Properties.                                                             *)
(***************************************************************************)

\* No handle is lost or resumed twice: a queued coroutine is in the queue at
\* exactly one place, a running one is on exactly one worker, and a coroutine
\* that rescheduled itself is no longer the job of the worker it left.
HandleOnce ==
    /\ \A i \in DOMAIN queue : handle[queue[i]] = "queued"
    /\ \A i, j \in DOMAIN queue : queue[i] = queue[j] => i = j
    /\ \A h \in Handle : handle[h] = "queued" => \E i \in DOMAIN queue : queue[i] = h
    /\ \A w \in Worker : wpc[w] = "run" => job[w] # NoHandle
    /\ \A w \in Worker : job[w] # NoHandle => handle[job[w]] = "running"
    /\ \A v, w \in Worker : job[v] = job[w] /\ job[v] # NoHandle => v = w

\* A thread between the push and the notify_one of Enqueue.
Notifying ==
    \/ \E c \in Client : cpc[c] = "notify"
    \/ \E w \in Worker : wpc[w] = "notify"

\* No lost wake-up although notify_one happens after the unlock: work is never
\* left to sleeping workers unless a notification is still on its way, and
\* after stop_ a worker sleeps only until the destructor's notify_all.
NoLostWakeup ==
    /\ queue # <<>> /\ (\A w \in Worker : wpc[w] \in {"asleep", "exited"}) =>
          \/ Notifying
          \/ dtor = "notify_all"
    /\ stop /\ dtor # "notify_all" => \A w \in Worker : wpc[w] # "asleep"

\* The destructor drains: a worker leaves only an empty queue, what a coroutine
\* schedules while the pool is being destroyed is still resumed, and after the
\* join nothing is queued or running.
DrainedAtExit ==
    dtor = "destroyed" =>
        /\ queue = <<>>
        /\ \A h \in Handle : handle[h] \in {"suspended", "dropped"}

\* Every accepted handle is resumed in the end.
EveryHandleRuns ==
    \A h \in Handle : handle[h] = "queued" ~> handle[h] = "running"

\* The destructor returns.
DestructorReturns == dtor = "notify_all" ~> dtor = "destroyed"
=============================================================================
