--------------------------- MODULE ThreadPoolProofs ---------------------------
(***************************************************************************)
(* Proofs about ThreadPool for every number of workers, clients and        *)
(* coroutines and every queue limit.                                       *)
(***************************************************************************)
EXTENDS ThreadPool, TLAPS

-----------------------------------------------------------------------------
(***************************************************************************)
(* The inductive invariant.                                                *)
(***************************************************************************)

\* A running coroutine is the job of a worker that is resuming it.
Jobs ==
    /\ \A h \in Handle : handle[h] = "running" => \E w \in Worker : job[w] = h
    /\ \A w \in Worker : job[w] # NoHandle => wpc[w] \in {"run", "notify"}

\* stop_ is set by the destructor only, which no client call overlaps.
Stopping ==
    /\ stop <=> dtor # "none"
    /\ dtor # "none" => \A c \in Client : cpc[c] = "idle"
    /\ \A w \in Worker : wpc[w] = "exited" => stop
    /\ dtor = "destroyed" => \A w \in Worker : wpc[w] = "exited"

\* The workers do not all leave while there is work.
Attended == queue # <<>> => \E w \in Worker : wpc[w] # "exited"

IInv ==
    /\ TypeOK
    /\ HandleOnce
    /\ NoLostWakeup
    /\ Jobs
    /\ Stopping
    /\ Attended

-----------------------------------------------------------------------------
(***************************************************************************)
(* Lemmas about the queue.                                                 *)
(***************************************************************************)

\* What Append does to a sequence, position by position.
LEMMA AppendFacts ==
    ASSUME NEW q \in Seq(Handle), NEW x \in Handle
    PROVE  /\ Append(q, x) \in Seq(Handle) /\ Append(q, x) # <<>>
           /\ Len(Append(q, x)) = Len(q) + 1
           /\ DOMAIN q = 1..Len(q) /\ Len(q) \in Nat
           /\ DOMAIN Append(q, x) = 1..(Len(q) + 1)
           /\ \A i \in 1..Len(q) : Append(q, x)[i] = q[i]
           /\ Append(q, x)[Len(q) + 1] = x
OBVIOUS

\* What the pop at the front of the queue leaves behind.
LEMMA TailFacts ==
    ASSUME NEW q \in Seq(Handle), q # <<>>
    PROVE  /\ Head(q) \in Handle /\ 1 \in DOMAIN q /\ Head(q) = q[1]
           /\ Tail(q) \in Seq(Handle)
           /\ Len(Tail(q)) = Len(q) - 1
           /\ DOMAIN q = 1..Len(q) /\ Len(q) \in Nat
           /\ DOMAIN Tail(q) = 1..(Len(q) - 1)
           /\ \A i \in 1..(Len(q) - 1) : Tail(q)[i] = q[i + 1]
OBVIOUS

\* The queue holds exactly the handles that `p` calls queued, each once.
Holds(q, p) ==
    /\ \A i \in DOMAIN q : p[q[i]] = "queued"
    /\ \A i, j \in DOMAIN q : q[i] = q[j] => i = j
    /\ \A h \in Handle : p[h] = "queued" => \E i \in DOMAIN q : q[i] = h

\* push_back of a handle that is not queued keeps the queue and the handles in agreement.
LEMMA PushHolds ==
    ASSUME NEW q \in Seq(Handle), NEW p, NEW p2, NEW x \in Handle,
           Holds(q, p), p[x] # "queued", p2[x] = "queued",
           \A h \in Handle \ {x} : p2[h] = p[h]
    PROVE  Holds(Append(q, x), p2)
<1>1. \A i \in DOMAIN q : q[i] \in Handle /\ q[i] # x
  BY DEF Holds
<1>2. \A i \in DOMAIN Append(q, x) : p2[Append(q, x)[i]] = "queued"
  BY <1>1, AppendFacts DEF Holds
<1>3. \A i, j \in DOMAIN Append(q, x) : Append(q, x)[i] = Append(q, x)[j] => i = j
  BY <1>1, AppendFacts DEF Holds
<1>4. ASSUME NEW h \in Handle, p2[h] = "queued"
      PROVE  \E i \in DOMAIN Append(q, x) : Append(q, x)[i] = h
  <2>1. CASE h = x
    <3>1. Len(q) + 1 \in DOMAIN Append(q, x) /\ Append(q, x)[Len(q) + 1] = x
      BY AppendFacts
    <3>2. QED
      BY <2>1, <3>1
  <2>2. CASE h # x
    <3>1. PICK i \in DOMAIN q : q[i] = h
      BY <1>4, <2>2 DEF Holds
    <3>2. i \in DOMAIN Append(q, x) /\ Append(q, x)[i] = h
      BY <3>1, AppendFacts
    <3>3. QED
      BY <3>2
  <2>3. QED
    BY <2>1, <2>2
<1>5. QED
  BY <1>2, <1>3, <1>4 DEF Holds

\* pop_front keeps the queue and the handles in agreement.
LEMMA PopHolds ==
    ASSUME NEW q \in Seq(Handle), q # <<>>, NEW p, NEW p2,
           Holds(q, p), p2[Head(q)] # "queued",
           \A h \in Handle \ {Head(q)} : p2[h] = p[h]
    PROVE  Holds(Tail(q), p2)
<1>1. \A i \in DOMAIN Tail(q) : /\ i \in Nat /\ i + 1 \in DOMAIN q /\ i + 1 # 1
                                /\ Tail(q)[i] = q[i + 1] /\ q[i + 1] \in Handle
  BY TailFacts
<1>2. \A i \in DOMAIN Tail(q) : Tail(q)[i] # Head(q)
  BY <1>1, TailFacts DEF Holds
<1>3. \A i \in DOMAIN Tail(q) : p2[Tail(q)[i]] = "queued"
  BY <1>1, <1>2 DEF Holds
<1>4. ASSUME NEW i \in DOMAIN Tail(q), NEW j \in DOMAIN Tail(q), Tail(q)[i] = Tail(q)[j]
      PROVE  i = j
  <2>1. i + 1 = j + 1
    BY <1>1, <1>4 DEF Holds
  <2>2. QED
    BY <1>1, <2>1
<1>5. ASSUME NEW h \in Handle, p2[h] = "queued"
      PROVE  \E i \in DOMAIN Tail(q) : Tail(q)[i] = h
  <2>1. h # Head(q) /\ p[h] = "queued"
    BY <1>5
  <2>2. PICK i \in DOMAIN q : q[i] = h
    BY <2>1 DEF Holds
  <2>3. i - 1 \in DOMAIN Tail(q) /\ (i - 1) + 1 = i
    BY <2>1, <2>2, TailFacts
  <2>4. Tail(q)[i - 1] = h
    BY <1>1, <2>2, <2>3
  <2>5. QED
    BY <2>3, <2>4
<1>6. QED
  BY <1>3, <1>4, <1>5 DEF Holds

-----------------------------------------------------------------------------
(***************************************************************************)
(* The critical sections of Enqueue, for any caller.                       *)
(***************************************************************************)

\* An accepted handle that was not queued enters the queue, within the limit.
LEMMA AcceptFacts ==
    ASSUME TypeOK, HandleOnce, NEW h \in Handle, handle[h] # "queued", Accept(h)
    PROVE  /\ queue' \in Seq(Handle) /\ queue' # <<>>
           /\ MaxQueue > 0 => Len(queue') <= MaxQueue
           /\ handle' = [handle EXCEPT ![h] = "queued"]
           /\ enqueues' \in [Handle -> 0..MaxEnqueues]
           /\ Holds(queue', handle')
<1>1. queue \in Seq(Handle) /\ queue' = Append(queue, h)
  BY DEF TypeOK, Accept
<1>2. queue' \in Seq(Handle) /\ queue' # <<>> /\ Len(queue') = Len(queue) + 1 /\ Len(queue) \in Nat
  BY <1>1, AppendFacts
<1>3. MaxQueue > 0 => Len(queue) < MaxQueue
  BY <1>2, PoolAssumption DEF Accept, Full
<1>4. MaxQueue > 0 => Len(queue') <= MaxQueue
  BY <1>2, <1>3, PoolAssumption
<1>5. enqueues' \in [Handle -> 0..MaxEnqueues]
  <2>1. enqueues \in [Handle -> 0..MaxEnqueues] /\ enqueues[h] < MaxEnqueues
    BY DEF TypeOK, Accept
  <2>2. enqueues[h] + 1 \in 0..MaxEnqueues
    BY <2>1, PoolAssumption
  <2>3. QED
    BY <2>1, <2>2 DEF Accept
<1>6. Holds(queue, handle)
  BY DEF HandleOnce, Holds
<1>7. /\ handle' = [handle EXCEPT ![h] = "queued"]
      /\ handle'[h] = "queued" /\ \A x \in Handle \ {h} : handle'[x] = handle[x]
  BY DEF TypeOK, Accept
<1>8. Holds(queue', handle')
  BY <1>1, <1>6, <1>7, PushHolds, Zenon
<1>9. QED
  BY <1>2, <1>4, <1>5, <1>7, <1>8

\* A dropped handle enters nothing.
LEMMA DropFacts ==
    ASSUME TypeOK, HandleOnce, NEW h \in Handle, handle[h] # "queued", Drop(h)
    PROVE  /\ queue' = queue
           /\ handle' = [handle EXCEPT ![h] = "dropped"]
           /\ enqueues' \in [Handle -> 0..MaxEnqueues]
           /\ Holds(queue', handle')
<1>1. enqueues' \in [Handle -> 0..MaxEnqueues]
  <2>1. enqueues \in [Handle -> 0..MaxEnqueues] /\ enqueues[h] < MaxEnqueues
    BY DEF TypeOK, Drop
  <2>2. enqueues[h] + 1 \in 0..MaxEnqueues
    BY <2>1, PoolAssumption
  <2>3. QED
    BY <2>1, <2>2 DEF Drop
<1>2. queue' = queue /\ handle' = [handle EXCEPT ![h] = "dropped"]
  BY DEF Drop
<1>3. Holds(queue', handle')
  BY <1>2 DEF TypeOK, HandleOnce, Holds
<1>4. QED
  BY <1>1, <1>2, <1>3

-----------------------------------------------------------------------------
(***************************************************************************)
(* Every step preserves the invariant.                                     *)
(***************************************************************************)

\* Schedule pushes the handle, and owes the notification until it has left the lock.
LEMMA ClientEnqueueInv ==
    ASSUME IInv, NEW c \in Client, NEW h \in Handle, ClientEnqueue(c, h)
    PROVE  IInv'
<1>1. /\ dtor = "none" /\ handle[h] = "suspended" /\ ~stop
      /\ UNCHANGED <<stop, wpc, job, dtor>>
  BY DEF IInv, Stopping, ClientEnqueue
<1>2. \A w \in Worker : job[w] # h /\ wpc[w] # "exited"
  BY <1>1, PoolAssumption DEF IInv, HandleOnce, Stopping
<1>3. CASE Accept(h) /\ cpc' = [cpc EXCEPT ![c] = "notify"]
  <2>1. TypeOK'
    BY <1>1, <1>3, AcceptFacts, Zenon DEF IInv, TypeOK
  <2>2. HandleOnce'
    <3>1. \A w \in Worker : job[w] # NoHandle => handle'[job[w]] = handle[job[w]]
      BY <1>1, <1>2, <1>3, AcceptFacts DEF IInv, TypeOK
    <3>2. QED
      BY <1>1, <1>3, <3>1, AcceptFacts DEF IInv, HandleOnce, Holds
  <2>3. NoLostWakeup'
    BY <1>1, <1>3 DEF IInv, TypeOK, NoLostWakeup, Notifying
  <2>4. Jobs' /\ Stopping'
    BY <1>1, <1>3, AcceptFacts, Zenon DEF IInv, TypeOK, Jobs, Stopping
  <2>5. Attended'
    BY <1>1, <1>2, PoolAssumption DEF Attended
  <2>6. QED
    BY <2>1, <2>2, <2>3, <2>4, <2>5 DEF IInv
<1>4. CASE Drop(h) /\ UNCHANGED cpc
  <2>1. TypeOK'
    BY <1>1, <1>4, DropFacts, Zenon DEF IInv, TypeOK
  <2>2. HandleOnce'
    <3>1. \A w \in Worker : job[w] # NoHandle => handle'[job[w]] = handle[job[w]]
      BY <1>1, <1>2, <1>4, DropFacts DEF IInv, TypeOK
    <3>2. QED
      BY <1>1, <1>4, <3>1, DropFacts DEF IInv, HandleOnce, Holds
  <2>3. queue' = queue /\ handle' = [handle EXCEPT ![h] = "dropped"]
    BY <1>4 DEF Drop
  <2>4. NoLostWakeup' /\ Attended' /\ Stopping'
    BY <1>1, <1>4, <2>3 DEF IInv, NoLostWakeup, Notifying, Attended, Stopping
  <2>5. Jobs'
    BY <1>1, <2>3 DEF IInv, TypeOK, Jobs
  <2>6. QED
    BY <2>1, <2>2, <2>4, <2>5 DEF IInv
<1>5. QED
  BY <1>3, <1>4 DEF ClientEnqueue

\* notify_one after the unlock: whoever slept through the push gets up.
LEMMA ClientNotifyInv == ASSUME IInv, NEW c \in Client, ClientNotify(c) PROVE IInv'
<1>1. /\ cpc[c] = "notify" /\ cpc' = [cpc EXCEPT ![c] = "idle"]
      /\ UNCHANGED <<queue, stop, handle, job, dtor, enqueues>>
      /\ dtor = "none" /\ ~stop /\ \A w \in Worker : wpc[w] # "exited"
  BY DEF IInv, Stopping, ClientNotify
<1>2. \/ wpc' = wpc /\ \A w \in Worker : wpc[w] # "asleep"
      \/ \E w \in Worker : wpc[w] = "asleep" /\ wpc' = [wpc EXCEPT ![w] = "check"]
  BY DEF ClientNotify, NotifyOne
<1>3. /\ wpc' \in [Worker -> {"check", "asleep", "run", "notify", "exited"}]
      /\ \A w \in Worker : wpc'[w] = wpc[w] \/ (wpc[w] = "asleep" /\ wpc'[w] = "check")
      /\ \E w \in Worker : wpc'[w] \notin {"asleep", "exited"}
  BY <1>1, <1>2, PoolAssumption DEF IInv, TypeOK
<1>4. TypeOK'
  BY <1>1, <1>3 DEF IInv, TypeOK
<1>5. HandleOnce'
  BY <1>1, <1>3 DEF IInv, HandleOnce
<1>6. NoLostWakeup'
  BY <1>1, <1>3 DEF IInv, NoLostWakeup
<1>7. Jobs' /\ Attended'
  BY <1>1, <1>3 DEF IInv, Jobs, Attended
<1>8. Stopping'
  BY <1>1, <1>3 DEF IInv, TypeOK, Stopping
<1>9. QED
  BY <1>4, <1>5, <1>6, <1>7, <1>8 DEF IInv

\* A worker falls asleep only on an empty queue, before stop_.
LEMMA SleepInv == ASSUME IInv, NEW w \in Worker, Sleep(w) PROVE IInv'
<1>1. TypeOK'
  BY DEF IInv, TypeOK, Sleep
<1>2. HandleOnce' /\ Jobs'
  BY DEF IInv, TypeOK, HandleOnce, Jobs, Sleep
<1>3. NoLostWakeup' /\ Attended'
  BY DEF IInv, TypeOK, NoLostWakeup, Attended, Sleep
<1>4. Stopping'
  BY DEF IInv, TypeOK, Stopping, Sleep
<1>5. QED
  BY <1>1, <1>2, <1>3, <1>4 DEF IInv

\* A spurious wakeup of a waiting worker keeps the invariant.
LEMMA SpuriousWakeupInv == ASSUME IInv, NEW w \in Worker, SpuriousWakeup(w) PROVE IInv'
<1>1. TypeOK'
  BY DEF IInv, TypeOK, SpuriousWakeup
<1>2. HandleOnce' /\ Jobs'
  BY DEF IInv, TypeOK, HandleOnce, Jobs, SpuriousWakeup
<1>3. NoLostWakeup' /\ Attended'
  BY DEF IInv, TypeOK, NoLostWakeup, Notifying, Attended, SpuriousWakeup
<1>4. Stopping'
  BY DEF IInv, TypeOK, Stopping, SpuriousWakeup
<1>5. QED
  BY <1>1, <1>2, <1>3, <1>4 DEF IInv

\* A worker leaves only an empty queue.
LEMMA ExitInv == ASSUME IInv, NEW w \in Worker, Exit(w) PROVE IInv'
<1>1. TypeOK'
  BY DEF IInv, TypeOK, Exit
<1>2. HandleOnce' /\ Jobs'
  BY DEF IInv, TypeOK, HandleOnce, Jobs, Exit
<1>3. NoLostWakeup' /\ Attended'
  BY DEF IInv, TypeOK, NoLostWakeup, Notifying, Attended, Exit
<1>4. Stopping'
  BY DEF IInv, TypeOK, Stopping, Exit
<1>5. QED
  BY <1>1, <1>2, <1>3, <1>4 DEF IInv

\* The front of the queue becomes the job of exactly this worker.
LEMMA TakeInv == ASSUME IInv, NEW w \in Worker, Take(w) PROVE IInv'
<1>1. PICK h \in Handle : h = Head(queue) /\ handle[h] = "queued"
  BY TailFacts DEF IInv, TypeOK, HandleOnce, Take
<1>2. /\ wpc[w] = "check" /\ wpc' = [wpc EXCEPT ![w] = "run"]
      /\ job' = [job EXCEPT ![w] = h]
      /\ handle' = [handle EXCEPT ![h] = "running"]
      /\ UNCHANGED <<stop, cpc, dtor, enqueues>>
  BY <1>1 DEF Take
<1>3. queue # <<>> /\ queue \in Seq(Handle) /\ queue' = Tail(queue)
  BY DEF IInv, TypeOK, Take
<1>4. \A v \in Worker : job[v] # h
  BY <1>1, PoolAssumption DEF IInv, HandleOnce
<1>5. TypeOK'
  <2>1. queue' \in Seq(Handle) /\ (MaxQueue > 0 => Len(queue') <= MaxQueue)
    <3>1. queue' \in Seq(Handle) /\ Len(queue') = Len(queue) - 1 /\ Len(queue) \in Nat
      BY <1>3, TailFacts
    <3>2. QED
      BY <3>1, PoolAssumption DEF IInv, TypeOK
  <2>2. QED
    BY <1>2, <2>1 DEF IInv, TypeOK
<1>6. HandleOnce'
  <2>1. Holds(queue, handle)
    BY DEF IInv, HandleOnce, Holds
  <2>2. handle'[h] = "running" /\ \A x \in Handle \ {h} : handle'[x] = handle[x]
    BY <1>2 DEF IInv, TypeOK
  <2>3. Holds(queue', handle')
    BY <1>1, <1>3, <2>1, <2>2, PopHolds
  <2>4. /\ job'[w] = h /\ wpc'[w] = "run"
        /\ \A v \in Worker \ {w} : job'[v] = job[v] /\ wpc'[v] = wpc[v]
        /\ \A v \in Worker : job[v] \in Handle \cup {NoHandle}
    BY <1>2 DEF IInv, TypeOK
  <2>5. \A v \in Worker : wpc'[v] = "run" => job'[v] # NoHandle
    BY <2>4, PoolAssumption DEF IInv, HandleOnce
  <2>6. \A v \in Worker : job'[v] # NoHandle => handle'[job'[v]] = "running"
    BY <1>4, <2>2, <2>4 DEF IInv, HandleOnce
  <2>7. \A u, v \in Worker : job'[u] = job'[v] /\ job'[u] # NoHandle => u = v
    BY <1>4, <2>4 DEF IInv, HandleOnce
  <2>8. QED
    BY <2>3, <2>5, <2>6, <2>7 DEF HandleOnce, Holds
<1>7. NoLostWakeup'
  BY <1>2 DEF IInv, TypeOK, NoLostWakeup
<1>8. Jobs'
  <2>1. job[w] = NoHandle
    BY <1>2 DEF IInv, Jobs
  <2>2. /\ job'[w] = h /\ wpc'[w] = "run"
        /\ \A v \in Worker \ {w} : job'[v] = job[v] /\ wpc'[v] = wpc[v]
        /\ \A x \in Handle \ {h} : handle'[x] = handle[x]
    BY <1>2 DEF IInv, TypeOK
  <2>3. ASSUME NEW x \in Handle, handle'[x] = "running"
        PROVE  \E v \in Worker : job'[v] = x
    <3>1. CASE x = h
      BY <2>2, <3>1
    <3>2. CASE x # h
      <4>1. PICK v \in Worker : job[v] = x
        BY <2>2, <2>3, <3>2 DEF IInv, Jobs
      <4>2. v # w
        BY <2>1, <4>1, PoolAssumption
      <4>3. QED
        BY <2>2, <4>1, <4>2
    <3>3. QED
      BY <3>1, <3>2
  <2>4. QED
    BY <2>2, <2>3 DEF IInv, Jobs
<1>9. Stopping'
  BY <1>2 DEF IInv, TypeOK, Stopping
<1>10. Attended'
  BY <1>2 DEF IInv, TypeOK, Attended
<1>11. QED
  BY <1>5, <1>6, <1>7, <1>8, <1>9, <1>10 DEF IInv

\* resume() returns: the coroutine is nobody's job any more.
LEMMA YieldInv == ASSUME IInv, NEW w \in Worker, Yield(w) PROVE IInv'
<1>1. PICK h \in Handle : h = job[w] /\ handle[h] = "running"
  BY DEF IInv, TypeOK, HandleOnce, Yield
<1>2. /\ wpc[w] = "run" /\ wpc' = [wpc EXCEPT ![w] = "check"]
      /\ job' = [job EXCEPT ![w] = NoHandle]
      /\ handle' = [handle EXCEPT ![h] = "suspended"]
      /\ UNCHANGED <<queue, stop, cpc, dtor, enqueues>>
  BY <1>1 DEF Yield
<1>3. \A v \in Worker \ {w} : job[v] # h
  BY <1>1, PoolAssumption DEF IInv, HandleOnce
<1>4. TypeOK'
  BY <1>2 DEF IInv, TypeOK
<1>5. HandleOnce'
  BY <1>1, <1>2, <1>3 DEF IInv, TypeOK, HandleOnce
<1>6. NoLostWakeup' /\ Attended'
  BY <1>2 DEF IInv, TypeOK, NoLostWakeup, Attended
<1>7. Jobs'
  BY <1>1, <1>2, <1>3 DEF IInv, TypeOK, Jobs, HandleOnce
<1>8. Stopping'
  BY <1>2 DEF IInv, TypeOK, Stopping
<1>9. QED
  BY <1>4, <1>5, <1>6, <1>7, <1>8 DEF IInv

\* The coroutine schedules itself and is nobody's job until it is popped.
LEMMA RescheduleInv == ASSUME IInv, NEW w \in Worker, Reschedule(w) PROVE IInv'
<1>1. PICK h \in Handle : h = job[w] /\ handle[h] = "running"
  BY DEF IInv, TypeOK, HandleOnce, Reschedule
<1>2. /\ wpc[w] = "run" /\ job' = [job EXCEPT ![w] = NoHandle]
      /\ UNCHANGED <<stop, cpc, dtor>>
  BY DEF Reschedule
<1>3. \A v \in Worker \ {w} : job[v] # h
  BY <1>1, PoolAssumption DEF IInv, HandleOnce
<1>4. \/ Accept(h) /\ wpc' = [wpc EXCEPT ![w] = "notify"]
      \/ Drop(h) /\ wpc' = [wpc EXCEPT ![w] = "check"]
  BY <1>1 DEF Reschedule
<1>5. /\ queue' \in Seq(Handle) /\ (MaxQueue > 0 => Len(queue') <= MaxQueue)
      /\ enqueues' \in [Handle -> 0..MaxEnqueues]
      /\ Holds(queue', handle')
      /\ \E s \in {"queued", "dropped"} : handle' = [handle EXCEPT ![h] = s]
  BY <1>1, <1>4, AcceptFacts, DropFacts DEF IInv, TypeOK
<1>6. \E p \in {"notify", "check"} : wpc' = [wpc EXCEPT ![w] = p]
  BY <1>4
<1>7. TypeOK'
  BY <1>2, <1>5, <1>6 DEF IInv, TypeOK
<1>8. /\ job'[w] = NoHandle /\ wpc'[w] \in {"notify", "check"}
      /\ \A v \in Worker \ {w} : job'[v] = job[v] /\ wpc'[v] = wpc[v]
      /\ handle'[h] # "running" /\ \A x \in Handle \ {h} : handle'[x] = handle[x]
      /\ \A v \in Worker : job[v] \in Handle \cup {NoHandle}
  BY <1>2, <1>5, <1>6 DEF IInv, TypeOK
<1>9. HandleOnce'
  BY <1>3, <1>5, <1>8 DEF IInv, HandleOnce, Holds
<1>10. NoLostWakeup' /\ Attended'
  BY <1>2, <1>8 DEF IInv, NoLostWakeup, Attended
<1>11. Jobs'
  BY <1>1, <1>8 DEF IInv, Jobs
<1>12. Stopping'
  BY <1>2, <1>8 DEF IInv, Stopping
<1>13. QED
  BY <1>7, <1>9, <1>10, <1>11, <1>12 DEF IInv

\* A running coroutine starts another one.
LEMMA SpawnInv == ASSUME IInv, NEW w \in Worker, NEW h \in Handle, Spawn(w, h) PROVE IInv'
<1>1. /\ wpc[w] = "run" /\ handle[h] = "suspended"
      /\ UNCHANGED <<stop, job, cpc, dtor>>
  BY DEF Spawn
<1>2. \A v \in Worker : job[v] # h
  BY <1>1, PoolAssumption DEF IInv, HandleOnce
<1>3. /\ queue' \in Seq(Handle) /\ (MaxQueue > 0 => Len(queue') <= MaxQueue)
      /\ enqueues' \in [Handle -> 0..MaxEnqueues]
      /\ Holds(queue', handle')
      /\ \E s \in {"queued", "dropped"} : handle' = [handle EXCEPT ![h] = s]
  BY <1>1, AcceptFacts, DropFacts DEF IInv, TypeOK, Spawn
<1>4. \E p \in {"notify", "run"} : wpc' = [wpc EXCEPT ![w] = p]
  BY <1>1 DEF IInv, TypeOK, Spawn
<1>5. TypeOK'
  BY <1>1, <1>3, <1>4 DEF IInv, TypeOK
<1>6. /\ wpc'[w] \in {"notify", "run"}
      /\ \A v \in Worker \ {w} : wpc'[v] = wpc[v]
      /\ handle'[h] # "running" /\ \A x \in Handle \ {h} : handle'[x] = handle[x]
      /\ \A v \in Worker : job[v] \in Handle \cup {NoHandle}
  BY <1>3, <1>4 DEF IInv, TypeOK
<1>7. HandleOnce'
  BY <1>1, <1>2, <1>3, <1>6 DEF IInv, HandleOnce, Holds
<1>8. NoLostWakeup' /\ Attended'
  BY <1>1, <1>6 DEF IInv, NoLostWakeup, Attended
<1>9. Jobs'
  BY <1>1, <1>6 DEF IInv, Jobs
<1>10. Stopping'
  BY <1>1, <1>6 DEF IInv, Stopping
<1>11. QED
  BY <1>5, <1>7, <1>8, <1>9, <1>10 DEF IInv

\* notify_one on a worker: this worker is awake and will look at the queue.
LEMMA WorkerNotifyInv == ASSUME IInv, NEW w \in Worker, WorkerNotify(w) PROVE IInv'
<1>1. wpc[w] = "notify" /\ UNCHANGED <<queue, stop, handle, job, cpc, dtor, enqueues>>
  BY DEF WorkerNotify
<1>2. PICK p \in {"check", "run"} :
        /\ p = (IF job[w] = NoHandle THEN "check" ELSE "run")
        /\ \/ wpc' = [wpc EXCEPT ![w] = p]
           \/ \E v \in Worker : /\ [wpc EXCEPT ![w] = p][v] = "asleep"
                                /\ wpc' = [[wpc EXCEPT ![w] = p] EXCEPT ![v] = "check"]
  BY DEF WorkerNotify, NotifyOne
<1>3. /\ wpc' \in [Worker -> {"check", "asleep", "run", "notify", "exited"}]
      /\ wpc'[w] = p
      /\ \A v \in Worker \ {w} : wpc'[v] = wpc[v] \/ (wpc[v] = "asleep" /\ wpc'[v] = "check")
  BY <1>1, <1>2, SMTT(30) DEF IInv, TypeOK
<1>4. TypeOK'
  BY <1>1, <1>3 DEF IInv, TypeOK
<1>5. HandleOnce' /\ Jobs'
  BY <1>1, <1>2, <1>3 DEF IInv, HandleOnce, Jobs
<1>6. NoLostWakeup' /\ Attended'
  BY <1>1, <1>3 DEF IInv, NoLostWakeup, Attended
<1>7. Stopping'
  BY <1>1, <1>3 DEF IInv, Stopping
<1>8. QED
  BY <1>4, <1>5, <1>6, <1>7 DEF IInv

\* The destructor.
LEMMA SetStopInv == ASSUME IInv, SetStop PROVE IInv'
<1>1. TypeOK' /\ Attended'
  BY DEF IInv, TypeOK, Attended, SetStop
<1>2. HandleOnce' /\ Jobs'
  BY DEF IInv, HandleOnce, Jobs, SetStop
<1>3. NoLostWakeup'
  BY DEF IInv, NoLostWakeup, SetStop
<1>4. Stopping'
  BY DEF IInv, Stopping, SetStop
<1>5. QED
  BY <1>1, <1>2, <1>3, <1>4 DEF IInv

\* The destructor's notify_all keeps the invariant.
LEMMA NotifyAllInv == ASSUME IInv, NotifyAll PROVE IInv'
<1>1. \A w \in Worker : wpc'[w] # "asleep" /\ (wpc'[w] = wpc[w] \/ (wpc[w] = "asleep" /\ wpc'[w] = "check"))
  BY DEF NotifyAll
<1>2. TypeOK'
  BY DEF IInv, TypeOK, NotifyAll
<1>3. HandleOnce' /\ Jobs'
  BY <1>1 DEF IInv, HandleOnce, Jobs, NotifyAll
<1>4. Attended' /\ Stopping'
  BY <1>1 DEF IInv, Attended, Stopping, NotifyAll
<1>5. NoLostWakeup'
  BY <1>1, <1>4 DEF NoLostWakeup, Attended
<1>6. QED
  BY <1>2, <1>3, <1>4, <1>5 DEF IInv

\* The destructor's join keeps the invariant.
LEMMA JoinInv == ASSUME IInv, Join PROVE IInv'
<1>1. TypeOK' /\ Attended'
  BY DEF IInv, TypeOK, Attended, Join
<1>2. HandleOnce' /\ Jobs'
  BY DEF IInv, HandleOnce, Jobs, Join
<1>3. NoLostWakeup'
  BY DEF IInv, NoLostWakeup, Attended, Join
<1>4. Stopping'
  BY DEF IInv, Stopping, Join
<1>5. QED
  BY <1>1, <1>2, <1>3, <1>4 DEF IInv

-----------------------------------------------------------------------------
(***************************************************************************)
(* The theorems.                                                           *)
(***************************************************************************)

\* The pool starts in the invariant.
LEMMA InitInv == ASSUME Init PROVE IInv
<1>1. TypeOK
  <2>1. queue \in Seq(Handle) /\ (MaxQueue > 0 => Len(queue) <= MaxQueue)
    BY PoolAssumption DEF Init
  <2>2. enqueues \in [Handle -> 0..MaxEnqueues]
    BY PoolAssumption DEF Init
  <2>3. QED
    BY <2>1, <2>2, Zenon DEF Init, TypeOK
<1>2. HandleOnce
  BY DEF Init, HandleOnce
<1>3. NoLostWakeup /\ Jobs /\ Stopping /\ Attended
  BY DEF Init, NoLostWakeup, Jobs, Stopping, Attended
<1>4. QED
  BY <1>1, <1>2, <1>3 DEF IInv

\* A step that changes nothing keeps the invariant.
LEMMA StutterInv == ASSUME IInv, UNCHANGED vars PROVE IInv'
<1>1. TypeOK' /\ HandleOnce'
  BY DEF IInv, TypeOK, HandleOnce, vars
<1>2. NoLostWakeup' /\ Jobs' /\ Stopping' /\ Attended'
  BY DEF IInv, NoLostWakeup, Notifying, Jobs, Stopping, Attended, vars
<1>3. QED
  BY <1>1, <1>2 DEF IInv

\* Every step of a worker, a client or the destructor keeps the invariant.
LEMMA NextInv == ASSUME IInv, [Next]_vars PROVE IInv'
<1>1. ASSUME NEW c \in Client, ClientNotify(c) \/ \E h \in Handle : ClientEnqueue(c, h)
      PROVE  IInv'
  BY <1>1, ClientNotifyInv, ClientEnqueueInv
<1>2. ASSUME NEW w \in Worker, WorkerStep(w) \/ SpuriousWakeup(w) PROVE IInv'
  BY <1>2, SleepInv, ExitInv, TakeInv, RescheduleInv, YieldInv, SpawnInv,
     WorkerNotifyInv, SpuriousWakeupInv DEF WorkerStep, CoroutineStep
<1>3. CASE SetStop \/ NotifyAll \/ Join
  BY <1>3, SetStopInv, NotifyAllInv, JoinInv
<1>4. CASE Destroyed \/ UNCHANGED vars
  BY <1>4, StutterInv DEF Destroyed
<1>5. QED
  BY <1>1, <1>2, <1>3, <1>4 DEF Next

\* IInv holds in every state of the pool, for any workers, clients and handles.
THEOREM Invariance == Spec => []IInv
<1>1. Init => IInv
  BY InitInv
<1>2. IInv /\ [Next]_vars => IInv'
  BY NextInv
<1>3. QED
  BY <1>1, <1>2, PTL DEF Spec

\* The pool's state stays in its type; the queue never exceeds max_queue.
THEOREM TypeCorrect == Spec => []TypeOK
<1>1. IInv => TypeOK
  BY DEF IInv
<1>2. QED
  BY <1>1, Invariance, PTL

\* No coroutine is queued twice, resumed by two workers or lost by the pool.
THEOREM HandleResumedOnce == Spec => []HandleOnce
<1>1. IInv => HandleOnce
  BY DEF IInv
<1>2. QED
  BY <1>1, Invariance, PTL

\* notify_one after the unlock loses no wake-up, whoever enqueues.
THEOREM WakeupNotLost == Spec => []NoLostWakeup
<1>1. IInv => NoLostWakeup
  BY DEF IInv
<1>2. QED
  BY <1>1, Invariance, PTL

\* The destructor leaves no coroutine queued or running.
THEOREM PoolDrained == Spec => []DrainedAtExit
<1>1. IInv => DrainedAtExit
  <2>1. SUFFICES ASSUME IInv, dtor = "destroyed" PROVE DrainedAtExit
    BY DEF DrainedAtExit
  <2>2. \A w \in Worker : wpc[w] = "exited" /\ job[w] = NoHandle
    BY <2>1 DEF IInv, Stopping, Jobs
  <2>3. queue = <<>>
    BY <2>1, <2>2 DEF IInv, Attended
  <2>4. \A h \in Handle : handle[h] # "queued"
    BY <2>1, <2>3 DEF IInv, HandleOnce
  <2>5. \A h \in Handle : handle[h] # "running"
    BY <2>1, <2>2, PoolAssumption DEF IInv, Jobs
  <2>6. QED
    BY <2>1, <2>3, <2>4, <2>5 DEF IInv, TypeOK, DrainedAtExit
<1>2. QED
  BY <1>1, Invariance, PTL
=============================================================================
