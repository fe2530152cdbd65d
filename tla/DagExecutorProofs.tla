-------------------------- MODULE DagExecutorProofs -------------------------
(***************************************************************************)
(* Theorems about DagExecutor for every graph, every number of nodes and    *)
(* workers and any number of calls of Execute(): the inductive invariant,   *)
(* that each step keeps it, and what follows.                               *)
(***************************************************************************)
EXTENDS DagExecutor, FiniteSetTheorems, TLAPS

-----------------------------------------------------------------------------
(***************************************************************************)
(* The inductive invariant.                                                *)
(***************************************************************************)
Active == {"await", "run", "resumed", "signal", "walk", "fulfil"}
Unstarted == {"new", "queued", "await", "suspended"}
InRun == {"run", "hop", "resumed"}
Uncounted == {n \in Node : pc[n] \notin Ended}

\* A coroutine has a resumer exactly while it holds a thread.
Threads == \A n \in Node : resumer[n] # None <=> pc[n] \in Active

\* The promise is set only when every coroutine has ended.
Counting ==
    /\ PromiseOnce
    /\ exec # "idle" /\ promise => \A n \in Node : pc[n] = "done"

\* The loop of Execute() has spawned or skipped exactly the nodes before pos.
Loop ==
    /\ \A n \in Node : pc[n] # "done" => n \in Nodes /\ exec # "idle"
    /\ exec = "loop" => pos \in 1..(Len(graph.order) + 1)
    /\ \A i \in DOMAIN graph.order :
          pc[graph.order[i]] = "new" <=> exec = "loop" /\ pos <= i

\* The status follows the coroutine.
StatusOf(n) ==
    /\ pc[n] \in Unstarted => status[n] = "kPending"
    /\ pc[n] \in InRun => status[n] = "kRunning"
    /\ pc[n] \in {"signal", "walk", "fulfil"} => status[n] \in Final
    /\ pc[n] = "done" /\ n \in Nodes /\ exec # "idle" => status[n] \in Final
    /\ pc[n] \in {"queued", "await", "suspended"} \cup InRun => n \notin disabled
Statuses == \A n \in Node : StatusOf(n)

\* A set event means that the node is final and has published its status.
EventOf(n) ==
    /\ event[n] => pc[n] \in {"walk", "fulfil", "done"} /\ status[n] \in Final
    /\ pc[n] \in {"walk", "fulfil"} => event[n]
Events == \A n \in Node : EventOf(n)

\* The dependencies a coroutine has passed are set.
Awaited ==
    \A n \in Node : pc[n] \in Unstarted =>
        \A j \in DOMAIN graph.deps[n] : j < idx[n] => event[graph.deps[n][j]]

IInv ==
    /\ TypeOK
    /\ ResumedOnce
    /\ Threads
    /\ Counting
    /\ Loop
    /\ Statuses
    /\ Events
    /\ Awaited

-----------------------------------------------------------------------------
(***************************************************************************)
(* Lemmas about graphs, queues and the parts of the invariant that most    *)
(* steps leave alone.                                                      *)
(***************************************************************************)

\* What GraphBuilder guarantees of a graph.
LEMMA GraphFacts ==
    ASSUME TypeOK
    PROVE  /\ graph.order \in Seq(Node)
           /\ \A i, j \in DOMAIN graph.order : graph.order[i] = graph.order[j] => i = j
           /\ graph.deps \in [Node -> Seq(Node)]
           /\ \A n \in Node : \A i \in DOMAIN graph.deps[n] : graph.deps[n][i] \in Nodes
           /\ Nodes \subseteq Node
BY ExecutorAssumption DEF TypeOK, GraphOK, Nodes

\* Enqueue: push_back.
LEMMA AppendFacts ==
    ASSUME NEW q \in Seq(Node), NEW x \in Node
    PROVE  /\ Append(q, x) \in Seq(Node)
           /\ DOMAIN q = 1..Len(q) /\ Len(q) \in Nat
           /\ DOMAIN Append(q, x) = 1..(Len(q) + 1)
           /\ \A i \in 1..Len(q) : Append(q, x)[i] = q[i]
           /\ Append(q, x)[Len(q) + 1] = x
OBVIOUS

\* WorkerLoop: front and pop_front.
LEMMA TailFacts ==
    ASSUME NEW q \in Seq(Node), q # <<>>
    PROVE  /\ Head(q) \in Node /\ 1 \in DOMAIN q /\ Head(q) = q[1]
           /\ Tail(q) \in Seq(Node)
           /\ DOMAIN q = 1..Len(q) /\ Len(q) \in Nat
           /\ DOMAIN Tail(q) = 1..(Len(q) - 1)
           /\ \A i \in 1..(Len(q) - 1) : Tail(q)[i] = q[i + 1]
OBVIOUS

\* A queue that is not empty has a first element.
LEMMA NonEmpty ==
    ASSUME NEW q \in Seq(Node), q # <<>>
    PROVE  1 \in DOMAIN q /\ q[1] \in Node
OBVIOUS

\* A handle that was not in a queue is in it once after a push ...
LEMMA PushOnce ==
    ASSUME NEW q \in Seq(Node), NEW x \in Node, NEW p, NEW p2, NEW where,
           \A i, j \in DOMAIN q : q[i] = q[j] => i = j,
           \A i \in DOMAIN q : p[q[i]] = where,
           p[x] # where, p2[x] = where,
           \A m \in Node : p[m] = where => p2[m] = where
    PROVE  /\ Append(q, x) \in Seq(Node)
           /\ \A i, j \in DOMAIN Append(q, x) : Append(q, x)[i] = Append(q, x)[j] => i = j
           /\ \A i \in DOMAIN Append(q, x) : p2[Append(q, x)[i]] = where
<1>1. \A i \in DOMAIN q : q[i] \in Node /\ q[i] # x /\ p2[q[i]] = where
  OBVIOUS
<1>2. QED
  BY <1>1, AppendFacts

\* ... and no longer after a pop.
LEMMA PopOnce ==
    ASSUME NEW q \in Seq(Node), q # <<>>, NEW p, NEW p2, NEW where,
           \A i, j \in DOMAIN q : q[i] = q[j] => i = j,
           \A i \in DOMAIN q : p[q[i]] = where,
           \A m \in Node : p[m] = where /\ m # Head(q) => p2[m] = where
    PROVE  /\ Tail(q) \in Seq(Node)
           /\ \A i, j \in DOMAIN Tail(q) : Tail(q)[i] = Tail(q)[j] => i = j
           /\ \A i \in DOMAIN Tail(q) : p2[Tail(q)[i]] = where
<1>1. \A i \in DOMAIN Tail(q) : /\ i \in Nat /\ i + 1 \in DOMAIN q /\ i + 1 # 1
                                /\ Tail(q)[i] = q[i + 1] /\ q[i + 1] \in Node
  BY TailFacts
<1>2. \A i \in DOMAIN Tail(q) : Tail(q)[i] # Head(q)
  BY <1>1, TailFacts
<1>3. \A i, j \in DOMAIN Tail(q) : Tail(q)[i] = Tail(q)[j] => i = j
  <2>1. SUFFICES ASSUME NEW i \in DOMAIN Tail(q), NEW j \in DOMAIN Tail(q),
                        Tail(q)[i] = Tail(q)[j]
                 PROVE  i = j
    OBVIOUS
  <2>2. i + 1 = j + 1
    BY <1>1, <2>1
  <2>3. QED
    BY <1>1, <2>2
<1>4. QED
  BY <1>1, <1>2, <1>3, TailFacts

\* A step that moves no coroutine into or out of Ended leaves the count alone.
LEMMA CountingKept ==
    ASSUME Counting, UNCHANGED <<exec, remaining, promise>>,
           \A m \in Node : pc'[m] = pc[m] \/ (pc[m] \notin Ended /\ pc'[m] \notin Ended)
    PROVE  Counting'
<1>1. Uncounted' = Uncounted
  BY DEF Uncounted
<1>2. (exec # "idle" => remaining = Cardinality(Uncounted))'
  BY <1>1, ZenonT(60) DEF Counting, PromiseOnce, Uncounted
<1>3. QED
  BY <1>2 DEF Counting, PromiseOnce, Ended, Uncounted

\* A step of a coroutine that has been spawned leaves the loop of Execute alone.
LEMMA LoopKept ==
    ASSUME TypeOK, Loop, UNCHANGED <<graph, exec, pos>>,
           \A m \in Node : \/ pc'[m] = pc[m]
                           \/ pc[m] \notin {"new", "done"} /\ pc'[m] # "new"
    PROVE  Loop'
<1>1. \A i \in DOMAIN graph.order : graph.order[i] \in Node
  BY GraphFacts
<1>2. QED
  BY <1>1 DEF Loop, Nodes

-----------------------------------------------------------------------------
(***************************************************************************)
(* Every step preserves the invariant: the steps of Execute().             *)
(***************************************************************************)

\* SpawnNode: the node leaves "new" for the IO queue.
LEMMA SpawnInv == ASSUME IInv, Spawn PROVE IInv'
<1>1. PICK n \in Node : /\ n = graph.order[pos] /\ n \in Nodes
                        /\ pos \in DOMAIN graph.order
                        /\ pc[n] = "new" /\ n \notin disabled
  BY GraphFacts DEF IInv, Spawn, Loop, Nodes
<1>2. /\ pc' = [pc EXCEPT ![n] = "queued"] /\ ioq' = Append(ioq, n)
      /\ exec = "loop" /\ pos' = pos + 1
      /\ UNCHANGED <<graph, disabled, status, event, waiters, walk, idx, resumer,
                     computeq, remaining, promise, exec, runs>>
  BY <1>1 DEF Spawn
<1>3. TypeOK'
  BY <1>1, <1>2, AppendFacts DEF IInv, TypeOK, Nodes
<1>4. AwaitedOnce'
  BY <1>1, <1>2 DEF IInv, TypeOK, ResumedOnce, AwaitedOnce, Dep
<1>5. QueuedOnce(ioq, "queued")'
  <2>1. /\ ioq \in Seq(Node) /\ pc'[n] = "queued"
        /\ \A m \in Node : pc[m] = "queued" => pc'[m] = "queued"
    BY <1>1, <1>2 DEF IInv, TypeOK
  <2>2. QED
    BY <1>1, <1>2, <2>1, PushOnce DEF IInv, ResumedOnce, QueuedOnce
<1>6. QueuedOnce(computeq, "hop")'
  BY <1>1, <1>2 DEF IInv, TypeOK, ResumedOnce, QueuedOnce
<1>7. Threads'
  BY <1>1, <1>2 DEF IInv, TypeOK, Threads, Active
<1>8. Counting'
  BY <1>1, <1>2, CountingKept DEF IInv, TypeOK, Ended
<1>9. Loop'
  <2>seq. graph.order \in Seq(Node)
    BY GraphFacts DEF IInv
  <2>1. \A i \in DOMAIN graph.order :
           graph.order[i] \in Node /\ (graph.order[i] = n <=> i = pos)
    BY <1>1, GraphFacts DEF IInv
  <2>2. \A i \in DOMAIN graph.order :
           pc'[graph.order[i]] = "new" <=> pos + 1 <= i
    <3>1. DOMAIN graph.order \subseteq Nat /\ pos \in Nat
      BY <1>1, <2>seq
    <3>2. /\ \A m \in Node \ {n} : pc'[m] = pc[m]
          /\ pc'[n] = "queued"
      BY <1>2 DEF IInv, TypeOK
    <3>3. Loop
      BY DEF IInv
    <3>4. QED
      BY <1>2, <2>1, <3>1, <3>2, <3>3 DEF Loop
  <2>3. pos + 1 \in 1..(Len(graph.order) + 1)
    BY <1>1, <2>seq
  <2>4. QED
    BY <1>1, <1>2, <2>2, <2>3 DEF IInv, TypeOK, Loop, Nodes
<1>10. Statuses'
  BY <1>1, <1>2 DEF IInv, TypeOK, Statuses, StatusOf, Unstarted, InRun, Nodes
<1>11. Events'
  BY <1>1, <1>2 DEF IInv, TypeOK, Events, EventOf
<1>12. Awaited'
  BY <1>1, <1>2 DEF IInv, TypeOK, Awaited, Unstarted
<1>13. QED
  BY <1>3, <1>4, <1>5, <1>6, <1>7, <1>8, <1>9, <1>10, <1>11, <1>12 DEF IInv, ResumedOnce

\* A disabled node: final at once, and Main goes on to signal it.
LEMMA SkipInv == ASSUME IInv, Skip PROVE IInv'
<1>1. PICK n \in Node : /\ n = graph.order[pos] /\ n \in Nodes
                        /\ pos \in DOMAIN graph.order
                        /\ pc[n] = "new"
  BY GraphFacts DEF IInv, Skip, Loop, Nodes
<1>2. /\ pc' = [pc EXCEPT ![n] = "signal"]
      /\ status' = [status EXCEPT ![n] = "kSkipped"]
      /\ resumer' = [resumer EXCEPT ![n] = Main]
      /\ exec = "loop" /\ pos' = pos + 1
      /\ UNCHANGED <<graph, disabled, event, waiters, walk, idx, ioq, computeq,
                     remaining, promise, exec, runs>>
  BY <1>1 DEF Skip
<1>3. TypeOK'
  BY <1>1, <1>2 DEF IInv, TypeOK, Nodes, Final
<1>4. ResumedOnce'
  BY <1>1, <1>2 DEF IInv, TypeOK, ResumedOnce, AwaitedOnce, QueuedOnce, Dep
<1>5. Threads'
  BY <1>1, <1>2, ExecutorAssumption DEF IInv, TypeOK, Threads, Active
<1>6. Counting'
  BY <1>1, <1>2, CountingKept DEF IInv, TypeOK, Ended
<1>7. Loop'
  <2>1. \A i \in DOMAIN graph.order :
           graph.order[i] \in Node /\ (graph.order[i] = n <=> i = pos)
    BY <1>1, GraphFacts DEF IInv
  <2>2. \A i \in DOMAIN graph.order :
           pc'[graph.order[i]] = "new" <=> pos + 1 <= i
    <3>1. graph.order \in Seq(Node) /\ pos \in Nat
      BY GraphFacts DEF IInv, TypeOK
    <3>2. (\A m \in Node \ {n} : pc'[m] = pc[m]) /\ pc'[n] = "signal"
      BY <1>2 DEF IInv, TypeOK
    <3>3. QED
      BY <1>2, <2>1, <3>1, <3>2 DEF IInv, Loop
  <2>3. pos + 1 \in 1..(Len(graph.order) + 1)
    <3>1. graph.order \in Seq(Node) /\ pos \in Nat
      BY GraphFacts DEF IInv, TypeOK
    <3>2. QED
      BY <1>1, <3>1
  <2>4. QED
    BY <1>1, <1>2, <2>2, <2>3 DEF IInv, TypeOK, Loop, Nodes
<1>8. Statuses'
  BY <1>1, <1>2 DEF IInv, TypeOK, Statuses, StatusOf, Unstarted, InRun, Nodes, Final
<1>9. Events'
  BY <1>1, <1>2 DEF IInv, TypeOK, Events, EventOf, Final
<1>10. Awaited'
  BY <1>1, <1>2 DEF IInv, TypeOK, Awaited, Unstarted
<1>11. QED
  BY <1>3, <1>4, <1>5, <1>6, <1>7, <1>8, <1>9, <1>10, SMTT(30) DEF IInv

\* The loop is over: every node has been spawned or skipped.
LEMMA WaitInv == ASSUME IInv, Wait PROVE IInv'
<1>1. TypeOK'
  BY DEF IInv, TypeOK, Wait, Nodes
<1>2. ResumedOnce'
  BY DEF IInv, ResumedOnce, AwaitedOnce, QueuedOnce, Dep, Wait
<1>3. Threads' /\ Events' /\ Awaited'
  BY DEF IInv, Threads, Events, EventOf, Awaited, Wait
<1>4. Counting'
  BY DEF IInv, Counting, PromiseOnce, Wait
<1>5. Loop'
  BY GraphFacts DEF IInv, TypeOK, Loop, Nodes, Wait
<1>6. Statuses'
  BY DEF IInv, Statuses, StatusOf, Nodes, Wait
<1>7. QED
  BY <1>1, <1>2, <1>3, <1>4, <1>5, <1>6 DEF IInv

\* The promise is set, so every coroutine has ended when Execute returns.
LEMMA ReturnInv == ASSUME IInv, Return PROVE IInv'
<1>1. \A n \in Node : pc[n] = "done"
  BY DEF IInv, Counting, Return
<1>2. TypeOK'
  BY ZenonT(30) DEF IInv, TypeOK, Return, Nodes
<1>3. ResumedOnce'
  BY DEF IInv, ResumedOnce, AwaitedOnce, QueuedOnce, Dep, Return
<1>4. Threads' /\ Events' /\ Awaited'
  BY DEF IInv, Threads, Events, EventOf, Awaited, Return
<1>5. Counting'
  BY <1>1 DEF IInv, Counting, PromiseOnce, Return
<1>6. Loop'
  BY <1>1, GraphFacts DEF IInv, Loop, Nodes, Return
<1>7. Statuses'
  BY DEF IInv, Statuses, StatusOf, Nodes, Return
<1>8. QED
  BY <1>2, <1>3, <1>4, <1>5, <1>6, <1>7 DEF IInv

-----------------------------------------------------------------------------
(***************************************************************************)
(* The steps of the pools.                                                 *)
(***************************************************************************)

\* An io worker takes the front of its queue.
LEMMA TakeIoInv == ASSUME IInv, NEW w \in IoWorker, TakeIo(w) PROVE IInv'
<1>1. PICK n \in Node : /\ n = Head(ioq) /\ n = ioq[1] /\ 1 \in DOMAIN ioq
                        /\ pc[n] = "queued"
  BY TailFacts DEF IInv, TypeOK, ResumedOnce, QueuedOnce, TakeIo
<1>2. /\ pc' = [pc EXCEPT ![n] = "await"]
      /\ resumer' = [resumer EXCEPT ![n] = w]
      /\ UNCHANGED <<graph, disabled, status, event, waiters, walk, idx, computeq,
                     remaining, promise, exec, pos, runs>>
  BY <1>1 DEF TakeIo
<1>pop. ioq # <<>> /\ ioq' = Tail(ioq)
  BY DEF TakeIo
<1>3. TypeOK'
  <2>1. ioq' \in Seq(Node)
    BY <1>pop, TailFacts DEF IInv, TypeOK
  <2>2. resumer' \in [Node -> Node \cup IoWorker \cup ComputeWorker \cup {Main, None}]
    BY <1>2 DEF IInv, TypeOK
  <2>3. pc' \in [Node -> {"new", "queued", "await", "suspended", "run", "hop",
                         "resumed", "signal", "walk", "fulfil", "done"}]
    BY <1>2 DEF IInv, TypeOK
  <2>4. Nodes' = Nodes
    BY <1>2, Zenon DEF Nodes
  <2>5. QED
    BY <1>2, <2>1, <2>2, <2>3, <2>4 DEF IInv, TypeOK
<1>4. AwaitedOnce' /\ QueuedOnce(computeq, "hop")'
  BY <1>1, <1>2 DEF IInv, TypeOK, ResumedOnce, AwaitedOnce, QueuedOnce, Dep
<1>5. QueuedOnce(ioq, "queued")'
  <2>1. /\ ioq \in Seq(Node)
        /\ \A m \in Node : pc[m] = "queued" /\ m # Head(ioq) => pc'[m] = "queued"
    BY <1>1, <1>2 DEF IInv, TypeOK
  <2>2. /\ \A i, j \in DOMAIN ioq : ioq[i] = ioq[j] => i = j
        /\ \A i \in DOMAIN ioq : pc[ioq[i]] = "queued"
    BY DEF IInv, ResumedOnce, QueuedOnce
  <2>3. /\ \A i, j \in DOMAIN Tail(ioq) : Tail(ioq)[i] = Tail(ioq)[j] => i = j
        /\ \A i \in DOMAIN Tail(ioq) : pc'[Tail(ioq)[i]] = "queued"
    BY <1>pop, <2>1, <2>2, PopOnce
  <2>4. QED
    BY <1>pop, <2>3 DEF QueuedOnce
<1>6. Threads'
  BY <1>1, <1>2, ExecutorAssumption DEF IInv, TypeOK, Threads, Active
<1>7. Counting'
  BY <1>1, <1>2, CountingKept DEF IInv, TypeOK, Ended
<1>8. Loop'
  BY <1>1, <1>2, LoopKept DEF IInv, TypeOK
<1>9. Statuses'
  BY <1>1, <1>2 DEF IInv, TypeOK, Statuses, StatusOf, Unstarted, InRun, Nodes
<1>10. Events'
  BY <1>1, <1>2 DEF IInv, TypeOK, Events, EventOf
<1>11. Awaited'
  BY <1>1, <1>2 DEF IInv, TypeOK, Awaited, Unstarted
<1>12. QED
  BY <1>3, <1>4, <1>5, <1>6, <1>7, <1>8, <1>9, <1>10, <1>11, ZenonT(60) DEF IInv, ResumedOnce

\* A compute worker that takes a hopped coroutine keeps the invariant.
LEMMA TakeComputeInv == ASSUME IInv, NEW w \in ComputeWorker, TakeCompute(w) PROVE IInv'
<1>1. PICK n \in Node : /\ n = Head(computeq) /\ n = computeq[1] /\ 1 \in DOMAIN computeq
                        /\ pc[n] = "hop"
  BY TailFacts DEF IInv, TypeOK, ResumedOnce, QueuedOnce, TakeCompute
<1>2. /\ pc' = [pc EXCEPT ![n] = "resumed"]
      /\ resumer' = [resumer EXCEPT ![n] = w]
      /\ UNCHANGED <<graph, disabled, status, event, waiters, walk, idx, ioq,
                     remaining, promise, exec, pos, runs>>
  BY <1>1 DEF TakeCompute
<1>pop. computeq # <<>> /\ computeq' = Tail(computeq)
  BY DEF TakeCompute
<1>3. TypeOK'
  <2>1. computeq' \in Seq(Node)
    BY <1>pop, TailFacts DEF IInv, TypeOK
  <2>2. resumer' \in [Node -> Node \cup IoWorker \cup ComputeWorker \cup {Main, None}]
    BY <1>2 DEF IInv, TypeOK
  <2>3. pc' \in [Node -> {"new", "queued", "await", "suspended", "run", "hop",
                         "resumed", "signal", "walk", "fulfil", "done"}]
    BY <1>2 DEF IInv, TypeOK
  <2>4. Nodes' = Nodes
    BY <1>2 DEF Nodes
  <2>5. QED
    BY <1>2, <2>1, <2>2, <2>3, <2>4 DEF IInv, TypeOK
<1>4. AwaitedOnce' /\ QueuedOnce(ioq, "queued")'
  BY <1>1, <1>2 DEF IInv, TypeOK, ResumedOnce, AwaitedOnce, QueuedOnce, Dep
<1>5. QueuedOnce(computeq, "hop")'
  <2>1. /\ computeq \in Seq(Node)
        /\ \A m \in Node : pc[m] = "hop" /\ m # Head(computeq) => pc'[m] = "hop"
    BY <1>1, <1>2 DEF IInv, TypeOK
  <2>2. /\ \A i, j \in DOMAIN computeq : computeq[i] = computeq[j] => i = j
        /\ \A i \in DOMAIN computeq : pc[computeq[i]] = "hop"
    BY ZenonT(60) DEF IInv, ResumedOnce, QueuedOnce
  <2>3. /\ \A i, j \in DOMAIN Tail(computeq) : Tail(computeq)[i] = Tail(computeq)[j] => i = j
        /\ \A i \in DOMAIN Tail(computeq) : pc'[Tail(computeq)[i]] = "hop"
    BY <1>pop, <2>1, <2>2, PopOnce
  <2>4. QED
    BY <1>pop, <2>3 DEF QueuedOnce
<1>6. Threads'
  BY <1>1, <1>2, ExecutorAssumption DEF IInv, TypeOK, Threads, Active
<1>7. Counting'
  BY <1>1, <1>2, CountingKept DEF IInv, TypeOK, Ended
<1>8. Loop'
  BY <1>1, <1>2, LoopKept DEF IInv, TypeOK
<1>9. Statuses'
  BY <1>1, <1>2 DEF IInv, TypeOK, Statuses, StatusOf, Unstarted, InRun, Nodes
<1>10. Events'
  BY <1>1, <1>2 DEF IInv, TypeOK, Events, EventOf
<1>11. Awaited'
  BY <1>1, <1>2 DEF IInv, TypeOK, Awaited, Unstarted
<1>12. QED
  BY <1>3, <1>4, <1>5, <1>6, <1>7, <1>8, <1>9, <1>10, <1>11, ZenonT(60) DEF IInv, ResumedOnce

-----------------------------------------------------------------------------
(***************************************************************************)
(* The steps of a node's coroutine.                                        *)
(***************************************************************************)

\* The awaited event is set: one more dependency is known to be set.
LEMMA AwaitReadyInv == ASSUME IInv, NEW n \in Node, AwaitReady(n) PROVE IInv'
<1>1. TypeOK'
  <2>1. idx' \in [Node -> Nat \ {0}]
    <3>1. idx \in [Node -> Nat \ {0}] /\ idx[n] + 1 \in Nat \ {0}
      BY DEF IInv, TypeOK
    <3>2. QED
      BY <3>1 DEF AwaitReady
  <2>2. QED
    BY <2>1, ZenonT(30) DEF IInv, TypeOK, AwaitReady, Nodes
<1>2. ResumedOnce'
  <2>1. \A m \in Node : n \notin waiters[m] \cup walk[m]
    BY ZenonT(30) DEF IInv, ResumedOnce, AwaitedOnce, AwaitReady
  <2>2. \A m \in Node \ {n} : idx'[m] = idx[m]
    BY Zenon DEF IInv, TypeOK, AwaitReady
  <2>3. QED
    BY <2>1, <2>2 DEF IInv, TypeOK, ResumedOnce, AwaitedOnce, QueuedOnce, Dep, AwaitReady
<1>3. Threads' /\ Events'
  BY DEF IInv, Threads, Events, EventOf, AwaitReady
<1>4. Counting'
  <2>1. Counting /\ UNCHANGED <<exec, remaining, promise, pc>>
    BY Zenon DEF IInv, AwaitReady
  <2>2. QED
    BY <2>1, CountingKept, Zenon
<1>5. Loop' /\ Statuses'
  BY DEF IInv, Loop, Statuses, StatusOf, Nodes, AwaitReady
<1>6. Awaited'
  <2>1. \A j \in DOMAIN graph.deps[n] : j < idx[n] + 1 => j < idx[n] \/ j = idx[n]
    <3>1. graph.deps[n] \in Seq(Node) /\ idx[n] \in Nat
      BY GraphFacts, ZenonT(60) DEF IInv, TypeOK
    <3>2. QED
      BY <3>1
  <2>2. QED
    BY <2>1, SMTT(30) DEF IInv, TypeOK, Awaited, Unstarted, Dep, AwaitReady
<1>7. QED
  BY <1>1, <1>2, <1>3, <1>4, <1>5, <1>6 DEF IInv

\* The awaited event is not set: the coroutine joins its waiters.
LEMMA AwaitSuspendInv == ASSUME IInv, NEW n \in Node, AwaitSuspend(n) PROVE IInv'
<1>1. PICK d \in Node : /\ d = Dep(n) /\ ~event[d]
                        /\ idx[n] <= Len(graph.deps[n])
  <2>1. idx[n] <= Len(graph.deps[n]) /\ ~event[Dep(n)]
    BY Zenon DEF AwaitSuspend
  <2>2. graph.deps[n] \in Seq(Node) /\ idx[n] \in Nat \ {0}
    BY GraphFacts, ZenonT(60) DEF IInv, TypeOK
  <2>3. Dep(n) \in Node
    BY <2>1, <2>2 DEF Dep
  <2>4. QED
    BY <2>1, <2>3, Zenon
<1>2. /\ pc[n] = "await" /\ pc' = [pc EXCEPT ![n] = "suspended"]
      /\ resumer' = [resumer EXCEPT ![n] = None]
      /\ waiters' = [waiters EXCEPT ![d] = @ \cup {n}]
      /\ UNCHANGED <<graph, disabled, status, event, walk, idx, ioq, computeq,
                     remaining, promise, exec, pos, runs>>
  BY <1>1, ZenonT(60) DEF AwaitSuspend, LeaveThread
<1>3. TypeOK'
  BY <1>1, <1>2, ZenonT(30) DEF IInv, TypeOK, Nodes
<1>4. AwaitedOnce'
  <2>1. AwaitedOnce
    BY Zenon DEF IInv, ResumedOnce
  <2>2. pc'[n] = "suspended" /\ \A k \in Node \ {n} : pc'[k] = pc[k]
    BY <1>2, Zenon DEF IInv, TypeOK
  <2>3. waiters'[d] = waiters[d] \cup {n} /\ \A k \in Node \ {d} : waiters'[k] = waiters[k]
    BY <1>2, Zenon DEF IInv, TypeOK
  <2>4. (\A k \in Node : Dep(k)' = Dep(k)) /\ UNCHANGED <<graph, idx, walk, event>>
    BY <1>2, Zenon DEF Dep
  <2>5. ASSUME NEW m \in Node, NEW k \in Node, k \in waiters'[m] \cup walk'[m]
        PROVE  pc'[k] = "suspended" /\ idx[k] <= Len(graph.deps[k]) /\ Dep(k) = m
    <3>1. CASE k \in waiters[m] \cup walk[m]
      <4>1. pc[k] = "suspended" /\ idx[k] <= Len(graph.deps[k]) /\ Dep(k) = m
        BY <2>1, <3>1, Zenon DEF AwaitedOnce
      <4>2. QED
        BY <2>2, <4>1, Zenon
    <3>2. CASE k \notin waiters[m] \cup walk[m]
      <4>1. k = n /\ m = d
        BY <2>3, <2>4, <2>5, <3>2, Zenon
      <4>2. QED
        BY <1>1, <2>2, <4>1, Zenon
    <3>3. QED
      BY <3>1, <3>2
  <2>6. \A m \in Node : waiters'[m] # {} => ~event[m]
    BY <1>1, <2>1, <2>3, Zenon DEF AwaitedOnce
  <2>7. \A m \in Node : walk[m] # {} => pc'[m] = "walk"
    <3>1. walk[n] = {}
      BY <1>2, <2>1 DEF AwaitedOnce
    <3>2. QED
      BY <2>1, <2>2, <3>1, Zenon DEF AwaitedOnce
  <2>8. QED
    BY <2>4, <2>5, <2>6, <2>7, Zenon DEF AwaitedOnce
<1>5. QueuedOnce(ioq, "queued")' /\ QueuedOnce(computeq, "hop")'
  BY <1>1, <1>2 DEF IInv, TypeOK, ResumedOnce, QueuedOnce
<1>6. Threads'
  BY <1>1, <1>2 DEF IInv, TypeOK, Threads, Active
<1>7. Counting'
  BY <1>1, <1>2, CountingKept DEF IInv, TypeOK, Ended
<1>8. Loop'
  BY <1>1, <1>2, LoopKept DEF IInv, TypeOK
<1>9. Statuses'
  BY <1>1, <1>2 DEF IInv, TypeOK, Statuses, StatusOf, Unstarted, InRun, Nodes
<1>10. Events' /\ Awaited'
  BY <1>1, <1>2 DEF IInv, TypeOK, Events, EventOf, Awaited, Unstarted
<1>11. QED
  BY <1>3, <1>4, <1>5, <1>6, <1>7, <1>8, <1>9, <1>10, ZenonT(60) DEF IInv, ResumedOnce

\* Every dependency has been awaited.
LEMMA StartInv == ASSUME IInv, NEW n \in Node, Start(n) PROVE IInv'
<1>1. TypeOK'
  BY ZenonT(30) DEF IInv, TypeOK, Start, Nodes
<1>2. ResumedOnce'
  BY DEF IInv, TypeOK, ResumedOnce, AwaitedOnce, QueuedOnce, Dep, Start
<1>3. Threads'
  BY DEF IInv, TypeOK, Threads, Active, Start
<1>4. Counting'
  BY CountingKept DEF IInv, TypeOK, Ended, Start
<1>5. Loop'
  BY LoopKept DEF IInv, TypeOK, Start
<1>6. Statuses'
  BY DEF IInv, TypeOK, Statuses, StatusOf, Unstarted, InRun, Nodes, Start
<1>7. Events' /\ Awaited'
  BY DEF IInv, TypeOK, Events, EventOf, Awaited, Unstarted, Start
<1>8. QED
  BY <1>1, <1>2, <1>3, <1>4, <1>5, <1>6, <1>7 DEF IInv

\* Run() hops to the compute pool.
LEMMA HopInv == ASSUME IInv, NEW n \in Node, Hop(n) PROVE IInv'
<1>1. /\ pc[n] = "run" /\ pc' = [pc EXCEPT ![n] = "hop"]
      /\ resumer' = [resumer EXCEPT ![n] = None]
      /\ computeq' = Append(computeq, n)
      /\ UNCHANGED <<graph, disabled, status, event, waiters, walk, idx, ioq,
                     remaining, promise, exec, pos, runs>>
  BY DEF Hop, LeaveThread
<1>2. TypeOK'
  <2>1. computeq' \in Seq(Node)
    BY <1>1, AppendFacts DEF IInv, TypeOK
  <2>2. QED
    BY <1>1, <2>1, ZenonT(30) DEF IInv, TypeOK, Nodes
<1>3. AwaitedOnce' /\ QueuedOnce(ioq, "queued")'
  BY <1>1 DEF IInv, TypeOK, ResumedOnce, AwaitedOnce, QueuedOnce, Dep
<1>4. QueuedOnce(computeq, "hop")'
  <2>1. /\ computeq \in Seq(Node) /\ pc'[n] = "hop"
        /\ \A m \in Node : pc[m] = "hop" => pc'[m] = "hop"
    BY <1>1 DEF IInv, TypeOK
  <2>2. QueuedOnce(computeq, "hop")
    BY DEF IInv, ResumedOnce
  <2>3. QED
    BY <1>1, <2>1, <2>2, PushOnce DEF QueuedOnce
<1>5. Threads'
  BY <1>1 DEF IInv, TypeOK, Threads, Active
<1>6. Counting'
  BY <1>1, CountingKept DEF IInv, TypeOK, Ended
<1>7. Loop'
  BY <1>1, LoopKept DEF IInv, TypeOK
<1>8. Statuses'
  BY <1>1, ZenonT(60) DEF IInv, TypeOK, Statuses, StatusOf, Unstarted, InRun, Nodes
<1>9. Events' /\ Awaited'
  BY <1>1 DEF IInv, TypeOK, Events, EventOf, Awaited, Unstarted
<1>10. QED
  BY <1>2, <1>3, <1>4, <1>5, <1>6, <1>7, <1>8, <1>9 DEF IInv, ResumedOnce

\* Run() ended, one way or another.
LEMMA FinishInv == ASSUME IInv, NEW n \in Node, Finish(n) PROVE IInv'
<1>1. TypeOK'
  <2>1. /\ status' \in [Node -> Final \cup {"kPending", "kRunning"}]
        /\ pc' = [pc EXCEPT ![n] = "signal"]
        /\ UNCHANGED <<graph, disabled, event, waiters, walk, idx, resumer, ioq,
                       computeq, remaining, promise, exec, pos, runs>>
    BY SMTT(30) DEF IInv, TypeOK, Finish
  <2>2. QED
    BY <2>1, ZenonT(30) DEF IInv, TypeOK, Nodes
<1>2. ResumedOnce'
  BY DEF IInv, TypeOK, ResumedOnce, AwaitedOnce, QueuedOnce, Dep, Finish
<1>3. Threads'
  BY DEF IInv, TypeOK, Threads, Active, Finish
<1>4. Counting'
  BY CountingKept DEF IInv, TypeOK, Ended, Finish
<1>5. Loop'
  BY LoopKept DEF IInv, TypeOK, Finish
<1>6. Statuses'
  BY DEF IInv, TypeOK, Statuses, StatusOf, Unstarted, InRun, Nodes, Finish
<1>7. Events' /\ Awaited'
  BY DEF IInv, TypeOK, Events, EventOf, Awaited, Unstarted, Finish
<1>8. QED
  BY <1>1, <1>2, <1>3, <1>4, <1>5, <1>6, <1>7 DEF IInv

\* Set(): the event is set and its waiters are detached.
LEMMA SignalInv == ASSUME IInv, NEW n \in Node, Signal(n) PROVE IInv'
<1>1. /\ pc[n] = "signal" /\ pc' = [pc EXCEPT ![n] = "walk"]
      /\ event' = [event EXCEPT ![n] = TRUE]
      /\ walk' = [walk EXCEPT ![n] = waiters[n]]
      /\ waiters' = [waiters EXCEPT ![n] = {}]
      /\ UNCHANGED <<graph, disabled, status, idx, resumer, ioq, computeq,
                     remaining, promise, exec, pos, runs>>
  BY DEF Signal
<1>2. TypeOK'
  BY <1>1, ZenonT(30) DEF IInv, TypeOK, Nodes
<1>3. AwaitedOnce'
  BY <1>1 DEF IInv, TypeOK, ResumedOnce, AwaitedOnce, Dep
<1>4. QueuedOnce(ioq, "queued")' /\ QueuedOnce(computeq, "hop")'
  BY <1>1 DEF IInv, TypeOK, ResumedOnce, QueuedOnce
<1>5. Threads'
  BY <1>1 DEF IInv, TypeOK, Threads, Active
<1>6. Counting'
  BY <1>1, CountingKept, SMTT(30) DEF IInv, TypeOK, Ended
<1>7. Loop'
  BY <1>1, LoopKept, SMTT(30) DEF IInv, TypeOK
<1>8. Statuses'
  BY <1>1 DEF IInv, TypeOK, Statuses, StatusOf, Unstarted, InRun, Nodes
<1>9. Events'
  <2>1. status[n] \in Final
    BY <1>1 DEF IInv, Statuses, StatusOf
  <2>2. QED
    BY <1>1, <2>1 DEF IInv, TypeOK, Events, EventOf
<1>10. Awaited'
  BY <1>1 DEF IInv, TypeOK, Awaited, Unstarted
<1>11. QED
  BY <1>2, <1>3, <1>4, <1>5, <1>6, <1>7, <1>8, <1>9, <1>10 DEF IInv, ResumedOnce

\* Set() resumes one waiter inline: it was suspended on this event only.
LEMMA ResumeWaiterInv ==
    ASSUME IInv, NEW n \in Node, NEW m \in Node, ResumeWaiter(n, m)
    PROVE  IInv'
<1>1. /\ pc[m] = "suspended" /\ idx[m] <= Len(graph.deps[m]) /\ Dep(m) = n
      /\ pc[n] = "walk" /\ event[n] /\ waiters[n] = {} /\ m # n
  BY ZenonT(60) DEF IInv, ResumedOnce, AwaitedOnce, Events, EventOf, ResumeWaiter
<1>2. /\ pc' = [pc EXCEPT ![m] = "await"]
      /\ walk' = [walk EXCEPT ![n] = @ \ {m}]
      /\ idx' = [idx EXCEPT ![m] = @ + 1]
      /\ resumer' = [resumer EXCEPT ![m] = n]
      /\ UNCHANGED <<graph, disabled, status, event, waiters, ioq, computeq,
                     remaining, promise, exec, pos, runs>>
  BY DEF ResumeWaiter
<1>3. TypeOK'
  <2>1. idx' \in [Node -> Nat \ {0}]
    <3>1. idx \in [Node -> Nat \ {0}] /\ idx[m] + 1 \in Nat \ {0}
      BY DEF IInv, TypeOK
    <3>2. QED
      BY <1>2, <3>1
  <2>2. QED
    BY <1>2, <2>1, ZenonT(30) DEF IInv, TypeOK, Nodes
<1>4. AwaitedOnce'
  <2>1. \A k \in Node : m \notin waiters'[k] \cup walk'[k]
    BY <1>1, <1>2 DEF IInv, TypeOK, ResumedOnce, AwaitedOnce
  <2>2. \A k \in Node : waiters'[k] = waiters[k] /\ walk'[k] \subseteq walk[k]
    BY <1>2 DEF IInv, TypeOK
  <2>3. \A k \in Node \ {m} : pc'[k] = pc[k] /\ idx'[k] = idx[k]
    <3>1. DOMAIN pc = Node /\ DOMAIN idx = Node
      BY Zenon DEF IInv, TypeOK
    <3>2. QED
      BY <1>2, <3>1
  <2>4. \A k, j \in Node : j \in waiters'[k] \cup walk'[k] =>
           pc'[j] = "suspended" /\ idx'[j] <= Len(graph.deps[j]) /\ Dep(j)' = k
    <3>1. AwaitedOnce
      BY Zenon DEF IInv, ResumedOnce
    <3>2. ASSUME NEW k \in Node, NEW j \in Node, j \in waiters'[k] \cup walk'[k]
          PROVE  pc'[j] = "suspended" /\ idx'[j] <= Len(graph.deps[j]) /\ Dep(j)' = k
      <4>1. j \in Node \ {m} /\ j \in waiters[k] \cup walk[k]
        BY <2>1, <2>2, <3>2
      <4>2. pc[j] = "suspended" /\ idx[j] <= Len(graph.deps[j]) /\ Dep(j) = k
        BY <3>1, <4>1, Zenon DEF AwaitedOnce
      <4>3. pc'[j] = pc[j] /\ idx'[j] = idx[j] /\ Dep(j)' = Dep(j)
        BY <1>2, <2>3, <4>1, Zenon DEF Dep
      <4>4. QED
        BY <4>2, <4>3, Zenon
    <3>3. QED
      BY <3>2, Zenon
  <2>5. \A k \in Node : walk'[k] # {} => pc'[k] = "walk"
    BY <1>1, <2>2, <2>3, ZenonT(60) DEF IInv, ResumedOnce, AwaitedOnce
  <2>6. QED
    BY <1>2, <2>4, <2>5 DEF IInv, ResumedOnce, AwaitedOnce
<1>5. QueuedOnce(ioq, "queued")' /\ QueuedOnce(computeq, "hop")'
  BY <1>1, <1>2 DEF IInv, TypeOK, ResumedOnce, QueuedOnce
<1>6. Threads'
  BY <1>1, <1>2, ExecutorAssumption DEF IInv, TypeOK, Threads, Active
<1>7. Counting'
  <2>1. Counting /\ DOMAIN pc = Node
    BY Zenon DEF IInv, TypeOK
  <2>2. \A k \in Node : pc'[k] = pc[k] \/ (pc[k] \notin Ended /\ pc'[k] \notin Ended)
    BY <1>1, <1>2, <2>1, ZenonT(60) DEF Ended
  <2>3. QED
    BY <1>2, <2>1, <2>2, CountingKept, Zenon
<1>8. Loop'
  <2>1. TypeOK /\ Loop /\ DOMAIN pc = Node
    BY Zenon DEF IInv, TypeOK
  <2>2. \A k \in Node : pc'[k] = pc[k] \/ (pc[k] \notin {"new", "done"} /\ pc'[k] # "new")
    BY <1>1, <1>2, <2>1, ZenonT(60)
  <2>3. QED
    BY <1>2, <2>1, <2>2, LoopKept, Zenon
<1>9. Statuses'
  BY <1>1, <1>2 DEF IInv, TypeOK, Statuses, StatusOf, Unstarted, InRun, Nodes
<1>10. Events'
  BY <1>1, <1>2, ZenonT(60) DEF IInv, TypeOK, Events, EventOf
<1>11. Awaited'
  <2>1. \A j \in DOMAIN graph.deps[m] : j < idx[m] + 1 => j < idx[m] \/ j = idx[m]
    <3>1. graph.deps[m] \in Seq(Node) /\ idx[m] \in Nat
      BY GraphFacts, ZenonT(60) DEF IInv, TypeOK
    <3>2. QED
      BY <3>1, SMTT(30)
  <2>2. \A j \in DOMAIN graph.deps[m] : j < idx[m] + 1 => event[graph.deps[m][j]]
    BY <1>1, <2>1, ZenonT(30) DEF IInv, Awaited, Unstarted, Dep
  <2>3. QED
    BY <1>1, <1>2, <2>2 DEF IInv, TypeOK, Awaited, Unstarted
<1>12. QED
  BY <1>3, <1>4, <1>5, <1>6, <1>7, <1>8, <1>9, <1>10, <1>11, ZenonT(60) DEF IInv, ResumedOnce

\* The coroutines that have not counted themselves, when n counts itself.
LEMMA CountOne ==
    ASSUME IInv, NEW n \in Node, Count(n)
    PROVE  /\ exec # "idle" /\ ~promise /\ n \in Uncounted
           /\ IsFiniteSet(Uncounted) /\ remaining = Cardinality(Uncounted)
           /\ remaining \in Nat /\ remaining # 0
           /\ Cardinality(Uncounted \ {n}) = remaining - 1
           /\ remaining = 1 => Uncounted = {n}
           /\ \A m \in Node : pc[m] # "fulfil"
<1>1. pc[n] = "walk" /\ exec # "idle" /\ n \in Uncounted
  BY DEF IInv, Count, Loop, Uncounted, Ended
<1>2. ~promise /\ \A m \in Node : pc[m] # "fulfil"
  BY <1>1 DEF IInv, Counting, PromiseOnce
<1>3. IsFiniteSet(Uncounted)
  BY ExecutorAssumption, FS_Subset DEF Uncounted
<1>4. remaining = Cardinality(Uncounted)
  BY <1>1 DEF IInv, Counting, PromiseOnce, Uncounted
<1>5. remaining \in Nat /\ remaining # 0
  BY <1>1, <1>3, <1>4, FS_EmptySet, FS_CardinalityType
<1>6. Cardinality(Uncounted \ {n}) = remaining - 1 /\ IsFiniteSet(Uncounted \ {n})
  BY <1>1, <1>3, <1>4, FS_RemoveElement
<1>7. remaining = 1 => Uncounted = {n}
  BY <1>1, <1>5, <1>6, FS_EmptySet, SMTT(30)
<1>8. QED
  BY <1>1, <1>2, <1>3, <1>4, <1>5, <1>6, <1>7

\* A step of a coroutine that is not suspended and has nobody left to resume
\* leaves the waiter lists as they were.
LEMMA AwaitedOnceKept ==
    ASSUME AwaitedOnce, NEW n \in Node, pc[n] # "suspended", walk[n] = {},
           UNCHANGED <<graph, waiters, walk, idx, event>>,
           \A m \in Node \ {n} : pc'[m] = pc[m]
    PROVE  AwaitedOnce'
<1>1. \A m, k \in Node : k \in waiters'[m] \cup walk'[m] =>
         pc'[k] = "suspended" /\ idx'[k] <= Len(graph'.deps[k]) /\ Dep(k)' = m
  BY DEF AwaitedOnce, Dep
<1>2. \A m \in Node : waiters'[m] # {} => ~event'[m]
  BY DEF AwaitedOnce
<1>3. \A m \in Node : walk'[m] # {} => pc'[m] = "walk"
  BY ZenonT(60) DEF AwaitedOnce
<1>4. QED
  BY <1>1, <1>2, <1>3, ZenonT(60) DEF AwaitedOnce

\* The countdown: all but the last end here, the last goes on to the promise.
LEMMA CountInv == ASSUME IInv, NEW n \in Node, Count(n) PROVE IInv'
<1>1. /\ pc[n] = "walk" /\ walk[n] = {} /\ remaining' = remaining - 1
      /\ UNCHANGED <<graph, disabled, status, event, waiters, walk, idx, ioq, computeq,
                     promise, exec, pos, runs>>
  BY DEF Count
<1>2. /\ pc' = [pc EXCEPT ![n] = IF remaining = 1 THEN "fulfil" ELSE "done"]
      /\ resumer' = [resumer EXCEPT ![n] = IF remaining = 1 THEN @ ELSE None]
  BY DEF Count, LeaveThread, IInv, TypeOK
<1>3. /\ pc'[n] = (IF remaining = 1 THEN "fulfil" ELSE "done")
      /\ \A m \in Node \ {n} : pc'[m] = pc[m]
  BY <1>2 DEF IInv, TypeOK
<1>4. TypeOK'
  <2>1. remaining' \in Nat
    <3>1. remaining \in Nat /\ remaining # 0
      BY CountOne, ZenonT(30)
    <3>2. QED
      BY <1>1, <3>1
  <2>2. QED
    BY <1>1, <1>2, <2>1, ZenonT(30) DEF IInv, TypeOK, Nodes
<1>5. AwaitedOnce'
  <2>1. AwaitedOnce
    BY ZenonT(60) DEF IInv, ResumedOnce
  <2>2. QED
    BY <1>1, <1>3, <2>1, AwaitedOnceKept, ZenonT(60)
<1>6. QueuedOnce(ioq, "queued")' /\ QueuedOnce(computeq, "hop")'
  <2>1. (\A i \in DOMAIN ioq : ioq[i] \in Node) /\ (\A i \in DOMAIN computeq : computeq[i] \in Node)
    BY DEF IInv, TypeOK
  <2>2. QED
    BY <1>1, <1>3, <2>1, ZenonT(60) DEF IInv, ResumedOnce, QueuedOnce
<1>7. Threads'
  BY <1>1, <1>2, <1>3 DEF IInv, TypeOK, Threads, Active
<1>8. Counting'
  <2>1. Uncounted' = Uncounted \ {n}
    BY <1>1, <1>3 DEF Uncounted, Ended
  <2>2. remaining' = Cardinality(Uncounted')
    BY <1>1, <2>1, CountOne
  <2>3. \A k \in Node : pc'[k] = "fulfil" =>
           ~promise' /\ \A m \in Node \ {k} : pc'[m] = "done"
    BY <1>1, <1>3, CountOne, ZenonT(30) DEF Uncounted, Ended
  <2>4. ~promise'
    BY <1>1, CountOne, ZenonT(30)
  <2>5. QED
    BY <2>2, <2>3, <2>4 DEF Counting, PromiseOnce, Uncounted
<1>9. Loop'
  BY <1>1, <1>3, LoopKept DEF IInv
<1>10. Statuses'
  <2>1. StatusOf(n)'
    BY <1>1, <1>3, ZenonT(60) DEF IInv, Statuses, StatusOf, Unstarted, InRun
  <2>2. ASSUME NEW m \in Node \ {n} PROVE StatusOf(m)'
    BY <1>1, <1>3 DEF IInv, Statuses, StatusOf, Nodes
  <2>3. QED
    BY <2>1, <2>2, Zenon DEF Statuses
<1>11. Events'
  BY <1>1, <1>3, Zenon DEF IInv, Events, EventOf
<1>12. Awaited'
  BY <1>1, <1>3, ZenonT(60) DEF IInv, Awaited, Unstarted
<1>13. QED
  BY <1>4, <1>5, <1>6, <1>7, <1>8, <1>9, <1>10, <1>11, <1>12 DEF IInv, ResumedOnce

\* The last coroutine sets the promise.
LEMMA FulfilInv == ASSUME IInv, NEW n \in Node, Fulfil(n) PROVE IInv'
<1>1. /\ pc[n] = "fulfil" /\ promise' = TRUE
      /\ pc' = [pc EXCEPT ![n] = "done"]
      /\ resumer' = [resumer EXCEPT ![n] = None]
      /\ UNCHANGED <<graph, disabled, status, event, waiters, walk, idx, ioq, computeq,
                     remaining, exec, pos, runs>>
  BY DEF Fulfil, LeaveThread
<1>2. pc'[n] = "done" /\ \A m \in Node \ {n} : pc'[m] = pc[m]
  BY <1>1 DEF IInv, TypeOK
<1>3. TypeOK'
  BY <1>1, ZenonT(30) DEF IInv, TypeOK, Nodes
<1>4. AwaitedOnce'
  <2>1. AwaitedOnce
    BY DEF IInv, ResumedOnce
  <2>2. walk[n] = {}
    BY <1>1, <2>1, ZenonT(60) DEF AwaitedOnce
  <2>3. QED
    BY <1>1, <1>2, <2>1, <2>2, AwaitedOnceKept, Zenon
<1>5. QueuedOnce(ioq, "queued")' /\ QueuedOnce(computeq, "hop")'
  BY <1>1 DEF IInv, TypeOK, ResumedOnce, QueuedOnce
<1>6. Threads'
  BY <1>1 DEF IInv, TypeOK, Threads, Active
<1>7. Counting'
  <2>1. Uncounted' = Uncounted
    BY <1>1, <1>2 DEF Uncounted, Ended
  <2>2. \A m \in Node : pc'[m] = "done"
    BY <1>1, <1>2 DEF IInv, Counting, PromiseOnce
  <2>3. exec' # "idle" => remaining' = Cardinality(Uncounted')
    BY <1>1, <2>1 DEF IInv, Counting, PromiseOnce, Uncounted
  <2>4. QED
    BY <2>2, <2>3, SMTT(30) DEF Counting, PromiseOnce, Uncounted
<1>8. Loop'
  BY <1>1, <1>2, LoopKept, Zenon DEF IInv
<1>9. Statuses'
  <2>1. StatusOf(n)'
    BY <1>1, <1>2, Zenon DEF IInv, Statuses, StatusOf, Unstarted, InRun
  <2>2. ASSUME NEW m \in Node \ {n} PROVE StatusOf(m)'
    BY <1>1, <1>2, ZenonT(60) DEF IInv, Statuses, StatusOf, Nodes
  <2>3. QED
    BY <2>1, <2>2 DEF Statuses
<1>10. Events'
  <2>1. Events
    BY ZenonT(60) DEF IInv
  <2>2. QED
    BY <1>1, <1>2, <2>1 DEF Events, EventOf
<1>11. Awaited'
  BY <1>1, <1>2 DEF IInv, Awaited, Unstarted
<1>12. QED
  BY <1>3, <1>4, <1>5, <1>6, <1>7, <1>8, <1>9, <1>10, <1>11 DEF IInv, ResumedOnce

\* A new run on a quiescent graph: everything starts over.
LEMMA BeginInv == ASSUME IInv, Begin PROVE IInv'
<1>1. /\ exec = "idle" /\ runs < MaxRuns /\ runs' = runs + 1
      /\ disabled' \in SUBSET Nodes
      /\ status' = [n \in Node |-> "kPending"]
      /\ event' = [n \in Node |-> FALSE]
      /\ UNCHANGED <<graph, waiters, walk, resumer, ioq, computeq>>
  BY DEF Begin
<1>2. \A n \in Node : /\ pc[n] = "done" /\ resumer[n] = None
                      /\ waiters[n] = {} /\ walk[n] = {}
  BY <1>1, ZenonT(30) DEF IInv, TypeOK, Loop, Threads, Active, ResumedOnce, AwaitedOnce
<1>3. /\ \A i \in DOMAIN ioq : ioq[i] \in Node
      /\ \A i \in DOMAIN computeq : computeq[i] \in Node
  BY DEF IInv, TypeOK
<1>4. DOMAIN ioq = {} /\ DOMAIN computeq = {}
  BY <1>2, <1>3, ZenonT(30) DEF IInv, ResumedOnce, QueuedOnce
<1>5. runs' \in 0..MaxRuns
  BY <1>1, ExecutorAssumption DEF IInv, TypeOK
<1>6. Nodes' = Nodes
  BY <1>1 DEF Nodes
<1>7. QueuedOnce(ioq, "queued")' /\ QueuedOnce(computeq, "hop")'
  BY <1>1, <1>4 DEF QueuedOnce
<1>8. AwaitedOnce'
  BY <1>1, <1>2 DEF AwaitedOnce
<1>9. Events'
  <2>1. \A n \in Node : ~event'[n] /\ pc'[n] \notin {"walk", "fulfil"}
    BY <1>1, <1>2 DEF Begin
  <2>2. QED
    BY <2>1, ZenonT(60) DEF Events, EventOf
<1>10. CASE graph.order = <<>>
  <2>1. UNCHANGED <<pc, idx, remaining, promise, exec, pos>>
    BY <1>10, Zenon DEF Begin
  <2>2. TypeOK'
    BY <1>1, <1>5, <1>6, <2>1, ZenonT(60) DEF IInv, TypeOK
  <2>3. Threads' /\ Counting' /\ Statuses' /\ Awaited'
    BY <1>1, <1>2, <2>1, ZenonT(60) DEF IInv, Threads, Active, Counting, PromiseOnce,
         Statuses, StatusOf, Unstarted, InRun, Awaited
  <2>4. Loop'
    BY <1>1, <1>2, <1>10, <2>1 DEF IInv, Loop
  <2>5. QED
    BY <1>7, <1>8, <1>9, <2>2, <2>3, <2>4 DEF IInv, ResumedOnce
<1>11. CASE graph.order # <<>>
  <2>1. /\ pc' = [n \in Node |-> IF n \in Nodes THEN "new" ELSE "done"]
        /\ idx' = [n \in Node |-> 1] /\ remaining' = Len(graph.order)
        /\ promise' = FALSE /\ exec' = "loop" /\ pos' = 1
    BY <1>11 DEF Begin
  <2>2. graph.order \in Seq(Node) /\ Nodes \subseteq Node
    BY GraphFacts DEF IInv
  <2>3. TypeOK'
    <3>1. remaining' \in Nat /\ pos' \in Nat /\ idx' \in [Node -> Nat \ {0}]
      BY <2>1, <2>2
    <3>2. pc' \in [Node -> {"new", "queued", "await", "suspended", "run", "hop",
                           "resumed", "signal", "walk", "fulfil", "done"}]
      BY <2>1
    <3>3. QED
      BY <1>1, <1>5, <1>6, <2>1, <3>1, <3>2, ZenonT(30) DEF IInv, TypeOK
  <2>4. Threads'
    BY <1>1, <1>2, <2>1 DEF Threads, Active
  <2>5. Counting'
    <3>1. Uncounted' = Nodes
      BY <2>1, <2>2 DEF Uncounted, Ended
    <3>2. Cardinality(Nodes) = Len(graph.order)
      <4>1. graph.order \in Bijection(1..Len(graph.order), Nodes)
        BY <2>2, GraphFacts DEF IInv, Nodes, Bijection, Injection, Surjection, IsInjective
      <4>2. Len(graph.order) \in Nat
        BY <2>2
      <4>3. /\ IsFiniteSet(1..Len(graph.order))
            /\ Cardinality(1..Len(graph.order)) = Len(graph.order)
        BY <4>2, FS_Interval, SMTT(30)
      <4>4. QED
        BY <4>1, <4>3, FS_Bijection, ZenonT(60) DEF ExistsBijection
    <3>3. QED
      BY <2>1, <3>1, <3>2, ZenonT(30) DEF Counting, PromiseOnce, Uncounted
  <2>6. Loop'
    <3>1. \A i \in DOMAIN graph.order : graph.order[i] \in Nodes /\ 1 <= i
      BY <2>2 DEF Nodes
    <3>2. 1 \in 1..(Len(graph.order) + 1)
      BY <2>2
    <3>3. QED
      BY <1>1, <1>6, <2>1, <2>2, <3>1, <3>2 DEF Loop
  <2>7. Statuses'
    BY <1>1, <1>6, <2>1 DEF Statuses, StatusOf, Unstarted, InRun
  <2>8. Awaited'
    <3>1. \A n \in Node : \A j \in DOMAIN graph.deps[n] : ~(j < 1)
      BY GraphFacts DEF IInv
    <3>2. QED
      BY <1>1, <2>1, <3>1 DEF Awaited
  <2>9. QED
    BY <1>7, <1>8, <1>9, <2>3, <2>4, <2>5, <2>6, <2>7, <2>8, ZenonT(60) DEF IInv, ResumedOnce
<1>12. QED
  BY <1>10, <1>11, Zenon

-----------------------------------------------------------------------------
(***************************************************************************)
(* The theorems.                                                           *)
(***************************************************************************)

\* Before the first call of Execute the invariant holds.
LEMMA InitInv == ASSUME Init PROVE IInv
<1>1. TypeOK
  <2>1. runs \in 0..MaxRuns /\ remaining \in Nat /\ pos \in Nat
    BY ExecutorAssumption DEF Init
  <2>2. ioq \in Seq(Node) /\ computeq \in Seq(Node)
    BY DEF Init
  <2>3. idx \in [Node -> Nat \ {0}]
    BY DEF Init
  <2>4. QED
    BY <2>1, <2>2, <2>3, ZenonT(30) DEF Init, TypeOK
<1>2. ResumedOnce
  BY SMTT(30) DEF Init, ResumedOnce, AwaitedOnce, QueuedOnce
<1>3. Threads /\ Counting /\ Statuses /\ Events /\ Awaited
  BY DEF Init, Threads, Active, Counting, PromiseOnce, Statuses, StatusOf,
         Unstarted, InRun, Events, EventOf, Awaited
<1>4. Loop
  <2>1. \A i \in DOMAIN graph.order : graph.order[i] \in Node
    BY <1>1, GraphFacts
  <2>2. exec = "idle" /\ \A n \in Node : pc[n] = "done"
    BY DEF Init
  <2>3. QED
    BY <2>1, <2>2 DEF Loop
<1>5. QED
  BY <1>1, <1>2, <1>3, <1>4 DEF IInv

\* A step that changes nothing keeps the invariant.
LEMMA StutterInv == ASSUME IInv, UNCHANGED vars PROVE IInv'
<1>1. TypeOK'
  BY ZenonT(30) DEF IInv, TypeOK, Nodes, vars
<1>2. ResumedOnce'
  <2>1. AwaitedOnce'
    BY Zenon DEF IInv, ResumedOnce, AwaitedOnce, Dep, vars
  <2>2. QueuedOnce(ioq, "queued")' /\ QueuedOnce(computeq, "hop")'
    BY Zenon DEF IInv, ResumedOnce, QueuedOnce, vars
  <2>3. QED
    BY <2>1, <2>2 DEF ResumedOnce
<1>3. Threads' /\ Counting'
  BY Zenon DEF IInv, Threads, Counting, PromiseOnce, vars
<1>4. Loop'
  BY ZenonT(60) DEF IInv, Loop, Nodes, vars
<1>5. Statuses' /\ Events' /\ Awaited'
  BY DEF IInv, Statuses, StatusOf, Nodes, Events, EventOf, Awaited, vars
<1>6. QED
  BY <1>1, <1>2, <1>3, <1>4, <1>5 DEF IInv

\* Every step of Execute, of its coroutines and of the pools keeps the invariant.
LEMMA NextInv == ASSUME IInv, [Next]_vars PROVE IInv'
<1>1. CASE Begin
  BY <1>1, BeginInv
<1>2. CASE MainStep
  BY <1>2, SpawnInv, SkipInv, WaitInv, ReturnInv DEF MainStep
<1>3. CASE PoolStep
  BY <1>3, TakeIoInv, TakeComputeInv DEF PoolStep
<1>4. ASSUME NEW n \in Node, NodeStep(n) PROVE IInv'
  BY <1>4, AwaitReadyInv, AwaitSuspendInv, StartInv, HopInv, FinishInv, SignalInv,
     ResumeWaiterInv, CountInv, FulfilInv DEF NodeStep
<1>5. CASE Quiet \/ UNCHANGED vars
  BY <1>5, StutterInv DEF Quiet
<1>6. QED
  BY <1>1, <1>2, <1>3, <1>4, <1>5 DEF Next

\* IInv holds in every state of Execute, for any graphs, pools and number of runs.
THEOREM Invariance == Spec => []IInv
<1>1. Init => IInv
  BY InitInv
<1>2. IInv /\ [Next]_vars => IInv'
  BY NextInv
<1>3. QED
  BY <1>1, <1>2, PTL DEF Spec

\* Every variable of the executor stays in its type, in every run of any graph.
THEOREM TypeCorrect == Spec => []TypeOK
<1>1. IInv => TypeOK
  BY DEF IInv
<1>2. QED
  BY <1>1, Invariance, PTL

\* Execute() never returns while a coroutine of the run can still touch the
\* graph, the context or the RunState on the caller's stack.
THEOREM ExecuteIsQuiescent == Spec => []Quiescent
<1>1. IInv => Quiescent
  <2>1. SUFFICES ASSUME IInv, exec = "idle" PROVE Quiescent
    BY DEF Quiescent
  <2>2. \A n \in Node : pc[n] = "done" /\ waiters[n] = {} /\ walk[n] = {}
    BY <2>1, Zenon DEF IInv, TypeOK, Loop, ResumedOnce, AwaitedOnce
  <2>3. ASSUME ioq # <<>> PROVE FALSE
    <3>1. ioq \in Seq(Node) /\ (\A i \in DOMAIN ioq : pc[ioq[i]] = "queued")
      BY <2>1 DEF IInv, TypeOK, ResumedOnce, QueuedOnce
    <3>2. QED
      BY <2>2, <2>3, <3>1, NonEmpty, ZenonT(60)
  <2>4. ASSUME computeq # <<>> PROVE FALSE
    <3>1. computeq \in Seq(Node) /\ (\A i \in DOMAIN computeq : pc[computeq[i]] = "hop")
      BY <2>1 DEF IInv, TypeOK, ResumedOnce, QueuedOnce
    <3>2. QED
      BY <2>2, <2>4, <3>1, NonEmpty, ZenonT(60)
  <2>5. QED
    BY <2>2, <2>3, <2>4 DEF Quiescent
<1>2. QED
  BY <1>1, Invariance, PTL

\* remaining counts the coroutines still to count, and exactly one of them, the
\* last, sets the promise of Execute().
THEOREM PromiseSetOnce == Spec => []PromiseOnce
<1>1. IInv => PromiseOnce
  BY DEF IInv, Counting
<1>2. QED
  BY <1>1, Invariance, PTL

\* A suspended or queued coroutine is known to exactly one event or queue.
THEOREM CoroutineResumedOnce == Spec => []ResumedOnce
<1>1. IInv => ResumedOnce
  BY DEF IInv
<1>2. QED
  BY <1>1, Invariance, PTL

-----------------------------------------------------------------------------
(***************************************************************************)
(* The executor implements the abstract schedule.                          *)
(***************************************************************************)

\* A node that has awaited all its dependencies finds them final.
LEMMA StartedAfterDeps ==
    ASSUME IInv, NEW n \in Node, Start(n)
    PROVE  \A d \in DepsOf(n) : status[d] \in Final
<1>1. graph.deps[n] \in Seq(Node) /\ idx[n] \in Nat
  BY GraphFacts, ZenonT(60) DEF IInv, TypeOK
<1>2. \A j \in DOMAIN graph.deps[n] : j < idx[n] /\ graph.deps[n][j] \in Node
  <2>1. idx[n] > Len(graph.deps[n])
    BY Zenon DEF Start
  <2>2. QED
    BY <1>1, <2>1
<1>3. \A j \in DOMAIN graph.deps[n] : event[graph.deps[n][j]]
  BY <1>2, ZenonT(60) DEF IInv, Awaited, Unstarted, Start
<1>4. QED
  BY <1>2, <1>3, SMTT(30) DEF IInv, Events, EventOf, DepsOf

\* Every step of the executor is a step of the abstract schedule, or leaves it unchanged.
LEMMA StepRefines == ASSUME IInv, [Next]_vars PROVE [Schedule!Next]_(Schedule!vars)
<1>1. CASE Begin
  <2>1. (exec' # "idle") = (graph.order # <<>>)
    BY <1>1 DEF Begin
  <2>2. Schedule!Begin
    BY <1>1, <2>1 DEF Begin, Schedule!Begin, Schedule!Nodes, Nodes
  <2>3. QED
    BY <2>2 DEF Schedule!Next
<1>2. CASE Skip
  <2>1. PICK n \in Node : /\ n = graph.order[pos] /\ n \in disabled /\ pc[n] = "new"
    BY <1>2, GraphFacts, SMTT(30) DEF IInv, Skip, Loop
  <2>2. Schedule!Skip(n)
    BY <1>2, <2>1 DEF IInv, Statuses, StatusOf, Unstarted, Skip, Schedule!Skip
  <2>3. QED
    BY <2>2, ZenonT(60) DEF Schedule!Next
<1>3. CASE Return
  <2>1. \A n \in Nodes : status[n] \in Final
    BY <1>3, GraphFacts DEF IInv, Counting, Statuses, StatusOf, Return
  <2>2. Schedule!Return
    BY <1>3, <2>1 DEF Return, Schedule!Return, Schedule!Nodes, Schedule!Final, Nodes, Final
  <2>3. QED
    BY <2>2, ZenonT(60) DEF Schedule!Next
<1>4. ASSUME NEW n \in Node, Start(n) PROVE Schedule!Next
  <2>1. n \in Nodes \ disabled /\ exec # "idle" /\ status[n] = "kPending"
    BY <1>4 DEF IInv, Loop, Statuses, StatusOf, Unstarted, Start
  <2>2. Schedule!Start(n)
    BY <1>4, <2>1, StartedAfterDeps, ZenonT(30) DEF Start, Schedule!Start, Schedule!Nodes,
       Schedule!DepsOf, Schedule!Final, Nodes, DepsOf, Final
  <2>3. QED
    BY <2>2, SMTT(30) DEF Schedule!Next
<1>5. ASSUME NEW n \in Node, Finish(n) PROVE Schedule!Next
  <2>1. exec # "idle" /\ status[n] = "kRunning"
    BY <1>5 DEF IInv, Loop, Statuses, StatusOf, InRun, Finish
  <2>2. Schedule!Finish(n)
    BY <1>5, <2>1, ZenonT(30) DEF Finish, Schedule!Finish, Schedule!Final, Final
  <2>3. QED
    BY <2>2, Zenon DEF Schedule!Next
<1>6. CASE Spawn \/ Wait
  BY <1>6 DEF Spawn, Wait, Schedule!vars
<1>7. CASE PoolStep
  BY <1>7 DEF PoolStep, TakeIo, TakeCompute, Schedule!vars
<1>8. ASSUME NEW n \in Node,
             \/ AwaitReady(n) \/ AwaitSuspend(n) \/ Hop(n) \/ Signal(n)
             \/ (\E m \in Node : ResumeWaiter(n, m)) \/ Count(n) \/ Fulfil(n)
      PROVE  UNCHANGED Schedule!vars
  BY <1>8, ZenonT(30) DEF AwaitReady, AwaitSuspend, Hop, Signal, ResumeWaiter, Count, Fulfil, Schedule!vars
<1>9. CASE Quiet \/ UNCHANGED vars
  BY <1>9 DEF Quiet, vars, Schedule!vars
<1>10. QED
  BY <1>1, <1>2, <1>3, <1>4, <1>5, <1>6, <1>7, <1>8, <1>9, SMTT(30) DEF Next, MainStep, NodeStep

\* Every execution of the executor is one of DagSchedule: dependencies first,
\* final statuses never revised, disabled nodes never run, Execute() returns only
\* when all nodes are final.
THEOREM ExecutorIsSchedule == Spec => ScheduleSafe
<1>1. Init => Schedule!Init
  BY DEF Init, Schedule!Init
<1>2. IInv /\ [Next]_vars => [Schedule!Next]_(Schedule!vars)
  BY StepRefines
<1>3. QED
  BY <1>1, <1>2, Invariance, PTL DEF Spec, ScheduleSafe, Schedule!SafeSpec
=============================================================================
