----------------------------- MODULE DagExecutor -----------------------------
(***************************************************************************)
(* dag::Executor: Execute() spawns one detached coroutine per node, each   *)
(* hops onto the IO pool, awaits the done events of its dependencies, runs *)
(* the node, sets its own event (which resumes the waiting dependents      *)
(* inline, inside Set()) and counts down RunState::remaining; the last one *)
(* fulfils the promise Execute() waits for.                                *)
(*                                                                         *)
(* Events have the atomic semantics of module Event, which AsyncEvent      *)
(* implements; the pools are queues and workers, as in ThreadPool with     *)
(* max_queue = 0, the configuration the executor builds them with.         *)
(***************************************************************************)
EXTENDS Integers, Sequences, FiniteSets

CONSTANTS Node,           \* node identities
          Graphs,         \* the graphs GraphBuilder may have built
          IoWorker,       \* workers of io_pool_
          ComputeWorker,  \* workers of compute_pool_
          Main,           \* the thread that calls Execute
          None,
          MaxRuns         \* bound: calls of Execute on the graph

\* order: graph.nodes(), without duplicates; deps: Node::dependencies(), in the
\* order of the config, forward references and duplicates allowed.
GraphOK(g) ==
    /\ g.order \in Seq(Node)
    /\ \A i, j \in DOMAIN g.order : g.order[i] = g.order[j] => i = j
    /\ g.deps \in [Node -> Seq(Node)]
    /\ \A n \in Node : \A i \in DOMAIN g.deps[n] :
          \E j \in DOMAIN g.order : g.order[j] = g.deps[n][i]

ASSUME ExecutorAssumption ==
    /\ IsFiniteSet(Node)
    /\ \A g \in Graphs : g = [order |-> g.order, deps |-> g.deps] /\ GraphOK(g)
    /\ Main \notin Node /\ None \notin Node /\ Main # None
    /\ (IoWorker \cup ComputeWorker) \cap (Node \cup {Main, None}) = {}
    /\ IoWorker \cap ComputeWorker = {}
    /\ MaxRuns \in Nat

VARIABLES
    graph,      \* the graph, fixed
    disabled,   \* disabled_ids of the current Execute
    status,     \* Node::status_
    event,      \* Node::done_event_ is set
    waiters,    \* coroutines suspended on a node's event
    walk,       \* coroutines a node's Set() has detached and not yet resumed
    pc,         \* where each node's coroutine is
    idx,        \* the dependency it awaits
    resumer,    \* who resumed it: a worker, Main, or a node inside Set()
    ioq, computeq, \* the pools' queues
    remaining, promise, \* RunState
    exec, pos,  \* where Execute is, and its loop index
    runs        \* bounded counter

vars == <<graph, disabled, status, event, waiters, walk, pc, idx, resumer,
          ioq, computeq, remaining, promise, exec, pos, runs>>

Nodes == {graph.order[i] : i \in DOMAIN graph.order}
DepsOf(n) == {graph.deps[n][i] : i \in DOMAIN graph.deps[n]}

Final == {"kSuccess", "kFallback", "kFailed", "kSkipped"}
Ended == {"fulfil", "done"}

TypeOK ==
    /\ graph \in Graphs
    /\ disabled \subseteq Nodes
    /\ status \in [Node -> Final \cup {"kPending", "kRunning"}]
    /\ event \in [Node -> BOOLEAN]
    /\ waiters \in [Node -> SUBSET Node]
    /\ walk \in [Node -> SUBSET Node]
    /\ pc \in [Node -> {"new", "queued", "await", "suspended", "run", "hop",
                        "resumed", "signal", "walk", "fulfil", "done"}]
    /\ idx \in [Node -> Nat \ {0}]
    /\ resumer \in [Node -> Node \cup IoWorker \cup ComputeWorker \cup {Main, None}]
    /\ ioq \in Seq(Node)
    /\ computeq \in Seq(Node)
    /\ remaining \in Nat
    /\ promise \in BOOLEAN
    /\ exec \in {"idle", "loop", "wait"}
    /\ pos \in Nat
    /\ runs \in 0..MaxRuns

Init ==
    /\ graph \in Graphs
    /\ disabled = {}
    /\ status = [n \in Node |-> "kPending"]
    /\ event = [n \in Node |-> FALSE]
    /\ waiters = [n \in Node |-> {}]
    /\ walk = [n \in Node |-> {}]
    /\ pc = [n \in Node |-> "done"]
    /\ idx = [n \in Node |-> 1]
    /\ resumer = [n \in Node |-> None]
    /\ ioq = <<>>
    /\ computeq = <<>>
    /\ remaining = 0
    /\ promise = FALSE
    /\ exec = "idle"
    /\ pos = 1
    /\ runs = 0

-----------------------------------------------------------------------------
(***************************************************************************)
(* Threads of control.  resume() is a plain call, so whoever resumed a     *)
(* coroutine continues only when that coroutine suspends or ends.          *)
(***************************************************************************)
Free(x) == \A m \in Node : resumer[m] # x
Running(n) == resumer[n] # None /\ Free(n)

\* The coroutine of n gives up its thread at `where`.
LeaveThread(n, where) ==
    /\ pc' = [pc EXCEPT ![n] = where]
    /\ resumer' = [resumer EXCEPT ![n] = None]

-----------------------------------------------------------------------------
(***************************************************************************)
(* Execute().                                                              *)
(***************************************************************************)

\* Mutant: the done events are not reset between two runs.
BeginWithoutReset ==
    /\ exec = "idle"
    /\ runs < MaxRuns
    /\ runs' = runs + 1
    /\ disabled' \in SUBSET Nodes
    /\ status' = [n \in Node |-> "kPending"]
    /\ IF graph.order = <<>>
       THEN UNCHANGED <<pc, idx, remaining, promise, exec, pos>>
       ELSE /\ pc' = [n \in Node |-> IF n \in Nodes THEN "new" ELSE "done"]
            /\ idx' = [n \in Node |-> 1]
            /\ remaining' = Len(graph.order)
            /\ promise' = FALSE
            /\ exec' = "loop"
            /\ pos' = 1
    /\ UNCHANGED <<graph, event, waiters, walk, resumer, ioq, computeq>>

\* ResetRunState, the early return for an empty graph, and a fresh RunState.
Begin ==
    /\ exec = "idle"
    /\ runs < MaxRuns
    /\ runs' = runs + 1
    /\ disabled' \in SUBSET Nodes
    /\ status' = [n \in Node |-> "kPending"]
    /\ event' = [n \in Node |-> FALSE]
    /\ IF graph.order = <<>>
       THEN UNCHANGED <<pc, idx, remaining, promise, exec, pos>>
       ELSE /\ pc' = [n \in Node |-> IF n \in Nodes THEN "new" ELSE "done"]
            /\ idx' = [n \in Node |-> 1]
            /\ remaining' = Len(graph.order)
            /\ promise' = FALSE
            /\ exec' = "loop"
            /\ pos' = 1
    /\ UNCHANGED <<graph, waiters, walk, resumer, ioq, computeq>>

\* SpawnNode up to co_await io_pool_.Schedule().
Spawn ==
    /\ exec = "loop" /\ Free(Main)
    /\ pos <= Len(graph.order)
    /\ graph.order[pos] \notin disabled
    /\ pos' = pos + 1
    /\ pc' = [pc EXCEPT ![graph.order[pos]] = "queued"]
    /\ ioq' = Append(ioq, graph.order[pos])
    /\ UNCHANGED <<graph, disabled, status, event, waiters, walk, idx, resumer,
                   computeq, remaining, promise, exec, runs>>

\* Mutant: a disabled node is counted when it is skipped and again after Set().
SkipCountsTwice ==
    /\ exec = "loop" /\ Free(Main)
    /\ pos <= Len(graph.order)
    /\ graph.order[pos] \in disabled
    /\ pos' = pos + 1
    /\ status' = [status EXCEPT ![graph.order[pos]] = "kSkipped"]
    /\ pc' = [pc EXCEPT ![graph.order[pos]] = "signal"]
    /\ resumer' = [resumer EXCEPT ![graph.order[pos]] = Main]
    /\ remaining' = remaining - 1
    /\ UNCHANGED <<graph, disabled, event, waiters, walk, idx, ioq, computeq,
                   promise, exec, runs>>

\* A disabled node: kSkipped, then its event and the countdown, all on Main.
Skip ==
    /\ exec = "loop" /\ Free(Main)
    /\ pos <= Len(graph.order)
    /\ graph.order[pos] \in disabled
    /\ pos' = pos + 1
    /\ status' = [status EXCEPT ![graph.order[pos]] = "kSkipped"]
    /\ pc' = [pc EXCEPT ![graph.order[pos]] = "signal"]
    /\ resumer' = [resumer EXCEPT ![graph.order[pos]] = Main]
    /\ UNCHANGED <<graph, disabled, event, waiters, walk, idx, ioq, computeq,
                   remaining, promise, exec, runs>>

Wait ==
    /\ exec = "loop" /\ Free(Main)
    /\ pos > Len(graph.order)
    /\ exec' = "wait"
    /\ UNCHANGED <<graph, disabled, status, event, waiters, walk, pc, idx, resumer,
                   ioq, computeq, remaining, promise, pos, runs>>

Return ==
    /\ exec = "wait"
    /\ promise
    /\ exec' = "idle"
    /\ UNCHANGED <<graph, disabled, status, event, waiters, walk, pc, idx, resumer,
                   ioq, computeq, remaining, promise, pos, runs>>

-----------------------------------------------------------------------------
(***************************************************************************)
(* The pools: an idle worker pops a handle and resumes it.                 *)
(***************************************************************************)
TakeIo(w) ==
    /\ Free(w)
    /\ ioq # <<>>
    /\ ioq' = Tail(ioq)
    /\ pc' = [pc EXCEPT ![Head(ioq)] = "await"]
    /\ resumer' = [resumer EXCEPT ![Head(ioq)] = w]
    /\ UNCHANGED <<graph, disabled, status, event, waiters, walk, idx, computeq,
                   remaining, promise, exec, pos, runs>>

TakeCompute(w) ==
    /\ Free(w)
    /\ computeq # <<>>
    /\ computeq' = Tail(computeq)
    /\ pc' = [pc EXCEPT ![Head(computeq)] = "resumed"]
    /\ resumer' = [resumer EXCEPT ![Head(computeq)] = w]
    /\ UNCHANGED <<graph, disabled, status, event, waiters, walk, idx, ioq,
                   remaining, promise, exec, pos, runs>>

-----------------------------------------------------------------------------
(***************************************************************************)
(* SpawnNode after the hop.                                                *)
(***************************************************************************)
Dep(n) == graph.deps[n][idx[n]]

\* co_await dep->done_event(): go on if it is set, else suspend on it.
AwaitReady(n) ==
    /\ pc[n] = "await" /\ Running(n)
    /\ idx[n] <= Len(graph.deps[n])
    /\ event[Dep(n)]
    /\ idx' = [idx EXCEPT ![n] = @ + 1]
    /\ UNCHANGED <<graph, disabled, status, event, waiters, walk, pc, resumer,
                   ioq, computeq, remaining, promise, exec, pos, runs>>

\* Mutant: the suspension does not look at the event again.
AwaitSuspendBlindly(n) ==
    /\ pc[n] = "await" /\ Running(n)
    /\ idx[n] <= Len(graph.deps[n])
    /\ waiters' = [waiters EXCEPT ![Dep(n)] = @ \cup {n}]
    /\ LeaveThread(n, "suspended")
    /\ UNCHANGED <<graph, disabled, status, event, walk, idx, ioq, computeq,
                   remaining, promise, exec, pos, runs>>

AwaitSuspend(n) ==
    /\ pc[n] = "await" /\ Running(n)
    /\ idx[n] <= Len(graph.deps[n])
    /\ ~event[Dep(n)]
    /\ waiters' = [waiters EXCEPT ![Dep(n)] = @ \cup {n}]
    /\ LeaveThread(n, "suspended")
    /\ UNCHANGED <<graph, disabled, status, event, walk, idx, ioq, computeq,
                   remaining, promise, exec, pos, runs>>

Start(n) ==
    /\ pc[n] = "await" /\ Running(n)
    /\ idx[n] > Len(graph.deps[n])
    /\ status' = [status EXCEPT ![n] = "kRunning"]
    /\ pc' = [pc EXCEPT ![n] = "run"]
    /\ UNCHANGED <<graph, disabled, event, waiters, walk, idx, resumer,
                   ioq, computeq, remaining, promise, exec, pos, runs>>

\* Run() may co_await the compute pool's Schedule() (bound: once per run).
Hop(n) ==
    /\ pc[n] = "run" /\ Running(n)
    /\ computeq' = Append(computeq, n)
    /\ LeaveThread(n, "hop")
    /\ UNCHANGED <<graph, disabled, status, event, waiters, walk, idx, ioq,
                   remaining, promise, exec, pos, runs>>

\* Run() ended: normally (kSuccess), or with an exception that Fallback
\* recovered (kFallback) or did not recover or rethrew (kFailed).
Finish(n) ==
    /\ pc[n] \in {"run", "resumed"} /\ Running(n)
    /\ \E s \in Final \ {"kSkipped"} : status' = [status EXCEPT ![n] = s]
    /\ pc' = [pc EXCEPT ![n] = "signal"]
    /\ UNCHANGED <<graph, disabled, event, waiters, walk, idx, resumer,
                   ioq, computeq, remaining, promise, exec, pos, runs>>

\* done_event().Set(): mark set and detach the waiters ...
Signal(n) ==
    /\ pc[n] = "signal" /\ Running(n)
    /\ event' = [event EXCEPT ![n] = TRUE]
    /\ walk' = [walk EXCEPT ![n] = waiters[n]]
    /\ waiters' = [waiters EXCEPT ![n] = {}]
    /\ pc' = [pc EXCEPT ![n] = "walk"]
    /\ UNCHANGED <<graph, disabled, status, idx, resumer, ioq, computeq,
                   remaining, promise, exec, pos, runs>>

\* ... and resume them inline, one after the other.
ResumeWaiter(n, m) ==
    /\ pc[n] = "walk" /\ Running(n)
    /\ m \in walk[n]
    /\ walk' = [walk EXCEPT ![n] = @ \ {m}]
    /\ pc' = [pc EXCEPT ![m] = "await"]
    /\ idx' = [idx EXCEPT ![m] = @ + 1]
    /\ resumer' = [resumer EXCEPT ![m] = n]
    /\ UNCHANGED <<graph, disabled, status, event, waiters, ioq, computeq,
                   remaining, promise, exec, pos, runs>>

\* Mutant: the last but one coroutine also takes itself for the last.
CountOffByOne(n) ==
    /\ pc[n] = "walk" /\ Running(n)
    /\ walk[n] = {}
    /\ remaining' = remaining - 1
    /\ IF remaining <= 2
       THEN pc' = [pc EXCEPT ![n] = "fulfil"] /\ UNCHANGED resumer
       ELSE LeaveThread(n, "done")
    /\ UNCHANGED <<graph, disabled, status, event, waiters, walk, idx, ioq, computeq,
                   promise, exec, pos, runs>>

\* remaining.fetch_sub(1) == 1: the last one goes on to set_value.
Count(n) ==
    /\ pc[n] = "walk" /\ Running(n)
    /\ walk[n] = {}
    /\ remaining' = remaining - 1
    /\ IF remaining = 1
       THEN pc' = [pc EXCEPT ![n] = "fulfil"] /\ UNCHANGED resumer
       ELSE LeaveThread(n, "done")
    /\ UNCHANGED <<graph, disabled, status, event, waiters, walk, idx, ioq, computeq,
                   promise, exec, pos, runs>>

Fulfil(n) ==
    /\ pc[n] = "fulfil" /\ Running(n)
    /\ promise' = TRUE
    /\ LeaveThread(n, "done")
    /\ UNCHANGED <<graph, disabled, status, event, waiters, walk, idx, ioq, computeq,
                   remaining, exec, pos, runs>>

-----------------------------------------------------------------------------
NodeStep(n) ==
    \/ AwaitReady(n) \/ AwaitSuspend(n) \/ Start(n) \/ Hop(n) \/ Finish(n)
    \/ Signal(n) \/ (\E m \in Node : ResumeWaiter(n, m)) \/ Count(n) \/ Fulfil(n)

MainStep == Spawn \/ Skip \/ Wait \/ Return
PoolStep == (\E w \in IoWorker : TakeIo(w)) \/ (\E w \in ComputeWorker : TakeCompute(w))

\* MaxRuns calls have returned.
Quiet == exec = "idle" /\ runs = MaxRuns /\ UNCHANGED vars

Next == Begin \/ MainStep \/ PoolStep \/ (\E n \in Node : NodeStep(n)) \/ Quiet

Spec == Init /\ [][Next]_vars

\* Main inside Execute, some worker of a pool with work, and every coroutine
\* that holds a thread make progress.  Nobody owes a call of Execute.
Fairness ==
    /\ WF_vars(MainStep)
    /\ WF_vars(\E w \in IoWorker : TakeIo(w))
    /\ WF_vars(\E w \in ComputeWorker : TakeCompute(w))
    /\ \A n \in Node : WF_vars(NodeStep(n))

FairSpec == Spec /\ Fairness

-----------------------------------------------------------------------------
(***************************************************************************)
(* Properties.                                                             *)
(***************************************************************************)

\* Execute() returns only when nothing can touch the Graph, the Context or the
\* RunState on its stack any more: no coroutine is queued, suspended, running
\* or about to count or to set the promise, although they end on other threads.
Quiescent ==
    exec = "idle" =>
        /\ \A n \in Node : pc[n] = "done" /\ waiters[n] = {} /\ walk[n] = {}
        /\ ioq = <<>> /\ computeq = <<>>

\* The countdown counts the coroutines that have not counted themselves, so
\* exactly one of them sets the promise, and only after all the others ended.
PromiseOnce ==
    /\ exec # "idle" => remaining = Cardinality({n \in Node : pc[n] \notin Ended})
    /\ \A n \in Node : pc[n] = "fulfil" =>
          ~promise /\ \A m \in Node \ {n} : pc[m] = "done"

\* A suspended coroutine is in the waiter list of one event, which is not set.
AwaitedOnce ==
    /\ \A m, n \in Node : n \in waiters[m] \cup walk[m] =>
          pc[n] = "suspended" /\ idx[n] <= Len(graph.deps[n]) /\ Dep(n) = m
    /\ \A m \in Node : waiters[m] # {} => ~event[m]
    /\ \A m \in Node : walk[m] # {} => pc[m] = "walk"

QueuedOnce(q, where) ==
    /\ \A i, j \in DOMAIN q : q[i] = q[j] => i = j
    /\ \A i \in DOMAIN q : pc[q[i]] = where

\* A suspended coroutine is in the waiter list of exactly one event, that of the
\* dependency it awaits, and is resumed from nowhere else: by Set() of that node,
\* once.  A coroutine that hops to a pool is in the queue of that pool once.
ResumedOnce ==
    /\ AwaitedOnce
    /\ QueuedOnce(ioq, "queued")
    /\ QueuedOnce(computeq, "hop")

Schedule == INSTANCE DagSchedule WITH busy <- (exec # "idle")

\* The executor is a DagSchedule: no node starts before its dependencies are
\* final, statuses are final once, disabled nodes never run, and Execute returns
\* when and only when the graph has drained.
ScheduleSafe == Schedule!SafeSpec

\* The same with progress: every Execute returns.
ImplementsSchedule == Schedule!Spec
=============================================================================
