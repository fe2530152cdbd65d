---------------------------- MODULE ComputeGraph -----------------------------
(***************************************************************************)
(* exec::ComputeGraph: the DAG of compute nodes, its wiring (placeholders  *)
(* included), and its execution: Execute in topological order on the       *)
(* calling thread, ExecuteAsync with one detached coroutine per node.      *)
(*                                                                         *)
(* A graph is a record: node is the sequence of all nodes ever added, a    *)
(* node being known by its index; order lists the ones in the graph;       *)
(* broken says that an operation on it has thrown.  Dependencies are a     *)
(* set: ReplaceDependency sorts the vector by address.                     *)
(***************************************************************************)
EXTENDS Kahn, FiniteSets, SequencesExt

CONSTANTS RunOp(_, _),  \* TensorOp::compute on a store: [ok, out]
          Blank,        \* a default-constructed Tensor
          None

VARIABLES
    graph,      \* Pipeline::graph_
    store,      \* the TensorStore: column name -> tensor
    pool,       \* the workers of the compute pool
    queue,      \* its queue
    status,     \* ComputeNode::status_
    event,      \* the nodes whose done_ event is set
    waiters,    \* coroutines suspended on a node's event
    pc,         \* where each node's coroutine is
    resumer,    \* who resumed it: a worker or a node inside Set()
    remaining,  \* RunState::remaining
    counted,    \* node count accumulated in RunState::modules, all modules
    run,        \* where ExecuteAsync is: "idle", "spawn" or "wait"
    spawned,    \* loop index of ExecuteAsync
    stats       \* StatsCollector: OpTimings, nodes of ModuleTimings, runs

nodeVars == <<status, event, waiters, pc, resumer>>
runVars == <<remaining, counted, run, spawned>>
graphVars == <<graph, store, pool, queue, status, event, waiters, pc, resumer,
               remaining, counted, run, spawned, stats>>

-----------------------------------------------------------------------------
(* Construction and wiring.                                                *)

EmptyGraph == [node |-> <<>>, order |-> <<>>, topo |-> <<>>,
               finalized |-> FALSE, broken |-> FALSE]

NodesOf(g) == Range(g.order)
Break(g) == [g EXCEPT !.broken = TRUE]

\* by_id_ keeps the first node of an id; 0 is nullptr.
Find(g, id) ==
    LET at == {i \in DOMAIN g.order : g.node[g.order[i]].id = id}
    IN  IF at = {} THEN 0 ELSE g.order[CHOOSE i \in at : \A j \in at : i <= j]

AddNode(g, id, module, op) ==
    [g EXCEPT !.node = Append(@, [id |-> id, module |-> module, op |-> op, deps |-> {}]),
              !.order = Append(@, Len(g.node) + 1),
              !.finalized = FALSE]

PlaceholderOp(output) ==
    [type |-> "placeholder", inputs |-> <<>>, outputs |-> <<output>>, attrs |-> [a \in {} |-> ""]]
AddPlaceholder(g, output, id) == AddNode(g, id, "@placeholder", PlaceholderOp(output))
IsPlaceholder(g, n) == g.node[n].op.type = "placeholder"
HasPlaceholders(g) == \E n \in NodesOf(g) : IsPlaceholder(g, n)

AddDependency(g, id, dep_id) ==
    LET n == Find(g, id)
        d == Find(g, dep_id)
    IN  IF n = 0 \/ d = 0 THEN Break(g)
        ELSE [g EXCEPT !.node[n].deps = @ \cup {d}, !.finalized = FALSE]

ReplaceDependency(deps, from, to) == IF from \in deps THEN (deps \ {from}) \cup {to} ELSE deps

ReplacePlaceholder(g, placeholder_id, real_id) ==
    LET from == Find(g, placeholder_id)
        to == Find(g, real_id)
    IN  IF from = 0 \/ to = 0 THEN Break(g)
        ELSE IF from = to THEN g
        ELSE [g EXCEPT
                !.node = [n \in DOMAIN @ |-> [@[n] EXCEPT !.deps = ReplaceDependency(@, from, to)]],
                !.order = SelectSeq(@, LAMBDA n : n # from),
                !.finalized = FALSE]

\* Mutant: the sort does not notice that it could not place every node.
FinalizeUnchecked(g) ==
    [g EXCEPT !.topo = TopoOrder(g.order, [n \in NodesOf(g) |-> g.node[n].deps]), !.finalized = TRUE]

Finalize(g) ==
    LET topo == TopoOrder(g.order, [n \in NodesOf(g) |-> g.node[n].deps])
    IN  IF Len(topo) # Len(g.order) THEN [Break(g) EXCEPT !.topo = topo]
        ELSE [g EXCEPT !.topo = topo, !.finalized = TRUE]

-----------------------------------------------------------------------------
(* Both executions.                                                        *)

\* TensorStore::set.
SetTensor(s, name, t) == [c \in DOMAIN s \cup {name} |-> IF c = name THEN t ELSE s[c]]

EnsureNames(s, names) == [c \in DOMAIN s \cup names |-> IF c \in DOMAIN s THEN s[c] ELSE Blank]

OutputsOf(g) == UNION {Range(g.node[n].op.outputs) : n \in NodesOf(g)}

\* Mutant: the outputs are not registered before the run.
ReserveNothing(g, s) == s

ReserveOutputs(g, s) == EnsureNames(s, OutputsOf(g))

SetOutput(op, s, out) == IF out = <<>> THEN s ELSE SetTensor(s, op.outputs[1], out[1])
Written(op, s) == SetOutput(op, s, RunOp(op, s).out)

\* The store after Execute: the ops in topological order, failures ignored.
Execute(g, s) ==
    FoldLeft(LAMBDA acc, n : Written(g.node[n].op, acc), ReserveOutputs(g, s), g.topo)

-----------------------------------------------------------------------------
(* ExecuteAsync, on the calling thread.  Throwing is for the caller to see: *)
(* the graph is then broken and no run has started.                        *)

ExecuteAsync(g) ==
    LET final == IF g.finalized THEN g ELSE Finalize([g EXCEPT !.broken = FALSE])
        N == DOMAIN g.node
    IN  /\ run = "idle"
        /\ graph' = final
        /\ IF final.broken \/ final.order = <<>>
           THEN UNCHANGED <<store, status, event, waiters, pc, resumer, remaining, counted, run, spawned>>
           ELSE /\ status' = [n \in N |-> "kPending"]
                /\ event' = {}
                /\ waiters' = [n \in N |-> {}]
                /\ pc' = [n \in N |-> "new"]
                /\ resumer' = [n \in N |-> None]
                /\ store' = ReserveOutputs(final, store)
                /\ remaining' = Len(final.order)
                /\ counted' = 0
                /\ run' = "spawn"
                /\ spawned' = 0
        /\ UNCHANGED <<pool, queue, stats>>

\* SpawnNode up to co_await pool.Schedule().
Spawn ==
    /\ run = "spawn"
    /\ spawned < Len(graph.order)
    /\ LET n == graph.order[spawned + 1]
       IN  pc' = [pc EXCEPT ![n] = "queued"] /\ queue' = Append(queue, n)
    /\ spawned' = spawned + 1
    /\ run' = IF spawned' = Len(graph.order) THEN "wait" ELSE "spawn"
    /\ UNCHANGED <<graph, store, pool, status, event, waiters, resumer, remaining, counted, stats>>

\* StatsCollector: one OpTiming per event of a node; at the end of a run one
\* ModuleTiming per module, with its node count, and one CpuPressure.
HandleNode(s) == [s EXCEPT !.ops = @ + 1]
HandleModules(s, n) == [s EXCEPT !.nodes = @ + n]
HandleCpuPressure(s) == [s EXCEPT !.runs = @ + 1]

\* fut.wait() and ReportRunSummary.
Return ==
    /\ run = "wait"
    /\ remaining = 0
    /\ run' = "idle"
    /\ stats' = HandleCpuPressure(HandleModules(stats, counted))
    /\ UNCHANGED <<graph, store, pool, queue, nodeVars, remaining, counted, spawned>>

-----------------------------------------------------------------------------
(* The coroutines.  resume() is a plain call: whoever resumed a coroutine   *)
(* goes on only when that coroutine suspends or ends.                       *)

Free(x) == \A m \in DOMAIN resumer : resumer[m] # x
Running(n) == resumer[n] # None /\ Free(n)

Take(w) ==
    /\ Free(w)
    /\ queue # <<>>
    /\ queue' = Tail(queue)
    /\ pc' = [pc EXCEPT ![Head(queue)] = "await"]
    /\ resumer' = [resumer EXCEPT ![Head(queue)] = w]
    /\ UNCHANGED <<graph, store, pool, status, event, waiters, runVars, stats>>

Unmet(n) == graph.node[n].deps \ event

\* Mutant: one finished dependency is enough.
BeginEarly(n) ==
    /\ pc[n] = "await" /\ Running(n)
    /\ Unmet(n) = {} \/ Unmet(n) # graph.node[n].deps
    /\ pc' = [pc EXCEPT ![n] = "compute"]
    /\ counted' = counted + 1
    /\ UNCHANGED <<graph, store, pool, queue, status, event, waiters, resumer, remaining, run, spawned, stats>>

\* Every dependency's event was set: count the node for its module, start the op.
Begin(n) ==
    /\ pc[n] = "await" /\ Running(n)
    /\ Unmet(n) = {}
    /\ pc' = [pc EXCEPT ![n] = "compute"]
    /\ counted' = counted + 1
    /\ UNCHANGED <<graph, store, pool, queue, status, event, waiters, resumer, remaining, run, spawned, stats>>

\* co_await dep->done_event() of a dependency that is not done.
Suspend(n) ==
    /\ pc[n] = "await" /\ Running(n)
    /\ \E d \in Unmet(n) : waiters' = [waiters EXCEPT ![d] = @ \cup {n}]
    /\ pc' = [pc EXCEPT ![n] = "suspended"]
    /\ resumer' = [resumer EXCEPT ![n] = None]
    /\ UNCHANGED <<graph, store, pool, queue, status, event, runVars, stats>>

\* Mutant: only node.end is counted, not node.error.
FinishUncounted(n) ==
    /\ pc[n] = "compute" /\ Running(n)
    /\ LET ok == RunOp(graph.node[n].op, store).ok
       IN  /\ status' = [status EXCEPT ![n] = IF ok THEN "kSuccess" ELSE "kFailed"]
           /\ stats' = IF ok THEN HandleNode(stats) ELSE stats
    /\ store' = Written(graph.node[n].op, store)
    /\ pc' = [pc EXCEPT ![n] = "signal"]
    /\ UNCHANGED <<graph, pool, queue, event, waiters, resumer, runVars>>

\* compute() ended, with an exception or not: node.end or node.error, the status.
Finish(n) ==
    /\ pc[n] = "compute" /\ Running(n)
    /\ store' = Written(graph.node[n].op, store)
    /\ status' = [status EXCEPT ![n] = IF RunOp(graph.node[n].op, store).ok
                                       THEN "kSuccess" ELSE "kFailed"]
    /\ stats' = HandleNode(stats)
    /\ pc' = [pc EXCEPT ![n] = "signal"]
    /\ UNCHANGED <<graph, pool, queue, event, waiters, resumer, runVars>>

\* done_event().Set() marks the event and resumes the waiters inline ...
Signal(n) ==
    /\ pc[n] = "signal" /\ Running(n)
    /\ event' = event \cup {n}
    /\ pc' = [pc EXCEPT ![n] = "walk"]
    /\ UNCHANGED <<graph, store, pool, queue, status, waiters, resumer, runVars, stats>>

ResumeWaiter(n, m) ==
    /\ pc[n] = "walk" /\ Running(n)
    /\ m \in waiters[n]
    /\ waiters' = [waiters EXCEPT ![n] = @ \ {m}]
    /\ pc' = [pc EXCEPT ![m] = "await"]
    /\ resumer' = [resumer EXCEPT ![m] = n]
    /\ UNCHANGED <<graph, store, pool, queue, status, event, runVars, stats>>

\* Mutant: the node counts itself before it signals its event.
CountBeforeSet(n) ==
    /\ Running(n)
    /\ \/ pc[n] = "signal" /\ remaining' = remaining - 1
          /\ pc' = [pc EXCEPT ![n] = "late"] /\ UNCHANGED <<event, resumer>>
       \/ pc[n] = "late" /\ event' = event \cup {n}
          /\ pc' = [pc EXCEPT ![n] = "walk"] /\ UNCHANGED <<remaining, resumer>>
       \/ pc[n] = "walk" /\ waiters[n] = {}
          /\ pc' = [pc EXCEPT ![n] = "done"] /\ resumer' = [resumer EXCEPT ![n] = None]
          /\ UNCHANGED <<event, remaining>>
    /\ UNCHANGED <<graph, store, pool, queue, status, waiters, counted, run, spawned, stats>>

\* Mutant: Set() resumes some of the waiters only.
CountAny(n) ==
    /\ pc[n] = "walk" /\ Running(n)
    /\ remaining' = remaining - 1
    /\ pc' = [pc EXCEPT ![n] = "done"]
    /\ resumer' = [resumer EXCEPT ![n] = None]
    /\ UNCHANGED <<graph, store, pool, queue, status, event, waiters, counted, run, spawned, stats>>

\* ... then remaining.fetch_sub(1); the last one fulfils the promise.
Count(n) ==
    /\ pc[n] = "walk" /\ Running(n)
    /\ waiters[n] = {}
    /\ remaining' = remaining - 1
    /\ pc' = [pc EXCEPT ![n] = "done"]
    /\ resumer' = [resumer EXCEPT ![n] = None]
    /\ UNCHANGED <<graph, store, pool, queue, status, event, waiters, counted, run, spawned, stats>>

NodeStep(n) ==
    \/ Begin(n) \/ Suspend(n) \/ Finish(n) \/ Signal(n) \/ Count(n)
    \/ \E m \in waiters[n] : ResumeWaiter(n, m)

GraphInit ==
    /\ graph = EmptyGraph
    /\ queue = <<>>
    /\ status = <<>> /\ event = {} /\ waiters = <<>> /\ pc = <<>> /\ resumer = <<>>
    /\ remaining = 0 /\ counted = 0 /\ run = "idle" /\ spawned = 0
    /\ stats = [ops |-> 0, nodes |-> 0, runs |-> 0]
=============================================================================
