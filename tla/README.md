# A TLA+ verification of lark

lark is a C++20 library: a coroutine runtime (`coro`), a DAG executor (`dag`), a
columnar feature engine (`column`), a cache (`cache`), an RPC front (`rpc`), metrics
(`metric`) and helpers (`toolkit`). This directory models the concurrent core and
the column engine of it in TLA+, model-checks the models with TLC and proves the most
important invariants with TLAPS.

## The parts and how they interact

| part | what it does | uses |
|---|---|---|
| `coro::AsyncEvent` | lock-free one-shot event; `Set()` resumes the suspended coroutines inline, one after the other | - |
| `coro::ThreadPool` | workers that resume coroutine handles from a deque (mutex, condition variable), optional queue bound | - |
| `coro::Future` | shared state resolved once; combinators are detached coroutines that await the inputs' `done` event | AsyncEvent, ThreadPool |
| `coro` batch, `Pipeline`, tuner, pools | data-parallel loops, chains of steps, placement | Future, ThreadPool |
| `dag::Executor` | `Execute()` spawns one coroutine per node, each awaits its dependencies' events, runs, signals, counts down; the caller blocks on a promise | AsyncEvent, ThreadPool |
| `dag::OpExecutor` | the same idea with one Future per op, and aspects | Future |
| `dag` graph builder, registries, DSL, stats | building graphs from descriptions | toolkit |
| `cache::LocalCache`, `RemoteCache` | TTL cache with LRU eviction; the same over RPC | rpc, metric |
| `rpc` | services, in-process channel and registry, optional grpc/brpc adapters | metric |
| `metric` | events, monitors, profiler, sampler thread | - |
| `column` | tensors, compute graph, module compiler, pipeline, expression DSL | coro, toolkit, metric |

`PROJECT.json` lists every part with its status, the lines each definition models, the
hazards found while reading, and which property covers which hazard. A definition that takes
an operator as argument is mapped through the definitions that use it.

## Modules

| module | models | state and actions |
|---|---|---|
| `Event` | what AsyncEvent promises | a flag and the suspended waiters; Suspend, Set, Resume, Reset |
| `AsyncEvent` | `async_event.cpp` | the atomic `state_`, each awaiter's `next`, each thread's registers. Every atomic access is a step; `resume()` is a call, so a resumed waiter runs on the setter's thread (`host`) until it suspends or ends. `Atomic == INSTANCE Event` |
| `ThreadPool` | `thread_pool.cpp` | queue, sleeping and notified workers, clients between the push and `notify_one`, the destructor's three steps. A coroutine on a worker reschedules itself, spawns another or ends |
| `DagSchedule` | what `Execute()` promises | statuses only: a node starts when all its dependencies are final, is skipped if disabled, the call returns when all are final |
| `DagExecutor` | `executor.cpp` with `node.cpp`, `graph.cpp` | the calling thread's loop, the io and compute pools as FIFO queues, each node's coroutine, the `remaining` counter and the promise. AsyncEvent appears as the atomic event of module Event |
| `GraphBuilder` | `graph_builder.cpp` | operators: the three passes of `Build` and what each throws; the DFS keeps its explicit stack and its three marks |
| `Future` | `future.h` | shared states, producers, one continuation per combinator input, threads in `Get` |
| `Cache` | `cache.cpp`, as reached directly and through the in-process channel | map, recency list, clock; an operation reads the clock and then does its critical section |
| `Batch`, `OpGraph`, `Kahn` | `batch.cpp` and the split of `batch.h`; `op_graph_builder.cpp` and the graph half of `op_executor.cpp`; the topological sort that OpGraph and ComputeGraph share | operators |
| `OpExecutor` | `op_executor.cpp` and `batch.h`, over Future | the caller's loop that chains one future per op, each op's `RunOp`, `status_`, the AllOfs with what they still count, and for ops that reduce data the batches, their partials and the reduction's future. Skip, AspectThrows, BeginExecute, SpawnBatch, Fold, FoldThrows, Notify, ... |
| `Numeric`, `Tensor`, `Kernels` | numbers as exact rationals with infinities and NaN; `tensor.cpp`, `tensor_table.cpp`; the files of `compute/` | operators; a kernel takes the build (AVX-512, AVX2, SSE2, NEON, scalar), computes its vector blocks at the width of that build and then the tail |
| `RowTable` | what a graph of business nodes promises, row by row | rows, types, and whether there still are rows to speak of (`status`); one step per node |
| `ColumnGraph` | `graph.cpp` and the files of `node/` | the table; TransformNode, FilterNode, AggregateNode. A node's function calls a kernel or returns a tensor of its own, of any length. A read past the end of a column makes the table `Undefined`, from where nothing is said. `Rows == INSTANCE RowTable` |
| `TensorOps` | the `ops_*.cpp` of `exec/` | the factory and `compute()` of every op, on a store |
| `ExprDsl` | `biz/dsl.cpp` | the recursive-descent parser on tokens, emitting op specs |
| `ComputeGraph` | `exec/compute_graph.cpp`, `exec_node.cpp` | wiring as operators on a graph record; the execution as steps: Spawn, Take, Begin, Suspend, Finish, Signal, ResumeWaiter, Count, Return |
| `PipelineCompiler` | `biz/pipeline_compiler.cpp` | operators on the compiler's tables, one per section of `CompileModule` |
| `ColumnPipeline` | `biz/pipeline.cpp`, `feed_fetch.cpp`, `tensor_store.cpp`, `module.cpp`, `sub_graph.h` | one client that makes the calls in any order, composed with the steps of ComputeGraph |
| `ExprMeaning` | nothing: the reference | expression trees, how they are written and what they mean in a row |
| `MC*` | - | the instances for TLC |
| `AsyncEventProofs`, `ThreadPoolProofs`, `CacheProofs`, `FutureProofs`, `DagExecutorProofs`, `OpExecutorData`, `OpExecutorInvariant`, `OpExecutorProofs` | - | the proofs |

Composition goes bottom up: AsyncEvent is shown to implement Event, and DagExecutor and
Future use events with exactly those steps (set and detach; resume one; suspend unless
set). DagExecutor's pools are queues a free worker takes from; ThreadPool shows that an
accepted handle is taken and resumed once. OpExecutor uses futures with the steps of
module Future: a resolved future resumes its subscribers inline, on the worker that
resolved it. In the column engine ColumnPipeline is the whole stack: a module's DSL source
is parsed by ExprDsl, its op specs are compiled by PipelineCompiler into a graph, and
ComputeGraph runs that graph with the ops of TensorOps on the store that feed has filled.

Choices that recur: a coroutine resumed by another is a nested call, so the resumer
does nothing until it returns; code between two accesses to shared state is one step;
monitors and timing figures are left out;
DagExecutor and Future resume the waiters of an event in any order, of which the
list's last-in-first-out order is one; user code (a node's `Run`, a function passed
to `Then`) may succeed or throw. History variables, which no code reads, are marked as
such: `since` and `deadline` in Cache, `threw` in OpExecutor, `before` and
`last` in ColumnPipeline. A throwing C++ call is a result (`Throw`, or `ok` FALSE), and
the state it leaves behind is kept: a compile that throws leaves its partial graph and
`compiled_` set, a feed that throws leaves its phase begun.

## Runs

| run | instance | checks |
|---|---|---|
| `async_event` | 2 waiters that may wait again, 2 setters, Reset | `ListsAgree` (well typed, and the linked list spells the abstract list); `SuspendedOnce`; `ImplementsEvent` |
| `thread_pool` | 2 workers, 2 clients, 3 handles, `max_queue` 2 | `TypeOK`, `HandleOnce`, `NoLostWakeup`, `DrainedAtExit`; liveness `EveryHandleRuns`, `DestructorReturns` |
| `dag_executor` | the graphs that `GraphBuilder` makes of six configs over 3 nodes, any disabled set, 2 io workers, 1 compute worker, 2 calls of Execute on the same graph | `TypeOK`, `Quiescent`, `PromiseOnce`, `ResumedOnce`; `BuildsExactlyDags` (on 3,797 configs too: `Build` refuses a config exactly if it is malformed or has a cycle); `ImplementsSchedule`, with liveness |
| `dag_thread` | one call | `RunsOnWorker` is violated (finding) |
| `dag_siblings` | one call | `ReadyRunsConcurrently` is violated (finding) |
| `future` | 2 producers, three networks of 2 derived futures covering the six combinators, a timed and an untimed getter | `TypeOK`, `AllOfCorrect`, `AnyOfCorrect`, `NoForgottenWaiter`; `ResolvedOnce`, `TimeoutMeansUnresolved`; liveness `EverythingResolves` |
| `future_any_of` | the same | `FirstCompletionWins` is violated (finding) |
| `cache` | 3 keys, capacity 2, 2 threads, ttl 0 or 1, clock up to 2 | `TypeOK` with the capacity, `ListMatchesMap`; `EvictsLeastRecent`, `HitIsFresh` |
| `orchestration` | op graphs from DSL chains over 4 ops (a diamond, a join, jobs alone, in a chain and side by side, rejected sources), 2 workers, jobs of 0 and 5 elements, one throwing aspect | `RunsAfterDeps`, `DrainedOnReturn`, `ReducedInOrder`; liveness `ExecuteReturns` |
| `column_graph` | tables of 0, 1, 5 and 9 rows, tables fed with columns of lengths 0 and 5 in both orders, every kernel and every build, functions that return tensors of 0, 1 or 5 elements, 2 nodes | `TableConsistent` (a column is empty or as long as the table has rows); `ImplementsRows` (refinement, while the columns have one length) |
| `column_pipeline` | 792 expressions over 3 rows; pipelines of up to 3 modules with forward references, ordering edges, filters, reductions, quantized columns, failing ops and mistakes, 1 or 2 workers, 1 or 2 compute calls, all other calls in between | `NoConflict`, `ScheduleFree`, `Runnable`, `Quiescent`, `StatsAgree`, `FetchedIsMeaning`; `StoreStable`; liveness `ComputeReturns` |
| `column_select` | the example of `dsl.h` on 3 rows | `LiteralArgumentsWork` is violated (finding) |

Bounds. Two waiters give every race on a list head and a list of two to walk; two workers
and a queue of two give a sleeper, a worker that takes another's notification, and a
full queue. Three nodes give chains, joins and forks, and the second call of Execute
meets what the first left behind. Two inputs give every order of completion of an
aggregate. Three keys over capacity two give eviction with a choice of victim. Two
workers and five elements give batches that overlap, a short last batch, and jobs that
hold every worker while their batches are queued. Nine rows are one vector block and a
tail at the widest register (eight doubles) and several blocks at the others; two nodes
give a filter behind a transform, an aggregate of a filtered column, and a node that
meets the columns of different lengths that the one before it has left. The expressions
are all trees with one or two operators, with a call or a minus sign around them, so that
every pair of operators meets in both associations; a third module, in the pipelines,
gives an ordering edge across another module. The Q8_0 block has two elements instead of
32: three rows then make a full block and a short one. Every
property has at least one mutated definition (in the modules, marked "Mutant") that
breaks it in its run. Symmetry is used in `cache` only, whose properties are safety
properties.

### Findings

Four comments say something else than the code does. They are documented in
`PROJECT.json` with the lines quoted: a node's `Run` may execute on the thread that
called `Execute()`; ready siblings may run one after the other; `AnyOf` lets the first
success win, not the first completion; `select(mask, s2, 0)`, the example of `dsl.h`,
fails on any number of rows but one, and the column fetched is empty.

Seen while modelling, kept by the models, and listed as hazards or excepted by name in
the property concerned, without a run of their own:
- a literal on the left of `-`, `/` or an ordering comparison is swapped with the column
  on its right (`LiteralFirst` in `FetchedIsMeaning`);
- a literal argument of any call, and an expression without columns, is a column of length
  1 however many rows were fed (`LiteralArgument` and `Columns(e) # {}` in
  `FetchedIsMeaning`; such expressions are run with the others, and only the value fetched
  is not compared);
- a table of empty columns accepts a longer one, after which its columns differ in length,
  which `tensor_table.h:16` ("a collection of named Tensors (columns) with equal size")
  excludes; `TableConsistent` therefore allows empty columns, and `ImplementsRows` says
  nothing of a table once its columns differ;
- a column that a module reads and then overwrites is not ordered (`UsedBeforeSet`), so the
  claim of `wiki/column.md:57` that store writes "are race-free because each tensor is
  produced by exactly one op and consumed after it" does not hold for a fed column that is
  overwritten; `NoConflict` and `ScheduleFree` except those columns;
- `depends_on` delays nothing in a module without input ports: its ordering edge goes to
  the first boundary node, and the ops have none in front of them (`CompileDependency`);
- a `RemoteCache` whose default ttl is 0 gets the default of the serving store, where
  `cache.h:62` says "ttl of 0 uses the instance default (0 = no expiry)";
- a Get still returns an entry that expires while the Get waits for the mutex: `HitIsFresh`
  is about the clock value that the Get has read;
- after a throwing `compile()`, `compute()` runs the partial graph;
- an unknown node type makes `Build` throw `std::out_of_range`, which `graph_builder.h:40`
  does not list;
- `fetch_table` returns the table that it has just moved into the context, without columns;
- a reduction whose batch throws, and an execution whose aspect throws, report it while
  other batches or ops are still running.

## Fairness

Weak fairness of each worker, coroutine or thread step: the operating system runs every
runnable thread, and the user code on it ends. In AsyncEvent the successful
`compare_exchange_weak` of a waiter is strongly fair: a weak exchange may fail
spuriously, but not every time it could succeed. Nothing is assumed of clients that may
stop calling, of spurious wakeups, of timeouts or of the clock. A worker that sleeps is
not helped by fairness: it needs the notification, which is what the liveness
properties test. In Future the actors take finitely many steps altogether, so fairness
of the actors as a whole is enough. In OpExecutor the calling thread and each worker are
weakly fair; how user code ends (an op or a batch that throws, an aspect that skips) is
free. In ColumnPipeline the threads of a run are weakly fair together, which is enough
because each run takes finitely many steps; the formula is written out (a run that can
take a step does take one) instead of with WF, which TLC would evaluate by expanding the
whole next-state relation. Nothing makes the client call again.

## Proofs

For every value of the constants (any number of workers, clients, handles, nodes, waiters,
keys, futures, any graphs the builder accepts, any number of calls):

- `ThreadPoolProofs`: `Spec => []P` for `TypeOK`, `HandleOnce`, `NoLostWakeup`,
  `DrainedAtExit`. Assumed: `PoolAssumption` (there is a worker; the bounds are
  numbers; `NoHandle` is no handle). These properties are not inductive: that nothing is
  lost in the destructor depends on who still owes a notification. The strengthening
  adds `Jobs` (a running coroutine is the job of a worker that is resuming it),
  `Stopping` (`stop_` is set by the destructor, which no client call overlaps, and only
  then do workers exit) and `Attended` (the workers have not all exited while a handle
  is queued).
- `DagExecutorProofs`: `Spec => []P` for
  `TypeOK`, `Quiescent`, `PromiseOnce`, `ResumedOnce`, and `ExecutorIsSchedule`: every
  step of the executor is a step of `DagSchedule` or leaves it unchanged. Assumed:
  `ExecutorAssumption` (finitely many nodes, the graphs are as GraphBuilder leaves them,
  the threads are distinct). The inductive invariant adds to those: `Threads` (a
  coroutine has a resumer exactly while it holds a thread), `Counting` (`remaining` is
  the number of coroutines that have not counted, and the promise is set only at the
  end), `Loop` (the spawn loop has passed exactly the nodes that are not new),
  `Statuses` and `Events` (status and event follow the coroutine), `Awaited` (the
  dependencies a coroutine has passed are set). `Awaited` with `Events` is what makes a
  start legal in the abstract schedule; `Counting` with `Threads` is what makes the
  return safe for the `RunState` on the stack. One lemma per action.
- `AsyncEventProofs`: `Spec => []P` for `ListsAgree` and `SuspendedOnce`, and
  `RefinesEvent`: every step is a step of the atomic `Event` or leaves it unchanged.
  Assumed: `PointersDiffer` (`Null` and `This` are no waiters) and `BoundsAreNat`. The
  properties speak of the lists; whether an exchange keeps them depends on what the
  publishing thread stored before it. The strengthening adds `Linked` (a waiter about to
  exchange has stored in `next` the very value it compares `state_` with, so a success
  puts it in front of the list as it is now, even if the head was popped and pushed again
  meanwhile) and `Hosted` (a coroutine running inside a `Set()` is the only one there,
  suspended nowhere, and that `Set()` is waiting for it, so the `next` it has saved cannot
  go stale). Lemmas on chains say that pushing, popping and foreign writes to `next` keep
  what a list spells.
- `CacheProofs`: `Spec => []P` for `TypeOK` (with the capacity) and `ListMatchesMap`, and the
  action properties `EvictsLeastRecent` and `HitIsFresh`. Assumed: `CacheAssumption`. The
  invariant adds `Recency` (whatever is in front of a key in `lru_` has been used since
  that key, which makes the last key the least recent) and `Timely` (a clock value read
  before the lock is not ahead of the clock, so an entry never expires later than a ttl
  after its Put took effect). The lemmas on `Unlist` and on the eviction loop (`Kept` exists,
  leaves room and is the largest such prefix) carry the counting.
- `FutureProofs`: `Spec => []P` for `TypeOK`, `AllOfCorrect`,
  `AnyOfCorrect`, `NoForgottenWaiter`, and the action properties `ResolvedOnce` and
  `TimeoutMeansUnresolved`. Assumed: `FuturesDiffer` and `ShapesAreNetworks` (a network's
  inputs are futures and its continuations are started once each); in particular an
  input may feed any number of combinators, and a combinator have any number of inputs.
  The invariant adds `Started`, `Events` (waiters are parked on what will wake them, one
  actor at a time completes a future, and after it has published), `Ready` (a resumed
  continuation finds its input resolved), `Justified` (what an actor is about to resolve a
  future with is `Due`: it is what AllOf or AnyOf owes, given the inputs' results) and
  `Aggregate` (`remaining` is the number of unfilled slots, `failed` the number of
  continuations that have counted an error, and one that is about to count has noted an
  error unless there is a winner). `Aggregate` is what makes the last countdown mean that
  all slots are full, and the last failure that a noted error is there to resolve with.
  `Due` only grows as results come in, so it survives the time between the decision and
  the critical section.
- `OpExecutorData`: what the loops of the op layer compute, for every source and every job.
  `BuildIsWellFormed`: `BuildDsl` leaves a graph with no id twice, only registered types and
  dependencies among its ids. `CompileOrders`: when `Compile` returns, `order_` has every op
  once, behind the ops it depends on. `CompileAcceptsDags`: `Compile` throws exactly for
  cyclic graphs. `ReducesInOrder`: `Spec => []ReducedInOrder`. The loops are written with
  `FoldInOrder`, whose turns are a recursive function of the loop index; `FoldExists` and
  `RunStays` say that the turns exist and that what holds before the loop and survives each
  turn holds after it. They quantify over sets instead of operators, which is how the
  provers can instantiate them. For Kahn's queue the property that survives is: the queue
  lists nodes once, namely those whose dependencies have all been popped; if it runs empty
  early, the nodes left over all depend on one another. For the data, `BatchesCover` and
  `BatchesJoin` say that the slices of the batches, joined in order, are all elements. The
  invariant `DataInv` says of each op that a finished batch has left its own slice, that
  `BatchReduce` has no value but all elements in order, and that `RunOp` passes
  `BatchReduce` only once that is resolved. Assumed: `SourcesAssumption` and
  `JobsAssumption`, which give the form of the inputs only (a source is a sequence of
  chains of segments; `All` and `NoItem` are no ids and no items; sizes are numbers).
- `OpExecutorInvariant`, `OpExecutorProofs`: `Spec => []P` for `RunsAfterDeps` and
  `DrainedOnReturn`, for any number of workers, ops, data elements and batches. Assumed:
  `WorkerAssumption` (finitely many workers, at least one) and the two assumptions above;
  that the order of the ops is one to chain them in comes from `CompileOrders`. The invariant is `Blank` until Execute has compiled the
  graph, and `Live` from then on: `Items` (an op or batch that is scheduled is one item,
  in the queue once or held by one worker, so nothing runs twice), `Phase` (an op's
  place, status and future agree, and an op that has left "waiting" without an error has
  the values of all its dependencies), `Subscriptions` and `Countdown` (an undecided AllOf counts exactly the
  futures that are pending or about to resume it, is subscribed to each pending one, and
  a worker is on its way with every error), `Reduction` (batches are alive only while
  their op awaits them or after one of them failed) and `Caller` (the ops that exist are
  those the loop has passed). `Countdown` is what makes the last resumption mean that all
  dependencies have values; it needs `Subscriptions`, because a future resolved while the
  caller is still chaining is counted by no later AllOf but resumes every earlier one.
  `DrainedOnReturn` follows from `Caller` for the ops and from `Items` and `Reduction`
  for the pool.

Only model-checked:
- all liveness, which like ENABLED is outside what the prover handles, including the
  liveness parts of `ImplementsSchedule` and `ImplementsEvent`;
- `BuildsExactlyDags`: the depth-first search of GraphBuilder is a RECURSIVE definition over
  an explicit stack, outside what the prover handles;
- `TableConsistent` and `ImplementsRows`, whose tables are built by the library's folds over
  operators that the prover does not instantiate;
- `FetchedIsMeaning`, whose parser and reference are RECURSIVE, and the execution of a column
  pipeline (`NoConflict`, `ScheduleFree`, `Runnable`, `Quiescent`, `StatsAgree`,
  `StoreStable`), whose module uses the parser.

Each invariant `IInv`, and `DataInv` but for its part about the graph, was model-checked on
the instance of the component's run before it was proved.

## Not modelled

The memory model (accesses are sequentially consistent; the code's acquire/release pairs
on `state_` and `remaining` are assumed to order the plain data they publish), thread
placement and priorities, the standard library's promise and condition variable inside,
formatting and the optional RPC adapters. Cache values are abstracted
away, so that a hit returns the value last put is not checked. `first_error` of AnyOf is
assigned without synchronisation; the model lets either of two overlapping assignments
stay and nothing worse. AnyOf and AllOf of an empty vector are left out, except the AllOf
of an op without dependencies.

In the column engine numbers are exact: rounding, `float32` precision and the overflow of
`int64_t` are left out, and the functions of libm are a parameter (any function will do).
Memory layout and alignment, printing, durations and the
utilization figure are left out. Two clients never call one pipeline at once: it has
no lock, and nothing says it may be shared. Backends other than the CPU's do not exist.

In the op layer an executor executes one graph once, so that statuses left over from an
earlier execution are not seen; the element functions of BatchMap, BatchTransform and
BatchForEach are not told apart from BatchReduce's, and its `combine` does not throw.

Whole parts without a model, each with its reason in `PROJECT.json`: `coro::Pipeline` and
`Context`, tuner and pools, the registries, CacheFactory, the
RPC registry with several servers, the Sampler, the toolkit's lexer.

## Plan

1. Proofs: the run of ComputeGraph (`Quiescent`, `StoreStable`), which needs it apart from the
   parser.
2. The RPC registry with several servers (partial Start, Stop by name), and the Sampler.
