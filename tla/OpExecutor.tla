----------------------------- MODULE OpExecutor ------------------------------
(***************************************************************************)
(* dag::OpExecutor over the ops of an OpGraph, with ops whose Execute      *)
(* awaits a batch::BatchReduce on the same pool.  ExecuteAsync chains, in   *)
(* topological order, AllOf(futures of the deps).ThenAsync(RunOp); Execute  *)
(* waits for AllOf(all futures).                                           *)
(*                                                                         *)
(* A coroutine that resolves a future resumes its subscribers inline: the   *)
(* pairs <<resolved, subscriber>> that a worker has still to resume are     *)
(* walk[w].  Future and its events are the subject of module Future.        *)
(***************************************************************************)
EXTENDS OpGraph, Batch

CONSTANTS
    Sources,     \* the DSL sources executed
    Jobs,        \* op type -> [n, batch_size], for the types that reduce n elements
    Worker,
    MaxThrows,   \* bound on the calls of aspects that throw
    All,         \* the AllOf that Execute waits for
    NoItem

ASSUME WorkerAssumption == IsFiniteSet(Worker) /\ Worker # {} /\ NoItem \notin Worker

\* Nothing is assumed of a source but its form; All and NoItem are nothing of a graph.
SegmentsOf(source) == UNION {Range(source[i]) : i \in DOMAIN source}
IdsOf(source) == {seg.id : seg \in SegmentsOf(source)}
TypesOf(source) == {seg.type : seg \in SegmentsOf(source)}

ASSUME SourcesAssumption ==
    \A source \in Sources :
        /\ source \in Seq(Seq([id : IdsOf(source), type : TypesOf(source)]))
        /\ All \notin IdsOf(source) /\ NoItem \notin IdsOf(source) \X Nat

ASSUME JobsAssumption == \A t \in DOMAIN Jobs : Jobs[t].n \in Nat /\ Jobs[t].batch_size \in Nat

VARIABLES
    graph,    \* the OpGraph
    caller,   \* "ready", "chain", "wait", "returned", or "rejected" after a throw
    chained,  \* loop index of ExecuteAsync
    at,       \* where each op's coroutine is
    status,   \* status_, with kPending for an op that is not in the map
    result,   \* each op's future: "pending", "value" or "error"; All too
    left,     \* what each AllOf still counts
    subs,     \* the AllOfs suspended on each op's future
    walk,     \* subscribers each worker has still to resume
    hold,     \* what each worker runs: <<op, 0>>, or <<op, b>> for batch b
    queue,    \* the pool's queue of the same items
    batch,    \* state of each batch of an op
    partial,  \* the partials[b], a sequence of elements: fn appends, combine concatenates
    total,    \* the future of BatchReduce: Pending, Error, or Value(sequence)
    threw     \* the ops for which an aspect has thrown

futureVars == <<result, left, subs, walk>>
batchVars == <<batch, partial, total>>
vars == <<graph, caller, chained, at, status, result, left, subs, walk, hold, queue,
          batch, partial, total, threw>>

Pending == [is |-> "pending"]
Error == [is |-> "error"]
Value(v) == [is |-> "value", v |-> v]

Ops == Range(graph.ids)
order == graph.order
Final == {"kSuccess", "kFailed", "kSkipped"}

IsJob(o) == graph.type[o] \in DOMAIN Jobs
Job(o) == Jobs[graph.type[o]]
SizeOf(o) == BatchSize(Job(o).n, Job(o).batch_size, Cardinality(Worker))
BatchesOf(o) == IF IsJob(o) THEN 1 .. Batches(Job(o).n, SizeOf(o)) ELSE {}
Elements(from, to) == [i \in 1 .. to - from |-> from + i]
Data(o) == Elements(0, Job(o).n)

Init ==
    /\ graph \in {BuildDsl(source) : source \in Sources}
    /\ caller = IF graph.ok THEN "ready" ELSE "rejected"
    /\ chained = 0
    /\ at = [o \in Ops |-> "unborn"]
    /\ status = [o \in Ops |-> "kPending"]
    /\ result = [o \in Ops \cup {All} |-> "pending"]
    /\ left = [o \in Ops \cup {All} |-> 0]
    /\ subs = [o \in Ops |-> {}]
    /\ walk = [w \in Worker |-> {}]
    /\ hold = [w \in Worker |-> NoItem]
    /\ queue = <<>>
    /\ batch = [o \in Ops |-> [b \in BatchesOf(o) |-> "unborn"]]
    /\ partial = [o \in Ops |-> [b \in BatchesOf(o) |-> <<>>]]
    /\ total = [o \in Ops |-> Pending]
    /\ threw = {}

-----------------------------------------------------------------------------
(* ExecuteAsync on the calling thread.                                     *)

Start ==
    /\ caller = "ready"
    /\ graph' = Compile(graph)
    /\ caller' = IF graph'.ok THEN "chain" ELSE "rejected"
    /\ UNCHANGED <<chained, at, status, futureVars, hold, queue, batchVars, threw>>

\* AllOf(from), as far as it gets at once: subscriber x of the futures still pending.
Subscribe(x, from) ==
    LET pending == {d \in from : result[d] = "pending"}
    IN  /\ left' = [left EXCEPT ![x] = Cardinality(pending)]
        /\ subs' = [o \in Ops |-> IF o \in pending THEN subs[o] \cup {x} ELSE subs[o]]

Failed(from) == \E d \in from : result[d] = "error"
Met(from) == \A d \in from : result[d] = "value"

\* Mutant: the first dependency to resolve releases the op.
ChainAny ==
    LET o == order[chained + 1]
        pending == {d \in graph.deps[o] : result[d] = "pending"}
    IN  /\ caller = "chain"
        /\ chained < Len(order)
        /\ chained' = chained + 1
        /\ left' = [left EXCEPT ![o] = Lesser(1, Cardinality(pending))]
        /\ subs' = [d \in Ops |-> IF d \in pending THEN subs[d] \cup {o} ELSE subs[d]]
        /\ result' = [result EXCEPT ![o] = IF Failed(graph.deps[o]) THEN "error" ELSE @]
        /\ at' = [at EXCEPT ![o] = IF Failed(graph.deps[o]) THEN "done"
                                   ELSE IF Met(graph.deps[o]) THEN "queued" ELSE "waiting"]
        /\ queue' = IF Met(graph.deps[o]) THEN Append(queue, <<o, 0>>) ELSE queue
        /\ UNCHANGED <<graph, caller, status, walk, hold, batchVars, threw>>

\* futures[op] = AllOf(dep_futures).ThenAsync(RunOp): at once to the pool, at once to
\* an error, or suspended.
Chain ==
    LET o == order[chained + 1]
        deps == graph.deps[o]
    IN  /\ caller = "chain"
        /\ chained < Len(order)
        /\ chained' = chained + 1
        /\ Subscribe(o, deps)
        /\ result' = [result EXCEPT ![o] = IF Failed(deps) THEN "error" ELSE @]
        /\ at' = [at EXCEPT ![o] = IF Failed(deps) THEN "done" ELSE IF Met(deps) THEN "queued" ELSE "waiting"]
        /\ queue' = IF Met(deps) THEN Append(queue, <<o, 0>>) ELSE queue
        /\ UNCHANGED <<graph, caller, status, walk, hold, batchVars, threw>>

\* Mutant: Execute waits for the last op of the order only.
ChainLast ==
    LET last == IF order = <<>> THEN {} ELSE {order[Len(order)]}
    IN  /\ caller = "chain"
        /\ chained = Len(order)
        /\ caller' = "wait"
        /\ Subscribe(All, last)
        /\ result' = [result EXCEPT ![All] = IF Failed(last) THEN "error" ELSE IF Met(last) THEN "value" ELSE @]
        /\ UNCHANGED <<graph, chained, at, status, walk, hold, queue, batchVars, threw>>

ChainAll ==
    /\ caller = "chain"
    /\ chained = Len(order)
    /\ caller' = "wait"
    /\ Subscribe(All, Ops)
    /\ result' = [result EXCEPT ![All] = IF Failed(Ops) THEN "error" ELSE IF Met(Ops) THEN "value" ELSE @]
    /\ UNCHANGED <<graph, chained, at, status, walk, hold, queue, batchVars, threw>>

\* Wait() returns whether the future holds a value or an error.
Return ==
    /\ caller = "wait"
    /\ result[All] # "pending"
    /\ caller' = "returned"
    /\ UNCHANGED <<graph, chained, at, status, futureVars, hold, queue, batchVars, threw>>

-----------------------------------------------------------------------------
(* RunOp on a worker, from the hop on.                                     *)

Free(w) == hold[w] = NoItem /\ walk[w] = {}
Holds(w, o, place) == hold[w] = <<o, 0>> /\ at[o] = place

\* A worker takes an item.  A batch is scheduled twice: by Async, and by its own
\* co_await pool.Schedule().
Take(w) ==
    LET o == Head(queue)[1]
        b == Head(queue)[2]
        again == b # 0 /\ batch[o][b] = "queued"
    IN  /\ queue # <<>>
        /\ Free(w)
        /\ queue' = IF again THEN Append(Tail(queue), Head(queue)) ELSE Tail(queue)
        /\ hold' = IF again THEN hold ELSE [hold EXCEPT ![w] = Head(queue)]
        /\ IF b = 0
           THEN /\ at' = [at EXCEPT ![o] = "before"]
                /\ status' = [status EXCEPT ![o] = "kRunning"]
                /\ UNCHANGED batch
           ELSE /\ batch' = [batch EXCEPT ![o][b] = IF again THEN "requeued" ELSE "running"]
                /\ UNCHANGED <<at, status>>
        /\ UNCHANGED <<graph, caller, chained, futureVars, partial, total, threw>>

\* The op's future resolves, and w goes on to resume the AllOfs waiting for it.
Resolve(w, o, r) ==
    /\ result' = [result EXCEPT ![o] = r]
    /\ at' = [at EXCEPT ![o] = "done"]
    /\ walk' = [walk EXCEPT ![w] = {<<o, x>> : x \in subs[o]}]
    /\ subs' = [subs EXCEPT ![o] = {}]
    /\ hold' = [hold EXCEPT ![w] = NoItem]

\* Some aspect's ShouldSkip returns true.
Skip(w, o) ==
    /\ Holds(w, o, "before")
    /\ status' = [status EXCEPT ![o] = "kSkipped"]
    /\ Resolve(w, o, "value")
    /\ UNCHANGED <<graph, caller, chained, left, queue, batchVars, threw>>

\* ShouldSkip or OnBefore throws, or, after the status is set, OnAfter does.
AspectThrows(w, o) ==
    /\ Holds(w, o, "before") \/ Holds(w, o, "after")
    /\ Cardinality(threw) < MaxThrows
    /\ threw' = threw \cup {o}
    /\ Resolve(w, o, "error")
    /\ UNCHANGED <<graph, caller, chained, status, left, queue, batchVars>>

\* op->Execute(data) begins: a job spawns its batches one by one.
BeginExecute(w, o) ==
    /\ Holds(w, o, "before")
    /\ at' = [at EXCEPT ![o] = IF IsJob(o) THEN "spawn" ELSE "execute"]
    /\ UNCHANGED <<graph, caller, chained, status, futureVars, hold, queue, batchVars, threw>>

EndExecute(w, o, s) ==
    /\ status' = [status EXCEPT ![o] = s]
    /\ at' = [at EXCEPT ![o] = "after"]
    /\ UNCHANGED <<graph, caller, chained, futureVars, hold, queue, batchVars, threw>>

PlainExecute(w, o) ==
    /\ Holds(w, o, "execute")
    /\ \E s \in {"kSuccess", "kFailed"} : EndExecute(w, o, s)

After(w, o) ==
    /\ Holds(w, o, "after")
    /\ Resolve(w, o, "value")
    /\ UNCHANGED <<graph, caller, chained, status, left, queue, batchVars, threw>>

-----------------------------------------------------------------------------
(* co_await BatchReduce(...) inside Execute.                               *)

\* The next turn of the loop of RunBatches.
SpawnBatch(w, o, b) ==
    /\ Holds(w, o, "spawn")
    /\ batch[o][b] = "unborn"
    /\ \A a \in 1 .. b - 1 : batch[o][a] # "unborn"
    /\ batch' = [batch EXCEPT ![o][b] = "queued"]
    /\ queue' = Append(queue, <<o, b>>)
    /\ UNCHANGED <<graph, caller, chained, at, status, futureVars, hold, partial, total, threw>>

\* With no element BatchReduce has its value at once; else the op suspends unless the
\* batches were faster.
AwaitBatches(w, o) ==
    /\ Holds(w, o, "spawn")
    /\ \A b \in BatchesOf(o) : batch[o][b] # "unborn"
    /\ total' = [total EXCEPT ![o] = IF BatchesOf(o) = {} THEN Value(<<>>) ELSE @]
    /\ at' = [at EXCEPT ![o] = IF total'[o] = Pending THEN "suspended" ELSE "reduced"]
    /\ hold' = IF total'[o] = Pending THEN [hold EXCEPT ![w] = NoItem] ELSE hold
    /\ UNCHANGED <<graph, caller, chained, status, futureVars, queue, batch, partial, threw>>

\* The future of BatchReduce resolves with t, unless it already has: the worker goes
\* on with the op if that was suspended.
ResolveReduce(w, o, t) ==
    LET resumes == t # Pending /\ total[o] = Pending /\ at[o] = "suspended"
    IN  /\ total' = [total EXCEPT ![o] = IF @ = Pending THEN t ELSE @]
        /\ at' = IF resumes THEN [at EXCEPT ![o] = "reduced"] ELSE at
        /\ hold' = [hold EXCEPT ![w] = IF resumes THEN <<o, 0>> ELSE NoItem]
        /\ UNCHANGED <<graph, caller, chained, status, futureVars, queue, threw>>

\* batch_fn folds its range; the last batch of all combines the partials.
Fold(w, o, b) ==
    LET size == SizeOf(o)
        acc == Elements(BatchBegin(size, b - 1), BatchEnd(Job(o).n, size, b - 1))
    IN  /\ hold[w] = <<o, b>>
        /\ partial' = [partial EXCEPT ![o][b] = acc]
        /\ batch' = [batch EXCEPT ![o][b] = "done"]
        /\ ResolveReduce(w, o, IF \A a \in BatchesOf(o) : batch'[o][a] = "done"
                               THEN Value(FoldInOrder(LAMBDA s, t : s \o t, <<>>, partial'[o])) ELSE Pending)

\* The element function throws: AllOf fails at once, whatever the other batches do.
FoldThrows(w, o, b) ==
    /\ hold[w] = <<o, b>>
    /\ batch' = [batch EXCEPT ![o][b] = "error"]
    /\ ResolveReduce(w, o, Error)
    /\ UNCHANGED partial

Reduced(w, o) ==
    /\ Holds(w, o, "reduced")
    /\ EndExecute(w, o, IF total[o] = Error THEN "kFailed" ELSE "kSuccess")

-----------------------------------------------------------------------------
(* RunAllOfVoid and RunThenAsyncVoid, resumed by the worker that resolved d. *)

\* Mutant: an error is dropped, and the AllOf that waits for it never completes.
NotifyLosesError(w, d, x) ==
    LET counts == result[d] = "value"
        ready == counts /\ result[x] = "pending" /\ left[x] = 1
    IN  /\ <<d, x>> \in walk[w]
        /\ left' = [left EXCEPT ![x] = IF counts THEN @ - 1 ELSE @]
        /\ result' = [result EXCEPT ![x] = IF ready /\ x = All THEN "value" ELSE @]
        /\ at' = IF ready /\ x # All THEN [at EXCEPT ![x] = "queued"] ELSE at
        /\ queue' = IF ready /\ x # All THEN Append(queue, <<x, 0>>) ELSE queue
        /\ walk' = [walk EXCEPT ![w] = @ \ {<<d, x>>}]
        /\ UNCHANGED <<graph, caller, chained, status, subs, hold, batchVars, threw>>

\* An error passes through ThenAsync to the subscribers of x, inline; a value counts
\* down, and the last one sends RunOp of x to the pool, or completes Execute's AllOf.
Notify(w, d, x) ==
    LET fails == result[d] = "error" /\ result[x] = "pending"
        ready == result[d] = "value" /\ result[x] = "pending" /\ left[x] = 1
        cascade == fails /\ x # All
        release == ready /\ x # All
    IN  /\ <<d, x>> \in walk[w]
        /\ left' = [left EXCEPT ![x] = IF result[d] = "value" THEN @ - 1 ELSE @]
        /\ result' = [result EXCEPT ![x] = IF fails THEN "error" ELSE IF ready /\ x = All THEN "value" ELSE @]
        /\ at' = IF x = All THEN at
                 ELSE [at EXCEPT ![x] = IF fails THEN "done" ELSE IF ready THEN "queued" ELSE @]
        /\ queue' = IF release THEN Append(queue, <<x, 0>>) ELSE queue
        /\ walk' = [walk EXCEPT ![w] = (@ \ {<<d, x>>}) \cup
                                       (IF cascade THEN {<<x, y>> : y \in subs[x]} ELSE {})]
        /\ subs' = IF cascade THEN [subs EXCEPT ![x] = {}] ELSE subs
        /\ UNCHANGED <<graph, caller, chained, status, hold, batchVars, threw>>

-----------------------------------------------------------------------------

CallerStep == Start \/ Chain \/ ChainAll \/ Return

WorkerStep(w) ==
    \/ Take(w)
    \/ \E o \in Ops : \/ Skip(w, o) \/ AspectThrows(w, o) \/ BeginExecute(w, o)
                      \/ PlainExecute(w, o) \/ After(w, o)
                      \/ AwaitBatches(w, o) \/ Reduced(w, o)
                      \/ \E b \in BatchesOf(o) : SpawnBatch(w, o, b) \/ Fold(w, o, b) \/ FoldThrows(w, o, b)
                      \/ \E x \in Ops \cup {All} : Notify(w, o, x)

Next == CallerStep \/ \E w \in Worker : WorkerStep(w)

\* The calling thread and every worker keep running.
Fairness == WF_vars(CallerStep) /\ \A w \in Worker : WF_vars(WorkerStep(w))

Spec == Init /\ [][Next]_vars /\ Fairness

-----------------------------------------------------------------------------

Busy == {"before", "execute", "spawn", "suspended", "reduced", "after"}

\* RunOp of an op begins only after every op it depends on has its final status, and
\* never after one of them ended by an aspect's exception: a failed Execute does not
\* poison the graph, a failed aspect cuts off everything behind it, directly or not.
RunsAfterDeps ==
    \A o \in Ops : at[o] \in Busy \/ status[o] # "kPending" =>
        \A d \in graph.deps[o] : status[d] \in Final /\ d \notin threw /\ result[d] = "value"

\* When Execute returns and no aspect has thrown, the graph has drained: every op has a
\* final status and its future a value, no op is queued or running and, unless a batch
\* has thrown, neither is any batch.
DrainedOnReturn ==
    caller = "returned" /\ threw = {} =>
        /\ \A o \in Ops : status[o] \in Final /\ result[o] = "value"
        /\ LET busy == (Range(queue) \cup {hold[w] : w \in Worker}) \ {NoItem}
               broken == {o \in Ops : total[o] = Error}
           IN  \A item \in busy : item[2] # 0 /\ item[1] \in broken

\* An op that awaited BatchReduce succeeds only with every element folded once and the
\* partials combined in the order of the data, however its batches were interleaved.
ReducedInOrder == \A o \in Ops : IsJob(o) /\ status[o] = "kSuccess" => total[o] = Value(Data(o))

\* Execute returns for every acyclic graph, whatever ops, aspects and batches throw, also
\* when jobs and their batches share one pool.  The combine given to BatchReduce is taken
\* not to throw: nothing would resolve the reduction then.
ExecuteReturns == (caller = "chain") ~> (caller = "returned")
=============================================================================
