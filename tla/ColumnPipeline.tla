---------------------------- MODULE ColumnPipeline ---------------------------
(***************************************************************************)
(* biz::Pipeline: modules are registered, compiled into the compute graph, *)
(* and run by feed, compute and fetch.  One client thread makes the calls, *)
(* in any order; compute blocks it while the workers of the compute pool   *)
(* run the graph.                                                          *)
(*                                                                         *)
(* A program is what the client has at hand: the definitions of its        *)
(* modules, a list of rows and a table to feed, the columns to fetch, and  *)
(* bounds: the sizes of pool it asks for and the number of compute calls.  *)
(***************************************************************************)
EXTENDS PipelineCompiler

CONSTANTS Programs, Worker

VARIABLES
    program,    \* the client's program, fixed
    defined,    \* how many of its module definitions were used
    modules,    \* Pipeline::modules_
    compiled,   \* Pipeline::compiled_
    phase,      \* ExecutionContext: the phase and whether it is active
    before,     \* the store when the last run started
    last,       \* the last call: its name and whether it returned normally
    fetched,    \* what the last fetch returned
    computes    \* number of compute calls

clientVars == <<program, defined, modules, compiled, phase, before, last, fetched, computes>>
vars == <<graphVars, clientVars>>

-----------------------------------------------------------------------------
(* Sub-graph builders.                                                     *)

ArithSpec(op, out, a, b) == Spec4(op, <<a, b>>, <<out>>, NoAttrs)
ArithScalarSpec(op, out, a, v) == Spec4(ScalarOf(op), <<a>>, <<out>>, [scalar |-> Shown(v)])
UnarySpec(op, out, a) == Spec4(op, <<a>>, <<out>>, NoAttrs)
CompareSpec(op, out, a, b) == Spec4(op, <<a, b>>, <<out>>, NoAttrs)
CompareScalarSpec(op, out, a, v) == Spec4(ScalarOf(op), <<a>>, <<out>>, [scalar |-> Shown(v)])
SpecialSpec(op, out, ins, attrs) == Spec4(op, ins, <<out>>, attrs)

\* A module defined by ops, then by the statements of a DSL source.
ModuleOf(def, p) ==
    [ok |-> p.ok, m |-> [name |-> def.name, inputs |-> def.inputs, outputs |-> def.outputs,
                         deps |-> def.deps, ops |-> def.ops \o p.ops]]
Build(def) == ModuleOf(def, parse(def.source))

-----------------------------------------------------------------------------
(* Rows and cells: a cell is [kind, x] with kind null, int or double.      *)

FedColumn(rows, c) ==
    LET dtype == IF \E r \in DOMAIN rows : rows[r][c].kind = "double" THEN "float64" ELSE "int64"
    IN  TensorOf(dtype, [r \in DOMAIN rows |-> IF rows[r][c].kind = "null" THEN Zero
                                               ELSE CastTo(dtype, rows[r][c].x)])

feed_table(names, rows) ==
    IF names # <<>> /\ \E r \in DOMAIN rows : Len(rows[r]) < Len(names) THEN Throw
    ELSE FoldLeft(LAMBDA t, c : AddColumn(t, names[c], FedColumn(rows, c)), EmptyTable,
                  [c \in DOMAIN names |-> c])

\* Cleared, then one clone per column.
StoreOf(table) == table.tensors

to_table(s, names) ==
    IF \E i \in DOMAIN names : names[i] \notin DOMAIN s THEN Throw
    ELSE IF \E i \in DOMAIN names : Size(s[names[i]]) # Size(s[names[1]]) THEN Throw
    ELSE FoldLeft(LAMBDA t, n : AddColumn(t, n, s[n]), EmptyTable, names)

\* Integers stay integers, floats become doubles; the blocks of a quantized column
\* are read as if they were doubles, whose values are not modelled.
fetch_rows(table, names) ==
    [i \in DOMAIN names |->
        LET t == Column(table, names[i])
        IN  [kind |-> IF is_int(t.dtype) THEN "int" ELSE "double",
             v |-> IF is_quantized(t.dtype) THEN [r \in 1 .. t.n |-> NaN] ELSE t.v]]

fetch_scalar(t) ==
    LET u == IF is_quantized(t.dtype) THEN dequantize(t) ELSE t
    IN  IF Size(t) = 0 THEN Zero ELSE u.v[1]

-----------------------------------------------------------------------------
(* The client's calls.                                                     *)

Idle == run = "idle"
Started(name) == [name |-> name, active |-> TRUE]
Ended(name) == [name |-> name, active |-> FALSE]
Called(name, ok) == last' = [call |-> name, ok |-> ok]

\* A pool of n workers; which ones makes no difference.
PoolOf(n) == CHOOSE w \in SUBSET Worker : Cardinality(w) = n

Init ==
    /\ GraphInit
    /\ program \in Programs
    /\ pool \in {PoolOf(n) : n \in program.workers}
    /\ store = [c \in {} |-> EmptyTensor]
    /\ before = store
    /\ defined = 0 /\ modules = <<>> /\ compiled = FALSE
    /\ phase = Ended("kFeed")
    /\ last = [call |-> "none", ok |-> TRUE]
    /\ fetched = <<>> /\ computes = 0

\* from_dsl throws on a bad source, add_module on a name already taken.
AddModule ==
    /\ Idle
    /\ defined < Len(program.defs)
    /\ \E b \in {Build(program.defs[defined + 1])} :
           LET ok == b.ok /\ \A i \in DOMAIN modules : modules[i].name # b.m.name
           IN  /\ modules' = IF ok THEN Append(modules, b.m) ELSE modules
               /\ compiled' = IF ok THEN FALSE ELSE compiled
               /\ Called("add_module", ok)
    /\ defined' = defined + 1
    /\ UNCHANGED <<graphVars, program, phase, before, fetched, computes>>

\* compiled_ is set before the compiler runs, and stays set when it throws.
CompileCall ==
    /\ Idle /\ program.free
    /\ \E c \in {Compile(modules)} : graph' = c.g /\ Called("compile", c.ok)
    /\ compiled' = TRUE
    /\ UNCHANGED <<store, pool, queue, nodeVars, runVars, stats>>
    /\ UNCHANGED <<program, defined, modules, phase, before, fetched, computes>>

SetBackend ==
    /\ Idle /\ program.free
    /\ compiled' = FALSE
    /\ Called("set_backend", TRUE)
    /\ UNCHANGED <<graphVars, program, defined, modules, phase, before, fetched, computes>>

\* The monitors are a new list, with the same StatsCollector in front.
SetMonitor ==
    /\ Idle /\ program.free
    /\ Called("set_monitor", TRUE)
    /\ UNCHANGED <<graphVars, program, defined, modules, compiled, phase, before, fetched, computes>>

SetComputeWorkers ==
    /\ Idle /\ program.free
    /\ pool' \in {PoolOf(n) : n \in program.workers}
    /\ Called("set_compute_workers", TRUE)
    /\ UNCHANGED <<graph, store, queue, nodeVars, runVars, stats>>
    /\ UNCHANGED <<program, defined, modules, compiled, phase, before, fetched, computes>>

\* A table that cannot be built throws with the phase begun and the store kept.
FeedRows ==
    /\ Idle
    /\ LET t == feed_table(program.names, program.rows)
       IN  /\ store' = IF t = Throw THEN store ELSE StoreOf(t)
           /\ phase' = IF t = Throw THEN Started("kFeed") ELSE Ended("kFeed")
           /\ Called("feed", t # Throw)
    /\ UNCHANGED <<graph, pool, queue, nodeVars, runVars, stats>>
    /\ UNCHANGED <<program, defined, modules, compiled, before, fetched, computes>>

FeedTable ==
    /\ Idle /\ program.free
    /\ store' = StoreOf(program.table)
    /\ phase' = Ended("kFeed")
    /\ Called("feed", TRUE)
    /\ UNCHANGED <<graph, pool, queue, nodeVars, runVars, stats>>
    /\ UNCHANGED <<program, defined, modules, compiled, before, fetched, computes>>

\* compute() until ExecuteAsync has started its run, or has thrown or returned at once.
ComputeCall ==
    /\ Idle /\ computes < program.calls
    /\ computes' = computes + 1
    /\ compiled' = TRUE
    /\ \E c \in {IF compiled THEN [g |-> graph, ok |-> TRUE] ELSE Compile(modules)} :
           \/ /\ ~c.ok
              /\ graph' = c.g
              /\ Called("compute", FALSE)
              /\ UNCHANGED <<store, pool, queue, nodeVars, runVars, stats, phase, before>>
           \/ /\ c.ok
              /\ ExecuteAsync(c.g)
              /\ Called("compute", ~graph'.broken)
              /\ before' = store
              /\ phase' = IF graph'.order = <<>> THEN Ended("kCompute") ELSE Started("kCompute")
    /\ fetched' = <<>>
    /\ UNCHANGED <<program, defined, modules>>

\* The rest of compute(), once the run is over.
ComputeReturn ==
    /\ Return
    /\ phase' = Ended("kCompute")
    /\ UNCHANGED <<program, defined, modules, compiled, before, last, fetched, computes>>

Fetched(call, ok, value) ==
    /\ fetched' = IF ok THEN value ELSE <<>>
    /\ phase' = IF ok THEN Ended("kFetch") ELSE Started("kFetch")
    /\ Called(call, ok)
    /\ UNCHANGED <<graphVars, program, defined, modules, compiled, before, computes>>

Fetch(names) ==
    /\ Idle
    /\ LET t == to_table(store, names)
       IN  Fetched("fetch", t # Throw, fetch_rows(t, names))

OutputColumns == FoldLeft(LAMBDA acc, m : acc \o m.outputs, <<>>, modules)

\* The table was moved into the context: what is returned has no columns left.
FetchTable ==
    /\ Idle /\ program.free
    /\ Fetched("fetch_table", to_table(store, program.fetch) # Throw, <<>>)

FetchScalar(name) ==
    /\ Idle /\ program.free
    /\ LET known == name \in DOMAIN store
       IN  Fetched("fetch_scalar", known,
                   <<[kind |-> "double", v |-> <<fetch_scalar(store[name])>>]>>)

Client ==
    \/ AddModule \/ CompileCall \/ SetBackend \/ SetMonitor \/ SetComputeWorkers
    \/ FeedRows \/ FeedTable \/ ComputeCall
    \/ Fetch(program.fetch)
    \/ program.free /\ Fetch(OutputColumns)
    \/ FetchTable
    \/ \E i \in DOMAIN program.fetch : FetchScalar(program.fetch[i])

Engine ==
    \/ Spawn
    \/ \E w \in pool : Take(w)
    \/ \E n \in DOMAIN pc : NodeStep(n)

Next ==
    \/ Client
    \/ ComputeReturn
    \/ Engine /\ UNCHANGED clientVars

\* What the threads of a run are ready to do: the client to spawn the next node or
\* to return, a free worker to take a node, a resumed coroutine to go on.
CanStep ==
    \/ run = "spawn"
    \/ run = "wait" /\ remaining = 0
    \/ queue # <<>> /\ \E w \in pool : Free(w)
    \/ \E n \in DOMAIN pc : Running(n)

\* Weak fairness of the steps of a run, written out: threads that are ready are
\* scheduled by the operating system.  Nothing makes the client call again.
Fairness == []<>~CanStep \/ []<><<run # "idle">>_vars

Spec == Init /\ [][Next]_vars /\ Fairness

-----------------------------------------------------------------------------
(* Properties.                                                             *)

\* Nodes that read or write a column when they run, and not only order others.
ReadsOf(n) == IF Anchor(graph.node[n].op) THEN {} ELSE Range(graph.node[n].op.inputs)
WritesOf(n) == IF Anchor(graph.node[n].op) THEN {} ELSE Range(graph.node[n].op.outputs)

\* Columns that a module reads in one op and writes in a later one: the compiler
\* orders a reader after the op that produces its column, never before it.
UsedBeforeSet ==
    UNION {UNION {Range(m.ops[ij[1]].inputs) \cap Range(m.ops[ij[2]].outputs) :
                     ij \in {p \in (DOMAIN m.ops) \X (DOMAIN m.ops) : p[1] < p[2]}} :
                 m \in Range(modules)}

\* While a graph runs, no column enters or leaves the store: ReserveOutputs has
\* registered every name beforehand, so the concurrent ops of the run never
\* insert into the map (TensorStore::set takes no lock).
StoreStable == [][run # "idle" => DOMAIN store' = DOMAIN store]_vars

\* Two ops that compute at the same time never touch one column, unless both only
\* read it: the edges by produced column, placeholders replaced, order all others.
\* Excepted are a column that a module reads before setting it, and the partial
\* graph that a throwing compile() has left and the next compute() runs.
NoConflict ==
    \A a, b \in {n \in DOMAIN pc : run # "idle" /\ pc[n] = "compute"} :
        \/ a = b
        \/ WritesOf(a) \cap (ReadsOf(b) \cup WritesOf(b)) \subseteq UsedBeforeSet
        \/ ~Compile(modules).ok

\* However the workers interleave, a run leaves the store that Execute would have
\* left by running the same graph in topological order on one thread, failures
\* of ops included, with the two exceptions of NoConflict.
ScheduleFree ==
    (/\ Idle /\ last = [call |-> "compute", ok |-> TRUE]
     /\ UsedBeforeSet = {} /\ Compile(modules).ok) => store = Execute(graph, before)

\* A graph that compile() has accepted holds no placeholder, and its topological
\* order lists every node once, after all of its dependencies.
Runnable ==
    last = [call |-> "compile", ok |-> TRUE] =>
        /\ ~HasPlaceholders(graph)
        /\ Range(graph.topo) = NodesOf(graph) /\ Len(graph.topo) = Cardinality(NodesOf(graph))
        /\ \A i \in DOMAIN graph.topo :
              graph.node[graph.topo[i]].deps \subseteq {graph.topo[j] : j \in 1 .. i - 1}

\* When compute() returns, nothing of the run is left behind on the pool: no node
\* is queued, suspended or still being resumed by a thread, and every event is
\* set.  RunState is on the stack of ExecuteAsync and dies with it.
Quiescent ==
    Idle => /\ queue = <<>>
            /\ \A n \in DOMAIN pc : resumer[n] = None /\ waiters[n] = {}
            /\ \A n \in DOMAIN pc : pc[n] # "new" => n \in event

\* Between runs the statistics agree: as many node.end and node.error events were
\* counted as nodes were reported for the modules, one pressure event per run.
StatsAgree == Idle => stats.ops = stats.nodes /\ stats.runs <= computes

\* Every run of a graph ends, whatever the number of workers.
ComputeReturns == run # "idle" ~> Idle
=============================================================================
