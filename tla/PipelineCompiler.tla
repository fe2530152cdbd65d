-------------------------- MODULE PipelineCompiler ---------------------------
(***************************************************************************)
(* PipelineCompiler: the business modules of a pipeline become one         *)
(* ComputeGraph.  A module is a record [name, inputs, outputs, deps, ops]. *)
(* The compiler is the record                                              *)
(*   g         the graph               producer  column -> node id         *)
(*   owner     column -> module        info      module -> CompiledModule  *)
(*   held      columns with a placeholder                                  *)
(*   tails     modules with a placeholder tail                             *)
(*   ok        FALSE once it has thrown                                    *)
(* and, for the module being compiled: module, local (column -> node id),  *)
(* first, tail and outs.  Node ids and columns are tuples.                 *)
(***************************************************************************)
EXTENDS ExprDsl, ComputeGraph

NoId == <<>>
Empty == [x \in {} |-> NoId]

IsTemp(col) == col[1] = "@t"
RemapTemp(col, module) == Append(col, module)

Fine(k) == k.ok /\ ~k.g.broken
FoldFine(op(_, _), k, seq) == FoldLeft(LAMBDA acc, x : IF Fine(acc) THEN op(acc, x) ELSE acc, k, seq)

-----------------------------------------------------------------------------
\* Every column and the module that writes it; two writers throw.
WrittenBy(m) == {c \in Range(m.outputs) \cup UNION {Range(s.outputs) : s \in Range(m.ops)} :
                    ~IsTemp(c)}
CollectColumnProducers(k, modules) ==
    LET writers(c) == {i \in DOMAIN modules : c \in WrittenBy(modules[i])}
        columns == UNION {WrittenBy(m) : m \in Range(modules)}
    IN  [k EXCEPT !.ok = \A c \in columns : Cardinality(writers(c)) = 1,
                  !.owner = [c \in columns |-> modules[CHOOSE i \in writers(c) : TRUE].name]]

EnsureColumnPlaceholder(k, col) ==
    IF col \in k.held THEN k
    ELSE [k EXCEPT !.g = AddPlaceholder(@, col, <<"@placeholder", col>>), !.held = @ \cup {col}]

RegisterProducer(k, col, id) ==
    [k EXCEPT !.producer = (col :> id) @@ @,
              !.owner = (col :> k.module) @@ @,
              !.g = IF col \in k.held THEN ReplacePlaceholder(@, <<"@placeholder", col>>, id) ELSE @,
              !.held = @ \ {col}]

\* Mutant: a column of a module that is compiled later gets no placeholder.
ResolveBackwardOnly(k, col) ==
    IF col \in DOMAIN k.local THEN [k |-> k, dep |-> k.local[col]]
    ELSE IF col \in DOMAIN k.producer THEN [k |-> k, dep |-> k.producer[col]]
    ELSE [k |-> k, dep |-> NoId]

\* [k, dep]: the node that produces col, or NoId for a feed port.
ResolveInputDep(k, col) ==
    IF col \in DOMAIN k.local THEN [k |-> k, dep |-> k.local[col]]
    ELSE IF col \in DOMAIN k.producer THEN [k |-> k, dep |-> k.producer[col]]
    ELSE IF col \in DOMAIN k.owner /\ k.owner[col] # k.module
         THEN [k |-> EnsureColumnPlaceholder(k, col), dep |-> <<"@placeholder", col>>]
    ELSE [k |-> k, dep |-> NoId]

DependOn(k, id, dep) == [k EXCEPT !.g = AddDependency(@, id, dep)]
Wire(k, id, col) ==
    LET r == ResolveInputDep(k, col) IN IF r.dep = NoId THEN r.k ELSE DependOn(r.k, id, r.dep)

\* The lambda add_node, for a boundary node on column col.
AddBoundary(k, id, col) ==
    [k EXCEPT !.g = AddNode(@, id, k.module, Spec4("identity", <<col>>, <<col>>, NoAttrs)),
              !.first = IF @ = NoId THEN id ELSE @]

-----------------------------------------------------------------------------
(* CompileModule, one operator per section.                                *)

CompileInput(k, port) ==
    LET id == <<k.module, "@in", port>>
    IN  [Wire(AddBoundary(k, id, port), id, port) EXCEPT !.local = (port :> id) @@ @]

CompileOutputOf(k, id, out) ==
    IF out \in DOMAIN k.local THEN [k EXCEPT !.ok = FALSE]
    ELSE RegisterProducer([k EXCEPT !.local = (out :> id) @@ @], out, id)

CompileOp(k, spec, idx) ==
    LET id == <<k.module, "op", idx>>
        remap(cols) == [i \in DOMAIN cols |-> IF IsTemp(cols[i]) THEN RemapTemp(cols[i], k.module)
                                              ELSE cols[i]]
        ns == [spec EXCEPT !.inputs = remap(@), !.outputs = remap(@)]
        added == [k EXCEPT !.g = AddNode(@, id, k.module, ns)]
        wired == FoldFine(LAMBDA acc, in : Wire(acc, id, in), added, ns.inputs)
        named == FoldFine(LAMBDA acc, out : CompileOutputOf(acc, id, out), wired, ns.outputs)
    IN  IF CreateOp(ns) THEN [named EXCEPT !.tail = id] ELSE [k EXCEPT !.ok = FALSE]

CompileOps(k, ops) ==
    FoldFine(LAMBDA acc, i : CompileOp(acc, ops[i], i - 1), k, [i \in DOMAIN ops |-> i])

CompileOutput(k, port) ==
    LET id == <<k.module, "@out", port>>
        wired == Wire(AddBoundary(k, id, port), id, port)
    IN  IF port \in DOMAIN k.local THEN [k EXCEPT !.outs = Append(@, k.local[port])]
        ELSE RegisterProducer([wired EXCEPT !.local = (port :> id) @@ @,
                                            !.outs = Append(@, id), !.tail = id], port, id)

EnsureTail(k) ==
    LET id == <<k.module, "@noop", NoId>>
    IN  IF k.tail # NoId \/ ~Fine(k) THEN k ELSE [AddBoundary(k, id, <<"@noop", k.module>>) EXCEPT !.tail = id]

\* The ordering node comes after the outputs (or the tail) of the module named, and
\* before the first boundary node of this one, when there is one.
CompileDependency(k, name) ==
    LET id == <<k.module, "@dep", <<name>>>>
        added == AddBoundary(k, id, <<k.module>>)
        after == IF name \in DOMAIN k.info
                 THEN LET i == k.info[name]
                      IN  FoldFine(LAMBDA acc, d : DependOn(acc, id, d), added,
                                   IF i.outs # <<>> THEN i.outs ELSE <<i.tail>>)
                 ELSE LET tail == <<"@tail", name>>
                          held == IF name \in k.tails THEN added
                                  ELSE [added EXCEPT !.g = AddPlaceholder(@, tail, tail),
                                                     !.tails = @ \cup {name}]
                      IN  DependOn(held, id, tail)
    IN  IF added.first = id \/ ~Fine(after) THEN after ELSE DependOn(after, added.first, id)

\* The module is compiled: its placeholder tail, if any, becomes its tail.
Publish(k, name) ==
    [k EXCEPT !.g = IF name \in k.tails THEN ReplacePlaceholder(@, <<"@tail", name>>, k.tail) ELSE @,
              !.tails = @ \ {name},
              !.info = (name :> [tail |-> k.tail, outs |-> k.outs]) @@ @]

CompileModule(k, m) ==
    LET fresh == [k EXCEPT !.module = m.name, !.local = Empty, !.first = NoId, !.tail = NoId,
                           !.outs = <<>>]
        ins == FoldFine(CompileInput, fresh, m.inputs)
        outs == FoldFine(CompileOutput, CompileOps(ins, m.ops), m.outputs)
    IN  FoldFine(Publish, FoldFine(CompileDependency, EnsureTail(outs), m.deps), <<m.name>>)

\* No placeholder may be left, and the sort must place every node.
CheckResolved(k) == [k EXCEPT !.ok = Fine(k) /\ ~HasPlaceholders(k.g)]
Finalized(k) ==
    IF ~k.ok THEN [g |-> k.g, ok |-> FALSE]
    ELSE LET g == Finalize(k.g) IN [g |-> g, ok |-> ~g.broken]

\* Pipeline::compile after graph_ was emptied: [g, ok].
Compile(modules) ==
    LET new == [g |-> EmptyGraph, ok |-> TRUE, producer |-> Empty, owner |-> Empty,
                info |-> Empty, held |-> {}, tails |-> {}, module |-> "", local |-> Empty,
                first |-> NoId, tail |-> NoId, outs |-> <<>>]
        names == {m.name : m \in Range(modules)}
        known == \A m \in Range(modules) : Range(m.deps) \subseteq names
        pass1 == CollectColumnProducers(new, modules)
        pass2 == FoldFine(CompileModule, [pass1 EXCEPT !.ok = @ /\ known], modules)
    IN  Finalized(CheckResolved(pass2))
=============================================================================
