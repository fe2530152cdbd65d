------------------------------- MODULE OpGraph -------------------------------
(***************************************************************************)
(* OpGraphBuilder and OpGraph.  A source is a sequence of chains, a chain   *)
(* a sequence of segments [id, type]: `a:T -> b` makes b depend on a.  A    *)
(* definition is [id, type, deps]; the graph is [ids, type, deps, order,   *)
(* ok] with ok FALSE when an operation has thrown.                          *)
(***************************************************************************)
EXTENDS Kahn, FiniteSets

CONSTANT Registry  \* the op types that the registry can create

ensure(acc, seg) ==
    LET known == {i \in DOMAIN acc.defs : acc.defs[i].id = seg.id}
    IN  IF known = {} THEN [acc EXCEPT !.defs = Append(@, [id |-> seg.id, type |-> seg.type, deps |-> <<>>])]
        ELSE [acc EXCEPT !.ok = @ /\ \A i \in known : acc.defs[i].type = seg.type]

AddLink(acc, prev, id) ==
    LET linked(d) == IF d.id = id THEN [d EXCEPT !.deps = Append(@, prev)] ELSE d
    IN  [acc EXCEPT !.defs = [i \in DOMAIN acc.defs |-> linked(acc.defs[i])]]

ParseSegment(acc, chain, i) ==
    LET e == ensure(acc, chain[i])
    IN  IF i = 1 \/ ~e.ok THEN e ELSE AddLink(e, chain[i - 1].id, chain[i].id)

ParseChain(acc, chain) ==
    FoldInOrder(LAMBDA a, i : ParseSegment(a, chain, i), acc, [i \in DOMAIN chain |-> i])

-----------------------------------------------------------------------------

\* map.emplace(key, value), of a key that is new.
Emplace(map, key, value) == [x \in DOMAIN map \cup {key} |-> IF x = key THEN value ELSE map[x]]

AddOp(g, id, type) ==
    IF id \in Range(g.ids) THEN [g EXCEPT !.ok = FALSE]
    ELSE [g EXCEPT !.ids = Append(@, id), !.type = Emplace(@, id, type), !.deps = Emplace(@, id, {})]

DependsOn(g, dep, dependent) ==
    IF {dep, dependent} \subseteq Range(g.ids) THEN [g EXCEPT !.deps[dependent] = @ \cup {dep}]
    ELSE [g EXCEPT !.ok = FALSE]

\* A turn of the loop of Build that creates the ops, and of the one that links them.
Create(g, d) ==
    IF ~g.ok \/ d.type \notin Registry THEN [g EXCEPT !.ok = FALSE] ELSE AddOp(g, d.id, d.type)

Link(g, d) == FoldInOrder(LAMBDA h, dep : IF h.ok THEN DependsOn(h, dep, d.id) ELSE h, g, d.deps)

Build(defs) ==
    LET empty == [ids |-> <<>>, type |-> [x \in {} |-> ""], deps |-> [x \in {} |-> {}],
                  order |-> <<>>, ok |-> TRUE]
    IN  FoldInOrder(Link, FoldInOrder(Create, empty, defs), defs)

BuildDsl(source) ==
    LET acc == FoldInOrder(ParseChain, [defs |-> <<>>, ok |-> TRUE], source)
        g == Build(acc.defs)
    IN  [g EXCEPT !.ok = @ /\ acc.ok]

Compile(g) ==
    LET order == TopoOrder(g.ids, g.deps)
    IN  [g EXCEPT !.order = order, !.ok = Len(order) = Len(g.ids)]

Distinct(seq) == \A i, j \in DOMAIN seq : seq[i] = seq[j] => i = j

\* What Compile leaves behind when it does not throw: every op once, behind the ops it
\* depends on.
Compiled(g) ==
    /\ IsFiniteSet(Range(g.ids))
    /\ g.deps \in [Range(g.ids) -> SUBSET Range(g.ids)]
    /\ g.order \in Seq(Range(g.ids)) /\ Range(g.order) = Range(g.ids)
    /\ Distinct(g.order)
    /\ \A i \in DOMAIN g.order : g.deps[g.order[i]] \subseteq {g.order[j] : j \in 1 .. i - 1}
=============================================================================
