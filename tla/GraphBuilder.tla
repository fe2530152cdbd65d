---------------------------- MODULE GraphBuilder -----------------------------
(***************************************************************************)
(* dag::GraphBuilder::Build: from a config, a sequence of NodeDefs, to the *)
(* graph that dag::Executor runs, or the exception that Build throws.  A   *)
(* failed Build leaves nothing behind, so its passes are operators.        *)
(***************************************************************************)
EXTENDS Naturals, Sequences

LOCAL INSTANCE SequencesExt
LOCAL INSTANCE FiniteSetsExt

CONSTANTS Registered,  \* the types NodeRegistry can create
          Empty        \* the empty string

\* The constructor drops the id of a def without a type.
NodeDef(type, deps, id) ==
    [type |-> type, deps |-> deps, id |-> IF type = Empty THEN Empty ELSE id]

IdOf(def) == IF def.id = Empty THEN def.type ELSE def.id
Ids(defs) == {IdOf(defs[i]) : i \in DOMAIN defs}

\* A loop that throws at the first index that does not pass.
FirstThrow(n, Throws(_)) ==
    LET bad == {i \in 1 .. n : Throws(i) # "nothing"}
    IN  IF bad = {} THEN "nothing" ELSE Throws(Min(bad))

\* NodeRegistry::Create, as far as Build can tell its outcomes apart.
Create(type) == IF type \in Registered THEN "nothing" ELSE "out_of_range"

CreateAndIndexNodes(defs) ==
    FirstThrow(Len(defs), LAMBDA i :
        IF defs[i].type = Empty THEN "invalid_argument"
        ELSE IF Create(defs[i].type) # "nothing" THEN Create(defs[i].type)
        ELSE IF \E j \in 1 .. i - 1 : IdOf(defs[j]) = IdOf(defs[i]) THEN "invalid_argument"
        ELSE "nothing")

WireDependencies(defs) ==
    FirstThrow(Len(defs), LAMBDA i :
        FirstThrow(Len(defs[i].deps), LAMBDA k :
            CASE defs[i].deps[k] \notin Ids(defs) -> "invalid_argument"
              [] defs[i].deps[k] = IdOf(defs[i]) -> "runtime_error"
              [] OTHER -> "nothing"))

Frame(node) == [node |-> node, index |-> 1]

\* The three-colour DFS, with its explicit stack: the marks when the stack has
\* become empty, or Cycle.
Cycle == [cycle |-> TRUE]

RECURSIVE Visit(_, _, _)
Visit(deps, stack, marks) ==
    IF stack = <<>> THEN marks
    ELSE LET top == Last(stack) IN
         IF top.index > Len(deps[top.node])
         THEN Visit(deps, Front(stack), [marks EXCEPT ![top.node] = "kDone"])
         ELSE LET next == deps[top.node][top.index]
                  rest == [stack EXCEPT ![Len(stack)].index = @ + 1]
              IN  CASE marks[next] = "kInStack" -> Cycle
                    [] marks[next] = "kDone" -> Visit(deps, rest, marks)
                    [] marks[next] = "kUnvisited" ->
                           Visit(deps, Append(rest, Frame(next)),
                                 [marks EXCEPT ![next] = "kInStack"])

\* The outer loop starts a search at every node that no earlier one reached.
Search(deps, marks, start) ==
    IF marks = Cycle \/ marks[start] # "kUnvisited" THEN marks
    ELSE Visit(deps, <<Frame(start)>>, [marks EXCEPT ![start] = "kInStack"])

\* Mutant: only what the first node depends on is searched.
RejectCyclesOfFirst(order, deps) ==
    IF order # <<>>
       /\ Search(deps, [n \in DOMAIN deps |-> "kUnvisited"], order[1]) = Cycle
    THEN "runtime_error" ELSE "nothing"

RejectCycles(order, deps) ==
    IF FoldLeft(LAMBDA marks, start : Search(deps, marks, start),
                [n \in DOMAIN deps |-> "kUnvisited"], order) = Cycle
    THEN "runtime_error" ELSE "nothing"

\* Graph::nodes() as ids, and Node::dependencies(); a node that the config does
\* not name has none.
GraphOf(Node, defs) ==
    [order |-> [i \in DOMAIN defs |-> IdOf(defs[i])],
     deps  |-> [n \in Node |->
                   IF n \in Ids(defs)
                   THEN defs[CHOOSE i \in DOMAIN defs : IdOf(defs[i]) = n].deps
                   ELSE <<>>]]

\* What Build throws: the first failure of the first pass that fails.
BuildThrows(Node, defs) ==
    LET created == CreateAndIndexNodes(defs)
        wired == WireDependencies(defs)
        graph == GraphOf(Node, defs)
    IN  CASE created # "nothing" -> created
          [] created = "nothing" /\ wired # "nothing" -> wired
          [] OTHER -> RejectCycles(graph.order, graph.deps)

\* The graphs that Build makes of a set of configs.
Build(Node, configs) ==
    {GraphOf(Node, defs) : defs \in {d \in configs : BuildThrows(Node, d) = "nothing"}}
=============================================================================
