---------------------------- MODULE MCDagExecutor ----------------------------
(* DagExecutor for TLC, on the graphs that GraphBuilder makes of some configs. *)
(* They are the shapes that stress the waiter lists, with dependents listed   *)
(* before their dependencies: two inputs of one node, two dependents of one   *)
(* node, a chain of inline resumptions that names a dependency twice, and the *)
(* empty graph; and two with a cycle, behind an acyclic node and on all three.*)
EXTENDS DagExecutor, GraphBuilder, TLC

CONSTANTS a, b, c, Unknown

Def(n, deps) == NodeDef(n, deps, Empty)

MCConfigs ==
    { <<>>,
      << Def(c, <<a, b>>), Def(a, <<>>), Def(b, <<>>) >>,
      << Def(b, <<a>>), NodeDef(a, <<a>>, c), Def(a, <<>>) >>,
      << Def(c, <<b, a>>), Def(b, <<a, a>>), Def(a, <<>>) >>,
      << Def(a, <<>>), Def(b, <<a, c>>), Def(c, <<b>>) >>,
      << Def(a, <<b>>), Def(b, <<c>>), Def(c, <<a>>) >> }

MCGraphs == Build(Node, MCConfigs)

\* Configs of three nodes with any dependencies, and of two with any fault.
DepLists == UNION {[1 .. k -> Node] : k \in 0 .. 2}
AnyDef == {NodeDef(t, deps, id) : t \in {a, b, Unknown, Empty}, id \in {a, b, Empty},
                                  deps \in {<<>>, <<a>>, <<b>>, <<c>>}}
Configs == {<<Def(a, x), Def(b, y), Def(c, z)>> : x, y, z \in DepLists}
               \cup {<<x, y>> : x, y \in AnyDef}

\* A graph is a DAG: each set of its nodes has one that depends on none of them.
IsDag(g) ==
    \A S \in SUBSET {g.order[i] : i \in DOMAIN g.order} :
        S = {} \/ \E n \in S : S \cap {g.deps[n][i] : i \in DOMAIN g.deps[n]} = {}

\* What a config has to be, whatever the order in which Build looks at it.
WellFormed(defs) ==
    /\ \A i \in DOMAIN defs : defs[i].type \in Registered
    /\ \A i, j \in DOMAIN defs : IdOf(defs[i]) = IdOf(defs[j]) => i = j
    /\ \A i \in DOMAIN defs : \A k \in DOMAIN defs[i].deps : defs[i].deps[k] \in Ids(defs)

\* Build's verdict is right on every config.
JudgesRight ==
    \A defs \in Configs :
        LET throws == BuildThrows(Node, defs) IN
        IF WellFormed(defs)
        THEN throws = IF IsDag(GraphOf(Node, defs)) THEN "nothing" ELSE "runtime_error"
        ELSE throws # "nothing"

\* graph_builder.h: Build throws on an unknown type, a duplicate id, a missing
\* dependency and a cycle.  Execute() would wait for ever on a cycle, so what it
\* runs is always a DAG; and before the first Execute, the DFS has refused no
\* config that is sound, diamonds and repeated dependencies included.
BuildsExactlyDags == IsDag(graph) /\ (runs = 0 => JudgesRight)

\* The thread on which the coroutine of n runs: the bottom of its resume chain.
RECURSIVE Thread(_)
Thread(n) == IF resumer[n] \in Node THEN Thread(resumer[n]) ELSE resumer[n]

\* executor.h: each coroutine "awaits the completion events of its dependencies,
\* then runs the node on a worker thread".  The code: Execute() itself calls
\* Set() for a disabled node, and Set() resumes the waiting dependents inline,
\* so they run on the thread that called Execute().
RunsOnWorker ==
    \A n \in Node : status[n] = "kRunning" /\ pc[n] # "hop" =>
        Thread(n) \in IoWorker \cup ComputeWorker

\* executor.h: "every node whose dependencies are ready runs concurrently".  The
\* code: Set() resumes the dependents it detached one after the other, so a
\* ready one waits for the Run() of its sibling although a worker is idle.
ReadyRunsConcurrently ==
    \A n, m, k \in Node :
        ~ /\ m \in walk[n] /\ \A d \in DepsOf(m) : event[d]
          /\ resumer[k] = n /\ pc[k] = "run"
          /\ ioq = <<>> /\ \E w \in IoWorker : Free(w)
=============================================================================
