----------------------------- MODULE DagSchedule -----------------------------
(***************************************************************************)
(* What one Execute() of the DAG engine promises: a node starts only after *)
(* all its dependencies have a final status, a final status is never       *)
(* revised, disabled nodes are skipped and never run, failures do not stop *)
(* the rest of the graph, and Execute returns once, when every node is     *)
(* final.  Threads, events, queues and counters do not appear.             *)
(***************************************************************************)
EXTENDS Naturals, Sequences

CONSTANTS Node, Graphs

VARIABLES graph, disabled, status, busy

vars == <<graph, disabled, status, busy>>

Final == {"kSuccess", "kFallback", "kFailed", "kSkipped"}

Nodes == {graph.order[i] : i \in DOMAIN graph.order}
DepsOf(n) == {graph.deps[n][i] : i \in DOMAIN graph.deps[n]}

Init ==
    /\ graph \in Graphs
    /\ disabled = {}
    /\ status = [n \in Node |-> "kPending"]
    /\ busy = FALSE

Begin ==
    /\ ~busy
    /\ busy' = (graph.order # <<>>)
    /\ disabled' \in SUBSET Nodes
    /\ status' = [n \in Node |-> "kPending"]
    /\ UNCHANGED graph

Skip(n) ==
    /\ busy
    /\ n \in disabled
    /\ status[n] = "kPending"
    /\ status' = [status EXCEPT ![n] = "kSkipped"]
    /\ UNCHANGED <<graph, disabled, busy>>

Start(n) ==
    /\ busy
    /\ n \in Nodes \ disabled
    /\ status[n] = "kPending"
    /\ \A d \in DepsOf(n) : status[d] \in Final
    /\ status' = [status EXCEPT ![n] = "kRunning"]
    /\ UNCHANGED <<graph, disabled, busy>>

Finish(n) ==
    /\ busy
    /\ status[n] = "kRunning"
    /\ \E s \in Final \ {"kSkipped"} : status' = [status EXCEPT ![n] = s]
    /\ UNCHANGED <<graph, disabled, busy>>

Return ==
    /\ busy
    /\ \A n \in Nodes : status[n] \in Final
    /\ busy' = FALSE
    /\ UNCHANGED <<graph, disabled, status>>

Next ==
    \/ Begin
    \/ \E n \in Node : Skip(n) \/ Start(n) \/ Finish(n)
    \/ Return

Progress == (\E n \in Node : Skip(n) \/ Start(n) \/ Finish(n)) \/ Return

\* The safety part, and the promise that a started Execute gets on with it.
SafeSpec == Init /\ [][Next]_vars
Spec == SafeSpec /\ WF_vars(Progress)
=============================================================================
