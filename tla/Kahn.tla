-------------------------------- MODULE Kahn ---------------------------------
(***************************************************************************)
(* The queue of Kahn's algorithm, as ComputeGraph::Finalize and            *)
(* OpGraph::Compile run it over nodes given in order, with sets of         *)
(* dependencies.  The result misses the nodes on and behind a cycle.       *)
(***************************************************************************)
EXTENDS Integers, Sequences, Functions

\* A loop over seq that starts from base: op(... op(op(base, seq[1]), seq[2]) ..., seq[n]).
FoldInOrder(op(_, _), base, seq) ==
    LET after[i \in 0 .. Len(seq)] == IF i = 0 THEN base ELSE op(after[i - 1], seq[i])
    IN  after[Len(seq)]

\* The members of S, in the order of seq.
Keep(seq, S) == FoldInOrder(LAMBDA kept, x : IF x \in S THEN Append(kept, x) ELSE kept, <<>>, seq)

\* The popped nodes are kept in front; when the i-th one is popped, the nodes whose
\* in-degree drops to 0 join the queue.
TopoOrder(order, deps) ==
    LET left(s, i) == Range(order) \ {s[j] : j \in 1 .. i}
        free(s, i) == {n \in Range(order) : deps[n] \cap left(s, i) = {}}
        pop(i) == [s \in Seq(Range(order)) |->
                      IF Len(s) < i THEN s ELSE s \o Keep(order, free(s, i) \ free(s, i - 1))]
    IN  FoldInOrder(LAMBDA s, i : pop(i)[s], Keep(order, {n \in Range(order) : deps[n] = {}}),
                    [i \in DOMAIN order |-> i])
=============================================================================
