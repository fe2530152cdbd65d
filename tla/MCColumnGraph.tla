---------------------------- MODULE MCColumnGraph ----------------------------
(* ColumnGraph for TLC.  The tables have an int64 and a float64 column and no *)
(* row, or as many as make blocks and a tail for every register width; others *)
(* are built from columns of different lengths, in both orders, or have one   *)
(* empty column.                                                              *)
EXTENDS ColumnGraph

MClibm(f, x) == Plus(Times(x, x), Frac(1, 2))

Ints(n) == [i \in 1 .. n |-> Int2Num(((3 * i) % 5) - 2)]
Halves(n) == [i \in 1 .. n |-> Frac(((5 * i) % 7) - 3, 2)]

Feed(m, n) == << <<"x", TensorOf("int64", Ints(m))>>, <<"y", TensorOf("float64", Halves(n))>> >>

MCFeeds ==
    {Feed(n, n) : n \in {0, 1, 5, 9}} \cup {Feed(0, 5), Feed(5, 0)}
    \cup {<< <<"y", TensorOf("float64", <<>>)>> >>}

MCGiven == {TensorOf("int64", Ints(n)) : n \in {0, 1, 5}}

MCScalars == {Frac(3, 2)}
=============================================================================
