----------------------------- MODULE ColumnGraph -----------------------------
(***************************************************************************)
(* Graph: a chain of business nodes, each turning the table of the one     *)
(* before it into the table of the next.  The functions given to the nodes *)
(* call the kernels of the compute layer or return a tensor of their own.  *)
(* A node that throws ends the execution and the table is lost; one that   *)
(* reads past the end of a column may do anything, and nothing is said of  *)
(* the execution from there on.                                            *)
(***************************************************************************)
EXTENDS Kernels

CONSTANTS
    Names,      \* the columns that nodes read
    Outs,       \* the columns that transforms write
    Scalars,    \* scalar operands
    Given,      \* tensors that a function returns whatever the table is
    Feeds,      \* sequences of <<name, tensor>>: the tables that are executed
    MaxNodes    \* bound: nodes of the graph

VARIABLES
    build,      \* the instruction set the engine was compiled for
    table,      \* the TensorTable that flows through the nodes
    last,       \* the node that was executed last
    executed    \* the number of nodes that were executed

vars == <<build, table, last, executed>>

\* The table after a read past the end of a column.
Undefined == [dtype |-> "undefined"]

\* An expression: a kernel of two columns, of a column and the scalar s, or of
\* one column, or the tensor t.
TwoArgs == {"add", "sub", "mul", "div", "gt", "lt", "ge", "le", "eq"}
OneArg == {"neg", "abs", "sqrt", "square"}
Expressions ==
    [op : TwoArgs, of : {<<a, b>> : a, b \in Names}, with : {"column"}, s : {Zero}]
    \cup [op : TwoArgs, of : {<<a>> : a \in Names}, with : {"scalar"}, s : Scalars]
    \cup [op : OneArg, of : {<<a>> : a \in Names}, with : {"nothing"}, s : {Zero}]
    \cup [op : {"given"}, of : {<<>>}, with : {"tensor"}, t : Given]

TensorTensor(op, a, b) ==
    CASE op = "add" -> add(build, a, b) [] op = "sub" -> sub(build, a, b)
      [] op = "mul" -> mul(build, a, b) [] op = "div" -> div(build, a, b)
      [] op = "gt" -> gt(build, a, b) [] op = "lt" -> lt(build, a, b)
      [] op = "ge" -> ge(build, a, b) [] op = "le" -> le(build, a, b)
      [] op = "eq" -> eq(build, a, b)

TensorScalar(op, a, v) ==
    CASE op = "add" -> add_scalar(build, a, v) [] op = "sub" -> sub_scalar(build, a, v)
      [] op = "mul" -> mul_scalar(build, a, v) [] op = "div" -> div_scalar(build, a, v)
      [] op = "gt" -> gt_scalar(build, a, v) [] op = "lt" -> lt_scalar(build, a, v)
      [] op = "ge" -> ge_scalar(build, a, v) [] op = "le" -> le_scalar(build, a, v)
      [] op = "eq" -> eq_scalar(build, a, v)

OneTensor(op, a) ==
    CASE op = "neg" -> neg(build, a) [] op = "abs" -> abs(build, a)
      [] op = "sqrt" -> sqrt(build, a) [] op = "square" -> square(build, a)

\* A kernel of two columns reads as many elements of the second as the first has.
Overreads(e) ==
    /\ e.with = "column"
    /\ LET a == Column(table, e.of[1])
           b == Column(table, e.of[2])
       IN  /\ Size(b) < Size(a)
           /\ e.op \in {"add", "sub", "mul", "div"} => a.dtype = b.dtype

\* What the function given to a node computes: get() throws on a missing column.
Eval(e) ==
    IF e.with = "tensor" THEN e.t
    ELSE IF \E i \in DOMAIN e.of : ~HasColumn(table, e.of[i]) THEN Throw
    ELSE IF Overreads(e) THEN Undefined
    ELSE IF e.with = "column" THEN TensorTensor(e.op, Column(table, e.of[1]), Column(table, e.of[2]))
    ELSE IF e.with = "nothing" THEN OneTensor(e.op, Column(table, e.of[1]))
    ELSE TensorScalar(e.op, Column(table, e.of[1]), e.s)

-----------------------------------------------------------------------------

AddAll(feed) == FoldLeft(LAMBDA t, column : AddColumn(t, column[1], column[2]), EmptyTable, feed)

Init ==
    /\ build \in Builds
    /\ \E feed \in Feeds : table = AddAll(feed)
    /\ last = [node |-> "none"] /\ executed = 0

\* The next node of the graph is n.
Execute(n) ==
    /\ table \notin {Throw, Undefined} /\ executed < MaxNodes
    /\ last' = n /\ executed' = executed + 1
    /\ UNCHANGED build

TransformNode(e, out) ==
    /\ Execute([node |-> "transform", e |-> e, out |-> out])
    /\ table' = IF Eval(e) = Undefined THEN Undefined ELSE AddColumn(table, out, Eval(e))

\* Every column is copied element by element under the mask, whose length is
\* not compared with the column's.
Kept(v, mask) ==
    LET at == SelectSeq([i \in 1 .. Size(mask) |-> i], LAMBDA i : mask.v[i] # Zero)
    IN  [j \in 1 .. Len(at) |-> v[at[j]]]

FilterNode(e) ==
    /\ Execute([node |-> "filter", e |-> e])
    /\ LET mask == Eval(e)
           copy(t, c) == AddColumn(t, c, TensorOf(Column(table, c).dtype, Kept(Column(table, c).v, mask)))
           past(c) == \E i \in 1 .. Size(mask) :
                         mask.v[i] # Zero /\ i > Size(Column(table, c))
       IN  table' = IF mask \in {Throw, Undefined} THEN mask
                    ELSE IF mask.dtype # "int64" THEN Throw
                    ELSE IF \E c \in DOMAIN table.tensors : past(c) THEN Undefined
                    ELSE FoldLeft(copy, EmptyTable, table.order)

AggregateNode(c) ==
    /\ Execute([node |-> "aggregate", of |-> c])
    /\ table' = IF ~HasColumn(table, c) THEN Throw
                ELSE LET a == Column(table, c)
                     IN  AddAll(<< <<"sum", TensorOf("float64", <<sum(build, a)>>)>>,
                                   <<"mean", TensorOf("float64", <<mean(build, a)>>)>>,
                                   <<"count", TensorOf("int64", <<count(a)>>)>> >>)

Next ==
    \/ \E e \in Expressions : FilterNode(e) \/ \E out \in Outs : TransformNode(e, out)
    \/ \E c \in Names : AggregateNode(c)

Spec == Init /\ [][Next]_vars

-----------------------------------------------------------------------------

\* add() keeps the order free of repetitions and lets no column through whose
\* length differs from that of the rows there are: a column is as long as the
\* table says it has rows, and one is, or it is empty.  Empty columns beside
\* longer ones are an exception to what tensor_table.h promises ("a collection
\* of named Tensors (columns) with equal size"): add() compares sizes only when
\* num_rows_ > 0, so a table of empty columns accepts a column of any length,
\* and the lengths differ from then on.
TableConsistent ==
    table \notin {Throw, Undefined} =>
        /\ \A c \in DOMAIN table.tensors : Size(table.tensors[c]) \in {0, table.num_rows}
        /\ table.num_rows > 0 =>
              \E c \in DOMAIN table.tensors : Size(table.tensors[c]) = table.num_rows
        /\ ToSet(table.order) = DOMAIN table.tensors
        /\ Len(table.order) = Cardinality(DOMAIN table.tensors)

Status ==
    IF table = Throw THEN "threw"
    ELSE IF table = Undefined THEN "undefined"
    ELSE IF \E c \in DOMAIN table.tensors : Size(table.tensors[c]) # table.num_rows THEN "ragged"
    ELSE "fine"

\* Whatever the instruction set, and wherever an element falls between a vector
\* block and the tail, a chain of transforms, filters and aggregates does to
\* the table what RowTable does to its rows one at a time, as long as the
\* columns have one length; RowTable says which node gives that up.
Rows == INSTANCE RowTable WITH
    rows <- IF Status # "fine" THEN <<>>
            ELSE [i \in 1 .. table.num_rows |->
                     [c \in DOMAIN table.tensors |-> table.tensors[c].v[i]]],
    types <- IF Status # "fine" THEN [c \in {} |-> "none"]
             ELSE [c \in DOMAIN table.tensors |-> table.tensors[c].dtype],
    status <- Status,
    Root <- LAMBDA x : libm("sqrt", x)
ImplementsRows == Rows!Spec
=============================================================================
