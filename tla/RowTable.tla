------------------------------ MODULE RowTable -------------------------------
(***************************************************************************)
(* What a graph of business nodes promises, told row by row: a transform   *)
(* gives every row one more cell computed from its own cells, a filter     *)
(* keeps the rows whose mask is non-zero in their order, an aggregate      *)
(* replaces the rows by one.  A tensor that a function brings along gives  *)
(* every row its cell, or says which rows to keep.  Columns, registers and *)
(* blocks do not appear.                                                   *)
(***************************************************************************)
EXTENDS Numeric, Sequences

CONSTANT Root(_)

\* rows: the rows, functions from column names to numbers.  types: the type of
\* each column.  last: the node of the last step.  status: "fine", or why there
\* are no rows: a node "threw", the columns are "ragged" (of several lengths) or
\* cells that do not exist were read ("undefined").
VARIABLES rows, types, last, status

vars == <<rows, types, last, status>>

Arithmetic == {"add", "sub", "mul", "div"}
Comparison == {"gt", "lt", "ge", "le", "eq"}

Holds(op, x, y) ==
    CASE op = "gt" -> Less(y, x) [] op = "lt" -> Less(x, y) [] op = "ge" -> AtMost(y, x)
      [] op = "le" -> AtMost(x, y) [] op = "eq" -> Same(x, y)

Compute(op, x, y) ==
    CASE op = "add" -> Plus(x, y) [] op = "sub" -> Minus(x, y)
      [] op = "mul" -> Times(x, y) [] op = "div" -> Over(x, y)
      [] op = "neg" -> Negative(x) [] op = "abs" -> AbsoluteValue(x)
      [] op = "square" -> Times(x, x) [] op = "sqrt" -> Root(x)
      [] OTHER -> IF Holds(op, x, y) THEN One ELSE Zero

TypeOf(e) ==
    IF e.with = "tensor" THEN e.t.dtype
    ELSE IF e.op \in Comparison THEN "int64"
    ELSE IF e.op \in {"div", "sqrt"} THEN "float64" ELSE types[e.of[1]]

\* A scalar takes the type of the column it meets, except as a divisor.
Operand(e, row) ==
    IF e.with = "column" THEN row[e.of[2]]
    ELSE IF e.with = "nothing" THEN Zero
    ELSE IF types[e.of[1]] = "int64" /\ e.op # "div" THEN Truncate(e.s) ELSE e.s

Defined(e) == \A i \in DOMAIN e.of : e.of[i] \in DOMAIN types
Mixed(e) == e.with = "column" /\ types[e.of[1]] # types[e.of[2]]

\* Comparing columns of two types may give any mask, computing with them throws.
IsResult(e, i, x) ==
    IF e.with = "tensor" THEN x = e.t.v[i]
    ELSE IF Mixed(e) THEN x \in {Zero, One}
    ELSE x = Compute(e.op, rows[i][e.of[1]], Operand(e, rows[i]))

Refused(e) == ~Defined(e) \/ (Mixed(e) /\ e.op \in Arithmetic)

\* A cell for every row, no more and no fewer; a table without rows takes all.
Misfit(e) == e.with = "tensor" /\ rows # <<>> /\ Len(e.t.v) # Len(rows)

\* Cells for rows that the other columns do not have.
Outgrows(e, out) ==
    e.with = "tensor" /\ rows = <<>> /\ Len(e.t.v) > 0 /\ DOMAIN types \ {out} # {}

Gone(why) == status' = why /\ rows' = <<>> /\ types' = [c \in {} |-> "none"]

Init ==
    /\ \A i \in DOMAIN rows : DOMAIN rows[i] = DOMAIN types
    /\ last = [node |-> "none"]
    /\ status \in {"fine", "threw", "ragged"} /\ (status # "fine" => rows = <<>>)

Transform(e, out) ==
    \/ (Refused(e) \/ Misfit(e)) /\ Gone("threw")
    \/ Outgrows(e, out) /\ Gone("ragged")
    \/ /\ ~Refused(e) /\ ~Misfit(e) /\ ~Outgrows(e, out) /\ status' = "fine"
       /\ Len(rows') = IF e.with = "tensor" THEN Len(e.t.v) ELSE Len(rows)
       /\ types' = [c \in DOMAIN types \cup {out} |-> IF c = out THEN TypeOf(e) ELSE types[c]]
       /\ \A i \in DOMAIN rows' :
             /\ DOMAIN rows'[i] = DOMAIN types'
             /\ \A c \in DOMAIN types' \ {out} : rows'[i][c] = rows[i][c]
             /\ IsResult(e, i, rows'[i][out])

Passing(e) ==
    IF e.with = "tensor" THEN {i \in DOMAIN e.t.v : e.t.v[i] # Zero}
    ELSE {i \in 1 .. Len(rows) : Compute(e.op, rows[i][e.of[1]], Operand(e, rows[i])) # Zero}

\* The kept rows stay in their order.
Filter(e) ==
    \/ (Refused(e) \/ TypeOf(e) # "int64") /\ Gone("threw")
    \/ /\ ~Refused(e) /\ TypeOf(e) = "int64"
       /\ \E keep \in IF Mixed(e) THEN SUBSET (1 .. Len(rows)) ELSE {Passing(e)} :
             IF \E i \in keep : i > Len(rows) THEN Gone("undefined")
             ELSE /\ status' = "fine" /\ types' = types
                  /\ rows' = LET kept[i \in 0 .. Len(rows)] ==
                                 IF i = 0 THEN <<>>
                                 ELSE IF i \in keep THEN Append(kept[i - 1], rows[i])
                                 ELSE kept[i - 1]
                             IN  kept[Len(rows)]

\* The sum, the mean and the number of the cells of a column.
Aggregate(c) ==
    \/ c \notin DOMAIN types /\ Gone("threw")
    \/ /\ c \in DOMAIN types /\ status' = "fine"
       /\ types' = [n \in {"sum", "mean", "count"} |-> IF n = "count" THEN "int64" ELSE "float64"]
       /\ LET total[i \in 0 .. Len(rows)] ==
                  IF i = 0 THEN Zero ELSE Plus(total[i - 1], rows[i][c])
              n == Int2Num(Len(rows))
          IN  rows' = << [x \in {"sum", "mean", "count"} |->
                            CASE x = "sum" -> total[Len(rows)]
                              [] x = "count" -> n
                              [] OTHER -> IF n = Zero THEN Zero ELSE Over(total[Len(rows)], n)] >>

\* Nothing is promised once the columns are ragged.
Next ==
    \/ status = "fine" /\ \/ last'.node = "transform" /\ Transform(last'.e, last'.out)
                          \/ last'.node = "filter" /\ Filter(last'.e)
                          \/ last'.node = "aggregate" /\ Aggregate(last'.of)
    \/ status = "ragged"

Spec == Init /\ [][Next]_vars
=============================================================================
