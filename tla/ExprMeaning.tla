---------------------------- MODULE ExprMeaning ------------------------------
(***************************************************************************)
(* What an expression of the DSL means, independently of how it is parsed, *)
(* compiled and run: expressions as trees, how they are written, and the   *)
(* value they have in one row.  An operand that is a literal takes the     *)
(* type of the column it meets.                                            *)
(***************************************************************************)
EXTENDS ColumnPipeline

Col(name) == [op |-> "col", name |-> name]
Const(x) == [op |-> "lit", x |-> x]
Bin(op, l, r) == [op |-> op, l |-> l, r |-> r]
Neg(e) == [op |-> "neg", e |-> e]
Call(fn, args) == [op |-> "call", fn |-> fn, args |-> args]

RECURSIVE Columns(_), TokensOf(_, _), TypeOf(_, _), ValueAt(_, _, _), LiteralFirst(_),
          LiteralArgument(_)

Columns(e) ==
    CASE e.op = "col" -> {e.name} [] e.op = "lit" -> {}
      [] e.op = "neg" -> Columns(e.e)
      [] e.op = "call" -> UNION {Columns(e.args[i]) : i \in DOMAIN e.args}
      [] OTHER -> Columns(e.l) \cup Columns(e.r)

\* The tokens of e, with the parentheses that the usual rules of precedence and
\* left association need and no others.
Level(op) == CASE op \in {"*", "/"} -> 3 [] op \in {"+", "-"} -> 2 [] OTHER -> 1
TokensOf(e, level) ==
    CASE e.op = "col" -> <<Ident(e.name)>>
      [] e.op = "lit" -> <<Number(e.x)>>
      [] e.op = "neg" -> <<Symbol("-")>> \o TokensOf(e.e, 4)
      [] e.op = "call" ->
             <<Ident(e.fn), Symbol("(")>>
             \o FoldLeft(LAMBDA acc, i : acc \o (IF i = 1 THEN <<>> ELSE <<Symbol(",")>>)
                                             \o TokensOf(e.args[i], 0),
                         <<>>, [i \in DOMAIN e.args |-> i])
             \o <<Symbol(")")>>
      [] OTHER ->
             LET text == TokensOf(e.l, Level(e.op)) \o <<Symbol(e.op)>>
                         \o TokensOf(e.r, Level(e.op) + 1)
             IN  IF Level(e.op) < level THEN <<Symbol("(")>> \o text \o <<Symbol(")")>> ELSE text

\* A literal on the left of an operator that does not commute.
LiteralFirst(e) ==
    CASE e.op \in {"col", "lit"} -> FALSE
      [] e.op = "neg" -> LiteralFirst(e.e)
      [] e.op = "call" -> \E i \in DOMAIN e.args : LiteralFirst(e.args[i])
      [] OTHER -> \/ LiteralFirst(e.l) \/ LiteralFirst(e.r)
                  \/ Columns(e.l) = {} /\ Columns(e.r) # {} /\ e.op \notin {"+", "*", "==", "!="}

\* A literal as an argument of a call.
LiteralArgument(e) ==
    CASE e.op \in {"col", "lit"} -> FALSE
      [] e.op = "neg" -> LiteralArgument(e.e)
      [] e.op = "call" ->
             \E i \in DOMAIN e.args : Columns(e.args[i]) = {} \/ LiteralArgument(e.args[i])
      [] OTHER -> LiteralArgument(e.l) \/ LiteralArgument(e.r)

\* The type of a column given the types of the fed ones; "lit" has no type yet.
Meet(a, b) == IF a = "lit" THEN b ELSE IF b = "lit" THEN a ELSE promote(a, b)
TypeOf(e, types) ==
    CASE e.op = "col" -> types[e.name] [] e.op = "lit" -> "lit"
      [] e.op = "neg" -> TypeOf(e.e, types)
      [] e.op = "call" -> IF e.fn = "select" THEN Meet(TypeOf(e.args[2], types), TypeOf(e.args[3], types))
                          ELSE TypeOf(e.args[1], types)
      [] Columns(e) = {} -> "lit"
      [] OTHER -> IF e.op \in ComparisonSymbols THEN "int64" ELSE IF e.op = "/" THEN "float64"
                  ELSE Meet(TypeOf(e.l, types), TypeOf(e.r, types))

\* The value of e in a row.  A literal that meets an integer column is cut off.
ValueAt(e, row, types) ==
    CASE e.op = "col" -> row[e.name] [] e.op = "lit" -> e.x
      [] e.op = "neg" -> Negative(ValueAt(e.e, row, types))
      [] e.op = "call" ->
             LET v(i) == ValueAt(e.args[i], row, types)
             IN  IF e.fn = "select" THEN IF v(1) # Zero THEN v(2) ELSE v(3)
                 ELSE IF e.fn = "abs" THEN AbsoluteValue(v(1)) ELSE Times(v(1), v(1))
      [] OTHER ->
             LET met == Meet(TypeOf(e.l, types), TypeOf(e.r, types))
                 operand(x) == LET v == ValueAt(x, row, types)
                               IN  IF TypeOf(x, types) = "lit" /\ e.op # "/" /\ is_int(met)
                                   THEN Truncate(v) ELSE v
             IN  IF e.op \in ComparisonSymbols
                 THEN Compared(OpName(e.op), operand(e.l), operand(e.r))
                 ELSE Arith(OpName(e.op), operand(e.l), operand(e.r))

\* The client has fetched the column that its expression defines, after a run.
FetchedColumn ==
    last.call = "fetch" /\ fetched # <<>> /\ computes > 0 /\ program.expr.op # "none"

\* What was fetched is, in every row of the program, the value of e, if the run
\* was fed these rows.
IsMeaning(e) ==
    LET fed == StoreOf(feed_table(program.names, program.rows))
        types == [c \in Columns(e) |-> fed[<<c>>].dtype]
        row(i) == [c \in DOMAIN types |-> fed[<<c>>].v[i]]
    IN  DOMAIN before = DOMAIN fed =>
            fetched = <<[kind |-> IF is_int(TypeOf(e, types)) THEN "int" ELSE "double",
                         v |-> [i \in DOMAIN program.rows |-> ValueAt(e, row(i), types)]]>>

\* A run that was fed the program's rows and fetches the column defined by its
\* expression gets, in every row, the value of the expression as it is written:
\* precedence and association are the usual ones, and no temporary, rename, edge
\* or schedule mixes up operands.  Three kinds of expressions are excepted, in
\* which the code does something else with a literal: on the left of an operator
\* that does not commute (MakeBinary swaps the operands); as an argument of a
\* call (ParseCall makes it a column of length 1, which select refuses beside
\* longer ones; LiteralArgumentsWork is about these); and an expression without
\* a column, which is a column of length 1 however many rows were fed.
FetchedIsMeaning ==
    LET e == program.expr
    IN  (/\ FetchedColumn /\ Columns(e) # {}
         /\ ~LiteralFirst(e) /\ ~LiteralArgument(e)) => IsMeaning(e)

\* The same where a literal is an argument of a call.  dsl.h promises it: "numbers
\* are scalar constants, and function calls map to built-in ops", with the
\* example "score  = select(mask, s2, 0)".
LiteralArgumentsWork ==
    LET e == program.expr
    IN  (/\ FetchedColumn /\ Columns(e) # {}
         /\ ~LiteralFirst(e) /\ LiteralArgument(e)) => IsMeaning(e)
=============================================================================
