------------------------------- MODULE ExprDsl -------------------------------
(***************************************************************************)
(* The expression DSL of a module's sub-graph: a recursive-descent parser  *)
(* with precedence climbing over the tokens of the source, emitting the    *)
(* OpSpecs as it goes.  The parser is the record                           *)
(*   toks  the tokens not consumed    ops  the specs emitted               *)
(*   tmp   the temporaries allocated  val  the Value last parsed           *)
(*   ok    FALSE once it has thrown a DslError.                            *)
(* A column name is a tuple: <<"x">> for an identifier, <<"@t", n>> for    *)
(* the n-th temporary.  Characters are left to the lexer.                  *)
(***************************************************************************)
EXTENDS TensorOps

Ident(text) == [kind |-> "ident", text |-> text, number |-> Zero]
Number(x) == [kind |-> "number", text |-> "", number |-> x]
Symbol(text) == [kind |-> "symbol", text |-> text, number |-> Zero]
EndToken == [kind |-> "end", text |-> "", number |-> Zero]

Lit(x) == [is_literal |-> TRUE, literal |-> x, name |-> <<>>]
Named(name) == [is_literal |-> FALSE, literal |-> Zero, name |-> name]

\* std::to_string keeps six decimals; Format prints an integer as one.
Million == 1000000
Shown(x) ==
    IF x[2] \in {0, 1} THEN x
    ELSE Frac(Sign(x[1]) * ((2 * Magnitude(x[1]) * Million + x[2]) \div (2 * x[2])), Million)
Format(x) == Shown(x)

-----------------------------------------------------------------------------
(* The token stream.                                                       *)

Peek(p) == IF p.toks = <<>> THEN EndToken ELSE Head(p.toks)
Consume(p) == [p EXCEPT !.toks = IF @ = <<>> THEN @ ELSE Tail(@)]
Fail(p) == [p EXCEPT !.ok = FALSE]
ExpectSymbol(p, text) ==
    IF p.ok /\ Peek(p) = Symbol(text) THEN Consume(p) ELSE Fail(p)

Emit(p, spec) == [p EXCEPT !.ops = Append(@, spec)]
Temp(p) == <<"@t", p.tmp>>
Allocated(p) == [p EXCEPT !.tmp = @ + 1]
Yield(p, value) == [p EXCEPT !.val = value]

-----------------------------------------------------------------------------
(* Operators.                                                              *)

ComparisonSymbols == {">", ">=", "<", "<=", "==", "!="}

Precedence(op) ==
    CASE op \in {"*", "/"} -> 10 [] op \in {"+", "-"} -> 5 [] op \in ComparisonSymbols -> 2
      [] OTHER -> -1

\* ArithOp and CmpOp.
OpName(op) ==
    CASE op = "+" -> "add" [] op = "-" -> "sub" [] op = "*" -> "mul" [] op = "/" -> "div"
      [] op = ">" -> "gt" [] op = ">=" -> "ge" [] op = "<" -> "lt" [] op = "<=" -> "le"
      [] op = "==" -> "eq" [] op = "!=" -> "neq"

\* Two literals: folded with double arithmetic, a division by zero to 0.
Fold(op, x, y) ==
    IF op \in ComparisonSymbols THEN Compared(OpName(op), x, y)
    ELSE IF op = "/" /\ y = Zero THEN Zero ELSE Arith(OpName(op), x, y)

\* A literal operand becomes the scalar of the op, on whichever side it stands.
MakeBinary(p, a, b, op) ==
    LET out == Temp(p)
        scalar(v, x) == Spec4(ScalarOf(OpName(op)), <<v.name>>, <<out>>, [scalar |-> Format(x)])
        spec == IF a.is_literal THEN scalar(b, a.literal)
                ELSE IF b.is_literal THEN scalar(a, b.literal)
                ELSE Spec4(OpName(op), <<a.name, b.name>>, <<out>>, NoAttrs)
    IN  IF a.is_literal /\ b.is_literal THEN Yield(p, Lit(Fold(op, a.literal, b.literal)))
        ELSE Yield(Emit(Allocated(p), spec), Named(out))

Constant(name, x) == Spec4("const", <<>>, <<name>>, [value |-> <<Format(x)>>, size |-> 1])

\* Literal arguments of a call become columns of length 1, in order.
Materialize(p, values) ==
    LET one(acc, v) ==
            IF ~v.is_literal THEN [acc EXCEPT !.names = Append(@, v.name)]
            ELSE [p |-> Emit(Allocated(acc.p), Constant(Temp(acc.p), v.literal)),
                  names |-> Append(acc.names, Temp(acc.p))]
    IN  FoldLeft(one, [p |-> p, names |-> <<>>], values)

Arity(fn) ==
    CASE fn = "select" -> 3 [] fn \in {"filter", "dot"} -> 2
      [] fn \in {"cast", "quantize", "dequantize"} \cup ReduceOps \cup UnaryOps -> 1
      [] OTHER -> 0

-----------------------------------------------------------------------------
(* The grammar.                                                            *)

RECURSIVE ParseExpr(_, _), ParseRest(_, _), ParsePrimary(_), ParseArgs(_, _, _)

Operator(p) == IF p.ok /\ Peek(p).kind = "symbol" THEN Precedence(Peek(p).text) ELSE -1
Combined(left, op, right) == IF right.ok THEN MakeBinary(right, left, right.val, op) ELSE right

\* Mutant: operators of one precedence associate to the right.
ParseRestRight(p, min_prec) ==
    IF Operator(p) < min_prec THEN p
    ELSE ParseRest(Combined(p.val, Peek(p).text, ParseExpr(Consume(p), Operator(p))), min_prec)

\* The loop of ParseExpr, its left operand parsed.
ParseRest(p, min_prec) ==
    IF Operator(p) < min_prec THEN p
    ELSE ParseRest(Combined(p.val, Peek(p).text, ParseExpr(Consume(p), Operator(p) + 1)), min_prec)

ParseExpr(p, min_prec) == ParseRest(ParsePrimary(p), min_prec)

\* n expressions separated by commas, as [p, values].
ParseArgs(p, n, values) ==
    LET arg == ParseExpr(p, 0)
        got == Append(values, arg.val)
    IN  IF ~arg.ok \/ n = 1 THEN [p |-> arg, values |-> got]
        ELSE LET comma == ExpectSymbol(arg, ",")
             IN  IF comma.ok THEN ParseArgs(comma, n - 1, got) ELSE [p |-> comma, values |-> got]

\* out is allocated before the arguments are parsed.
ParseCall(p, fn) ==
    LET out == Temp(p)
        args == ParseArgs(Allocated(p), Arity(fn), <<>>)
        comma == ExpectSymbol(args.p, ",")
        typed == IF Peek(comma).kind = "ident" THEN Consume(comma) ELSE Fail(comma)
        closed == ExpectSymbol(IF fn = "cast" THEN typed ELSE args.p, ")")
        m == Materialize(closed, args.values)
        attrs == IF fn = "cast" THEN [dtype |-> Peek(comma).text] ELSE NoAttrs
    IN  IF Arity(fn) = 0 THEN Fail(p)
        ELSE IF ~closed.ok THEN closed
        ELSE Yield(Emit(m.p, Spec4(fn, m.names, <<out>>, attrs)), Named(out))

ParsePrimary(p) ==
    LET t == Peek(p)
        q == Consume(p)
    IN  CASE t.kind = "number" -> Yield(q, Lit(t.number))
          [] t.kind = "ident" ->
                 IF Peek(q) = Symbol("(") THEN ParseCall(Consume(q), t.text)
                 ELSE Yield(q, Named(<<t.text>>))
          [] t = Symbol("-") ->
                 LET r == ParsePrimary(q)
                 IN  IF ~r.ok THEN r
                     ELSE IF r.val.is_literal THEN Yield(r, Lit(Negative(r.val.literal)))
                     ELSE Yield(Emit(Allocated(r), Spec4("neg", <<r.val.name>>, <<Temp(r)>>, NoAttrs)),
                                Named(Temp(r)))
          [] t = Symbol("(") -> ExpectSymbol(ParseExpr(q, 0), ")")
          [] OTHER -> Fail(q)

Assign(p, lhs) ==
    IF p.val.is_literal THEN Emit(p, Constant(lhs, p.val.literal))
    ELSE IF p.val.name = lhs THEN p
    ELSE Emit(p, Spec4("identity", <<p.val.name>>, <<lhs>>, NoAttrs))

ParseStatement(p) ==
    LET lhs == Peek(p)
        eq == ExpectSymbol(Consume(p), "=")
        v == ParseExpr(eq, 0)
    IN  IF lhs.kind # "ident" THEN Fail(p)
        ELSE IF ~eq.ok THEN eq
        ELSE IF ~v.ok THEN v
        ELSE Assign(v, <<lhs.text>>)

RECURSIVE ParseAll(_)
ParseAll(p) == IF ~p.ok \/ p.toks = <<>> THEN p ELSE ParseAll(ParseStatement(p))

\* parse(source): [ok, ops].
parse(toks) ==
    LET p == ParseAll([toks |-> toks, ops |-> <<>>, tmp |-> 0, val |-> Lit(Zero), ok |-> TRUE])
    IN  [ok |-> p.ok, ops |-> p.ops]
=============================================================================
