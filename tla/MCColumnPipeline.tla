-------------------------- MODULE MCColumnPipeline ---------------------------
(***************************************************************************)
(* Programs for the column pipeline.  One half are single statements       *)
(* z = e, for every tree e of a small grammar, run once on one worker; the *)
(* others are pipelines of several modules, with forward references,       *)
(* ordering edges, failing ops and mistakes, run once or twice on one or   *)
(* two workers, with the other calls of the client in between.             *)
(***************************************************************************)
EXTENDS ExprMeaning

CONSTANTS w1, w2

MCWorker == {w1, w2}

\* No libm function is rational: any value will do that depends on the argument.
MCLibm(fn, x) == IF fn = "sqrt" /\ x = Int2Num(4) THEN Int2Num(2) ELSE x

IntCell(n) == [kind |-> "int", x |-> Int2Num(n)]
DoubleCell(n, d) == [kind |-> "double", x |-> Frac(n, d)]
NullCell == [kind |-> "null", x |-> Zero]

Rows == <<<<IntCell(3), DoubleCell(1, 2)>>, <<IntCell(-2), IntCell(4)>>, <<NullCell, DoubleCell(-3, 2)>>>>
ShortRows == <<<<IntCell(3), DoubleCell(1, 2)>>, <<IntCell(1)>>>>
Table == AddColumn(AddColumn(EmptyTable, <<"x">>, TensorOf("int32", <<One, Zero>>)),
                   <<"y">>, TensorOf("float32", <<Frac(1, 2), Int2Num(4)>>))

Def(name, inputs, outputs, deps, source) ==
    [name |-> name, inputs |-> inputs, outputs |-> outputs, deps |-> deps, source |-> source, ops |-> <<>>]
WithOps(def, ops) == [def EXCEPT !.ops = ops]

-----------------------------------------------------------------------------
Leaves == {Col("x"), Col("y"), Const(Frac(3, 2))}
Flat == {Bin(op, l, r) : op \in {"-", "*", "/", "<"}, l \in Leaves, r \in Leaves}
Trees ==
    Flat \cup {Bin(op, l, r) : op \in {"-", "*", "<"}, l \in Flat, r \in Leaves}
         \cup {Bin(op, l, r) : op \in {"-", "/", "=="}, l \in Leaves, r \in Flat}
         \cup {Call("abs", <<f>>) : f \in Flat} \cup {Neg(f) : f \in Flat}
         \cup {Call("select", <<Bin("<", Col("x"), Col("y")), f, Col("x")>>) : f \in Flat}

Expression(e) ==
    [defs |-> <<Def("m", <<>>, <<<<"z">>>>, <<>>, <<Ident("z"), Symbol("=")>> \o TokensOf(e, 0))>>,
     names |-> <<<<"x">>, <<"y">>>>, rows |-> Rows, table |-> EmptyTable, fetch |-> <<<<"z">>>>,
     workers |-> {1}, calls |-> 1, free |-> FALSE, expr |-> e]

-----------------------------------------------------------------------------
Pipe(defs, rows, fetch, workers, calls) ==
    [defs |-> defs, names |-> <<<<"x">>, <<"y">>>>, rows |-> rows, table |-> Table, fetch |-> fetch,
     workers |-> workers, calls |-> calls, free |-> TRUE, expr |-> [op |-> "none"]]

C(name) == <<name>>
Let(name, e) == <<Ident(name), Symbol("=")>> \o TokensOf(e, 0)

\* A reads what B, registered later, produces; B passes x through.
Forward == Pipe(<<Def("A", <<C("u")>>, <<C("w")>>, <<>>, Let("w", Bin("+", Col("u"), Col("v")))),
                  Def("B", <<C("x")>>, <<C("u"), C("v")>>, <<>>,
                      Let("u", Bin("*", Col("x"), Const(Int2Num(2)))) \o Let("v", Neg(Col("y"))))>>,
                Rows, <<C("w"), C("u")>>, {1, 2}, 1)

\* Ordering edges, forwards and backwards, to modules with and without outputs.
Ordered == Pipe(<<Def("A", <<C("x")>>, <<>>, <<"B">>, <<>>),
                  Def("B", <<>>, <<C("y")>>, <<>>, <<>>),
                  Def("D", <<>>, <<>>, <<"A", "B">>, Let("d", Bin("+", Col("x"), Col("x"))))>>,
                Rows, <<C("d")>>, {1, 2}, 1)

\* Ops of the builders: a mask used twice, a filter, a reduction, a failing select.
Built == Pipe(<<WithOps(Def("A", <<>>, <<C("s")>>, <<>>, <<>>),
                        <<CompareSpec("lt", C("m"), C("x"), C("y")),
                          SpecialSpec("filter", C("f"), <<C("y"), C("m")>>, NoAttrs),
                          UnarySpec("sum", C("s"), C("f")),
                          SpecialSpec("select", C("e"), <<C("m"), C("s"), C("y")>>, NoAttrs)>>)>>,
              Rows, <<C("s")>>, {1, 2}, 2)

\* Quantized columns; the scalar builders.
Quantized == Pipe(<<WithOps(Def("A", <<>>, <<C("d")>>, <<>>, <<>>),
                            <<UnarySpec("quantize", C("q"), C("y")),
                              SpecialSpec("dot", C("d"), <<C("q"), C("q")>>, NoAttrs),
                              SpecialSpec("cast", C("r"), <<C("q")>>, [dtype |-> "double"]),
                              CompareScalarSpec("ge", C("g"), C("r"), Frac(1, 2))>>)>>,
                  Rows, <<C("q")>>, {2}, 2)

\* x is read by one op and overwritten by the next: no edge orders the two.
Overwrite == Pipe(<<WithOps(Def("A", <<>>, <<>>, <<>>, <<>>),
                            <<ArithSpec("add", C("a"), C("x"), C("y")),
                              ArithScalarSpec("mul", C("x"), C("y"), Int2Num(2))>>)>>,
                  ShortRows, <<C("a")>>, {1, 2}, 2)

\* Pipelines that a call rejects: a bad source and a name taken, a cycle, two
\* producers, an unknown module, a column written twice, an op of no kind, an
\* input declared twice.
Rejected == {
    <<Def("A", <<>>, <<>>, <<>>, <<Ident("a"), Symbol("="), Symbol(")")>>),
      Def("A", <<>>, <<C("x")>>, <<>>, <<>>), Def("A", <<>>, <<>>, <<>>, <<>>)>>,
    <<Def("A", <<>>, <<>>, <<>>, Let("a", Col("b"))), Def("B", <<>>, <<>>, <<>>, Let("b", Neg(Col("a"))))>>,
    <<Def("A", <<>>, <<>>, <<>>, Let("a", Col("x"))), Def("B", <<>>, <<>>, <<>>, Let("a", Col("y")))>>,
    <<Def("A", <<C("x")>>, <<>>, <<"Z">>, <<>>)>>,
    <<Def("A", <<>>, <<C("w")>>, <<>>, Let("v", Col("b")) \o Let("v", Col("y"))),
      Def("B", <<>>, <<>>, <<>>, Let("b", Col("x")))>>,
    <<WithOps(Def("A", <<>>, <<>>, <<>>, <<>>), <<UnarySpec("cube", C("a"), C("x"))>>)>>,
    <<Def("A", <<C("x"), C("x")>>, <<>>, <<>>, <<>>)>> }

\* The example of dsl.h, statement by statement; score is fetched.
Documented ==
    LET s2 == Bin("+", Bin("*", Col("x"), Const(Int2Num(2))), Col("y"))
        source == Let("s1", Bin("*", Col("x"), Const(Int2Num(2))))
                  \o Let("s2", Bin("+", Col("s1"), Col("y")))
                  \o Let("mask", Bin(">", Col("x"), Const(Int2Num(10))))
                  \o Let("score", Call("select", <<Col("mask"), Col("s2"), Const(Zero)>>))
                  \o Let("total", Call("sum", <<Col("score")>>))
    IN  [Expression(Call("select", <<Bin(">", Col("x"), Const(Int2Num(10))), s2, Const(Zero)>>)) EXCEPT
            !.defs = <<Def("m", <<C("x"), C("y")>>, <<C("score")>>, <<>>, source)>>,
            !.fetch = <<C("score")>>]

MCDocumented == {Documented}

MCPrograms ==
    {Forward, Ordered, Built, Quantized, Overwrite}
    \cup {Pipe(defs, Rows, <<C("x")>>, {1}, 2) : defs \in Rejected}
    \cup {Expression(e) : e \in Trees}
=============================================================================
