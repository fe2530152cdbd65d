------------------------------ MODULE TensorOps ------------------------------
(***************************************************************************)
(* The ops of the execution layer.  An OpSpec is a record [type, inputs,   *)
(* outputs, attrs]; CreateOp tells whether the factory of the CPU backend  *)
(* accepts it, and Compute runs the op on a store (a function from column  *)
(* names to tensors): the tensors it writes, at most one, or a throw.      *)
(* The helpers take and return tensors, with Throw for an exception.       *)
(***************************************************************************)
EXTENDS Tensor, FiniteSets

Spec4(type, inputs, outputs, attrs) ==
    [type |-> type, inputs |-> inputs, outputs |-> outputs, attrs |-> attrs]
NoAttrs == [a \in {} |-> ""]

ArithOps == {"add", "sub", "mul", "div"}
CompareOps == {"gt", "ge", "lt", "le", "eq", "neq"}
UnaryOps == {"neg", "abs", "square", "sqrt", "exp", "log"}
ReduceOps == {"sum", "mean", "count", "max", "min", "stddev"}

\* The scalar variant of an op.
ScalarOf(op) ==
    CASE op = "add" -> "add_scalar" [] op = "sub" -> "sub_scalar" [] op = "mul" -> "mul_scalar"
      [] op = "div" -> "div_scalar" [] op = "gt" -> "gt_scalar" [] op = "ge" -> "ge_scalar"
      [] op = "lt" -> "lt_scalar" [] op = "le" -> "le_scalar" [] op = "eq" -> "eq_scalar"
      [] op = "neq" -> "neq_scalar"
ScalarOps(ops) == {ScalarOf(op) : op \in ops}
Unscalar(type) == CHOOSE op \in ArithOps \cup CompareOps : ScalarOf(op) = type

-----------------------------------------------------------------------------
(* Types.                                                                  *)

promote(a, b) ==
    IF a = b THEN a
    ELSE IF is_float(a) /\ is_float(b) THEN "float64"
    ELSE IF is_float(a) \/ is_float(b)
         THEN LET f == IF is_float(a) THEN a ELSE b
                  i == IF is_float(a) THEN b ELSE a
              IN  IF i = "int64" THEN "float64" ELSE f
    ELSE "int64"

\* A quantized tensor always dequantizes to float64, whatever type was asked for.
cast_tensor(a, to) ==
    IF a.dtype = to THEN a
    ELSE IF is_quantized(a.dtype) THEN dequantize(a)
    ELSE IF is_quantized(to) THEN quantize_q8_0(a)
    ELSE TensorOf(to, [i \in 1 .. Size(a) |-> CastTo(to, a.v[i])])

\* parse_dtype: q8_0 has no name here.
DTypeNames == IntTypes \cup FloatTypes \cup {"float", "double"}
parse_dtype(s) == CASE s = "float" -> "float32" [] s = "double" -> "float64" [] OTHER -> s

\* The elements of a, cast to type t, as the loops over a T* see them.
SeenAs(c, t) == [i \in 1 .. Size(c) |-> Reinterpret(c.v[i], c.dtype, t)]
Elements(a, t) == SeenAs(cast_tensor(a, t), t)

-----------------------------------------------------------------------------
(* Elementwise kernels.                                                    *)

elementwise_binary(a, b, out, fn(_, _)) ==
    IF Size(a) # Size(b) \/ ~is_scalar_type(out) THEN Throw
    ELSE LET p == Elements(a, out)
             q == Elements(b, out)
         IN  TensorOf(out, [i \in 1 .. Size(a) |-> fn(p[i], q[i])])

elementwise_scalar(a, v, out, fn(_, _)) ==
    IF ~is_scalar_type(out) THEN Throw
    ELSE LET p == Elements(a, out)
         IN  TensorOf(out, [i \in 1 .. Size(a) |-> fn(p[i], CastTo(out, v))])

elementwise_unary(a, out, fn(_)) ==
    IF ~is_scalar_type(out) THEN Throw
    ELSE LET p == Elements(a, out) IN TensorOf(out, [i \in 1 .. Size(a) |-> fn(p[i])])

Arith(op, x, y) ==
    CASE op = "add" -> Plus(x, y) [] op = "sub" -> Minus(x, y)
      [] op = "mul" -> Times(x, y) [] op = "div" -> Over(x, y)

BinaryArithOp(op, a, b) ==
    LET fn(x, y) == Arith(op, x, y)
    IN  elementwise_binary(a, b, IF op = "div" THEN "float64" ELSE promote(a.dtype, b.dtype), fn)

\* promote_scalar: an int tensor keeps its type, so the scalar is truncated.
ScalarArithOp(op, a, v) ==
    LET fn(x, y) == Arith(op, x, y)
    IN  elementwise_scalar(a, v, IF op = "div" THEN "float64" ELSE a.dtype, fn)

UnaryOp(op, a) ==
    LET fn(x) == CASE op = "neg" -> Negative(x) [] op = "abs" -> AbsoluteValue(x)
                   [] op = "square" -> Times(x, x) [] OTHER -> libm(op, x)
    IN  elementwise_unary(a, IF op \in {"neg", "abs", "square"} THEN a.dtype ELSE "float64", fn)

Compared(op, x, y) ==
    Mask(CASE op = "gt" -> Greater(x, y) [] op = "ge" -> AtLeast(x, y) [] op = "lt" -> Less(x, y)
           [] op = "le" -> AtMost(x, y) [] op = "eq" -> Same(x, y) [] op = "neq" -> ~Same(x, y))

CompareOp(op, a, b) ==
    LET d == promote(a.dtype, b.dtype)
    IN  IF Size(a) # Size(b) \/ ~is_scalar_type(d) THEN Throw
        ELSE LET p == Elements(a, d)
                 q == Elements(b, d)
             IN  TensorOf("int64", [i \in 1 .. Size(a) |-> Compared(op, p[i], q[i])])

CompareScalarOp(op, a, v) ==
    IF ~is_scalar_type(a.dtype) THEN Throw
    ELSE TensorOf("int64", [i \in 1 .. Size(a) |-> Compared(op, a.v[i], CastTo(a.dtype, v))])

-----------------------------------------------------------------------------
(* Reductions and the special ops.                                         *)

tensor_sum(a) == FoldLeft(Plus, Zero, a.v)
Average(v) == Over(FoldLeft(Plus, Zero, v), Int2Num(Len(v)))
reduce_minmax(a, better(_, _)) ==
    IF a.v = <<>> THEN Zero
    ELSE FoldLeft(LAMBDA acc, x : IF better(x, acc) THEN x ELSE acc, a.v[1], Tail(a.v))
Variance(v) == LET m == Average(v)
                   sq(x) == LET d == Minus(x, m) IN Times(d, d)
               IN  Average([i \in 1 .. Len(v) |-> sq(v[i])])

\* count never looks at the elements, and neither do mean and stddev of an empty
\* tensor; the others reject a quantized one.
ReduceOp(op, a) ==
    IF op = "count" THEN TensorOf("int64", <<Int2Num(Size(a))>>)
    ELSE IF op \in {"mean", "stddev"} /\ Size(a) = 0 THEN TensorOf("float64", <<Zero>>)
    ELSE IF is_quantized(a.dtype) THEN Throw
    ELSE CASE op = "sum" -> TensorOf("float64", <<tensor_sum(a)>>)
           [] op = "mean" -> TensorOf("float64", <<Average(a.v)>>)
           [] op = "max" -> TensorOf(a.dtype, <<reduce_minmax(a, Greater)>>)
           [] op = "min" -> TensorOf(a.dtype, <<reduce_minmax(a, Less)>>)
           [] op = "stddev" -> TensorOf("float64", <<libm("sqrt", Variance(a.v))>>)

SelectOp(mask, a, b) ==
    LET out == promote(a.dtype, b.dtype)
    IN  IF mask.dtype # "int64" \/ Size(mask) # Size(a) \/ Size(b) # Size(a)
           \/ ~is_scalar_type(out) THEN Throw
        ELSE LET p == Elements(a, out)
                 q == Elements(b, out)
             IN  TensorOf(out, [i \in 1 .. Size(a) |-> IF mask.v[i] # Zero THEN p[i] ELSE q[i]])

FilterOp(data, mask) ==
    IF mask.dtype # "int64" \/ Size(mask) # Size(data) \/ is_quantized(data.dtype) THEN Throw
    ELSE LET kept == SelectSeq([i \in 1 .. Size(data) |-> i], LAMBDA i : mask.v[i] # Zero)
         IN  TensorOf(data.dtype, [j \in 1 .. Len(kept) |-> data.v[kept[j]]])

QuantizeOp(a) == IF is_float(a.dtype) THEN quantize_q8_0(a) ELSE Throw
DequantizeOp(a) == dequantize(a)
DotQ8Op(a, b) == dot_q8_0(a, b)

\* attrs.value is the list of numbers of the attribute; one number is repeated.
ConstOp(attrs) ==
    LET dtype == IF "dtype" \in DOMAIN attrs THEN attrs.dtype ELSE "float64"
    IN  IF dtype \notin DTypeNames THEN Throw
        ELSE IF Len(attrs.value) = 1
             THEN full(IF "size" \in DOMAIN attrs THEN attrs.size ELSE 1, attrs.value[1],
                       parse_dtype(dtype))
        ELSE TensorOf(parse_dtype(dtype), [i \in 1 .. Len(attrs.value) |->
                                              CastTo(parse_dtype(dtype), attrs.value[i])])

-----------------------------------------------------------------------------
(* The factory and the dispatch.                                           *)

create_binary_op(spec) ==
    \/ spec.type \in ArithOps
    \/ spec.type \in ScalarOps(ArithOps) /\ "scalar" \in DOMAIN spec.attrs
create_unary_op(spec) == spec.type \in UnaryOps
create_reduce_op(spec) == spec.type \in ReduceOps
create_compare_op(spec) ==
    \/ spec.type \in CompareOps
    \/ spec.type \in ScalarOps(CompareOps) /\ "scalar" \in DOMAIN spec.attrs
create_special_op(spec) ==
    \/ spec.type = "select" /\ Len(spec.inputs) = 3
    \/ spec.type = "filter" /\ Len(spec.inputs) = 2
    \/ spec.type = "cast" /\ "dtype" \in DOMAIN spec.attrs /\ spec.attrs.dtype \in DTypeNames
    \/ spec.type = "const" /\ "value" \in DOMAIN spec.attrs
    \/ spec.type \in {"quantize", "dequantize", "dot", "identity"}

\* FALSE is an exception out of create_op.
CreateOp(spec) ==
    \/ create_binary_op(spec) \/ create_unary_op(spec) \/ create_reduce_op(spec)
    \/ create_compare_op(spec) \/ create_special_op(spec)

Apply(spec, in) ==
    LET type == spec.type
    IN  CASE type \in ArithOps -> BinaryArithOp(type, in[1], in[2])
          [] type \in ScalarOps(ArithOps) -> ScalarArithOp(Unscalar(type), in[1], spec.attrs.scalar)
          [] type \in UnaryOps -> UnaryOp(type, in[1])
          [] type \in ReduceOps -> ReduceOp(type, in[1])
          [] type \in CompareOps -> CompareOp(type, in[1], in[2])
          [] type \in ScalarOps(CompareOps) ->
                 CompareScalarOp(Unscalar(type), in[1], spec.attrs.scalar)
          [] type = "select" -> SelectOp(in[1], in[2], in[3])
          [] type = "filter" -> FilterOp(in[1], in[2])
          [] type = "cast" -> cast_tensor(in[1], parse_dtype(spec.attrs.dtype))
          [] type = "quantize" -> QuantizeOp(in[1])
          [] type = "dequantize" -> DequantizeOp(in[1])
          [] type = "dot" -> DotQ8Op(in[1], in[2])
          [] type = "const" -> ConstOp(spec.attrs)
          [] type = "identity" -> in[1]
          [] type = "placeholder" -> Throw

\* An identity onto its own input is an ordering anchor: no read, no write.
Anchor(spec) == spec.type = "identity" /\ spec.inputs[1] = spec.outputs[1]

\* [ok, out]: out holds the tensor written to the output, if one is.
Outcome(r) == IF r = Throw THEN [ok |-> FALSE, out |-> <<>>] ELSE [ok |-> TRUE, out |-> <<r>>]
Compute(spec, store) ==
    IF Anchor(spec) THEN [ok |-> TRUE, out |-> <<>>]
    ELSE IF \E i \in DOMAIN spec.inputs : spec.inputs[i] \notin DOMAIN store
         THEN [ok |-> FALSE, out |-> <<>>]
    ELSE Outcome(Apply(spec, [i \in DOMAIN spec.inputs |-> store[spec.inputs[i]]]))
=============================================================================
