------------------------------- MODULE Tensor --------------------------------
(***************************************************************************)
(* The 1-D tensor of the column engine and the table of named tensors.  A  *)
(* tensor is [dtype, v] with v the sequence of its numbers; a quantized    *)
(* one is [dtype, n, v] with v the sequence of its blocks and n its        *)
(* logical size.  Capacity and byte layout are left out.  An operator that *)
(* models a function that throws yields Throw instead of a tensor or table.*)
(***************************************************************************)
EXTENDS Numeric, Sequences, SequencesExt

CONSTANTS kQ8BlockSize,  \* numbers per quantized block (32 in the code)
          libm(_, _)     \* the value of sqrt, exp or log at a number

Throw == [dtype |-> "throw"]

IntTypes == {"int32", "int64"}
FloatTypes == {"float32", "float64"}
is_float(t) == t \in FloatTypes
is_int(t) == t \in IntTypes
is_scalar_type(t) == is_float(t) \/ is_int(t)
is_quantized(t) == t = "q8_0"

TensorOf(dtype, v) == [dtype |-> dtype, v |-> v]
Size(t) == IF is_quantized(t.dtype) THEN t.n ELSE Len(t.v)

\* A default-constructed Tensor.
EmptyTensor == TensorOf("float64", <<>>)

\* The value that a cell of type dtype holds after static_cast<dtype>(x).
CastTo(dtype, x) == IF is_int(dtype) THEN Truncate(x) ELSE x

\* The number seen in the bits of x when they are read as the other type: a
\* non-zero double is an integer of huge magnitude, a small positive integer a
\* positive double below all others, and a small negative integer a NaN.
Huge == 2000000
Reinterpret(x, from, to) ==
    IF from = to \/ x = Zero THEN x
    ELSE IF to = "int64" THEN Int2Num(Sign(x[1]) * Huge)
    ELSE IF x[1] > 0 THEN <<1, Huge>> ELSE NaN

full(n, value, dtype) ==
    IF is_quantized(dtype) THEN Throw
    ELSE TensorOf(dtype, [i \in 1 .. n |-> CastTo(dtype, value)])

-----------------------------------------------------------------------------
(* Block quantization: one scale per block of kQ8BlockSize numbers.        *)

NumBlocks(n) == (n + kQ8BlockSize - 1) \div kQ8BlockSize
BlockCount(n, b) == IF n - b * kQ8BlockSize < kQ8BlockSize
                    THEN n - b * kQ8BlockSize ELSE kQ8BlockSize

Larger(x, y) == IF Less(x, y) THEN y ELSE x
\* std::max(-m, std::min(m, x)): a NaN becomes m.
Clamp(x, m) == LET least == IF Less(x, m) THEN x ELSE m IN Larger(Negative(m), least)

QuantizeBlock(v, n, b) ==
    LET cnt  == BlockCount(n, b)
        at(i) == v[b * kQ8BlockSize + i]
        amax == FoldLeft(LAMBDA m, i : Larger(m, AbsoluteValue(at(i))), Zero,
                         [i \in 1 .. cnt |-> i])
        d    == Over(amax, Int2Num(127))
    IN  [d |-> d,
         qs |-> [i \in 1 .. kQ8BlockSize |->
                    IF i > cnt \/ d = Zero THEN Zero
                    ELSE Truncate(Clamp(Over(at(i), d), Int2Num(127)))]]

quantize_q8_0(t) ==
    IF ~is_float(t.dtype) THEN Throw
    ELSE [dtype |-> "q8_0", n |-> Size(t),
          v |-> [b \in 1 .. NumBlocks(Size(t)) |-> QuantizeBlock(t.v, Size(t), b - 1)]]

dequantize(t) ==
    IF ~is_quantized(t.dtype) THEN Throw
    ELSE TensorOf("float64",
                  [i \in 1 .. t.n |->
                      LET block == t.v[1 + ((i - 1) \div kQ8BlockSize)]
                      IN  Times(block.qs[1 + ((i - 1) % kQ8BlockSize)], block.d)])

\* The integer products of a block are summed first and scaled once.
dot_q8_0(a, b) ==
    LET dotBlock(acc, k) ==
            LET s == FoldLeft(LAMBDA p, i : Plus(p, Times(a.v[k].qs[i], b.v[k].qs[i])),
                              Zero, [i \in 1 .. BlockCount(a.n, k - 1) |-> i])
            IN  Plus(acc, Times(Times(a.v[k].d, b.v[k].d), s))
    IN  IF ~is_quantized(a.dtype) \/ ~is_quantized(b.dtype) \/ Size(a) # Size(b) THEN Throw
        ELSE TensorOf("float64",
                      <<FoldLeft(dotBlock, Zero, [k \in 1 .. NumBlocks(a.n) |-> k])>>)

-----------------------------------------------------------------------------
(* TensorTable: the columns by name, the order in which they were added    *)
(* and the number of rows it believes to hold.                             *)

EmptyTable == [order |-> <<>>, tensors |-> [c \in {} |-> EmptyTensor], num_rows |-> 0]

HasColumn(table, name) == name \in DOMAIN table.tensors
Column(table, name) == IF HasColumn(table, name) THEN table.tensors[name] ELSE Throw

\* Mutant: the size is compared with the columns' only when the name is new.
AddColumnReplaces(table, name, t) ==
    IF table = Throw \/ t = Throw THEN Throw
    ELSE IF ~HasColumn(table, name) /\ table.num_rows > 0 /\ Size(t) # table.num_rows
         THEN Throw
    ELSE [order |-> IF HasColumn(table, name) THEN table.order ELSE Append(table.order, name),
          tensors |-> [c \in DOMAIN table.tensors \cup {name} |->
                          IF c = name THEN t ELSE table.tensors[c]],
          num_rows |-> Size(t)]

\* The size is compared only when the table believes to have rows.
AddColumn(table, name, t) ==
    IF table = Throw \/ t = Throw THEN Throw
    ELSE IF DOMAIN table.tensors # {} /\ table.num_rows > 0 /\ Size(t) # table.num_rows
         THEN Throw
    ELSE [order |-> IF HasColumn(table, name) THEN table.order ELSE Append(table.order, name),
          tensors |-> [c \in DOMAIN table.tensors \cup {name} |->
                          IF c = name THEN t ELSE table.tensors[c]],
          num_rows |-> Size(t)]
=============================================================================
