------------------------------- MODULE Kernels -------------------------------
(***************************************************************************)
(* The compute layer of the column engine: free functions on int64 and     *)
(* float64 tensors.  The float64 ones run a vector body over blocks of the *)
(* width of the build and a scalar loop over the rest; the width is a      *)
(* parameter of the kernels, 1 for the scalar build.  compute::div and the *)
(* arithmetic kernels check that the types agree, the comparisons do not   *)
(* and then read the other type's bits; no kernel checks the lengths.      *)
(***************************************************************************)
EXTENDS Tensor, FiniteSets

Builds == {"NEON", "AVX512", "AVX2", "SSE2", "Scalar"}

\* Doubles per register.
Width(build) ==
    CASE build = "AVX512" -> 8 [] build = "AVX2" -> 4 [] build = "Scalar" -> 1 [] OTHER -> 2

\* The comparisons have a vector body in the NEON build only.
CompareWidth(build) == IF build = "NEON" THEN 2 ELSE 1

\* for (; i + w <= n; i += w) over whole blocks, then for (; i < n; ++i).
BlockStarts(w, n) == {i \in 0 .. n - 1 : w > 1 /\ i % w = 0 /\ i + w <= n}

\* Mutant: the scalar loop starts one element late.
TailStartLate(w, n) == w * Cardinality(BlockStarts(w, n)) + 1

TailStart(w, n) == w * Cardinality(BlockStarts(w, n))

\* The buffer starts zeroed; vec computes a lane of a block, one a tail element.
Vectorized(w, n, vec(_), one(_)) ==
    LET starts == BlockStarts(w, n)
        tail == TailStart(w, n)
    IN  [k \in 1 .. n |-> IF \E s \in starts : k - 1 \in s .. s + w - 1 THEN vec(k)
                          ELSE IF k - 1 >= tail THEN one(k) ELSE Zero]

-----------------------------------------------------------------------------
(* Arithmetic of two tensors, of a tensor and a scalar, and of one tensor. *)

Binary(build, a, b, out, op(_, _)) ==
    LET at(k) == op(a.v[k], b.v[k])
        n == Size(a)
    IN  IF a.dtype # b.dtype THEN Throw
        ELSE IF a.dtype = "int64" THEN TensorOf(out, [k \in 1 .. n |-> at(k)])
        ELSE TensorOf(out, Vectorized(Width(build), n, at, at))

add(build, a, b) == Binary(build, a, b, a.dtype, Plus)
sub(build, a, b) == Binary(build, a, b, a.dtype, Minus)
mul(build, a, b) == Binary(build, a, b, a.dtype, Times)
div(build, a, b) == Binary(build, a, b, "float64", Over)

\* An int64 tensor truncates the scalar first.
scalar_int64(a, sv, op(_, _)) ==
    TensorOf(a.dtype, [k \in 1 .. Size(a) |-> op(a.v[k], Truncate(sv))])

Scalar(build, a, v, op(_, _)) ==
    LET at(k) == op(a.v[k], v)
    IN  TensorOf("float64", Vectorized(Width(build), Size(a), at, at))

add_scalar(build, a, v) ==
    IF a.dtype = "int64" THEN scalar_int64(a, v, Plus) ELSE Scalar(build, a, v, Plus)
sub_scalar(build, a, v) ==
    IF a.dtype = "int64" THEN scalar_int64(a, v, Minus) ELSE Scalar(build, a, v, Minus)
mul_scalar(build, a, v) ==
    IF a.dtype = "int64" THEN scalar_int64(a, v, Times) ELSE Scalar(build, a, v, Times)
div_scalar(build, a, v) ==
    IF a.dtype = "int64" THEN TensorOf("float64", [k \in 1 .. Size(a) |-> Over(a.v[k], v)])
    ELSE Scalar(build, a, v, Over)

Unary(build, a, out, vec(_), one(_)) ==
    LET lane(k) == vec(a.v[k])
        at(k) == one(a.v[k])
    IN  TensorOf(out, IF a.dtype = "int64" THEN [k \in 1 .. Size(a) |-> at(k)]
                      ELSE Vectorized(Width(build), Size(a), lane, at))

\* The x86 bodies subtract from zero, NEON and the tail change the sign.
neg(build, a) ==
    LET lane(x) == IF build = "NEON" THEN Negative(x) ELSE Minus(Zero, x)
    IN  Unary(build, a, a.dtype, lane, Negative)
abs(build, a) == Unary(build, a, a.dtype, AbsoluteValue, AbsoluteValue)
sqrt(build, a) ==
    LET root(x) == libm("sqrt", x) IN Unary(build, a, "float64", root, root)
square(build, a) ==
    LET sq(x) == Times(x, x) IN Unary(build, a, a.dtype, sq, sq)

-----------------------------------------------------------------------------
(* Comparisons: int64 masks.                                               *)

CompareTT(build, a, b, op(_, _)) ==
    LET at(k) == Mask(op(a.v[k], Reinterpret(b.v[k], b.dtype, a.dtype)))
    IN  TensorOf("int64", IF a.dtype = "int64" THEN [k \in 1 .. Size(a) |-> at(k)]
                          ELSE Vectorized(CompareWidth(build), Size(a), at, at))

CompareTS(build, a, v, op(_, _)) ==
    LET s == CastTo(a.dtype, v)
        at(k) == Mask(op(a.v[k], s))
    IN  TensorOf("int64", IF a.dtype = "int64" THEN [k \in 1 .. Size(a) |-> at(k)]
                          ELSE Vectorized(CompareWidth(build), Size(a), at, at))

gt(build, a, b) == CompareTT(build, a, b, Greater)
lt(build, a, b) == CompareTT(build, a, b, Less)
ge(build, a, b) == CompareTT(build, a, b, AtLeast)
le(build, a, b) == CompareTT(build, a, b, AtMost)
eq(build, a, b) == CompareTT(build, a, b, Same)
gt_scalar(build, a, v) == CompareTS(build, a, v, Greater)
lt_scalar(build, a, v) == CompareTS(build, a, v, Less)
ge_scalar(build, a, v) == CompareTS(build, a, v, AtLeast)
le_scalar(build, a, v) == CompareTS(build, a, v, AtMost)
eq_scalar(build, a, v) == CompareTS(build, a, v, Same)

-----------------------------------------------------------------------------
(* Reductions.                                                             *)

SumOf(v) == FoldLeft(Plus, Zero, v)

\* One accumulator per lane; AVX2 adds the halves of the register first.
hsum_f64(build, lanes) ==
    IF build = "AVX2" THEN Plus(Plus(lanes[1], lanes[3]), Plus(lanes[2], lanes[4]))
    ELSE SumOf(lanes)

sum(build, a) ==
    LET w == Width(build)
        n == Size(a)
        blocks == n \div w
        lanes == [l \in 1 .. w |-> SumOf([b \in 1 .. blocks |-> a.v[(b - 1) * w + l]])]
    IN  IF a.dtype = "int64" \/ w = 1 THEN SumOf(a.v)
        ELSE FoldLeft(Plus, hsum_f64(build, lanes), SubSeq(a.v, TailStart(w, n) + 1, n))

mean(build, a) == IF Size(a) = 0 THEN Zero ELSE Over(sum(build, a), Int2Num(Size(a)))
count(a) == Int2Num(Size(a))
=============================================================================
