------------------------------- MODULE Numeric -------------------------------
(***************************************************************************)
(* The numbers held by tensors.  A number is a reduced fraction <<n, d>>   *)
(* with d >= 0; d = 0 stands for the IEEE values that are not fractions:   *)
(* <<1, 0>> and <<-1, 0>> are the infinities and <<0, 0>> is NaN.  Rounding *)
(* and the sign of zero are not modelled; everything else that the C++     *)
(* operators do with doubles and integers is: division by zero, the order  *)
(* (NaN is unordered) and the truncation of a conversion to an integer.    *)
(***************************************************************************)
EXTENDS Integers

Sign(n) == IF n > 0 THEN 1 ELSE IF n < 0 THEN -1 ELSE 0
Magnitude(n) == IF n < 0 THEN -n ELSE n

gcd[n \in Nat, m \in Nat] == IF m = 0 THEN n ELSE gcd[m, n % m]

Frac(n, d) ==
    IF d = 0 THEN <<Sign(n), 0>>
    ELSE LET g == gcd[Magnitude(n), d] IN <<Sign(n) * (Magnitude(n) \div g), d \div g>>

Int2Num(n) == <<n, 1>>
NaN == <<0, 0>>
Zero == Int2Num(0)
One == Int2Num(1)

\* static_cast of a double to an integer type: the fraction is cut off.
Truncate(x) == Int2Num(Sign(x[1]) * (Magnitude(x[1]) \div x[2]))

Plus(x, y) ==
    IF x[2] = 0 /\ y[2] = 0 THEN IF x = y THEN x ELSE NaN
    ELSE Frac(x[1] * y[2] + y[1] * x[2], x[2] * y[2])
Negative(x) == <<-x[1], x[2]>>
Minus(x, y) == Plus(x, Negative(y))
Times(x, y) == Frac(x[1] * y[1], x[2] * y[2])
Reciprocal(x) == IF x = Zero THEN <<1, 0>> ELSE Frac(Sign(x[1]) * x[2], Magnitude(x[1]))
Over(x, y) == Times(x, Reciprocal(y))
AbsoluteValue(x) == <<Magnitude(x[1]), x[2]>>

Less(x, y) ==
    /\ x # NaN /\ y # NaN
    /\ IF x[2] = 0 /\ y[2] = 0 THEN x[1] < y[1] ELSE x[1] * y[2] < y[1] * x[2]
Same(x, y) == x = y /\ x # NaN
AtMost(x, y) == Less(x, y) \/ Same(x, y)
Greater(x, y) == Less(y, x)
AtLeast(x, y) == AtMost(y, x)

\* A bool stored as an integer.
Mask(p) == IF p THEN One ELSE Zero
=============================================================================
