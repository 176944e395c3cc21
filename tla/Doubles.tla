------------------------------- MODULE Doubles -------------------------------
(***************************************************************************)
(* The double of the statistics, as far as their correctness depends on it: *)
(* fractions in lowest terms with the exceptional values of IEEE 754.  What *)
(* is larger than MaxDouble overflows to an infinity; rounding and          *)
(* underflow of results are left out, so sums and products are exact.  A    *)
(* denormal number can only come from the input.                           *)
(***************************************************************************)
EXTENDS Arithmetic, Sequences

CONSTANT MaxDouble      \* the largest finite double

ASSUME DoublesAssumption == MaxDouble \in Nat \ {0}

NaN           == <<0, 0>>
Infinity      == <<1, 0>>
MinusInfinity == <<-1, 0>>
Denormal      == <<0, 2>>       \* in sums and products too small to matter
Zero          == <<0, 1>>

Double == {NaN, Infinity, MinusInfinity} \cup (Int \X (Nat \ {0}))

Finite(x)   == x[2] # 0
Infinite(x) == x \in {Infinity, MinusInfinity}

----------------------------------------------------------------------------
\* The double that an operation with the exact result n/d returns.
Rounded(n, d) ==
    IF (Abs(n) - 1) \div d >= MaxDouble THEN <<Sign(n), 0>> ELSE Fraction(n, d)

\* The conversion from size_t.
Real(i) == <<i, 1>>

Minus(x) == IF x = Denormal THEN x ELSE <<-x[1], x[2]>>

x ++ y ==
    IF Finite(x) /\ Finite(y)
      THEN LET g == Gcd(x[2], y[2])
           IN  Rounded(x[1] * (y[2] \div g) + y[1] * (x[2] \div g), x[2] * (y[2] \div g))
    ELSE IF Finite(y) \/ x = y THEN x
    ELSE IF Finite(x) THEN y
    ELSE NaN

x -- y == x ++ Minus(y)

\* Common factors go first: the integers stay small.
x ** y ==
    IF Finite(x) /\ Finite(y)
      THEN IF x[1] = 0 \/ y[1] = 0 THEN Zero
           ELSE LET a == Fraction(x[1], y[2])
                    b == Fraction(y[1], x[2])
                IN  Rounded(a[1] * b[1], a[2] * b[2])
      ELSE <<Sign(x[1]) * Sign(y[1]), 0>>

Reciprocal(x) ==
    IF x = NaN THEN NaN
    ELSE IF Infinite(x) THEN Zero
    ELSE IF x[1] = 0 THEN Infinity
    ELSE <<Sign(x[1]) * x[2], Abs(x[1])>>

x // y == x ** Reciprocal(y)

\* The operator < of C++: no comparison with NaN holds.
Less(x, y) ==
    /\ x # NaN /\ y # NaN
    /\ IF Infinite(x) /\ Infinite(y) THEN x[1] < y[1]
       ELSE IF Infinite(x) THEN x = MinusInfinity
       ELSE IF Infinite(y) THEN y = Infinity
       ELSE x[1] * y[2] < y[1] * x[2]

----------------------------------------------------------------------------
(* StatUtils.h                                                             *)

valueNormalOrZero(x) == Finite(x) /\ x # Denormal

\* Asked for finite values only.
isValueInteger(x) == x[1] % x[2] = 0
=============================================================================
