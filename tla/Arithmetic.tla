----------------------------- MODULE Arithmetic -----------------------------
(***************************************************************************)
(* Operators on integers that Doubles and Results are defined with.         *)
(***************************************************************************)
EXTENDS Integers

Abs(i)  == IF i < 0 THEN -i ELSE i
Sign(i) == IF i < 0 THEN -1 ELSE IF i = 0 THEN 0 ELSE 1

\* Euclid's algorithm.
Gcd(a, b) ==
    LET gcd[y \in 0..b] == [x \in Nat |-> IF y = 0 THEN x ELSE gcd[x % y][y]]
    IN  gcd[b][a]

\* The fraction n/d, d > 0, in lowest terms.
Fraction(n, d) == LET g == Gcd(Abs(n), d) IN <<n \div g, d \div g>>

\* The sum of the first n values of f.
Total(f, n) ==
    LET total[i \in 0..n] == IF i = 0 THEN 0 ELSE total[i - 1] + f[i]
    IN  total[n]

Power(x, k) ==
    CASE k = 0 -> 1 [] k = 1 -> x [] k = 2 -> x * x [] k = 3 -> x * x * x [] k = 4 -> x * x * x * x
=============================================================================
