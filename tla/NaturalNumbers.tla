--------------------------- MODULE NaturalNumbers ---------------------------
(***************************************************************************)
(* Facts about quotients, products and induction, and about the operators   *)
(* of Arithmetic, in the form the proofs need them.                         *)
(*                                                                         *)
(* A set of data is known by the sums of its first four powers.  Its        *)
(* central moments are polynomials of these; they are bounded by how far    *)
(* the data are from each other.                                           *)
(***************************************************************************)
EXTENDS Arithmetic, WellFoundedInduction, TLAPS

LEMMA Remainder ==
    ASSUME NEW n \in Nat, NEW m \in Nat, NEW q \in Nat, NEW r \in Nat, r = n - m * q
    PROVE  n = q * m + r
OBVIOUS

LEMMA Division ==
    ASSUME NEW n \in Nat, NEW m \in Nat \ {0}
    PROVE  /\ n \div m \in Nat
           /\ n % m \in 0..(m - 1)
           /\ n = (n \div m) * m + (n % m)
<1>1. n \div m \in Nat
  OBVIOUS
<1>2. n % m \in 0..(m - 1)
  OBVIOUS
<1>3. n % m = n - m * (n \div m)
  OBVIOUS
<1>4. n = (n \div m) * m + (n % m)
  BY <1>1, <1>2, <1>3, Remainder
<1> QED
  BY <1>1, <1>2, <1>4

LEMMA Quotient ==
    ASSUME NEW q \in Nat, NEW m \in Nat \ {0}
    PROVE  (q * m) \div m = q
OBVIOUS

LEMMA Product ==
    ASSUME NEW a \in Nat, NEW b \in Nat, NEW c \in Nat
    PROVE  /\ a * b \in Nat
           /\ (a * b) * c = a * (b * c)
           /\ (a + 1) * c = a * c + c
OBVIOUS

LEMMA ProductMonotone ==
    ASSUME NEW a \in Nat, NEW b \in Nat, NEW c \in Nat, a <= b
    PROVE  a * c <= b * c
OBVIOUS

LEMMA Cancel ==
    ASSUME NEW a \in Nat, NEW b \in Nat, NEW c \in Nat \ {0}, a * c <= b * c
    PROVE  a <= b
<1>1. b + 1 <= a => (b + 1) * c <= a * c
  BY ProductMonotone
<1>2. (b + 1) * c = b * c + c /\ b * c \in Nat /\ a * c \in Nat
  BY Product
<1> QED
  BY <1>1, <1>2

----------------------------------------------------------------------------
(* Blocks of c numbers each, one after the other                           *)

LEMMA InRow ==
    ASSUME NEW n \in Nat, NEW c \in Nat, NEW a \in 0..(n - 1), NEW x \in 0..(c - 1)
    PROVE  a * c + x \in 0..(n * c - 1)
<1>1. (a + 1) * c <= n * c
  BY ProductMonotone
<1>2. (a + 1) * c = a * c + c /\ a * c \in Nat /\ n * c \in Nat
  BY Product
<1> QED
  BY <1>1, <1>2

LEMMA OneBlock ==
    ASSUME NEW a \in Nat, NEW b \in Nat, NEW c \in Nat, NEW x \in 0..(c - 1),
           a * c + x \in (b * c)..(b * c + c - 1)
    PROVE  a = b
<1>1. a + 1 <= b => (a + 1) * c <= b * c
  BY ProductMonotone
<1>2. b + 1 <= a => (b + 1) * c <= a * c
  BY ProductMonotone
<1>3. /\ (a + 1) * c = a * c + c /\ (b + 1) * c = b * c + c
      /\ a * c \in Nat /\ b * c \in Nat
  BY Product
<1> QED
  BY <1>1, <1>2, <1>3

\* x \div n taken n times is no more than x.
LEMMA DivTimes ==
    ASSUME NEW x \in Nat, NEW n \in Nat \ {0}
    PROVE  /\ x \div n \in Nat
           /\ n * (x \div n) <= x
  BY Z3

LEMMA DivAtLeast ==
    ASSUME NEW x \in Nat, NEW n \in Nat \ {0}, NEW q \in Nat, q * n <= x
    PROVE  q <= x \div n
<1>1. /\ x \div n \in Nat /\ x % n \in 0..(n - 1)
      /\ x = (x \div n) * n + (x % n)
  BY Division
<1>2. (x \div n) + 1 <= q => ((x \div n) + 1) * n <= q * n
  BY <1>1, ProductMonotone
<1>3. ((x \div n) + 1) * n = (x \div n) * n + n /\ (x \div n) * n \in Nat /\ q * n \in Nat
  BY <1>1, Product
<1> QED
  BY <1>1, <1>2, <1>3

----------------------------------------------------------------------------
(* Induction.  What fails for a number fails for a least one.               *)

LEMMA LeastNumber ==
    ASSUME NEW S, S \subseteq Nat, S # {}
    PROVE  \E n \in S : \A m \in S : n <= m
<1> DEFINE R == OpToRel(<, Nat)
<1>1. IsWellFoundedOn(R, Nat)
  BY NatLessThanWellFounded
<1>2. \A m, n \in Nat : <<m, n>> \in R <=> m < n
  BY DEF OpToRel
<1> HIDE DEF R
<1>3. PICK n \in S : \A m \in S : <<m, n>> \notin R
  BY <1>1, WFMin
<1>4. ASSUME NEW m \in S PROVE n <= m
  <2>1. m \in Nat /\ n \in Nat
    OBVIOUS
  <2>2. <<m, n>> \notin R
    BY <1>3
  <2>3. ~(m < n)
    BY <1>2, <2>1, <2>2, Zenon
  <2> QED
    BY <2>1, <2>3
<1> QED
  BY <1>4

\* Induction over 0..n.
LEMMA Induction ==
    ASSUME NEW n \in Nat, NEW G, 0 \in G,
           \A k \in 1..n : k - 1 \in G => k \in G
    PROVE  0..n \subseteq G
<1> DEFINE Bad == {k \in 0..n : k \notin G}
<1> SUFFICES ASSUME Bad # {} PROVE FALSE
  OBVIOUS
<1>0. Bad \subseteq Nat /\ \A k \in Bad : k \in 0..n /\ k \notin G
  OBVIOUS
<1> HIDE DEF Bad
<1>1. PICK k \in Bad : \A m \in Bad : k <= m
  BY <1>0, LeastNumber
<1>2. k \in 0..n /\ k \notin G
  BY <1>0
<1>3. k \in 1..n /\ k - 1 \in 0..n
  BY <1>2
<1>4. k - 1 \notin Bad
  BY <1>0, <1>1, <1>3
<1>5. k - 1 \in G
  BY <1>3, <1>4 DEF Bad
<1> QED
  BY <1>2, <1>3, <1>5

\* A recursive definition over 0..n whose steps stay in S has a solution.
Solution(f, S, base, n, step) ==
    /\ f \in [0..n -> S]
    /\ f[0] = base
    /\ \A i \in 1..n : f[i] = step[i][f[i - 1]]

LEMMA Recursion ==
    ASSUME NEW S, NEW base \in S, NEW n \in Nat, NEW step \in [1..n -> [S -> S]]
    PROVE  \E f : Solution(f, S, base, n, step)
<1> DEFINE Solves(f, k) == \A i \in 0..k : f[i] = IF i = 0 THEN base ELSE step[i][f[i - 1]]
           G == {k \in 0..n : \E f \in [0..k -> S] : Solves(f, k)}
<1>1. 0 \in G
  <2> DEFINE f == [i \in 0..0 |-> base]
  <2>1. f \in [0..0 -> S] /\ Solves(f, 0)
    OBVIOUS
  <2> HIDE DEF f, Solves
  <2> QED
    BY <2>1
<1>2. ASSUME NEW k \in 1..n, k - 1 \in G PROVE k \in G
  <2>1. PICK f \in [0..(k - 1) -> S] : Solves(f, k - 1)
    BY <1>2
  <2> DEFINE g == [i \in 0..k |-> IF i = k THEN step[k][f[k - 1]] ELSE f[i]]
  <2>2. step[k][f[k - 1]] \in S
    OBVIOUS
  <2>3. g \in [0..k -> S]
    BY <2>2
  <2>4. Solves(g, k)
    <3> SUFFICES ASSUME NEW i \in 0..k
                 PROVE  g[i] = IF i = 0 THEN base ELSE step[i][g[i - 1]]
      OBVIOUS
    <3>1. CASE i = k
      <4>1. g[k] = step[k][f[k - 1]] /\ g[k - 1] = f[k - 1]
        OBVIOUS
      <4> QED
        BY <3>1, <4>1
    <3>2. CASE i # k
      <4>1. i \in 0..(k - 1)
        BY <3>2
      <4>2. f[i] = IF i = 0 THEN base ELSE step[i][f[i - 1]]
        BY <2>1, <4>1
      <4>3. g[i] = f[i] /\ (i # 0 => g[i - 1] = f[i - 1])
        BY <3>2, <4>1
      <4> QED
        BY <4>2, <4>3
    <3> QED
      BY <3>1, <3>2
  <2> HIDE DEF g, Solves
  <2> QED
    BY <2>3, <2>4
<1> HIDE DEF G
<1>3. n \in G
  <2>1. 0..n \subseteq G
    BY <1>1, <1>2, Induction
  <2> QED
    BY <2>1
<1>4. PICK f \in [0..n -> S] : Solves(f, n)
  BY <1>3 DEF G
<1>5. Solution(f, S, base, n, step)
  BY <1>4 DEF Solution
<1> QED
  BY <1>5

LEMMA Summation ==
    ASSUME NEW n \in Nat, NEW term \in [1..n -> Nat]
    PROVE  \E f \in [0..n -> Nat] :
             f[0] = 0 /\ \A i \in 1..n : f[i] = f[i - 1] + term[i]
<1> DEFINE step == [i \in 1..n |-> [x \in Nat |-> x + term[i]]]
<1>1. step \in [1..n -> [Nat -> Nat]]
  OBVIOUS
<1>2. \A i \in 1..n, x \in Nat : step[i][x] = x + term[i]
  OBVIOUS
<1> HIDE DEF step
<1>3. PICK f : Solution(f, Nat, 0, n, step)
  BY <1>1, Recursion
<1>4. f \in [0..n -> Nat] /\ f[0] = 0 /\ \A i \in 1..n : f[i] = step[i][f[i - 1]]
  BY <1>3 DEF Solution
<1>5. ASSUME NEW i \in 1..n PROVE f[i] = f[i - 1] + term[i]
  <2>1. i - 1 \in 0..n
    OBVIOUS
  <2>2. f[i - 1] \in Nat
    BY <1>4, <2>1
  <2> QED
    BY <1>2, <1>4, <2>2
<1> QED
  BY <1>4, <1>5

\* The same from 1 on.
LEMMA InductionFromOne ==
    ASSUME NEW n \in Nat \ {0}, NEW G, 1 \in G,
           \A k \in 2..n : k - 1 \in G => k \in G
    PROVE  1..n \subseteq G
<1> DEFINE H == {k \in 0..n : k = 0 \/ k \in G}
<1>1. 0 \in H
  OBVIOUS
<1>2. ASSUME NEW k \in 1..n, k - 1 \in H PROVE k \in H
  <2>1. k = 1 \/ (k \in 2..n /\ k - 1 # 0)
    OBVIOUS
  <2>2. k - 1 \in G => k \in G
    BY <2>1
  <2> QED
    BY <1>2, <2>1, <2>2
<1> HIDE DEF H
<1>3. 0..n \subseteq H
  BY <1>1, <1>2, Induction
<1> QED
  BY <1>3 DEF H

SolutionFromOne(f, S, base, n, step) ==
    /\ f \in [1..n -> S]
    /\ f[1] = base
    /\ \A i \in 2..n : f[i] = step[i][f[i - 1]]

LEMMA RecursionFromOne ==
    ASSUME NEW S, NEW base \in S, NEW n \in Nat \ {0}, NEW step \in [2..n -> [S -> S]]
    PROVE  \E f : SolutionFromOne(f, S, base, n, step)
<1> DEFINE shifted == [i \in 1..(n - 1) |-> step[i + 1]]
<1>1. shifted \in [1..(n - 1) -> [S -> S]]
  <2>1. \A i \in 1..(n - 1) : i + 1 \in 2..n
    OBVIOUS
  <2> QED
    BY <2>1
<1>2. \A i \in 1..(n - 1) : shifted[i] = step[i + 1]
  OBVIOUS
<1> HIDE DEF shifted
<1>3. n - 1 \in Nat
  OBVIOUS
<1>4. PICK g : Solution(g, S, base, n - 1, shifted)
  BY <1>1, <1>3, Recursion
<1>5. /\ g \in [0..(n - 1) -> S] /\ g[0] = base
      /\ \A i \in 1..(n - 1) : g[i] = shifted[i][g[i - 1]]
  BY <1>4 DEF Solution
<1> DEFINE f == [i \in 1..n |-> g[i - 1]]
<1>6. f \in [1..n -> S]
  BY <1>5
<1>7. \A i \in 1..n : f[i] = g[i - 1]
  OBVIOUS
<1> HIDE DEF f
<1>8. f[1] = base
  <2>1. 1 \in 1..n /\ 1 - 1 = 0
    OBVIOUS
  <2> QED
    BY <1>5, <1>7, <2>1
<1>9. ASSUME NEW i \in 2..n PROVE f[i] = step[i][f[i - 1]]
  <2>1. i - 1 \in 1..(n - 1) /\ i - 1 \in 1..n /\ i \in 1..n /\ (i - 1) + 1 = i
    OBVIOUS
  <2>2. g[i - 1] = shifted[i - 1][g[(i - 1) - 1]]
    BY <1>5, <2>1
  <2>3. shifted[i - 1] = step[i]
    BY <1>2, <2>1
  <2>4. f[i] = g[i - 1] /\ f[i - 1] = g[(i - 1) - 1]
    BY <1>7, <2>1
  <2> QED
    BY <2>2, <2>3, <2>4
<1>10. SolutionFromOne(f, S, base, n, step)
  BY <1>6, <1>8, <1>9 DEF SolutionFromOne
<1> QED
  BY <1>10

----------------------------------------------------------------------------
(* Common factors and order                                                *)

LEMMA Modulo ==
    ASSUME NEW x \in Nat, NEW k \in Nat \ {0}
    PROVE  x % k \in 0..(k - 1)
BY Division

Divides(g, n) == \E u \in Nat : n = u * g

LEMMA DividesRow ==
    ASSUME NEW g \in Nat, NEW x \in Nat, NEW k \in Nat \ {0}, Divides(g, k), Divides(g, x % k)
    PROVE  Divides(g, x)
<1>1. PICK u \in Nat, v \in Nat : k = u * g /\ x % k = v * g
  BY DEF Divides
<1>2. x \div k \in Nat /\ x = (x \div k) * k + (x % k)
  BY Division
<1> DEFINE q == x \div k
<1>3. q \in Nat /\ x = q * k + v * g
  BY <1>1, <1>2
<1> HIDE DEF q
<1>4. x = q * (u * g) + v * g
  BY <1>1, <1>3
<1>5. x = (q * u + v) * g
  BY <1>3, <1>4
<1>6. q * u + v \in Nat
  BY <1>3
<1> QED
  BY <1>5, <1>6 DEF Divides

\* Euclid's algorithm terminates with a number between 1 and b that divides both.
LEMMA GcdBounds ==
    ASSUME NEW a \in Nat, NEW b \in Nat \ {0}
    PROVE  /\ Gcd(a, b) \in 1..b /\ Divides(Gcd(a, b), a) /\ Divides(Gcd(a, b), b)
           /\ a = 0 => Gcd(a, b) = b
<1> DEFINE Solves(f, k) ==
             \A y \in 0..k, x \in Nat :
                f[y][x] = IF y = 0 THEN x ELSE f[x % y][y]
           G == {k \in 0..b : \E f \in [0..k -> [Nat -> Nat]] : Solves(f, k)}
<1>1. 0 \in G
  <2> DEFINE id == [x \in Nat |-> x]
             f == [y \in 0..0 |-> id]
  <2>1. id \in [Nat -> Nat] /\ \A x \in Nat : id[x] = x
    OBVIOUS
  <2> HIDE DEF id
  <2>2. f \in [0..0 -> [Nat -> Nat]] /\ f[0] = id
    BY <2>1
  <2> HIDE DEF f
  <2>3. Solves(f, 0)
    BY <2>1, <2>2
  <2> HIDE DEF Solves
  <2> QED
    BY <2>2, <2>3
<1>2. ASSUME NEW k \in 1..b, k - 1 \in G PROVE k \in G
  <2>1. PICK f \in [0..(k - 1) -> [Nat -> Nat]] : Solves(f, k - 1)
    BY <1>2
  <2> DEFINE last == [x \in Nat |-> f[x % k][k]]
             g == [y \in 0..k |-> IF y = k THEN last ELSE f[y]]
  <2>k. k \in Nat \ {0}
    OBVIOUS
  <2>2. \A x \in Nat : x % k \in 0..(k - 1)
    BY <2>k, Modulo
  <2>3. last \in [Nat -> Nat]
    <3>1. ASSUME NEW x \in Nat PROVE f[x % k][k] \in Nat
      <4>1. f[x % k] \in [Nat -> Nat]
        BY <2>2
      <4> QED
        BY <2>k, <4>1
    <3> QED
      BY <3>1
  <2>4. \A x \in Nat : last[x] = f[x % k][k]
    OBVIOUS
  <2> HIDE DEF last
  <2>5. g \in [0..k -> [Nat -> Nat]] /\ g[k] = last /\ \A y \in 0..(k - 1) : g[y] = f[y]
    <3>1. ASSUME NEW y \in 0..k PROVE (IF y = k THEN last ELSE f[y]) \in [Nat -> Nat]
      <4>1. y # k => y \in 0..(k - 1)
        OBVIOUS
      <4> QED
        BY <2>3, <4>1
    <3>2. k \in 0..k /\ \A y \in 0..(k - 1) : y \in 0..k /\ y # k
      BY <2>k
    <3> QED
      BY <3>1, <3>2
  <2> HIDE DEF g
  <2>6. Solves(g, k)
    <3> SUFFICES ASSUME NEW y \in 0..k, NEW x \in Nat
                 PROVE  g[y][x] = IF y = 0 THEN x ELSE g[x % y][y]
      OBVIOUS
    <3>1. CASE y = k
      <4>1. g[x % k][k] = f[x % k][k]
        BY <2>2, <2>5
      <4> QED
        BY <3>1, <4>1, <2>k, <2>4, <2>5
    <3>2. CASE y # k
      <4>1. y \in 0..(k - 1) /\ g[y] = f[y]
        BY <3>2, <2>5
      <4>2. f[y][x] = IF y = 0 THEN x ELSE f[x % y][y]
        BY <2>1, <4>1
      <4>3. ASSUME y # 0 PROVE g[x % y] = f[x % y]
        <5>y. y \in Nat \ {0}
          BY <4>3
        <5>1. x % y \in 0..(y - 1)
          BY <5>y, Modulo
        <5>2. x % y \in 0..(k - 1)
          BY <5>1, <5>y, <4>1
        <5> QED
          BY <5>2, <2>5
      <4> QED
        BY <4>1, <4>2, <4>3
    <3> QED
      BY <3>1, <3>2
  <2> HIDE DEF Solves
  <2>7. k \in 0..b
    OBVIOUS
  <2> QED
    BY <2>5, <2>6, <2>7
<1> HIDE DEF G
<1>3. b \in G
  <2>1. 0..b \subseteq G
    BY <1>1, <1>2, Induction
  <2> QED
    BY <2>1
<1>4. PICK f \in [0..b -> [Nat -> Nat]] : Solves(f, b)
  BY <1>3 DEF G
<1> DEFINE Row(h, y) == [x \in Nat |-> IF y = 0 THEN x ELSE h[x % y][y]]
           Body(h) == [y \in 0..b |-> Row(h, y)]
           gcd == CHOOSE h : h = Body(h)
<1>5. f = Body(f)
  <2>1. ASSUME NEW y \in 0..b PROVE f[y] = Row(f, y)
    <3>1. f[y] \in [Nat -> Nat]
      OBVIOUS
    <3>2. \A x \in Nat : f[y][x] = Row(f, y)[x]
      BY <1>4
    <3>3. f[y] = [x \in Nat |-> f[y][x]]
      BY <3>1
    <3>4. Row(f, y) = [x \in Nat |-> Row(f, y)[x]]
      OBVIOUS
    <3> QED
      BY <3>2, <3>3, <3>4, Zenon
  <2> HIDE DEF Row
  <2> QED
    BY <2>1
<1>6. gcd = Body(gcd)
  <2> HIDE DEF Body
  <2> QED
    BY <1>5
<1> HIDE DEF gcd
<1>7. \A y \in 0..b, x \in Nat : gcd[y][x] = IF y = 0 THEN x ELSE gcd[x % y][y]
  <2>1. \A y \in 0..b : gcd[y] = Row(gcd, y)
    <3> HIDE DEF Row
    <3> QED
      BY <1>6
  <2> QED
    BY <2>1
<1> DEFINE Good(y, x) == gcd[y][x] \in 1..y /\ Divides(gcd[y][x], x) /\ Divides(gcd[y][x], y)
           P == {k \in 0..b : \A y \in 0..k, x \in Nat : y # 0 => Good(y, x)}
<1>8. 0 \in P
  OBVIOUS
<1>9. ASSUME NEW k \in 1..b, k - 1 \in P PROVE k \in P
  <2>k. k \in Nat \ {0} /\ k \in 0..b /\ 0 \in 0..b
    OBVIOUS
  <2>1. \A x \in Nat : x % k \in 0..(k - 1)
    BY <2>k, Modulo
  <2>2. \A y \in 0..(k - 1), x \in Nat : y # 0 => Good(y, x)
    BY <1>9
  <2>3. ASSUME NEW x \in Nat PROVE Good(k, x)
    <3>1. gcd[k][x] = gcd[x % k][k]
      BY <1>7, <2>k
    <3>2. CASE x % k = 0
      <4>1. gcd[0][k] = k
        BY <1>7, <2>k
      <4>2. gcd[k][x] = k
        BY <3>1, <3>2, <4>1, Zenon
      <4>3. k = 1 * k /\ x % k = 0 * k /\ 1 \in Nat /\ 0 \in Nat
        BY <2>k, <3>2
      <4>4. Divides(k, k) /\ Divides(k, x % k)
        BY <4>3, Zenon DEF Divides
      <4>5. Divides(k, x)
        BY <4>4, <2>k, DividesRow
      <4> QED
        BY <4>2, <4>4, <4>5, <2>k
    <3>3. CASE x % k # 0
      <4>0. x % k \in 0..(k - 1) /\ k \in Nat
        BY <2>1, <2>k
      <4>1. Good(x % k, k)
        BY <4>0, <2>2, <3>3
      <4>2. gcd[k][x] \in 1..(x % k) /\ Divides(gcd[k][x], k) /\ Divides(gcd[k][x], x % k)
        BY <3>1, <4>1, Zenon
      <4>3. ASSUME NEW g \in 1..(x % k), Divides(g, k), Divides(g, x % k)
            PROVE  g \in 1..k /\ Divides(g, x)
        <5>1. g \in Nat /\ g \in 1..k
          BY <4>0
        <5>2. Divides(g, x)
          BY <5>1, <4>3, <2>k, DividesRow
        <5> QED
          BY <5>1, <5>2
      <4> QED
        BY <4>2, <4>3
    <3> QED
      BY <3>2, <3>3
  <2> HIDE DEF Good
  <2>4. \A y \in 0..k : y # k => y \in 0..(k - 1)
    OBVIOUS
  <2>5. \A y \in 0..k, x \in Nat : y # 0 => Good(y, x)
    BY <2>2, <2>3, <2>4
  <2> QED
    BY <2>5, <2>k
<1> HIDE DEF P, Good
<1>10. b \in P
  <2>1. 0..b \subseteq P
    BY <1>8, <1>9, Induction
  <2> QED
    BY <2>1
<1>11. Good(b, a)
  BY <1>10 DEF P
<1>12. Gcd(a, b) = gcd[b][a]
  BY DEF Gcd, gcd
<1>13. a = 0 => gcd[b][a] = b
  <2>1. 0 % b = 0 /\ b \in 0..b /\ 0 \in 0..b /\ 0 \in Nat /\ b \in Nat /\ b # 0
    BY Modulo
  <2>2. gcd[b][0] = gcd[0 % b][b] /\ gcd[0][b] = b
    BY <1>7, <2>1
  <2> QED
    BY <2>1, <2>2
<1> QED
  BY <1>11, <1>12, <1>13 DEF Good

LEMMA QuotientInt ==
    ASSUME NEW q \in Int, NEW m \in Nat \ {0}
    PROVE  (q * m) \div m = q
OBVIOUS

\* Products of three, in the order in which they are compared.
LEMMA Regroup ==
    ASSUME NEW a \in Int, NEW b \in Int, NEW c \in Int
    PROVE  (a * b) * c = (a * c) * b
OBVIOUS

LEMMA CancelFactor ==
    ASSUME NEW a \in Int, NEW b \in Int, NEW c \in Int, c # 0, a * c = b * c
    PROVE  a = b
OBVIOUS

LEMMA Factors ==
    ASSUME NEW a \in Nat \ {0}, NEW b \in Nat \ {0}
    PROVE  a * b \in Nat \ {0}
OBVIOUS

Multiple(a, m) == \E k \in Int : a = k * m

Divisible(a, m) == a % m = 0

LEMMA DivisibleMultiple ==
    ASSUME NEW a \in Int, NEW m \in Nat \ {0}
    PROVE  Divisible(a, m) <=> Multiple(a, m)
<1> DEFINE q == a \div m
           r == a % m
<1>1. q \in Int
  OBVIOUS
<1>2. r \in Int
  OBVIOUS
<1>3. r = a - m * q
  OBVIOUS
<1>4. ASSUME NEW k \in Int, a = k * m PROVE q = k
  BY <1>4, QuotientInt
<1>5. Divisible(a, m) <=> r = 0
  BY DEF Divisible
<1> HIDE DEF q, r
<1>6. m * q = q * m /\ q * m \in Int
  BY <1>1
<1>7. r = 0 => Multiple(a, m)
  <2>1. r = 0 => a = q * m
    BY <1>2, <1>3, <1>6
  <2> QED
    BY <1>1, <2>1 DEF Multiple
<1>8. ASSUME Multiple(a, m) PROVE r = 0
  <2>1. PICK k \in Int : a = k * m
    BY <1>8 DEF Multiple
  <2>2. a = q * m
    BY <1>4, <2>1
  <2> QED
    BY <1>3, <1>6, <2>2
<1> QED
  BY <1>5, <1>7, <1>8 DEF Multiple

\* The absolute value of a sum, of a natural number and of what lies between.
LEMMA Absolute ==
    ASSUME NEW a \in Int, NEW b \in Int
    PROVE  /\ Abs(a) \in Nat
           /\ Abs(a + b) <= Abs(a) + Abs(b) /\ Abs(a - b) <= Abs(a) + Abs(b)
           /\ a \in Nat => Abs(a) = a
           /\ a <= b /\ -a <= b => Abs(a) <= b
BY DEF Abs

LEMMA AbsoluteProduct ==
    ASSUME NEW a \in Int, NEW b \in Int
    PROVE  Abs(a * b) = Abs(a) * Abs(b)
<1>1. CASE a >= 0 /\ b >= 0
  <2>1. a * b >= 0
    BY <1>1
  <2> QED
    BY <1>1, <2>1 DEF Abs
<1>2. CASE a < 0 /\ b >= 0
  <2>1. a * b <= 0 /\ -(a * b) = (-a) * b
    BY <1>2
  <2> QED
    BY <1>2, <2>1 DEF Abs
<1>3. CASE a >= 0 /\ b < 0
  <2>1. a * b <= 0 /\ -(a * b) = a * (-b)
    BY <1>3
  <2> QED
    BY <1>3, <2>1 DEF Abs
<1>4. CASE a < 0 /\ b < 0
  <2>1. a * b >= 0 /\ a * b = (-a) * (-b)
    BY <1>4
  <2> QED
    BY <1>4, <2>1 DEF Abs
<1> QED
  BY <1>1, <1>2, <1>3, <1>4

LEMMA AbsoluteMultiple ==
    ASSUME NEW a \in Int, NEW c \in Nat
    PROVE  Abs(a * c) = Abs(a) * c
<1>1. c \in Int /\ Abs(c) = c
  BY Absolute
<1> QED
  BY <1>1, AbsoluteProduct

\* Common factors of the two sides of a comparison.
LEMMA CancelOrder ==
    ASSUME NEW a \in Int, NEW b \in Int, NEW c \in Nat \ {0}, a * c <= b * c
    PROVE  a <= b
<1>1. b + 1 <= a => (b + 1) * c <= a * c
  OBVIOUS
<1>2. (b + 1) * c = b * c + c
  OBVIOUS
<1> QED
  BY <1>1, <1>2

\* Products and powers of numbers that are not smaller.
LEMMA NotLess ==
    ASSUME NEW a \in Nat, NEW b \in Nat, NEW c \in Nat, NEW d \in Nat, a <= b, c <= d
    PROVE  a * c <= b * d
<1>1. a * c <= b * c
  BY ProductMonotone
<1>2. c * b <= d * b
  BY ProductMonotone
<1>3. b * c = c * b /\ b * d = d * b /\ a * c \in Nat /\ b * c \in Nat /\ b * d \in Nat
  OBVIOUS
<1> QED
  BY <1>1, <1>2, <1>3

LEMMA PowersBounded ==
    ASSUME NEW y \in Nat, NEW D \in Nat, y <= D
    PROVE  y * y <= D * D /\ y * y * y <= D * D * D /\ y * y * y * y <= D * D * D * D
<1>1. y * y \in Nat /\ D * D \in Nat /\ y * y <= D * D
  BY NotLess
<1>2. y * y * y \in Nat /\ D * D * D \in Nat /\ y * y * y <= D * D * D
  BY <1>1, NotLess
<1>3. y * y * y * y <= D * D * D * D
  BY <1>2, NotLess
<1> QED
  BY <1>1, <1>2, <1>3

\* A number with the smaller square is the smaller one.
LEMMA SquareOrder ==
    ASSUME NEW a \in Nat, NEW b \in Nat, a * a <= b * b
    PROVE  a <= b
<1>1. b < a => b * b < a * a
  <2> SUFFICES ASSUME b < a PROVE b * b < a * a
    OBVIOUS
  <2>1. (b + 1) * (b + 1) <= a * a
    BY NotLess
  <2>2. (b + 1) * (b + 1) = b * b + 2 * b + 1
    OBVIOUS
  <2> QED
    BY <2>1, <2>2
<1>2. a * a \in Nat /\ b * b \in Nat
  OBVIOUS
<1> QED
  BY <1>1, <1>2

----------------------------------------------------------------------------
(* Central moments as polynomials of sums of powers                        *)

Second(n, p1, p2) == n * p2 - p1 * p1

Third(n, p1, p2, p3) == n * n * p3 - 3 * n * p1 * p2 + 2 * p1 * p1 * p1

Fourth(n, p1, p2, p3, p4) ==
    n * n * n * p4 - 4 * n * n * p1 * p3 + 6 * n * p1 * p1 * p2 - 3 * p1 * p1 * p1 * p1

LEMMA MomentTypes ==
    ASSUME NEW n \in Int, NEW p1 \in Int, NEW p2 \in Int, NEW p3 \in Int, NEW p4 \in Int
    PROVE  /\ Second(n, p1, p2) \in Int /\ Third(n, p1, p2, p3) \in Int
           /\ Fourth(n, p1, p2, p3, p4) \in Int
BY DEF Second, Third, Fourth

\* What operator+ makes of n numbers and m numbers.
LEMMA MergePolynomials ==
    ASSUME NEW n \in Int, NEW p1 \in Int, NEW p2 \in Int, NEW p3 \in Int, NEW p4 \in Int,
           NEW m \in Int, NEW r1 \in Int, NEW r2 \in Int, NEW r3 \in Int, NEW r4 \in Int,
           NEW N \in Int, N = n + m, NEW D \in Int, D = n * r1 - m * p1,
           NEW A2 \in Int, A2 = Second(n, p1, p2), NEW A3 \in Int, A3 = Third(n, p1, p2, p3),
           NEW B2 \in Int, B2 = Second(m, r1, r2), NEW B3 \in Int, B3 = Third(m, r1, r2, r3)
    PROVE  /\ N * (A2 * m + B2 * n) + D * D = n * m * Second(N, p1 + r1, p2 + r2)
           /\ N * N * (A3 * m * m + B3 * n * n) + D * D * D * (n - m)
                + 3 * N * D * (n * n * B2 - m * m * A2)
                = n * n * m * m * Third(N, p1 + r1, p2 + r2, p3 + r3)
           /\ N * N * N * (Fourth(n, p1, p2, p3, p4) * m * m * m + Fourth(m, r1, r2, r3, r4) * n * n * n)
                + D * D * D * D * (n * n - n * m + m * m)
                + 6 * N * D * D * (n * n * n * B2 + m * m * m * A2)
                + 4 * N * N * D * (n * n * n * B3 - m * m * m * A3)
                = n * n * n * m * m * m * Fourth(N, p1 + r1, p2 + r2, p3 + r3, p4 + r4)
BY DEF Second, Third, Fourth

----------------------------------------------------------------------------
(* Sums of powers                                                          *)

\* Sums of the powers 0 to 4 of some integers.
Sums == {s \in [0..4 -> Int] : s[0] \in Nat /\ (s[0] = 0 => \A k \in 0..4 : s[k] = 0)}

Added(s, t) == [k \in 0..4 |-> s[k] + t[k]]

Powers(x) == [k \in 0..4 |-> Power(x, k)]

LEMMA SumsFacts ==
    ASSUME NEW s \in Sums
    PROVE  /\ s[0] \in Nat /\ s[1] \in Int /\ s[2] \in Int /\ s[3] \in Int /\ s[4] \in Int
           /\ s[0] = 0 => s[1] = 0 /\ s[2] = 0 /\ s[3] = 0 /\ s[4] = 0
BY DEF Sums

LEMMA PowersFacts ==
    ASSUME NEW x \in Int
    PROVE  /\ Powers(x) \in Sums
           /\ Powers(x)[0] = 1 /\ Powers(x)[1] = x /\ Powers(x)[2] = x * x
           /\ Powers(x)[3] = x * x * x /\ Powers(x)[4] = x * x * x * x
<1>1. /\ Power(x, 0) = 1 /\ Power(x, 1) = x /\ Power(x, 2) = x * x /\ Power(x, 3) = x * x * x
      /\ Power(x, 4) = x * x * x * x
  BY DEF Power
<1>2. 0..4 = {0, 1, 2, 3, 4}
  OBVIOUS
<1>3. x * x \in Int /\ x * x * x \in Int /\ x * x * x * x \in Int
  OBVIOUS
<1>4. \A k \in 0..4 : Power(x, k) \in Int
  BY <1>1, <1>2, <1>3
<1>5. Powers(x) \in [0..4 -> Int] /\ Powers(x)[0] = 1
  BY <1>1, <1>4 DEF Powers
<1> QED
  BY <1>1, <1>5 DEF Powers, Sums

LEMMA AddedFacts ==
    ASSUME NEW s \in Sums, NEW t \in Sums
    PROVE  Added(s, t) \in Sums /\ \A k \in 0..4 : Added(s, t)[k] = s[k] + t[k]
<1>1. \A k \in 0..4 : s[k] \in Int /\ t[k] \in Int
  BY DEF Sums
<1>2. Added(s, t) \in [0..4 -> Int] /\ \A k \in 0..4 : Added(s, t)[k] = s[k] + t[k]
  BY <1>1 DEF Added
<1>3. s[0] \in Nat /\ t[0] \in Nat /\ Added(s, t)[0] = s[0] + t[0]
  BY <1>2 DEF Sums
<1>4. ASSUME Added(s, t)[0] = 0 PROVE \A k \in 0..4 : Added(s, t)[k] = 0
  <2>1. s[0] = 0 /\ t[0] = 0
    BY <1>3, <1>4
  <2>2. \A k \in 0..4 : s[k] = 0 /\ t[k] = 0
    BY <2>1 DEF Sums
  <2> QED
    BY <1>2, <2>2
<1> QED
  BY <1>2, <1>3, <1>4 DEF Sums

LEMMA CountAdded ==
    ASSUME NEW s \in Sums, NEW X \in Int
    PROVE  Added(s, Powers(X))[0] = s[0] + 1
<1>1. Powers(X) \in Sums /\ Powers(X)[0] = 1
  BY PowersFacts
<1>2. Added(s, Powers(X))[0] = s[0] + Powers(X)[0]
  BY <1>1, AddedFacts
<1> QED
  BY <1>1, <1>2

NoSums == [k \in 0..4 |-> 0]

LEMMA Addition ==
    /\ NoSums \in Sums
    /\ \A s \in Sums : Added(s, NoSums) = s /\ Added(NoSums, s) = s
    /\ \A s, t \in Sums : Added(s, t) \in Sums
    /\ \A s, t, u \in Sums : Added(Added(s, t), u) = Added(Added(s, u), t)
<1>1. NoSums \in Sums
  BY DEF NoSums, Sums
<1>2. ASSUME NEW s \in Sums PROVE Added(s, NoSums) = s /\ Added(NoSums, s) = s
  <2>1. s \in [0..4 -> Int]
    BY DEF Sums
  <2>2. \A k \in 0..4 : s[k] + NoSums[k] = s[k] /\ NoSums[k] + s[k] = s[k]
    BY <2>1 DEF NoSums
  <2>3. s = [k \in 0..4 |-> s[k]]
    BY <2>1
  <2> QED
    BY <2>2, <2>3 DEF Added
<1>3. ASSUME NEW s \in Sums, NEW t \in Sums PROVE Added(s, t) \in Sums
  BY AddedFacts
<1>4. ASSUME NEW s \in Sums, NEW t \in Sums, NEW u \in Sums
      PROVE  Added(Added(s, t), u) = Added(Added(s, u), t)
  <2>1. \A k \in 0..4 : s[k] \in Int /\ t[k] \in Int /\ u[k] \in Int
    BY DEF Sums
  <2>2. \A k \in 0..4 : (s[k] + t[k]) + u[k] = (s[k] + u[k]) + t[k]
    BY <2>1
  <2>3. /\ \A k \in 0..4 : Added(s, t)[k] = s[k] + t[k]
        /\ \A k \in 0..4 : Added(s, u)[k] = s[k] + u[k]
    BY AddedFacts
  <2> QED
    BY <2>2, <2>3 DEF Added
<1> QED
  BY <1>1, <1>2, <1>3, <1>4

----------------------------------------------------------------------------
(* Running totals                                                          *)

\* The running totals of f.
Totals(f, n) ==
    LET total[i \in 0..n] == IF i = 0 THEN 0 ELSE total[i - 1] + f[i]
    IN  total

LEMMA TotalsFacts ==
    ASSUME NEW n \in Nat, NEW f \in [1..n -> Int]
    PROVE  /\ Totals(f, n) \in [0..n -> Int]
           /\ Totals(f, n)[0] = 0
           /\ \A i \in 1..n : Totals(f, n)[i] = Totals(f, n)[i - 1] + f[i]
           /\ Total(f, n) = Totals(f, n)[n]
<1> DEFINE step == [i \in 1..n |-> [x \in Int |-> x + f[i]]]
           Body(h) == [i \in 0..n |-> IF i = 0 THEN 0 ELSE h[i - 1] + f[i]]
           total == CHOOSE h : h = Body(h)
<1>1. step \in [1..n -> [Int -> Int]]
  OBVIOUS
<1>2. \A i \in 1..n, x \in Int : step[i][x] = x + f[i]
  OBVIOUS
<1> HIDE DEF step
<1>3. 0 \in Int
  OBVIOUS
<1>4. PICK g : Solution(g, Int, 0, n, step)
  BY <1>1, <1>3, Recursion
<1>5. g \in [0..n -> Int] /\ g[0] = 0 /\ \A i \in 1..n : g[i] = step[i][g[i - 1]]
  BY <1>4 DEF Solution
<1>6. ASSUME NEW i \in 1..n PROVE g[i] = g[i - 1] + f[i]
  <2>1. g[i - 1] \in Int
    BY <1>5
  <2> QED
    BY <1>2, <1>5, <2>1
<1>7. g = Body(g)
  <2>1. \A i \in 0..n : i # 0 => i \in 1..n
    OBVIOUS
  <2>2. \A i \in 0..n : g[i] = IF i = 0 THEN 0 ELSE g[i - 1] + f[i]
    BY <1>5, <1>6, <2>1
  <2>3. g = [i \in 0..n |-> g[i]]
    BY <1>5
  <2> QED
    BY <2>2, <2>3
<1>8. total = Body(total)
  <2> HIDE DEF Body
  <2> QED
    BY <1>7
<1>9. Totals(f, n) = total /\ Total(f, n) = total[n]
  BY DEF Totals, Total
<1> HIDE DEF total
<1>10. total[0] = 0
  <2>1. 0 \in 0..n
    OBVIOUS
  <2> QED
    BY <1>8, <2>1
<1>11. \A i \in 1..n : total[i] = total[i - 1] + f[i]
  <2>1. \A i \in 1..n : i \in 0..n /\ i # 0
    OBVIOUS
  <2> QED
    BY <1>8, <2>1
<1>12. total \in [0..n -> Int]
  <2> DEFINE G == {i \in 0..n : total[i] \in Int}
  <2>1. 0 \in G
    BY <1>10
  <2>2. ASSUME NEW i \in 1..n, i - 1 \in G PROVE i \in G
    BY <2>2, <1>11
  <2> HIDE DEF G
  <2>3. 0..n \subseteq G
    BY <2>1, <2>2, Induction
  <2>4. \A i \in 0..n : total[i] \in Int
    BY <2>3 DEF G
  <2>5. total = [i \in 0..n |-> total[i]]
    BY <1>8
  <2> HIDE DEF Body
  <2> QED
    BY <2>4, <2>5
<1> QED
  BY <1>9, <1>10, <1>11, <1>12

\* There is but one total.
LEMMA TotalIs ==
    ASSUME NEW n \in Nat, NEW f \in [1..n -> Int], NEW w,
           w[0] = 0, \A i \in 1..n : w[i] = w[i - 1] + f[i]
    PROVE  Total(f, n) = w[n]
<1> DEFINE t == Totals(f, n)
           G == {i \in 0..n : t[i] = w[i]}
<1>1. t[0] = 0 /\ (\A i \in 1..n : t[i] = t[i - 1] + f[i]) /\ Total(f, n) = t[n]
  BY TotalsFacts
<1> HIDE DEF t
<1>2. 0 \in G
  BY <1>1
<1>3. ASSUME NEW i \in 1..n, i - 1 \in G PROVE i \in G
  BY <1>1, <1>3
<1> HIDE DEF G
<1>4. 0..n \subseteq G
  BY <1>2, <1>3, Induction
<1> QED
  BY <1>1, <1>4 DEF G

\* The sums of the first i of g.
PartialSums(g, n) ==
    [i \in 0..n |-> [k \in 0..4 |-> Totals([j \in 1..n |-> g[j][k]], n)[i]]]

TotalSums(g, n) == [k \in 0..4 |-> Total([i \in 1..n |-> g[i][k]], n)]

LEMMA PartialSumsFacts ==
    ASSUME NEW n \in Nat, NEW g \in [1..n -> Sums]
    PROVE  /\ PartialSums(g, n) \in [0..n -> Sums]
           /\ PartialSums(g, n)[0] = NoSums
           /\ \A i \in 1..n : PartialSums(g, n)[i] = Added(PartialSums(g, n)[i - 1], g[i])
           /\ TotalSums(g, n) = PartialSums(g, n)[n]
<1> DEFINE F(k) == [j \in 1..n |-> g[j][k]]
           t == PartialSums(g, n)
<1>0. \A i \in 1..n : g[i] \in Sums
  OBVIOUS
<1>1. \A k \in 0..4 : F(k) \in [1..n -> Int] /\ \A j \in 1..n : F(k)[j] = g[j][k]
  BY <1>0 DEF Sums
<1>2. t = [i \in 0..n |-> [k \in 0..4 |-> Totals(F(k), n)[i]]]
  BY DEF PartialSums
<1>3. TotalSums(g, n) = [k \in 0..4 |-> Total(F(k), n)]
  BY DEF TotalSums
<1> HIDE DEF F, t
<1>4. ASSUME NEW k \in 0..4
      PROVE  /\ Totals(F(k), n)[0] = 0
             /\ \A i \in 1..n : Totals(F(k), n)[i] = Totals(F(k), n)[i - 1] + F(k)[i]
             /\ Total(F(k), n) = Totals(F(k), n)[n]
  BY <1>1, TotalsFacts
<1>5. \A i \in 0..n, k \in 0..4 : t[i][k] = Totals(F(k), n)[i]
  BY <1>2
<1>6. \A i \in 0..n : t[i] = [k \in 0..4 |-> t[i][k]]
  BY <1>2
<1>7. t[0] = NoSums
  <2>1. 0 \in 0..n /\ \A k \in 0..4 : t[0][k] = 0
    BY <1>4, <1>5
  <2> QED
    BY <1>6, <2>1 DEF NoSums
<1>8. ASSUME NEW i \in 1..n PROVE t[i] = Added(t[i - 1], g[i])
  <2>1. i \in 0..n /\ i - 1 \in 0..n
    OBVIOUS
  <2>2. \A k \in 0..4 : t[i][k] = t[i - 1][k] + g[i][k]
    BY <1>1, <1>4, <1>5, <2>1
  <2> QED
    BY <1>6, <2>1, <2>2 DEF Added
<1>9. TotalSums(g, n) = t[n]
  <2>1. n \in 0..n
    OBVIOUS
  <2>2. \A k \in 0..4 : t[n][k] = Total(F(k), n)
    BY <1>4, <1>5, <2>1
  <2> QED
    BY <1>3, <1>6, <2>1, <2>2
<1>10. t \in [0..n -> Sums]
  <2> DEFINE G == {i \in 0..n : t[i] \in Sums}
  <2>1. 0 \in G
    BY <1>7, Addition
  <2>2. ASSUME NEW i \in 1..n, i - 1 \in G PROVE i \in G
    BY <1>0, <1>8, <2>2, Addition
  <2> HIDE DEF G
  <2>3. 0..n \subseteq G
    BY <2>1, <2>2, Induction
  <2>4. \A i \in 0..n : t[i] \in Sums
    BY <2>3 DEF G
  <2>5. t = [i \in 0..n |-> t[i]]
    BY <1>2
  <2> QED
    BY <2>4, <2>5
<1> QED
  BY <1>7, <1>8, <1>9, <1>10 DEF t

LEMMA TotalSumsIs ==
    ASSUME NEW n \in Nat, NEW g \in [1..n -> Sums], NEW w,
           w[0] = NoSums, \A i \in 1..n : w[i] = Added(w[i - 1], g[i])
    PROVE  TotalSums(g, n) = w[n]
<1> DEFINE t == PartialSums(g, n)
           G == {i \in 0..n : t[i] = w[i]}
<1>1. /\ t[0] = NoSums /\ (\A i \in 1..n : t[i] = Added(t[i - 1], g[i]))
      /\ TotalSums(g, n) = t[n]
  BY PartialSumsFacts
<1> HIDE DEF t
<1>2. 0 \in G
  BY <1>1
<1>3. ASSUME NEW i \in 1..n, i - 1 \in G PROVE i \in G
  BY <1>1, <1>3
<1> HIDE DEF G
<1>4. 0..n \subseteq G
  BY <1>2, <1>3, Induction
<1> QED
  BY <1>1, <1>4 DEF G

LEMMA TotalSumsType ==
    ASSUME NEW n \in Nat, NEW g \in [1..n -> Sums]
    PROVE  TotalSums(g, n) \in Sums
<1>1. n \in 0..n
  OBVIOUS
<1> QED
  BY <1>1, PartialSumsFacts

LEMMA TotalSumsAppend ==
    ASSUME NEW n \in Nat, NEW g \in [1..(n + 1) -> Sums], NEW h \in [1..n -> Sums],
           \A i \in 1..n : h[i] = g[i]
    PROVE  TotalSums(g, n + 1) = Added(TotalSums(h, n), g[n + 1])
<1> DEFINE t == PartialSums(g, n + 1)
<1>1. /\ t[0] = NoSums /\ \A i \in 1..(n + 1) : t[i] = Added(t[i - 1], g[i])
      /\ TotalSums(g, n + 1) = t[n + 1]
  <2>1. n + 1 \in Nat
    OBVIOUS
  <2> QED
    BY <2>1, PartialSumsFacts
<1> HIDE DEF t
<1>2. \A i \in 1..n : t[i] = Added(t[i - 1], h[i])
  <2>1. \A i \in 1..n : i \in 1..(n + 1)
    OBVIOUS
  <2> QED
    BY <1>1, <2>1
<1>3. TotalSums(h, n) = t[n]
  BY <1>1, <1>2, TotalSumsIs
<1>4. n + 1 \in 1..(n + 1) /\ (n + 1) - 1 = n
  OBVIOUS
<1> QED
  BY <1>1, <1>3, <1>4

LEMMA TotalSumsInsert ==
    ASSUME NEW n \in Nat, NEW g \in [1..n -> Sums], NEW h \in [1..n -> Sums],
           NEW j \in 1..n, h[j] = NoSums, \A i \in 1..n : i # j => h[i] = g[i]
    PROVE  TotalSums(g, n) = Added(TotalSums(h, n), g[j])
<1> DEFINE t == PartialSums(h, n)
           w == [i \in 0..n |-> IF i < j THEN t[i] ELSE Added(t[i], g[j])]
<1>0. (\A i \in 1..n : g[i] \in Sums /\ h[i] \in Sums) /\ g[j] \in Sums
  OBVIOUS
<1>1. /\ t \in [0..n -> Sums]
      /\ t[0] = NoSums /\ \A i \in 1..n : t[i] = Added(t[i - 1], h[i])
      /\ TotalSums(h, n) = t[n]
  BY PartialSumsFacts
<1> HIDE DEF t
<1>2. \A i \in 0..n : w[i] = IF i < j THEN t[i] ELSE Added(t[i], g[j])
  OBVIOUS
<1> HIDE DEF w
<1>3. w[0] = NoSums
  <2>1. 0 \in 0..n /\ 0 < j
    OBVIOUS
  <2> QED
    BY <1>1, <1>2, <2>1
<1>4. ASSUME NEW i \in 1..n PROVE w[i] = Added(w[i - 1], g[i])
  <2>1. i \in 0..n /\ i - 1 \in 0..n /\ t[i] \in Sums /\ t[i - 1] \in Sums
    BY <1>1
  <2>2. CASE i < j
    <3>1. i - 1 < j /\ h[i] = g[i]
      BY <2>2
    <3> QED
      BY <1>1, <1>2, <2>1, <2>2, <3>1
  <2>3. CASE i = j
    <3>1. w[i] = Added(t[i], g[j]) /\ w[i - 1] = t[i - 1]
      BY <1>2, <2>1, <2>3
    <3>2. t[i] = t[i - 1]
      BY <1>1, <2>1, <2>3, Addition
    <3> QED
      BY <2>3, <3>1, <3>2
  <2>4. CASE i > j
    <3>1. h[i] = g[i] /\ ~(i < j) /\ ~(i - 1 < j)
      BY <2>4
    <3>2. w[i] = Added(Added(t[i - 1], g[i]), g[j]) /\ w[i - 1] = Added(t[i - 1], g[j])
      BY <1>1, <1>2, <2>1, <3>1
    <3>3. g[i] \in Sums
      BY <1>0
    <3>4. \A s, u, v \in Sums : Added(Added(s, u), v) = Added(Added(s, v), u)
      BY Addition
    <3>5. Added(Added(t[i - 1], g[i]), g[j]) = Added(Added(t[i - 1], g[j]), g[i])
      BY <1>0, <2>1, <3>3, <3>4
    <3> QED
      BY <3>2, <3>5
  <2>5. i < j \/ i = j \/ i > j
    OBVIOUS
  <2> QED
    BY <2>2, <2>3, <2>4, <2>5
<1>5. TotalSums(g, n) = w[n]
  BY <1>3, <1>4, TotalSumsIs
<1>6. n \in 0..n /\ ~(n < j)
  OBVIOUS
<1> QED
  BY <1>1, <1>2, <1>5, <1>6

\* The sums of those of g that are in I.
Gather(g, I, n) == TotalSums([i \in 1..n |-> IF i \in I THEN g[i] ELSE NoSums], n)

LEMMA GatherFacts ==
    ASSUME NEW n \in Nat, NEW g \in [1..n -> Sums]
    PROVE  /\ \A I : Gather(g, I, n) \in Sums
           /\ Gather(g, {}, n) = NoSums
           /\ \A I : \A i \in 1..n :
                i \notin I => Gather(g, I \cup {i}, n) = Added(Gather(g, I, n), g[i])
<1> DEFINE H(I) == [i \in 1..n |-> IF i \in I THEN g[i] ELSE NoSums]
<1>1. \A I : H(I) \in [1..n -> Sums]
  BY Addition
<1>2. \A I : Gather(g, I, n) = TotalSums(H(I), n)
  BY DEF Gather
<1>3. \A I : \A i \in 1..n : H(I)[i] = IF i \in I THEN g[i] ELSE NoSums
  OBVIOUS
<1> HIDE DEF H
<1>4. ASSUME NEW I PROVE Gather(g, I, n) \in Sums
  BY <1>1, <1>2, TotalSumsType
<1>5. Gather(g, {}, n) = NoSums
  <2> DEFINE w == [i \in 0..n |-> NoSums]
  <2>1. w[0] = NoSums /\ w[n] = NoSums /\ \A i \in 1..n : w[i] = NoSums /\ w[i - 1] = NoSums
    OBVIOUS
  <2> HIDE DEF w
  <2>2. \A i \in 1..n : w[i] = Added(w[i - 1], H({})[i])
    BY <1>3, <2>1, Addition
  <2>3. H({}) \in [1..n -> Sums]
    BY <1>1
  <2>4. TotalSums(H({}), n) = w[n]
    BY <2>1, <2>2, <2>3, TotalSumsIs
  <2> QED
    BY <1>2, <2>1, <2>4
<1>6. ASSUME NEW I, NEW i \in 1..n, i \notin I
      PROVE  Gather(g, I \cup {i}, n) = Added(Gather(g, I, n), g[i])
  <2> DEFINE J == I \cup {i}
  <2>1. /\ H(I)[i] = NoSums /\ H(J)[i] = g[i]
        /\ \A k \in 1..n : k # i => H(I)[k] = H(J)[k]
    BY <1>3, <1>6
  <2>2. H(I) \in [1..n -> Sums] /\ H(J) \in [1..n -> Sums]
    BY <1>1
  <2>3. TotalSums(H(J), n) = Added(TotalSums(H(I), n), H(J)[i])
    BY <2>1, <2>2, TotalSumsInsert
  <2> QED
    BY <1>2, <2>1, <2>3
<1> QED
  BY <1>4, <1>5, <1>6

LEMMA GatherOne ==
    ASSUME NEW n \in Nat, NEW g \in [1..n -> Sums], NEW j \in 1..n
    PROVE  Gather(g, {j}, n) = g[j]
<1>1. Gather(g, {} \cup {j}, n) = Added(Gather(g, {}, n), g[j]) /\ Gather(g, {}, n) = NoSums
  BY GatherFacts
<1>2. {} \cup {j} = {j} /\ g[j] \in Sums
  OBVIOUS
<1>3. Added(NoSums, g[j]) = g[j]
  BY <1>2, Addition
<1> QED
  BY <1>1, <1>2, <1>3

----------------------------------------------------------------------------
(* Sums of polynomials                                                     *)

Weighted(c, s) == c[0] * s[0] + c[1] * s[1] + c[2] * s[2] + c[3] * s[3] + c[4] * s[4]

LEMMA WeightedFacts ==
    ASSUME NEW c \in [0..4 -> Int]
    PROVE  /\ \A s \in Sums : Weighted(c, s) \in Int
           /\ Weighted(c, NoSums) = 0
           /\ \A s, t \in Sums : Weighted(c, Added(s, t)) = Weighted(c, s) + Weighted(c, t)
<1>0. c[0] \in Int /\ c[1] \in Int /\ c[2] \in Int /\ c[3] \in Int /\ c[4] \in Int
  OBVIOUS
<1>1. ASSUME NEW s \in Sums PROVE Weighted(c, s) \in Int
  <2>1. s[0] \in Int /\ s[1] \in Int /\ s[2] \in Int /\ s[3] \in Int /\ s[4] \in Int
    BY SumsFacts
  <2> QED
    BY <1>0, <2>1 DEF Weighted
<1>2. Weighted(c, NoSums) = 0
  <2>1. NoSums[0] = 0 /\ NoSums[1] = 0 /\ NoSums[2] = 0 /\ NoSums[3] = 0 /\ NoSums[4] = 0
    BY DEF NoSums
  <2> QED
    BY <1>0, <2>1 DEF Weighted
<1>3. ASSUME NEW s \in Sums, NEW t \in Sums
      PROVE  Weighted(c, Added(s, t)) = Weighted(c, s) + Weighted(c, t)
  <2>1. /\ s[0] \in Int /\ s[1] \in Int /\ s[2] \in Int /\ s[3] \in Int /\ s[4] \in Int
        /\ t[0] \in Int /\ t[1] \in Int /\ t[2] \in Int /\ t[3] \in Int /\ t[4] \in Int
    BY SumsFacts
  <2>2. \A k \in 0..4 : Added(s, t)[k] = s[k] + t[k]
    BY AddedFacts
  <2>3. /\ Added(s, t)[0] = s[0] + t[0] /\ Added(s, t)[1] = s[1] + t[1] /\ Added(s, t)[2] = s[2] + t[2]
        /\ Added(s, t)[3] = s[3] + t[3] /\ Added(s, t)[4] = s[4] + t[4]
    BY <2>2
  <2>4. ASSUME NEW a \in Int, NEW x \in Int, NEW y \in Int PROVE a * (x + y) = a * x + a * y /\ a * x \in Int
    OBVIOUS
  <2>5. /\ c[0] * (s[0] + t[0]) = c[0] * s[0] + c[0] * t[0]
        /\ c[1] * (s[1] + t[1]) = c[1] * s[1] + c[1] * t[1]
        /\ c[2] * (s[2] + t[2]) = c[2] * s[2] + c[2] * t[2]
        /\ c[3] * (s[3] + t[3]) = c[3] * s[3] + c[3] * t[3]
        /\ c[4] * (s[4] + t[4]) = c[4] * s[4] + c[4] * t[4]
    BY <1>0, <2>1, <2>4
  <2> QED
    BY <1>0, <2>1, <2>3, <2>5 DEF Weighted
<1> QED
  BY <1>1, <1>2, <1>3

LEMMA TotalWeighted ==
    ASSUME NEW n \in Nat, NEW g \in [1..n -> Sums], NEW c \in [0..4 -> Int]
    PROVE  Total([i \in 1..n |-> Weighted(c, g[i])], n) = Weighted(c, TotalSums(g, n))
<1> DEFINE t == PartialSums(g, n)
           f == [i \in 1..n |-> Weighted(c, g[i])]
           w == [i \in 0..n |-> Weighted(c, t[i])]
<1>1. /\ t \in [0..n -> Sums] /\ t[0] = NoSums
      /\ \A i \in 1..n : t[i] = Added(t[i - 1], g[i])
      /\ TotalSums(g, n) = t[n]
  BY PartialSumsFacts
<1> HIDE DEF t
<1>2. f \in [1..n -> Int] /\ \A i \in 1..n : f[i] = Weighted(c, g[i])
  BY WeightedFacts
<1>3. \A i \in 0..n : w[i] = Weighted(c, t[i])
  OBVIOUS
<1> HIDE DEF f, w
<1>4. w[0] = 0
  <2>1. 0 \in 0..n
    OBVIOUS
  <2> QED
    BY <1>1, <1>3, <2>1, WeightedFacts
<1>5. ASSUME NEW i \in 1..n PROVE w[i] = w[i - 1] + f[i]
  <2>1. i \in 0..n /\ i - 1 \in 0..n /\ g[i] \in Sums
    OBVIOUS
  <2>2. t[i - 1] \in Sums
    BY <1>1, <2>1
  <2>3. Weighted(c, t[i]) = Weighted(c, t[i - 1]) + Weighted(c, g[i])
    BY <1>1, <2>1, <2>2, WeightedFacts
  <2> QED
    BY <1>2, <1>3, <2>1, <2>3
<1>6. Total(f, n) = w[n]
  BY <1>2, <1>4, <1>5, TotalIs
<1>7. n \in 0..n
  OBVIOUS
<1> QED
  BY <1>1, <1>3, <1>6, <1>7 DEF f

\* (factor * x - shift)^k is the polynomial of x with the coefficients c.
Expands(factor, shift, k, c) ==
    \A x \in Int : Power(factor * x - shift, k) = Weighted(c, Powers(x))

Weights(a, b, c, d, e) ==
    [k \in 0..4 |-> IF k = 0 THEN a ELSE IF k = 1 THEN b ELSE IF k = 2 THEN c
                    ELSE IF k = 3 THEN d ELSE e]

LEMMA WeightsFacts ==
    ASSUME NEW a \in Int, NEW b \in Int, NEW c \in Int, NEW d \in Int, NEW e \in Int,
           NEW w, w = Weights(a, b, c, d, e), NEW s
    PROVE  w \in [0..4 -> Int] /\ Weighted(w, s) = a * s[0] + b * s[1] + c * s[2] + d * s[3] + e * s[4]
<1>1. w \in [0..4 -> Int] /\ w[0] = a /\ w[1] = b /\ w[2] = c /\ w[3] = d /\ w[4] = e
  BY DEF Weights
<1> QED
  BY <1>1 DEF Weighted

\* w are the coefficients of the k-th power of factor * x - shift.
LEMMA WeightsExpand ==
    ASSUME NEW a \in Int, NEW b \in Int, NEW c \in Int, NEW d \in Int, NEW e \in Int,
           NEW w, w = Weights(a, b, c, d, e), NEW factor, NEW shift, NEW k,
           \A x \in Int : Power(factor * x - shift, k)
                            = a + b * x + c * (x * x) + d * (x * x * x) + e * (x * x * x * x)
    PROVE  w \in [0..4 -> Int] /\ Expands(factor, shift, k, w)
<1>1. w \in [0..4 -> Int] /\ w[0] = a /\ w[1] = b /\ w[2] = c /\ w[3] = d /\ w[4] = e
  BY DEF Weights
<1>2. ASSUME NEW x \in Int PROVE Power(factor * x - shift, k) = Weighted(w, Powers(x))
  <2> DEFINE s == Powers(x)
             X2 == x * x
             X3 == x * x * x
             X4 == x * x * x * x
  <2>1. s[0] = 1 /\ s[1] = x /\ s[2] = X2 /\ s[3] = X3 /\ s[4] = X4
    BY PowersFacts
  <2>2. Power(factor * x - shift, k) = a + b * x + c * X2 + d * X3 + e * X4
    OBVIOUS
  <2> HIDE DEF s, X2, X3, X4
  <2>3. Weighted(w, s) = a * 1 + b * x + c * X2 + d * X3 + e * X4
    BY <1>1, <2>1, Zenon DEF Weighted
  <2>4. a * 1 = a
    OBVIOUS
  <2> QED
    BY <2>2, <2>3, <2>4, Zenon DEF s
<1> QED
  BY <1>1, <1>2 DEF Expands

LEMMA Binomials ==
    ASSUME NEW f \in Int, NEW t \in Int, NEW x \in Int
    PROVE  /\ Power(1 * x - 0, 0) = 1 /\ Power(1 * x - 0, 1) = x
           /\ Power(f * x - t, 2) = t * t + (-2) * f * t * x + f * f * (x * x)
           /\ Power(f * x - t, 3) = -(t * t * t) + 3 * f * t * t * x + (-3) * f * f * t * (x * x)
                                      + f * f * f * (x * x * x)
           /\ Power(f * x - t, 4) = t * t * t * t + (-4) * f * t * t * t * x
                                      + 6 * f * f * t * t * (x * x) + (-4) * f * f * f * t * (x * x * x)
                                      + f * f * f * f * (x * x * x * x)
<1>p. ASSUME NEW y
      PROVE  Power(y, 0) = 1 /\ Power(y, 1) = y /\ Power(y, 2) = y * y /\ Power(y, 3) = y * y * y
             /\ Power(y, 4) = y * y * y * y
  BY DEF Power
<1>1. 1 * x - 0 = x
  OBVIOUS
<1>2. (f * x - t) * (f * x - t) = t * t + (-2) * f * t * x + f * f * (x * x)
  OBVIOUS
<1>3. (f * x - t) * (f * x - t) * (f * x - t)
        = -(t * t * t) + 3 * f * t * t * x + (-3) * f * f * t * (x * x) + f * f * f * (x * x * x)
  OBVIOUS
<1>4. (f * x - t) * (f * x - t) * (f * x - t) * (f * x - t)
        = t * t * t * t + (-4) * f * t * t * t * x + 6 * f * f * t * t * (x * x)
            + (-4) * f * f * f * t * (x * x * x) + f * f * f * f * (x * x * x * x)
  OBVIOUS
<1> DEFINE y == f * x - t
<1>5. y = f * x - t
  OBVIOUS
<1> HIDE DEF y
<1> QED
  BY <1>p, <1>1, <1>2, <1>3, <1>4

----------------------------------------------------------------------------
(* Moments of data that are close to each other                            *)

\* The sums are those of integers in S, each at least once: a polynomial that is
\* not negative on S has no negative sum.
Made(s, S) ==
    /\ s[0] = 0 => S = {}
    /\ s[0] = 1 => \A x, y \in S : x = y
    /\ S \subseteq Int
    /\ \A c \in [0..4 -> Int] : (\A x \in S : Weighted(c, Powers(x)) >= 0) => Weighted(c, s) >= 0

\* No data, one datum, and those of two sets.
LEMMA MadeNone == Made(NoSums, {})
<1>1. \A c \in [0..4 -> Int] : Weighted(c, NoSums) = 0
  BY WeightedFacts
<1> QED
  BY <1>1 DEF Made

LEMMA MadeOne ==
    ASSUME NEW x \in Int
    PROVE  Made(Powers(x), {x})
<1>1. Powers(x)[0] = 1
  BY PowersFacts
<1> QED
  BY <1>1 DEF Made

LEMMA MadeBoth ==
    ASSUME NEW s \in Sums, NEW S, Made(s, S), NEW t \in Sums, NEW T, Made(t, T)
    PROVE  Made(Added(s, t), S \cup T)
<1>1. Added(s, t)[0] = s[0] + t[0] /\ s[0] \in Nat /\ t[0] \in Nat
  BY AddedFacts, SumsFacts
<1>2. /\ Added(s, t)[0] = 0 => S \cup T = {}
      /\ Added(s, t)[0] = 1 => \A x, y \in S \cup T : x = y
  <2>1. \A i, j \in Nat : i + j = 1 => (i = 1 /\ j = 0) \/ (i = 0 /\ j = 1)
    OBVIOUS
  <2> QED
    BY <1>1, <2>1 DEF Made
<1>3. ASSUME NEW c \in [0..4 -> Int], \A x \in S \cup T : Weighted(c, Powers(x)) >= 0
      PROVE  Weighted(c, Added(s, t)) >= 0
  <2>1. Weighted(c, s) >= 0 /\ Weighted(c, t) >= 0
    BY <1>3 DEF Made
  <2>2. /\ Weighted(c, Added(s, t)) = Weighted(c, s) + Weighted(c, t)
        /\ Weighted(c, s) \in Int /\ Weighted(c, t) \in Int
    BY WeightedFacts
  <2> QED
    BY <2>1, <2>2
<1> QED
  BY <1>2, <1>3 DEF Made

\* The sums of the powers of x - A.
Shifted(s, A) ==
    <<s[1] - A * s[0],
      s[2] - 2 * A * s[1] + A * A * s[0],
      s[3] - 3 * A * s[2] + 3 * A * A * s[1] - A * A * A * s[0],
      s[4] - 4 * A * s[3] + 6 * A * A * s[2] - 4 * A * A * A * s[1] + A * A * A * A * s[0]>>

\* S lies between A and A + D.
Within(S, A, D) == \A x \in S : A <= x /\ x <= A + D

\* What the sums of the powers of the distances from A are at most.
LEMMA ShiftedBounds ==
    ASSUME NEW s \in Sums, NEW S, Made(s, S), NEW A \in Int, NEW D \in Nat, Within(S, A, D),
           NEW t, t = Shifted(s, A), NEW n, n = s[0]
    PROVE  /\ n \in Nat
           /\ t[1] \in 0..(n * D) /\ t[2] \in 0..(n * (D * D)) /\ t[3] \in 0..(n * (D * D * D))
           /\ t[4] \in 0..(n * (D * D * D * D))
<1>1. n \in Nat /\ s[1] \in Int /\ s[2] \in Int /\ s[3] \in Int /\ s[4] \in Int
  BY SumsFacts
<1>2. ASSUME NEW w \in [0..4 -> Int], \A y \in 0..D : Weighted(w, Powers(A + y)) >= 0
      PROVE  Weighted(w, s) >= 0
  <2>1. ASSUME NEW x \in S PROVE Weighted(w, Powers(x)) >= 0
    <3>1. x \in Int /\ x - A \in 0..D /\ x = A + (x - A)
      BY DEF Made, Within
    <3>2. Weighted(w, Powers(A + (x - A))) >= 0
      BY <1>2, <3>1
    <3> QED
      BY <3>1, <3>2
  <2> QED
    BY <2>1 DEF Made
<1>p. ASSUME NEW y \in 0..D, NEW u, u = Powers(A + y)
      PROVE  /\ u[0] = 1 /\ u[1] = A + y /\ u[2] = (A + y) * (A + y)
             /\ u[3] = (A + y) * (A + y) * (A + y) /\ u[4] = (A + y) * (A + y) * (A + y) * (A + y)
             /\ y \in Int
  <2> DEFINE x == A + y
  <2>1. x \in Int /\ y \in Int /\ u = Powers(x)
    BY <1>p
  <2> HIDE DEF x
  <2>2. u[0] = 1 /\ u[1] = x /\ u[2] = x * x /\ u[3] = x * x * x /\ u[4] = x * x * x * x
    BY <2>1, PowersFacts
  <2> QED
    BY <2>1, <2>2 DEF x
<1>3. \A y \in 0..D : /\ y \in Nat
                      /\ y * y <= D * D /\ y * y * y <= D * D * D /\ y * y * y * y <= D * D * D * D
                      /\ 0 <= y * y /\ 0 <= y * y * y /\ 0 <= y * y * y * y
  <2> SUFFICES ASSUME NEW y \in 0..D
               PROVE  /\ y \in Nat
                      /\ y * y <= D * D /\ y * y * y <= D * D * D /\ y * y * y * y <= D * D * D * D
                      /\ 0 <= y * y /\ 0 <= y * y * y /\ 0 <= y * y * y * y
    OBVIOUS
  <2>1. y \in Nat /\ y <= D
    OBVIOUS
  <2>2. y * y \in Nat /\ y * y * y \in Nat /\ y * y * y * y \in Nat
    BY <2>1
  <2> QED
    BY <2>1, <2>2, PowersBounded
<1> DEFINE D2 == D * D  D3 == D * D * D  D4 == D * D * D * D
           A2 == A * A  A3 == A * A * A  A4 == A * A * A * A
<1>4. D2 \in Nat /\ D3 \in Nat /\ D4 \in Nat /\ A2 \in Int /\ A3 \in Int /\ A4 \in Int
  OBVIOUS
<1>5. t[1] >= 0
  <2> DEFINE w == Weights(-A, 1, 0, 0, 0)
  <2>1. /\ w \in [0..4 -> Int]
        /\ \A u : Weighted(w, u) = (-A) * u[0] + (1) * u[1] + (0) * u[2] + (0) * u[3]
                                     + (0) * u[4]
    BY <1>4, WeightsFacts
  <2> HIDE DEF w
  <2>2. ASSUME NEW y \in 0..D PROVE Weighted(w, Powers(A + y)) >= 0
    <3>1. Weighted(w, Powers(A + y)) = y
      BY <1>p, <2>1
    <3> QED
      BY <1>3, <3>1
  <2>3. Weighted(w, s) >= 0
    BY <1>2, <2>1, <2>2
  <2> QED
    BY <1>1, <2>1, <2>3 DEF Shifted
<1>6. t[1] <= n * D
  <2> DEFINE w == Weights(A + D, -1, 0, 0, 0)
  <2>1. /\ w \in [0..4 -> Int]
        /\ \A u : Weighted(w, u) = (A + D) * u[0] + (-1) * u[1] + (0) * u[2] + (0) * u[3]
                                     + (0) * u[4]
    BY <1>4, WeightsFacts
  <2> HIDE DEF w
  <2>2. ASSUME NEW y \in 0..D PROVE Weighted(w, Powers(A + y)) >= 0
    <3>1. Weighted(w, Powers(A + y)) = D - y
      BY <1>p, <2>1
    <3> QED
      BY <1>3, <3>1
  <2>3. Weighted(w, s) >= 0
    BY <1>2, <2>1, <2>2
  <2> QED
    BY <1>1, <2>1, <2>3 DEF Shifted
<1>7. t[2] >= 0
  <2> DEFINE w == Weights(A2, -2 * A, 1, 0, 0)
  <2>1. /\ w \in [0..4 -> Int]
        /\ \A u : Weighted(w, u) = (A2) * u[0] + (-2 * A) * u[1] + (1) * u[2] + (0) * u[3]
                                     + (0) * u[4]
    BY <1>4, WeightsFacts
  <2> HIDE DEF w
  <2>2. ASSUME NEW y \in 0..D PROVE Weighted(w, Powers(A + y)) >= 0
    <3>1. Weighted(w, Powers(A + y)) = y * y
      BY <1>p, <2>1
    <3> QED
      BY <1>3, <3>1
  <2>3. Weighted(w, s) >= 0
    BY <1>2, <2>1, <2>2
  <2> QED
    BY <1>1, <2>1, <2>3 DEF Shifted
<1>8. t[2] <= n * D2
  <2> DEFINE w == Weights(D2 - A2, 2 * A, -1, 0, 0)
  <2>1. /\ w \in [0..4 -> Int]
        /\ \A u : Weighted(w, u) = (D2 - A2) * u[0] + (2 * A) * u[1] + (-1) * u[2] + (0) * u[3]
                                     + (0) * u[4]
    BY <1>4, WeightsFacts
  <2> HIDE DEF w
  <2>2. ASSUME NEW y \in 0..D PROVE Weighted(w, Powers(A + y)) >= 0
    <3>1. Weighted(w, Powers(A + y)) = D2 - y * y
      BY <1>p, <2>1
    <3> QED
      BY <1>3, <3>1
  <2>3. Weighted(w, s) >= 0
    BY <1>2, <2>1, <2>2
  <2> QED
    BY <1>1, <2>1, <2>3 DEF Shifted
<1>9. t[3] >= 0
  <2> DEFINE w == Weights(-A3, 3 * A2, -3 * A, 1, 0)
  <2>1. /\ w \in [0..4 -> Int]
        /\ \A u : Weighted(w, u) = (-A3) * u[0] + (3 * A2) * u[1] + (-3 * A) * u[2] + (1) * u[3]
                                     + (0) * u[4]
    BY <1>4, WeightsFacts
  <2> HIDE DEF w
  <2>2. ASSUME NEW y \in 0..D PROVE Weighted(w, Powers(A + y)) >= 0
    <3>1. Weighted(w, Powers(A + y)) = y * y * y
      BY <1>p, <2>1
    <3> QED
      BY <1>3, <3>1
  <2>3. Weighted(w, s) >= 0
    BY <1>2, <2>1, <2>2
  <2> QED
    BY <1>1, <2>1, <2>3 DEF Shifted
<1>10. t[3] <= n * D3
  <2> DEFINE w == Weights(D3 + A3, -3 * A2, 3 * A, -1, 0)
  <2>1. /\ w \in [0..4 -> Int]
        /\ \A u : Weighted(w, u) = (D3 + A3) * u[0] + (-3 * A2) * u[1] + (3 * A) * u[2] + (-1) * u[3]
                                     + (0) * u[4]
    BY <1>4, WeightsFacts
  <2> HIDE DEF w
  <2>2. ASSUME NEW y \in 0..D PROVE Weighted(w, Powers(A + y)) >= 0
    <3>1. Weighted(w, Powers(A + y)) = D3 - y * y * y
      BY <1>p, <2>1
    <3> QED
      BY <1>3, <3>1
  <2>3. Weighted(w, s) >= 0
    BY <1>2, <2>1, <2>2
  <2> QED
    BY <1>1, <2>1, <2>3 DEF Shifted
<1>11. t[4] >= 0
  <2> DEFINE w == Weights(A4, -4 * A3, 6 * A2, -4 * A, 1)
  <2>1. /\ w \in [0..4 -> Int]
        /\ \A u : Weighted(w, u) = (A4) * u[0] + (-4 * A3) * u[1] + (6 * A2) * u[2] + (-4 * A) * u[3]
                                     + (1) * u[4]
    BY <1>4, WeightsFacts
  <2> HIDE DEF w
  <2>2. ASSUME NEW y \in 0..D PROVE Weighted(w, Powers(A + y)) >= 0
    <3>1. Weighted(w, Powers(A + y)) = y * y * y * y
      BY <1>p, <2>1
    <3> QED
      BY <1>3, <3>1
  <2>3. Weighted(w, s) >= 0
    BY <1>2, <2>1, <2>2
  <2> QED
    BY <1>1, <2>1, <2>3 DEF Shifted
<1>12. t[4] <= n * D4
  <2> DEFINE w == Weights(D4 - A4, 4 * A3, -6 * A2, 4 * A, -1)
  <2>1. /\ w \in [0..4 -> Int]
        /\ \A u : Weighted(w, u) = (D4 - A4) * u[0] + (4 * A3) * u[1] + (-6 * A2) * u[2] + (4 * A) * u[3]
                                     + (-1) * u[4]
    BY <1>4, WeightsFacts
  <2> HIDE DEF w
  <2>2. ASSUME NEW y \in 0..D PROVE Weighted(w, Powers(A + y)) >= 0
    <3>1. Weighted(w, Powers(A + y)) = D4 - y * y * y * y
      BY <1>p, <2>1
    <3> QED
      BY <1>3, <3>1
  <2>3. Weighted(w, s) >= 0
    BY <1>2, <2>1, <2>2
  <2> QED
    BY <1>1, <2>1, <2>3 DEF Shifted
<1>13. t[1] \in Int /\ t[2] \in Int /\ t[3] \in Int /\ t[4] \in Int
  BY <1>1 DEF Shifted
<1> QED
  BY <1>1, <1>4, <1>5, <1>6, <1>7, <1>8, <1>9, <1>10, <1>11, <1>12, <1>13

\* The central moments do not change when the data are shifted.
LEMMA ShiftedMoments ==
    ASSUME NEW s \in Sums, NEW A \in Int, NEW t, t = Shifted(s, A), NEW n, n = s[0]
    PROVE  /\ Second(n, s[1], s[2]) = Second(n, t[1], t[2])
           /\ Third(n, s[1], s[2], s[3]) = Third(n, t[1], t[2], t[3])
           /\ Fourth(n, s[1], s[2], s[3], s[4]) = Fourth(n, t[1], t[2], t[3], t[4])
<1> DEFINE p1 == s[1]  p2 == s[2]  p3 == s[3]  p4 == s[4]
<1>1. n \in Int /\ p1 \in Int /\ p2 \in Int /\ p3 \in Int /\ p4 \in Int
  BY SumsFacts
<1>2. /\ t[1] = p1 - A * n
      /\ t[2] = p2 - 2 * A * p1 + A * A * n
      /\ t[3] = p3 - 3 * A * p2 + 3 * A * A * p1 - A * A * A * n
      /\ t[4] = p4 - 4 * A * p3 + 6 * A * A * p2 - 4 * A * A * A * p1 + A * A * A * A * n
  BY DEF Shifted
<1> HIDE DEF p1, p2, p3, p4
<1>3. Second(n, p1, p2) = Second(n, t[1], t[2])
  BY <1>1, <1>2 DEF Second
<1>4. Third(n, p1, p2, p3) = Third(n, t[1], t[2], t[3])
  BY <1>1, <1>2 DEF Third
<1>5. Fourth(n, p1, p2, p3, p4) = Fourth(n, t[1], t[2], t[3], t[4])
  BY <1>1, <1>2 DEF Fourth
<1> QED
  BY <1>3, <1>4, <1>5 DEF p1, p2, p3, p4

\* The bounds of the central moments, as polynomials in those sums.
LEMMA PolynomialBounds ==
    ASSUME NEW n \in Nat, NEW D \in Nat, NEW t1 \in 0..(n * D), NEW t2 \in 0..(n * (D * D)),
           NEW t3 \in 0..(n * (D * D * D)), NEW t4 \in 0..(n * (D * D * D * D))
    PROVE  /\ Abs(Second(n, t1, t2)) <= (n * (D * D)) * n
           /\ Abs(Third(n, t1, t2, t3)) <= (3 * n * (D * D * D)) * (n * n)
           /\ Abs(Fourth(n, t1, t2, t3, t4)) <= (7 * n * (D * D * D * D)) * (n * n * n)
<1> DEFINE q == n * D  q2 == q * q  q3 == q * q * q  q4 == q * q * q * q
<1>1. q \in Nat /\ q2 \in Nat /\ q3 \in Nat /\ q4 \in Nat
  OBVIOUS
<1>2. t1 \in Nat /\ t2 \in Nat /\ t3 \in Nat /\ t4 \in Nat /\ t1 <= q
  <2>1. n * D \in Nat /\ n * (D * D) \in Nat /\ n * (D * D * D) \in Nat /\ n * (D * D * D * D) \in Nat
    OBVIOUS
  <2> QED
    BY <2>1
<1>3. n * t2 <= q2
  <2>1. t2 * n <= (n * (D * D)) * n
    BY <1>2, ProductMonotone
  <2> QED
    BY <1>2, <2>1
<1>4. n * n * t3 <= q3
  <2>1. t3 * (n * n) <= (n * (D * D * D)) * (n * n)
    BY <1>2, ProductMonotone
  <2> QED
    BY <1>2, <2>1
<1>5. n * n * n * t4 <= q4
  <2>1. t4 * (n * n * n) <= (n * (D * D * D * D)) * (n * n * n)
    BY <1>2, ProductMonotone
  <2> QED
    BY <1>2, <2>1
<1>6. /\ (n * (D * D)) * n = q2 /\ (3 * n * (D * D * D)) * (n * n) = 3 * q3
      /\ (7 * n * (D * D * D * D)) * (n * n * n) = 7 * q4
  OBVIOUS
<1> DEFINE a == n * t2  b == n * n * t3  c == n * n * n * t4
<1>7. a \in Nat /\ b \in Nat /\ c \in Nat /\ a <= q2 /\ b <= q3 /\ c <= q4
  BY <1>2, <1>3, <1>4, <1>5
<1>8. /\ Second(n, t1, t2) = a - t1 * t1
      /\ Third(n, t1, t2, t3) = b - 3 * (t1 * a) + 2 * (t1 * t1 * t1)
      /\ Fourth(n, t1, t2, t3, t4) = c - 4 * (t1 * b) + 6 * (t1 * t1 * a) - 3 * (t1 * t1 * t1 * t1)
  BY <1>2 DEF Second, Third, Fourth
<1>q. q2 = q * q /\ q3 = q2 * q /\ q4 = q3 * q /\ q4 = q2 * q2
  BY <1>1
<1> HIDE DEF a, b, c, q, q2, q3, q4
<1>9. t1 * t1 \in Nat /\ t1 * t1 <= q2
  BY <1>1, <1>2, <1>q, NotLess
<1>10. t1 * t1 * t1 \in Nat /\ t1 * t1 * t1 <= q3
  BY <1>1, <1>2, <1>9, <1>q, NotLess
<1>11. t1 * t1 * t1 * t1 \in Nat /\ t1 * t1 * t1 * t1 <= q4
  BY <1>1, <1>2, <1>10, <1>q, NotLess
<1>12. t1 * a \in Nat /\ t1 * a <= q3
  <2>1. a * t1 <= q2 * q
    BY <1>1, <1>2, <1>7, NotLess
  <2> QED
    BY <1>1, <1>2, <1>7, <1>q, <2>1
<1>13. t1 * b \in Nat /\ t1 * b <= q4
  <2>1. b * t1 <= q3 * q
    BY <1>1, <1>2, <1>7, NotLess
  <2> QED
    BY <1>1, <1>2, <1>7, <1>q, <2>1
<1>14. t1 * t1 * a \in Nat /\ t1 * t1 * a <= q4
  <2>1. (t1 * t1) * a <= q2 * q2
    BY <1>1, <1>7, <1>9, NotLess
  <2> QED
    BY <1>1, <1>7, <1>9, <1>q, <2>1
<1> DEFINE e2 == t1 * t1  e3 == t1 * t1 * t1  e4 == t1 * t1 * t1 * t1
           f == t1 * a  g == t1 * b  h == t1 * t1 * a
<1> HIDE DEF e2, e3, e4, f, g, h
<1>15. Abs(a - e2) <= q2
  BY <1>1, <1>7, <1>9 DEF e2, Abs
<1>16. Abs(b - 3 * f + 2 * e3) <= 3 * q3
  BY <1>1, <1>7, <1>10, <1>12 DEF e3, f, Abs
<1>17. Abs(c - 4 * g + 6 * h - 3 * e4) <= 7 * q4
  BY <1>1, <1>7, <1>11, <1>13, <1>14 DEF e4, g, h, Abs
<1> QED
  BY <1>6, <1>8, <1>15, <1>16, <1>17 DEF e2, e3, e4, f, g, h

\* The central moments of n data within a distance of D.
LEMMA MomentBounds ==
    ASSUME NEW s \in Sums, NEW S, Made(s, S), NEW A \in Int, NEW D \in Nat, Within(S, A, D),
           NEW n, n = s[0]
    PROVE  /\ n \in Nat
           /\ Abs(Second(n, s[1], s[2])) <= (n * (D * D)) * n
           /\ Abs(Third(n, s[1], s[2], s[3])) <= (3 * n * (D * D * D)) * (n * n)
           /\ Abs(Fourth(n, s[1], s[2], s[3], s[4])) <= (7 * n * (D * D * D * D)) * (n * n * n)
<1> DEFINE t == Shifted(s, A)
<1>1. /\ n \in Nat
      /\ t[1] \in 0..(n * D) /\ t[2] \in 0..(n * (D * D)) /\ t[3] \in 0..(n * (D * D * D))
      /\ t[4] \in 0..(n * (D * D * D * D))
  BY ShiftedBounds
<1>2. /\ Second(n, s[1], s[2]) = Second(n, t[1], t[2])
      /\ Third(n, s[1], s[2], s[3]) = Third(n, t[1], t[2], t[3])
      /\ Fourth(n, s[1], s[2], s[3], s[4]) = Fourth(n, t[1], t[2], t[3], t[4])
  BY ShiftedMoments
<1> DEFINE t1 == t[1]  t2 == t[2]  t3 == t[3]  t4 == t[4]
<1> HIDE DEF t, t1, t2, t3, t4
<1>3. /\ Abs(Second(n, t1, t2)) <= (n * (D * D)) * n
      /\ Abs(Third(n, t1, t2, t3)) <= (3 * n * (D * D * D)) * (n * n)
      /\ Abs(Fourth(n, t1, t2, t3, t4)) <= (7 * n * (D * D * D * D)) * (n * n * n)
  <2>1. /\ n \in Nat
        /\ t1 \in 0..(n * D) /\ t2 \in 0..(n * (D * D)) /\ t3 \in 0..(n * (D * D * D))
        /\ t4 \in 0..(n * (D * D * D * D))
    BY <1>1 DEF t1, t2, t3, t4
  <2> QED
    BY <2>1, PolynomialBounds
<1> QED
  BY <1>1, <1>2, <1>3 DEF t1, t2, t3, t4

\* The means of two sets of data within a distance of D.
LEMMA MeansNear ==
    ASSUME NEW s \in Sums, NEW S, Made(s, S), NEW t \in Sums, NEW T, Made(t, T),
           NEW A \in Int, NEW D \in Nat, Within(S, A, D), Within(T, A, D),
           NEW n, n = s[0], NEW m, m = t[0]
    PROVE  Abs(n * t[1] - m * s[1]) <= D * (n * m)
<1> DEFINE u == s[1] - A * n  v == t[1] - A * m  p == s[1]  r == t[1]
<1>1. n \in Nat /\ m \in Nat /\ p \in Int /\ r \in Int
  BY SumsFacts
<1>2. u \in 0..(n * D) /\ v \in 0..(m * D)
  <2>1. Shifted(s, A)[1] = u /\ Shifted(t, A)[1] = v
    BY DEF Shifted
  <2> HIDE DEF u, v
  <2> QED
    BY <2>1, ShiftedBounds
<1>3. n * D \in Nat /\ m * D \in Nat
  BY <1>1
<1>4. n * r - m * p = n * v - m * u
  BY <1>1
<1> HIDE DEF u, v, p, r
<1>5. u \in Nat /\ v \in Nat /\ u <= n * D /\ v <= m * D
  BY <1>2, <1>3
<1>6. u * m <= (n * D) * m /\ v * n <= (m * D) * n
  BY <1>1, <1>3, <1>5, ProductMonotone
<1> DEFINE b == D * (n * m)
<1>7. n * v \in Nat /\ m * u \in Nat /\ n * v <= b /\ m * u <= b /\ b \in Nat
  BY <1>1, <1>5, <1>6
<1> HIDE DEF b
<1>8. Abs(n * v - m * u) <= b
  BY <1>7 DEF Abs
<1> QED
  BY <1>4, <1>8 DEF b, p, r

\* The sum of n data that are not larger than B.
LEMMA MeanBounds ==
    ASSUME NEW s \in Sums, NEW S, Made(s, S), NEW B \in Nat, \A x \in S : -B <= x /\ x <= B,
           NEW n, n = s[0]
    PROVE  n \in Nat /\ Abs(s[1]) <= B * n
<1> DEFINE p == s[1]  u == s[1] - (-B) * n
<1>1. n \in Nat /\ p \in Int /\ -B \in Int /\ 2 * B \in Nat
  BY SumsFacts
<1>2. Within(S, -B, 2 * B)
  BY DEF Within, Made
<1>3. u \in 0..(n * (2 * B))
  <2>1. Shifted(s, -B)[1] = u
    BY DEF Shifted
  <2> HIDE DEF u
  <2> QED
    BY <1>1, <1>2, <2>1, ShiftedBounds
<1>4. -(B * n) <= p /\ p <= B * n
  BY <1>1, <1>3
<1> HIDE DEF p
<1> QED
  BY <1>1, <1>4 DEF Abs, p

\* A part of data that are near to each other.
LEMMA WithinPart ==
    ASSUME NEW S, NEW T, S \subseteq T, NEW A, NEW D, Within(T, A, D)
    PROVE  Within(S, A, D)
BY DEF Within

UnionOf(S, I) == UNION {S[j] : j \in I}

\* No data with values come after fewer.
InOrder(g, n) ==
    \A j, k \in 1..n : j < k /\ g[k][0] > 0 => g[j][0] = 0 \/ g[j][0] >= g[k][0]

\* The sums of some of g are those of their data.
LEMMA GatherMade ==
    ASSUME NEW n \in Nat, NEW g \in [1..n -> Sums], NEW S, \A j \in 1..n : Made(g[j], S[j]),
           NEW I \in SUBSET (1..n)
    PROVE  Made(Gather(g, I, n), UnionOf(S, I))
<1> DEFINE P(m) == I \cap (1..m)
           G == {m \in 0..n : Made(Gather(g, P(m), n), UnionOf(S, P(m)))}
<1>1. 0 \in G
  <2>1. P(0) = {} /\ UnionOf(S, {}) = {}
    BY DEF UnionOf
  <2>2. Gather(g, {}, n) = NoSums
    BY GatherFacts
  <2>3. Made(Gather(g, P(0), n), UnionOf(S, P(0)))
    BY <2>1, <2>2, MadeNone
  <2> QED
    BY <2>3
<1>2. ASSUME NEW m \in 1..n, m - 1 \in G PROVE m \in G
  <2>0. m \in 0..n
    OBVIOUS
  <2>1. 1..m = (1..(m - 1)) \cup {m} /\ m \notin 1..(m - 1)
    OBVIOUS
  <2>2. CASE m \notin I
    <3>1. P(m) = P(m - 1)
      BY <2>1, <2>2
    <3> HIDE DEF P
    <3> QED
      BY <1>2, <2>0, <3>1
  <2>3. CASE m \in I
    <3> DEFINE Q == P(m - 1)
    <3>1. P(m) = Q \cup {m} /\ m \notin Q
      BY <2>1, <2>3
    <3>2. Made(Gather(g, Q, n), UnionOf(S, Q)) /\ Made(g[m], S[m]) /\ g[m] \in Sums
      BY <1>2
    <3> HIDE DEF Q
    <3>3. Gather(g, Q \cup {m}, n) = Added(Gather(g, Q, n), g[m]) /\ Gather(g, Q, n) \in Sums
      BY <3>1, GatherFacts
    <3>4. UnionOf(S, Q \cup {m}) = UnionOf(S, Q) \cup S[m]
      BY DEF UnionOf
    <3>5. Made(Gather(g, Q \cup {m}, n), UnionOf(S, Q \cup {m}))
      <4> DEFINE s == Gather(g, Q, n)  U == UnionOf(S, Q)  t == g[m]  T == S[m]
      <4>1. s \in Sums /\ t \in Sums /\ Made(s, U) /\ Made(t, T)
        BY <3>2, <3>3
      <4>2. Gather(g, Q \cup {m}, n) = Added(s, t) /\ UnionOf(S, Q \cup {m}) = U \cup T
        BY <3>3, <3>4
      <4> HIDE DEF s, U, t, T
      <4>3. Made(Added(s, t), U \cup T)
        BY <4>1, MadeBoth
      <4> QED
        BY <4>2, <4>3
    <3>6. P(m) = Q \cup {m}
      BY <3>1
    <3> HIDE DEF P
    <3> QED
      BY <2>0, <3>5, <3>6
  <2> QED
    BY <2>2, <2>3
<1> HIDE DEF G
<1>3. 0..n \subseteq G
  BY <1>1, <1>2, Induction
<1>4. n \in 0..n /\ P(n) = I
  <2>1. I \cap (1..n) = I
    OBVIOUS
  <2> QED
    BY <2>1
<1> HIDE DEF P
<1> QED
  BY <1>3, <1>4 DEF G

\* More of g have no fewer data.
LEMMA GatherGrows ==
    ASSUME NEW n \in Nat, NEW g \in [1..n -> Sums], NEW I \in SUBSET (1..n), NEW J \in SUBSET I
    PROVE  Gather(g, J, n)[0] <= Gather(g, I, n)[0]
<1> DEFINE P(K, m) == K \cap (1..m)
           N(K, m) == Gather(g, P(K, m), n)[0]
           G == {m \in 0..n : N(J, m) <= N(I, m)}
<1>0. \A K, m : N(K, m) \in Nat
  <2>1. \A K : Gather(g, K, n) \in Sums
    BY GatherFacts
  <2> QED
    BY <2>1, SumsFacts
<1>1. 0 \in G
  <2>1. P(I, 0) = {} /\ P(J, 0) = {}
    OBVIOUS
  <2>2. N(I, 0) = N(J, 0)
    BY <2>1
  <2> HIDE DEF N
  <2> QED
    BY <1>0, <2>2
<1>2. ASSUME NEW m \in 1..n, NEW K
      PROVE  N(K, m) = N(K, m - 1) + IF m \in K THEN g[m][0] ELSE 0
  <2>1. 1..m = (1..(m - 1)) \cup {m} /\ m \notin 1..(m - 1)
    OBVIOUS
  <2>2. CASE m \notin K
    <3>1. P(K, m) = P(K, m - 1)
      BY <2>1, <2>2
    <3>2. N(K, m) = N(K, m - 1)
      BY <3>1
    <3> HIDE DEF N
    <3> QED
      BY <1>0, <2>2, <3>2
  <2>3. CASE m \in K
    <3> DEFINE Q == P(K, m - 1)
    <3>1. P(K, m) = Q \cup {m} /\ m \notin Q
      BY <2>1, <2>3
    <3> HIDE DEF Q
    <3>2. Gather(g, Q \cup {m}, n) = Added(Gather(g, Q, n), g[m]) /\ Gather(g, Q, n) \in Sums
          /\ g[m] \in Sums
      BY <3>1, GatherFacts
    <3>3. Gather(g, Q \cup {m}, n)[0] = Gather(g, Q, n)[0] + g[m][0]
      BY <3>2, AddedFacts
    <3> QED
      BY <2>3, <3>1, <3>3 DEF Q
  <2> QED
    BY <2>2, <2>3
<1> HIDE DEF N
<1>3. ASSUME NEW m \in 1..n, m - 1 \in G PROVE m \in G
  <2>1. g[m][0] \in Nat
    <3>1. g[m] \in Sums
      OBVIOUS
    <3> QED
      BY <3>1, SumsFacts
  <2>2. m \in 0..n /\ N(J, m - 1) <= N(I, m - 1) /\ (m \in J => m \in I)
    BY <1>3
  <2>3. /\ N(J, m) = N(J, m - 1) + IF m \in J THEN g[m][0] ELSE 0
        /\ N(I, m) = N(I, m - 1) + IF m \in I THEN g[m][0] ELSE 0
    BY <1>2
  <2>4. N(J, m) <= N(I, m)
    <3>1. N(J, m - 1) \in Nat /\ N(I, m - 1) \in Nat
      BY <1>0
    <3> QED
      BY <2>1, <2>2, <2>3, <3>1
  <2> QED
    BY <2>2, <2>4
<1> HIDE DEF G
<1>4. 0..n \subseteq G
  BY <1>1, <1>3, Induction
<1>5. n \in 0..n /\ P(I, n) = I /\ P(J, n) = J
  <2>1. I \cap (1..n) = I /\ J \subseteq 1..n
    OBVIOUS
  <2>2. J \cap (1..n) = J
    BY <2>1
  <2> QED
    BY <2>1, <2>2
<1> HIDE DEF P
<1> QED
  BY <1>4, <1>5 DEF G, N

\* An empty accumulator has no data.
LEMMA EmptyData ==
    ASSUME NEW s \in Sums, s[0] = 0, NEW S, Made(s, S)
    PROVE  s = NoSums /\ S = {}
<1>1. \A k \in 0..4 : s[k] = 0
  BY DEF Sums
<1>2. s \in [0..4 -> Int]
  BY DEF Sums
<1> QED
  BY <1>1, <1>2 DEF NoSums, Made

\* The number of data of which g has the sums.
LEMMA GatherBelow ==
    ASSUME NEW n \in Nat, NEW g \in [1..n -> Sums], NEW u \in [0..n -> Nat],
           \A i \in 1..n : u[i - 1] + g[i][0] <= u[i], NEW I \in SUBSET (1..n)
    PROVE  Gather(g, I, n)[0] \in Nat /\ Gather(g, I, n)[0] <= u[n]
<1> DEFINE h == [i \in 1..n |-> IF i \in I THEN g[i] ELSE NoSums]
           t == PartialSums(h, n)
           G == {i \in 0..n : t[i][0] \in Nat /\ t[i][0] <= u[i]}
<1>0. /\ \A i \in 1..n : g[i] \in Sums /\ h[i] = IF i \in I THEN g[i] ELSE NoSums
      /\ h \in [1..n -> Sums]
  BY Addition
<1>1. /\ t \in [0..n -> Sums]
      /\ t[0] = NoSums /\ \A i \in 1..n : t[i] = Added(t[i - 1], h[i])
      /\ Gather(g, I, n) = t[n]
  BY <1>0, PartialSumsFacts DEF Gather
<1> HIDE DEF h, t
<1>2. 0 \in G
  <2>1. t[0][0] = 0 /\ 0 \in 0..n /\ u[0] \in Nat
    BY <1>1 DEF NoSums
  <2> QED
    BY <2>1
<1>3. ASSUME NEW i \in 1..n, i - 1 \in G PROVE i \in G
  <2>1. i \in 0..n /\ i - 1 \in 0..n /\ t[i - 1] \in Sums /\ h[i] \in Sums /\ g[i] \in Sums
    BY <1>0, <1>1
  <2>2. t[i][0] = t[i - 1][0] + h[i][0]
    BY <1>1, <2>1, AddedFacts
  <2>3. h[i][0] \in Nat /\ g[i][0] \in Nat /\ h[i][0] <= g[i][0]
    <3>1. NoSums[0] = 0 /\ g[i][0] \in Nat
      BY <2>1, SumsFacts DEF NoSums
    <3>2. CASE i \in I
      <4>1. h[i] = g[i]
        BY <1>0, <3>2
      <4> QED
        BY <3>1, <4>1
    <3>3. CASE i \notin I
      <4>1. h[i] = NoSums
        BY <1>0, <3>3
      <4> QED
        BY <3>1, <4>1
    <3> QED
      BY <3>2, <3>3
  <2>4. t[i - 1][0] \in Nat /\ t[i - 1][0] <= u[i - 1] /\ u[i - 1] + g[i][0] <= u[i]
        /\ u[i - 1] \in Nat /\ u[i] \in Nat
    BY <1>3, <2>1
  <2>5. t[i][0] \in Nat /\ t[i][0] <= u[i]
    <3> DEFINE p == t[i - 1][0]  q == h[i][0]  r == g[i][0]  v == u[i - 1]  w == u[i]
    <3>1. p \in Nat /\ q \in Nat /\ r \in Nat /\ v \in Nat /\ w \in Nat
          /\ p <= v /\ q <= r /\ v + r <= w /\ t[i][0] = p + q
      BY <2>2, <2>3, <2>4
    <3> HIDE DEF p, q, r, v, w
    <3>2. p + q \in Nat /\ p + q <= w
      BY <3>1
    <3> QED
      BY <3>1, <3>2 DEF w
  <2> QED
    BY <2>1, <2>5
<1> HIDE DEF G
<1>4. 0..n \subseteq G
  BY <1>2, <1>3, Induction
<1> QED
  BY <1>1, <1>4 DEF G
=============================================================================
