--------------------------- MODULE Results_proofs ---------------------------
(***************************************************************************)
(* Proofs about Results, for any file and any number of accumulators.      *)
(*                                                                         *)
(* The operators come first: arithmetic on doubles returns doubles, and     *)
(* push, operator+ and the kernel return accumulators.  The recursive       *)
(* functions (a running sum of accumulators, the kernel's loop, copy_if)    *)
(* are shown to satisfy the equations that define them, by Recursion and    *)
(* Solution of NaturalNumbers.  The invariants then grow one on another:    *)
(* TypeOK; MergeInv, what the merge has computed so far; CountInv, that no  *)
(* sum of counts wraps; MinInv, that each accumulator summarises its data;  *)
(* MomentsInv, that each accumulator has the moments of data it was given.  *)
(*                                                                         *)
(* The moments make the second part.  An operation on doubles is exact      *)
(* unless it overflows; so push and operator+, where they do not overflow,  *)
(* are identities of polynomials in the sums of the first four powers of    *)
(* the data (pushExact, PushLaneExact, CombineExact).  An accumulator then  *)
(* Follows such sums, and what is merged from left to right follows those   *)
(* of a set of its operands (SumGathered), which is what Described says.    *)
(*                                                                         *)
(* The third part shows when nothing overflows.  A double is Bounded by     *)
(* what it can be at most; sums that are Made of data have central moments  *)
(* bounded by how far the data are from each other (MomentBounds), and so   *)
(* has each term of push_avx2 and of operator+ (PushLaneFits, CombineFits). *)
(* If all of the data are tame, then those of each lane and item are, and   *)
(* nothing is dropped anywhere (WholeInv): the set of operands that the     *)
(* result follows is that of all of them.                                  *)
(*                                                                         *)
(* What is about integers alone is in NaturalNumbers: sums of powers, the   *)
(* central moments as polynomials of them, and bounds of these.             *)
(***************************************************************************)
EXTENDS Results, NaturalNumbers

----------------------------------------------------------------------------
(* Doubles: every operation on doubles returns one.                         *)

Number == Int \X (Nat \ {0})

LEMMA DoubleCases ==
    /\ Double = {NaN, Infinity, MinusInfinity} \cup Number
    /\ \A x \in Double : Finite(x) <=> x \in Number
    /\ \A x \in Number : x = <<x[1], x[2]>> /\ x[1] \in Int /\ x[2] \in Nat \ {0}
    /\ \A i \in Int, d \in Nat \ {0} : <<i, d>> \in Number
    /\ \A x \in Double : x[1] \in Int /\ x[2] \in Nat
    /\ \A x \in Double : ~Finite(x) => x \in {NaN, Infinity, MinusInfinity}
BY DEF Double, Number, Finite, NaN, Infinity, MinusInfinity

LEMMA SomeDoubles ==
    /\ NaN \in Double /\ Infinity \in Double /\ MinusInfinity \in Double
    /\ Denormal \in Number /\ Zero \in Number
    /\ \A i \in Int : Real(i) \in Number
    /\ Number \subseteq Double
BY DEF Double, Number, NaN, Infinity, MinusInfinity, Denormal, Zero, Real

LEMMA WholePart ==
    ASSUME NEW n \in Nat \ {0}, NEW g \in 1..n
    PROVE  n \div g \in Nat \ {0}
<1>1. g \in Nat \ {0} /\ 1 * g <= n
  OBVIOUS
<1>2. 1 <= n \div g
  BY <1>1, DivAtLeast
<1>3. n \div g \in Nat
  BY <1>1, Division
<1> QED
  BY <1>2, <1>3

LEMMA FractionType ==
    ASSUME NEW n \in Int, NEW d \in Nat \ {0}
    PROVE  Fraction(n, d) \in Number
<1> DEFINE g == Gcd(Abs(n), d)
<1>1. Abs(n) \in Nat
  BY DEF Abs
<1>2. g \in 1..d
  BY <1>1, GcdBounds
<1> HIDE DEF g
<1>3. g \in Nat \ {0}
  BY <1>2
<1>4. d \div g \in Nat \ {0}
  BY <1>2, WholePart
<1>5. n \div g \in Int
  BY <1>3
<1>6. <<n \div g, d \div g>> \in Number
  BY <1>4, <1>5 DEF Number
<1> QED
  BY <1>6 DEF Fraction, g

LEMMA RoundedType ==
    ASSUME NEW n \in Int, NEW d \in Nat \ {0}
    PROVE  Rounded(n, d) \in Double
<1>1. <<Sign(n), 0>> \in Double
  BY DEF Sign, Double, NaN, Infinity, MinusInfinity
<1> QED
  BY <1>1, FractionType, SomeDoubles DEF Rounded

LEMMA MinusType ==
    ASSUME NEW x \in Double
    PROVE  Minus(x) \in Double
BY DEF Minus, Double, NaN, Infinity, MinusInfinity

LEMMA PlusType ==
    ASSUME NEW x \in Double, NEW y \in Double
    PROVE  x ++ y \in Double
<1>1. CASE Finite(x) /\ Finite(y)
  <2> DEFINE g == Gcd(x[2], y[2])
             p == y[2] \div g
             q == x[2] \div g
  <2>1. x[1] \in Int /\ x[2] \in Nat \ {0} /\ y[1] \in Int /\ y[2] \in Nat \ {0}
    BY <1>1, DoubleCases
  <2>2. g \in 1..y[2]
    BY <2>1, GcdBounds
  <2> HIDE DEF g
  <2>3. g \in Nat \ {0}
    BY <2>1, <2>2
  <2>4. p \in Nat \ {0}
    BY <2>1, <2>2, WholePart
  <2>5. q \in Nat
    BY <2>1, <2>3, Division
  <2> HIDE DEF p, q
  <2>6. x[1] * p + y[1] * q \in Int
    BY <2>1, <2>4, <2>5
  <2>7. x[2] * p \in Nat \ {0}
    BY <2>1, <2>4
  <2>8. Rounded(x[1] * p + y[1] * q, x[2] * p) \in Double
    BY <2>6, <2>7, RoundedType
  <2> QED
    BY <1>1, <2>8 DEF ++, g, p, q
<1> QED
  BY <1>1, SomeDoubles DEF ++

\* The cases of a product.
LEMMA TimesCases ==
    ASSUME NEW x, NEW y
    PROVE  /\ ~(Finite(x) /\ Finite(y)) => x ** y = <<Sign(x[1]) * Sign(y[1]), 0>>
           /\ Finite(x) /\ Finite(y) /\ (x[1] = 0 \/ y[1] = 0) => x ** y = Zero
           /\ Finite(x) /\ Finite(y) /\ x[1] # 0 /\ y[1] # 0 =>
                x ** y = Rounded(Fraction(x[1], y[2])[1] * Fraction(y[1], x[2])[1],
                                 Fraction(x[1], y[2])[2] * Fraction(y[1], x[2])[2])
<1> DEFINE a == Fraction(x[1], y[2])
           b == Fraction(y[1], x[2])
           z == Rounded(a[1] * b[1], a[2] * b[2])
           u == <<Sign(x[1]) * Sign(y[1]), 0>>
           F == Finite(x) /\ Finite(y)
           E == x[1] = 0 \/ y[1] = 0
<1>1. x ** y = IF F THEN IF E THEN Zero ELSE z ELSE u
  BY Zenon DEF **
<1>2. E <=> ~(x[1] # 0 /\ y[1] # 0)
  OBVIOUS
<1> HIDE DEF z, u, F, E
<1>3. (~F => x ** y = u) /\ (F /\ E => x ** y = Zero) /\ (F /\ ~E => x ** y = z)
  BY <1>1
<1> QED
  BY <1>2, <1>3 DEF z, u, F, E

LEMMA TimesType ==
    ASSUME NEW x \in Double, NEW y \in Double
    PROVE  x ** y \in Double
<1>1. CASE Finite(x) /\ Finite(y)
  <2> DEFINE a == Fraction(x[1], y[2])
             b == Fraction(y[1], x[2])
  <2>1. a \in Number /\ b \in Number
    BY <1>1, DoubleCases, FractionType
  <2> HIDE DEF a, b
  <2>2. a[1] \in Int /\ b[1] \in Int /\ a[2] \in Nat \ {0} /\ b[2] \in Nat \ {0}
    BY <2>1, DoubleCases
  <2>3. a[1] * b[1] \in Int /\ a[2] * b[2] \in Nat \ {0}
    BY <2>2
  <2>4. Rounded(a[1] * b[1], a[2] * b[2]) \in Double
    BY <2>3, RoundedType
  <2>5. x ** y = Zero \/ x ** y = Rounded(a[1] * b[1], a[2] * b[2])
    BY <1>1, TimesCases DEF a, b
  <2> QED
    BY <2>4, <2>5, SomeDoubles
<1>2. CASE ~(Finite(x) /\ Finite(y))
  <2>1. \A i \in Int, j \in Int : <<Sign(i) * Sign(j), 0>> \in Double
    BY DEF Sign, Double, NaN, Infinity, MinusInfinity
  <2>2. x[1] \in Int /\ y[1] \in Int
    BY DoubleCases
  <2>3. x ** y = <<Sign(x[1]) * Sign(y[1]), 0>>
    BY <1>2, TimesCases
  <2> QED
    BY <2>1, <2>2, <2>3
<1> QED
  BY <1>1, <1>2

LEMMA ReciprocalType ==
    ASSUME NEW x \in Double
    PROVE  Reciprocal(x) \in Double
<1>1. CASE x = NaN \/ Infinite(x)
  BY <1>1, SomeDoubles DEF Reciprocal
<1>2. CASE ~(x = NaN \/ Infinite(x)) /\ x[1] = 0
  BY <1>2, SomeDoubles DEF Reciprocal
<1>3. CASE ~(x = NaN \/ Infinite(x)) /\ x[1] # 0
  <2>1. x[1] \in Int /\ x[2] \in Nat
    BY DoubleCases
  <2>2. Sign(x[1]) * x[2] \in Int /\ Abs(x[1]) \in Nat \ {0}
    BY <1>3, <2>1 DEF Sign, Abs
  <2>3. <<Sign(x[1]) * x[2], Abs(x[1])>> \in Double
    BY <2>2, DoubleCases
  <2> QED
    BY <1>3, <2>3 DEF Reciprocal
<1> QED
  BY <1>1, <1>2, <1>3

LEMMA DoubleArithmetic ==
    ASSUME NEW x \in Double, NEW y \in Double
    PROVE  /\ x ++ y \in Double
           /\ x -- y \in Double
           /\ x ** y \in Double
           /\ x // y \in Double
<1>1. x -- y \in Double
  BY MinusType, PlusType DEF --
<1>2. x // y \in Double
  BY ReciprocalType, TimesType DEF //
<1> QED
  BY <1>1, <1>2, PlusType, TimesType

\* A denormal number can only come from the input.
LEMMA NeverDenormal ==
    ASSUME NEW x \in Double, NEW y \in Double
    PROVE  x ++ y # Denormal /\ x ** y # Denormal /\ x // y # Denormal
<1>1. ASSUME NEW n \in Int, NEW d \in Nat \ {0} PROVE Fraction(n, d) # Denormal
  <2> DEFINE g == Gcd(Abs(n), d)
  <2>1. Abs(n) \in Nat /\ (n = Abs(n) \/ n = -Abs(n))
    BY DEF Abs
  <2>2. g \in 1..d /\ Divides(g, Abs(n)) /\ Divides(g, d)
    BY <2>1, GcdBounds
  <2>f. Fraction(n, d) = <<n \div g, d \div g>>
    BY DEF Fraction
  <2> HIDE DEF g
  <2>3. PICK u \in Nat, v \in Nat : Abs(n) = u * g /\ d = v * g
    BY <2>2 DEF Divides
  <2>4. g \in Nat \ {0}
    BY <2>2
  <2>5. n = u * g \/ n = (-u) * g
    BY <2>1, <2>3, <2>4
  <2>6. n \div g \in {u, -u} /\ d \div g = v
    BY <2>3, <2>4, <2>5, QuotientInt
  <2>7. ASSUME <<n \div g, d \div g>> = <<0, 2>> PROVE FALSE
    <3>1. u = 0 /\ v = 2
      BY <2>6, <2>7
    <3>2. n = 0 /\ d = 2 * g
      BY <2>3, <2>4, <2>5, <3>1
    <3>3. g = d
      <4>1. Abs(n) = 0
        BY <3>2 DEF Abs
      <4> QED
        BY <2>1, <4>1, GcdBounds DEF g
    <3> QED
      BY <2>4, <3>2, <3>3
  <2> QED
    BY <2>f, <2>7 DEF Denormal
<1>2. ASSUME NEW n \in Int, NEW d \in Nat \ {0} PROVE Rounded(n, d) # Denormal
  BY <1>1 DEF Rounded, Denormal
<1>3. x ++ y # Denormal
  <2>1. CASE Finite(x) /\ Finite(y)
    <3> DEFINE g == Gcd(x[2], y[2])
               p == y[2] \div g
               q == x[2] \div g
    <3>1. x[1] \in Int /\ x[2] \in Nat \ {0} /\ y[1] \in Int /\ y[2] \in Nat \ {0}
      BY <2>1, DoubleCases
    <3>2. g \in 1..y[2]
      BY <3>1, GcdBounds
    <3> HIDE DEF g
    <3>3. g \in Nat \ {0}
      BY <3>1, <3>2
    <3>4. p \in Nat \ {0} /\ q \in Nat
      BY <3>1, <3>2, <3>3, WholePart, Division
    <3> HIDE DEF p, q
    <3>5. x[1] * p + y[1] * q \in Int /\ x[2] * p \in Nat \ {0}
      BY <3>1, <3>4
    <3>6. Rounded(x[1] * p + y[1] * q, x[2] * p) # Denormal
      BY <3>5, <1>2
    <3> QED
      BY <2>1, <3>6 DEF ++, g, p, q
  <2>2. CASE ~(Finite(x) /\ Finite(y))
    <3>1. ~Finite(x ++ y)
      BY <2>2 DEF ++, Finite, NaN
    <3> QED
      BY <3>1 DEF Finite, Denormal
  <2> QED
    BY <2>1, <2>2
<1>4. ASSUME NEW z \in Double PROVE x ** z # Denormal
  <2>1. CASE Finite(x) /\ Finite(z) /\ ~(x[1] = 0 \/ z[1] = 0)
    <3> DEFINE a == Fraction(x[1], z[2])
               b == Fraction(z[1], x[2])
    <3>1. a \in Number /\ b \in Number
      BY <2>1, DoubleCases, FractionType
    <3> HIDE DEF a, b
    <3>2. a[1] * b[1] \in Int /\ a[2] * b[2] \in Nat \ {0}
      <4>1. a[1] \in Int /\ b[1] \in Int /\ a[2] \in Nat \ {0} /\ b[2] \in Nat \ {0}
        BY <3>1, DoubleCases
      <4> QED
        BY <4>1
    <3>3. Rounded(a[1] * b[1], a[2] * b[2]) # Denormal
      BY <3>2, <1>2
    <3> QED
      BY <2>1, <3>3, TimesCases DEF a, b
  <2>2. CASE ~(Finite(x) /\ Finite(z)) \/ x[1] = 0 \/ z[1] = 0
    <3>1. x ** z = Zero \/ x ** z = <<Sign(x[1]) * Sign(z[1]), 0>>
      BY <2>2, TimesCases
    <3> QED
      BY <3>1 DEF Zero, Denormal
  <2> QED
    BY <2>1, <2>2
<1> QED
  BY <1>3, <1>4, ReciprocalType DEF //

----------------------------------------------------------------------------
(* Accumulators                                                            *)

Accumulator ==
    [n : Nat, m1 : Double, m2 : Double, m3 : Double, m4 : Double,
     isIntegerDistribution : BOOLEAN, minVal : Double, numericalErrorWhileMerging : BOOLEAN]

LEMMA AccumulatorFields ==
    ASSUME NEW a \in Accumulator
    PROVE  /\ a.n \in Nat
           /\ a.m1 \in Double /\ a.m2 \in Double /\ a.m3 \in Double /\ a.m4 \in Double
           /\ a.isIntegerDistribution \in BOOLEAN
           /\ a.minVal \in Double
           /\ a.numericalErrorWhileMerging \in BOOLEAN
BY DEF Accumulator

LEMMA Words ==
    /\ \A i \in Int : Word(i) \in Nat
    /\ \A i \in Int : Word(i) < WordModulus
    /\ \A i \in Nat : i < WordModulus => Word(i) = i
    /\ \A i \in Nat : Word(i) <= i
<1>1. /\ \A i \in Int : Word(i) \in Nat
      /\ \A i \in Int : Word(i) < WordModulus
      /\ \A i \in Nat : i < WordModulus => Word(i) = i
  BY WordAssumption DEF Word
<1>2. ASSUME NEW i \in Nat PROVE Word(i) <= i
  <2>1. Word(i) < WordModulus /\ Word(i) \in Nat
    BY <1>1
  <2> QED
    BY <1>1, <2>1, WordAssumption
<1> QED
  BY <1>1, <1>2

LEMMA NewAccumulatorType == NewAccumulator \in Accumulator
BY SomeDoubles DEF NewAccumulator, Accumulator

LEMMA pushType ==
    ASSUME NEW a \in Accumulator, NEW x \in Double
    PROVE  push(a, x) \in Accumulator
<1> DEFINE n      == Word(a.n + 1)
           delta  == x -- a.m1
           deltaN == delta // Real(n)
           sq     == deltaN ** deltaN
           term1  == (delta ** deltaN) ** Real(a.n)
           m1     == a.m1 ++ deltaN
           m2     == a.m2 ++ term1
           m3     == a.m3 ++ (((term1 ** deltaN) ** Real(Word(n - 2)))
                                -- ((Three ** deltaN) ** a.m2))
           m4     == a.m4 ++ ((((term1 ** sq) ** Real(Word(n * n - 3 * n + 3)))
                                 ++ ((Six ** sq) ** a.m2))
                                -- ((Four ** deltaN) ** a.m3))
           integer == a.isIntegerDistribution /\ isValueInteger(x)
           minVal  == StdMin(a.minVal, x)
<1>1. n \in Nat /\ Real(n) \in Double /\ Real(a.n) \in Double
  BY AccumulatorFields, Words, SomeDoubles
<1>2. Real(Word(n - 2)) \in Double /\ Real(Word(n * n - 3 * n + 3)) \in Double
  <2> HIDE DEF n
  <2>1. n - 2 \in Int /\ n * n - 3 * n + 3 \in Int
    BY <1>1
  <2> QED
    BY <2>1, Words, SomeDoubles
<1>3. Three \in Double /\ Six \in Double /\ Four \in Double
  BY SomeDoubles DEF Three, Six, Four
<1> HIDE DEF n
<1>4. delta \in Double
  BY AccumulatorFields, DoubleArithmetic
<1> HIDE DEF delta
<1>5. deltaN \in Double
  BY <1>1, <1>4, DoubleArithmetic
<1> HIDE DEF deltaN
<1>6. sq \in Double /\ term1 \in Double
  BY <1>1, <1>4, <1>5, DoubleArithmetic
<1> HIDE DEF sq, term1
<1>7. m1 \in Double /\ m2 \in Double
  BY <1>5, <1>6, AccumulatorFields, DoubleArithmetic
<1>8. m3 \in Double
  BY <1>2, <1>3, <1>5, <1>6, AccumulatorFields, DoubleArithmetic
<1>9. m4 \in Double
  BY <1>2, <1>3, <1>5, <1>6, AccumulatorFields, DoubleArithmetic
<1>10. minVal \in Double
  BY AccumulatorFields DEF StdMin
<1>11. integer \in BOOLEAN
  OBVIOUS
<1>12. push(a, x) =
         IF ~valueNormalOrZero(x) THEN a
         ELSE [a EXCEPT !.isIntegerDistribution = integer, !.n = n, !.m1 = m1, !.m2 = m2,
                        !.m3 = m3, !.m4 = m4, !.minVal = minVal]
  BY DEF push, n, delta, deltaN, sq, term1
<1> HIDE DEF m1, m2, m3, m4, integer, minVal
<1> QED
  BY <1>1, <1>7, <1>8, <1>9, <1>10, <1>11, <1>12 DEF Accumulator

LEMMA KernelPushType ==
    ASSUME NEW a \in Accumulator, NEW x \in Double
    PROVE  KernelPush(a, x) \in Accumulator
<1>1. Fmin(a.minVal, x) \in Double
  BY AccumulatorFields DEF Fmin
<1>2. push(a, x) \in Accumulator
  BY pushType
<1>3. [push(a, x) EXCEPT !.minVal = Fmin(a.minVal, x)] \in Accumulator
  BY <1>1, <1>2 DEF Accumulator
<1> QED
  BY <1>3 DEF KernelPush

LEMMA PushLaneDoubles ==
    ASSUME NEW a \in Accumulator, NEW x \in Double
    PROVE  /\ PushLane(a, x) \in Accumulator
           /\ PushLane(a, x).m1 # Denormal /\ PushLane(a, x).m2 # Denormal
           /\ PushLane(a, x).m3 # Denormal /\ PushLane(a, x).m4 # Denormal
<1> DEFINE validMask == valuesValid(x)
           n      == a.n + IF validMask THEN 1 ELSE 0
           nD     == Real(n)
           delta  == x -- a.m1
           deltaN == delta // nD
           sq     == deltaN ** deltaN
           term1  == delta ** (deltaN ** Real(a.n))
           m4a    == (term1 ** sq) ** (Three ++ ((nD ** nD) -- (Three ** nD)))
           m4b    == (Six ** (sq ** a.m2)) -- (Four ** (deltaN ** a.m3))
           m3a    == term1 ** (deltaN ** (nD -- Real(2)))
           m3b    == Three ** (deltaN ** a.m2)
           m1     == a.m1 ++ maskDouble4(deltaN, validMask)
           m2     == a.m2 ++ maskDouble4(term1, validMask)
           m3     == a.m3 ++ maskDouble4(m3a -- m3b, validMask)
           m4     == a.m4 ++ maskDouble4(m4a ++ m4b, validMask)
           integer == a.isIntegerDistribution /\ (~validMask \/ valuesInteger(x))
           minVal  == MinPd(a.minVal, x ++ maskDouble4(Infinity, ~validMask))
<1>1. n \in Nat
  BY AccumulatorFields
<1> HIDE DEF n
<1>2. nD \in Double /\ Real(a.n) \in Double /\ Real(2) \in Double
  BY <1>1, AccumulatorFields, SomeDoubles
<1> HIDE DEF nD
<1>3. Three \in Double /\ Six \in Double /\ Four \in Double
  BY SomeDoubles DEF Three, Six, Four
<1>4. delta \in Double
  BY AccumulatorFields, DoubleArithmetic
<1> HIDE DEF delta
<1>5. deltaN \in Double
  BY <1>2, <1>4, DoubleArithmetic
<1> HIDE DEF deltaN
<1>6. sq \in Double /\ term1 \in Double
  BY <1>2, <1>4, <1>5, DoubleArithmetic
<1> HIDE DEF sq, term1
<1>7. m4a \in Double
  BY <1>2, <1>3, <1>6, DoubleArithmetic
<1>8. m4b \in Double
  BY <1>3, <1>5, <1>6, AccumulatorFields, DoubleArithmetic
<1>9. m3a \in Double /\ m3b \in Double
  BY <1>2, <1>3, <1>5, <1>6, AccumulatorFields, DoubleArithmetic
<1> HIDE DEF m4a, m4b, m3a, m3b
<1>10. \A v \in Double : \A mask : maskDouble4(v, mask) \in Double
  BY SomeDoubles DEF maskDouble4
<1>11. m1 \in Double /\ m2 \in Double
  BY <1>5, <1>6, <1>10, AccumulatorFields, DoubleArithmetic
<1>12. m3 \in Double
  BY <1>9, <1>10, AccumulatorFields, DoubleArithmetic
<1>13. m4 \in Double
  BY <1>7, <1>8, <1>10, AccumulatorFields, DoubleArithmetic
<1>14. minVal \in Double
  <2>1. x ++ maskDouble4(Infinity, ~validMask) \in Double
    BY <1>10, SomeDoubles, DoubleArithmetic
  <2> QED
    BY <2>1, AccumulatorFields DEF MinPd
<1>15. integer \in BOOLEAN
  OBVIOUS
<1>16. PushLane(a, x) =
         [a EXCEPT !.isIntegerDistribution = integer, !.minVal = minVal, !.n = n,
                   !.m1 = m1, !.m2 = m2, !.m3 = m3, !.m4 = m4]
  BY DEF PushLane, n, nD, delta, deltaN, sq, term1, m4a, m4b, m3a, m3b
<1>17. m1 # Denormal /\ m2 # Denormal /\ m3 # Denormal /\ m4 # Denormal
  <2>1. m3a -- m3b \in Double /\ m4a ++ m4b \in Double
    BY <1>7, <1>8, <1>9, DoubleArithmetic
  <2>2. /\ maskDouble4(deltaN, validMask) \in Double /\ maskDouble4(term1, validMask) \in Double
        /\ maskDouble4(m3a -- m3b, validMask) \in Double
        /\ maskDouble4(m4a ++ m4b, validMask) \in Double
    BY <1>5, <1>6, <1>10, <2>1
  <2> QED
    BY <2>2, AccumulatorFields, NeverDenormal
<1> HIDE DEF m1, m2, m3, m4, integer, minVal
<1> QED
  BY <1>1, <1>11, <1>12, <1>13, <1>14, <1>15, <1>16, <1>17 DEF Accumulator

LEMMA PushLaneType ==
    ASSUME NEW a \in Accumulator, NEW x \in Double
    PROVE  PushLane(a, x) \in Accumulator
BY PushLaneDoubles

LEMMA CombineDoubles ==
    ASSUME NEW a \in Accumulator, NEW b \in Accumulator
    PROVE  /\ Combine(a, b) \in Accumulator
           /\ Combine(a, b).m1 # Denormal /\ Combine(a, b).m2 # Denormal
           /\ Combine(a, b).m3 # Denormal /\ Combine(a, b).m4 # Denormal
<1> DEFINE n   == Word(a.n + b.n)
           nn  == Real(Word(n * n))
           nnn == Real(Word(Word(n * n) * n))
           na  == Real(a.n)
           nb  == Real(b.n)
           difference == Real(Word(a.n - b.n))
           squares    == Real(Word(a.n * a.n - a.n * b.n + b.n * b.n))
           naSq == Real(Word(a.n * a.n))
           nbSq == Real(Word(b.n * b.n))
           delta  == b.m1 -- a.m1
           delta2 == delta ** delta
           delta3 == delta2 ** delta
           delta4 == delta2 ** delta2
           m1 == ((a.m1 ** na) ++ (b.m1 ** nb)) // Real(n)
           m2 == (a.m2 ++ b.m2) ++ (((delta2 ** na) ** nb) // Real(n))
           m3a == (((delta3 ** na) ** nb) ** difference) // nn
           m3b == ((Three ** delta) ** ((na ** b.m2) -- (nb ** a.m2))) // Real(n)
           m3 == ((a.m3 ++ b.m3) ++ m3a) ++ m3b
           m4a == (((delta4 ** na) ** nb) ** squares) // nnn
           m4b == ((Six ** delta2) ** ((naSq ** b.m2) ++ (nbSq ** a.m2))) // nn
           m4c == ((Four ** delta) ** ((na ** b.m3) -- (nb ** a.m3))) // Real(n)
           m4 == (((a.m4 ++ b.m4) ++ m4a) ++ m4b) ++ m4c
           integer == a.isIntegerDistribution /\ b.isIntegerDistribution
           minVal == StdMin(a.minVal, b.minVal)
<1>1. a.n \in Nat /\ b.n \in Nat /\ n \in Nat
  BY AccumulatorFields, Words
<1>2. na \in Double /\ nb \in Double /\ Real(n) \in Double
  BY <1>1, SomeDoubles
<1>3. \A i \in Int : Real(Word(i)) \in Double
  BY Words, SomeDoubles
<1>4. difference \in Double /\ squares \in Double /\ naSq \in Double /\ nbSq \in Double
  <2>1. /\ a.n - b.n \in Int
        /\ a.n * a.n - a.n * b.n + b.n * b.n \in Int
        /\ a.n * a.n \in Int /\ b.n * b.n \in Int
    BY <1>1
  <2> QED
    BY <1>3, <2>1
<1>5. nn \in Double /\ nnn \in Double
  <2> HIDE DEF n
  <2>1. n * n \in Int
    BY <1>1
  <2>2. Word(n * n) * n \in Int
    BY <1>1, <2>1, Words
  <2> QED
    BY <1>3, <2>1, <2>2
<1> HIDE DEF n, na, nb, difference, squares, naSq, nbSq, nn, nnn
<1>6. Three \in Double /\ Six \in Double /\ Four \in Double
  BY SomeDoubles DEF Three, Six, Four
<1>7. delta \in Double
  BY AccumulatorFields, DoubleArithmetic
<1> HIDE DEF delta
<1>8. delta2 \in Double
  BY <1>7, DoubleArithmetic
<1> HIDE DEF delta2
<1>9. delta3 \in Double /\ delta4 \in Double
  BY <1>7, <1>8, DoubleArithmetic
<1> HIDE DEF delta3, delta4
<1>10. m1 \in Double
  BY <1>2, AccumulatorFields, DoubleArithmetic
<1>11. m2 \in Double
  BY <1>2, <1>8, AccumulatorFields, DoubleArithmetic
<1>12. m3a \in Double
  BY <1>2, <1>4, <1>5, <1>9, DoubleArithmetic
<1>13. m3b \in Double
  <2>1. (na ** b.m2) -- (nb ** a.m2) \in Double
    BY <1>2, AccumulatorFields, DoubleArithmetic
  <2> QED
    BY <1>2, <1>6, <1>7, <2>1, DoubleArithmetic
<1>14. m4a \in Double
  BY <1>2, <1>4, <1>5, <1>9, DoubleArithmetic
<1>15. m4b \in Double
  <2>1. (naSq ** b.m2) ++ (nbSq ** a.m2) \in Double
    BY <1>4, AccumulatorFields, DoubleArithmetic
  <2> QED
    BY <1>5, <1>6, <1>8, <2>1, DoubleArithmetic
<1>16. m4c \in Double
  <2>1. (na ** b.m3) -- (nb ** a.m3) \in Double
    BY <1>2, AccumulatorFields, DoubleArithmetic
  <2> QED
    BY <1>2, <1>6, <1>7, <2>1, DoubleArithmetic
<1> HIDE DEF m3a, m3b, m4a, m4b, m4c
<1>17. m3 \in Double
  BY <1>12, <1>13, AccumulatorFields, DoubleArithmetic
<1>18. m4 \in Double
  BY <1>14, <1>15, <1>16, AccumulatorFields, DoubleArithmetic
<1>19. minVal \in Double
  BY AccumulatorFields DEF StdMin
<1>20. integer \in BOOLEAN
  OBVIOUS
<1>21. Combine(a, b) =
         [NewAccumulator EXCEPT !.n = n, !.m1 = m1, !.m2 = m2, !.m3 = m3, !.m4 = m4,
                                !.isIntegerDistribution = integer, !.minVal = minVal]
  BY DEF Combine, n, na, nb, difference, squares, naSq, nbSq, nn, nnn, delta, delta2,
         delta3, delta4, m3a, m3b, m4a, m4b, m4c
<1>22. m1 # Denormal /\ m2 # Denormal /\ m3 # Denormal /\ m4 # Denormal
  <2>1. /\ (a.m1 ** na) ++ (b.m1 ** nb) \in Double
        /\ a.m2 ++ b.m2 \in Double /\ ((delta2 ** na) ** nb) // Real(n) \in Double
        /\ (a.m3 ++ b.m3) ++ m3a \in Double
        /\ ((a.m4 ++ b.m4) ++ m4a) ++ m4b \in Double
    BY <1>2, <1>8, <1>12, <1>14, <1>15, AccumulatorFields, DoubleArithmetic
  <2> QED
    BY <1>2, <1>13, <1>16, <2>1, NeverDenormal
<1> HIDE DEF m1, m2, m3, m4, integer, minVal
<1>23. /\ Combine(a, b) \in Accumulator
       /\ Combine(a, b).m1 = m1 /\ Combine(a, b).m2 = m2
       /\ Combine(a, b).m3 = m3 /\ Combine(a, b).m4 = m4
  BY <1>1, <1>10, <1>11, <1>17, <1>18, <1>19, <1>20, <1>21, NewAccumulatorType DEF Accumulator
<1> QED
  BY <1>22, <1>23

LEMMA CombineType ==
    ASSUME NEW a \in Accumulator, NEW b \in Accumulator
    PROVE  Combine(a, b) \in Accumulator
BY CombineDoubles

LEMMA MergeCases ==
    ASSUME NEW a, NEW b
    PROVE  /\ Empty(b) => Merge(a, b) = [a EXCEPT !.numericalErrorWhileMerging = TRUE]
           /\ ~Empty(b) /\ Empty(a) =>
                Merge(a, b) = [b EXCEPT !.numericalErrorWhileMerging = TRUE]
           /\ ~Empty(b) /\ ~Empty(a) =>
                Merge(a, b) = IF valid(Combine(a, b)) THEN Combine(a, b)
                              ELSE [a EXCEPT !.numericalErrorWhileMerging = TRUE,
                                             !.minVal = Combine(a, b).minVal]
BY DEF Merge

LEMMA MergeType ==
    ASSUME NEW a \in Accumulator, NEW b \in Accumulator
    PROVE  Merge(a, b) \in Accumulator
<1>1. Combine(a, b) \in Accumulator /\ Combine(a, b).minVal \in Double
  BY CombineType, AccumulatorFields
<1>2. [a EXCEPT !.numericalErrorWhileMerging = TRUE] \in Accumulator
  BY DEF Accumulator
<1>3. [b EXCEPT !.numericalErrorWhileMerging = TRUE] \in Accumulator
  BY DEF Accumulator
<1>4. [a EXCEPT !.numericalErrorWhileMerging = TRUE, !.minVal = Combine(a, b).minVal]
        \in Accumulator
  BY <1>1 DEF Accumulator
<1> QED
  BY <1>1, <1>2, <1>3, <1>4, MergeCases

----------------------------------------------------------------------------
(* The loops over accumulators and over data                               *)

\* The running sums of operator+ over v[1], ..., v[n], from left to right.
MergeSums(v, n) ==
    LET sum[i \in 1..n] == IF i = 1 THEN v[1] ELSE Merge(sum[i - 1], v[i])
    IN  sum

LEMMA MergeSumsFacts ==
    ASSUME NEW n \in Nat \ {0}, NEW v \in [1..n -> Accumulator]
    PROVE  /\ MergeSums(v, n) \in [1..n -> Accumulator]
           /\ MergeSums(v, n)[1] = v[1]
           /\ \A i \in 2..n : MergeSums(v, n)[i] = Merge(MergeSums(v, n)[i - 1], v[i])
<1> DEFINE step == [i \in 2..n |-> [x \in Accumulator |-> Merge(x, v[i])]]
           Body(h) == [i \in 1..n |-> IF i = 1 THEN v[1] ELSE Merge(h[i - 1], v[i])]
           sum == CHOOSE h : h = Body(h)
<1>1. step \in [2..n -> [Accumulator -> Accumulator]]
  <2>1. ASSUME NEW i \in 2..n, NEW x \in Accumulator PROVE Merge(x, v[i]) \in Accumulator
    BY MergeType
  <2> QED
    BY <2>1
<1>2. \A i \in 2..n, x \in Accumulator : step[i][x] = Merge(x, v[i])
  OBVIOUS
<1> HIDE DEF step
<1>3. v[1] \in Accumulator
  OBVIOUS
<1>4. PICK f : SolutionFromOne(f, Accumulator, v[1], n, step)
  BY <1>1, <1>3, RecursionFromOne
<1>5. f \in [1..n -> Accumulator] /\ f[1] = v[1] /\ \A i \in 2..n : f[i] = step[i][f[i - 1]]
  BY <1>4 DEF SolutionFromOne
<1>6. ASSUME NEW i \in 2..n PROVE f[i] = Merge(f[i - 1], v[i])
  <2>1. f[i - 1] \in Accumulator
    BY <1>5
  <2> QED
    BY <1>2, <1>5, <2>1
<1>7. f = Body(f)
  <2>1. \A i \in 1..n : i # 1 => i \in 2..n
    OBVIOUS
  <2>2. \A i \in 1..n : f[i] = IF i = 1 THEN v[1] ELSE Merge(f[i - 1], v[i])
    BY <1>5, <1>6, <2>1
  <2>3. f = [i \in 1..n |-> f[i]]
    BY <1>5
  <2> QED
    BY <2>2, <2>3
<1>8. sum = Body(sum)
  <2> HIDE DEF Body
  <2> QED
    BY <1>7
<1>9. MergeSums(v, n) = sum
  BY DEF MergeSums
<1> HIDE DEF sum
<1>10. sum[1] = v[1]
  <2>1. 1 \in 1..n
    OBVIOUS
  <2> QED
    BY <1>8, <2>1
<1>11. \A i \in 2..n : sum[i] = Merge(sum[i - 1], v[i])
  <2>1. \A i \in 2..n : i \in 1..n /\ i # 1
    OBVIOUS
  <2> QED
    BY <1>8, <2>1
<1>12. sum \in [1..n -> Accumulator]
  <2> DEFINE G == {i \in 1..n : sum[i] \in Accumulator}
  <2>1. 1 \in G
    BY <1>3, <1>10
  <2>2. ASSUME NEW i \in 2..n, i - 1 \in G PROVE i \in G
    BY <2>2, <1>11, MergeType
  <2> HIDE DEF G
  <2>3. 1..n \subseteq G
    BY <2>1, <2>2, InductionFromOne
  <2>4. \A i \in 1..n : sum[i] \in Accumulator
    BY <2>3 DEF G
  <2>5. sum = [i \in 1..n |-> sum[i]]
    BY <1>8
  <2> HIDE DEF Body
  <2> QED
    BY <2>4, <2>5
<1> QED
  BY <1>9, <1>10, <1>11, <1>12

LEMMA asScalarSum == \A v : asScalar(v) = MergeSums(v, Lanes)[Lanes]
BY DEF asScalar, MergeSums

\* The accumulators of the kernel's loop, before and after each of the data.
KernelSums(stats, data) ==
    LET a[i \in 0..Len(data)] == IF i = 0 THEN Load(stats) ELSE KernelPush(a[i - 1], data[i])
    IN  a

LEMMA KernelSumsFacts ==
    ASSUME NEW stats, Load(stats) \in Accumulator, NEW data \in Seq(Double)
    PROVE  /\ KernelSums(stats, data) \in [0..Len(data) -> Accumulator]
           /\ KernelSums(stats, data)[0] = Load(stats)
           /\ \A i \in 1..Len(data) :
                KernelSums(stats, data)[i] = KernelPush(KernelSums(stats, data)[i - 1], data[i])
           /\ KernelLoop(stats, data) = KernelSums(stats, data)[Len(data)]
<1> DEFINE n == Len(data)
           step == [i \in 1..n |-> [x \in Accumulator |-> KernelPush(x, data[i])]]
           Body(h) == [i \in 0..Len(data) |->
                         IF i = 0 THEN Load(stats) ELSE KernelPush(h[i - 1], data[i])]
           sum == CHOOSE h : h = Body(h)
<1>0. n \in Nat /\ \A i \in 1..n : data[i] \in Double
  OBVIOUS
<1> HIDE DEF n
<1>1. step \in [1..n -> [Accumulator -> Accumulator]]
  <2>1. ASSUME NEW i \in 1..n, NEW x \in Accumulator PROVE KernelPush(x, data[i]) \in Accumulator
    BY <1>0, KernelPushType
  <2> QED
    BY <2>1
<1>2. \A i \in 1..n, x \in Accumulator : step[i][x] = KernelPush(x, data[i])
  OBVIOUS
<1> HIDE DEF step
<1>4. PICK f : Solution(f, Accumulator, Load(stats), n, step)
  BY <1>0, <1>1, Recursion
<1>5. /\ f \in [0..n -> Accumulator] /\ f[0] = Load(stats)
      /\ \A i \in 1..n : f[i] = step[i][f[i - 1]]
  BY <1>4 DEF Solution
<1>6. ASSUME NEW i \in 1..n PROVE f[i] = KernelPush(f[i - 1], data[i])
  <2>1. f[i - 1] \in Accumulator
    BY <1>0, <1>5
  <2> QED
    BY <1>2, <1>5, <2>1
<1>7. f = Body(f)
  <2>1. \A i \in 0..n : i # 0 => i \in 1..n
    BY <1>0
  <2>2. \A i \in 0..n : f[i] = IF i = 0 THEN Load(stats) ELSE KernelPush(f[i - 1], data[i])
    BY <1>5, <1>6, <2>1
  <2>3. f = [i \in 0..n |-> f[i]]
    BY <1>5
  <2> QED
    BY <2>2, <2>3 DEF n
<1>8. sum = Body(sum)
  <2> HIDE DEF Body
  <2> QED
    BY <1>7
<1>9. KernelSums(stats, data) = sum /\ KernelLoop(stats, data) = sum[n]
  BY DEF KernelSums, KernelLoop, n
<1> HIDE DEF sum
<1>10. sum[0] = Load(stats)
  <2>1. 0 \in 0..Len(data)
    BY <1>0 DEF n
  <2> QED
    BY <1>8, <2>1
<1>11. \A i \in 1..n : sum[i] = KernelPush(sum[i - 1], data[i])
  <2>1. \A i \in 1..n : i \in 0..Len(data) /\ i # 0
    BY <1>0 DEF n
  <2> QED
    BY <1>8, <2>1
<1>12. sum \in [0..n -> Accumulator]
  <2> DEFINE G == {i \in 0..n : sum[i] \in Accumulator}
  <2>1. 0 \in G
    BY <1>0, <1>10
  <2>2. ASSUME NEW i \in 1..n, i - 1 \in G PROVE i \in G
    <3>1. i \in 0..n /\ sum[i - 1] \in Accumulator
      BY <2>2, <1>0
    <3> QED
      BY <1>0, <1>11, <3>1, KernelPushType
  <2> HIDE DEF G
  <2>3. 0..n \subseteq G
    BY <1>0, <2>1, <2>2, Induction
  <2>4. \A i \in 0..n : sum[i] \in Accumulator
    BY <2>3 DEF G
  <2>5. sum = [i \in 0..n |-> sum[i]]
    BY <1>8 DEF n
  <2> HIDE DEF Body
  <2> QED
    BY <2>4, <2>5
<1> QED
  BY <1>9, <1>10, <1>11, <1>12 DEF n

\* What std::copy_if has copied of items after each of them.
Copied ==
    LET copied[i \in 0..Len(items)] ==
          IF i = 0 THEN <<>>
          ELSE IF valid(items[i]) THEN Append(copied[i - 1], items[i]) ELSE copied[i - 1]
    IN  copied

LEMMA CopiedFacts ==
    ASSUME items \in Seq(Accumulator)
    PROVE  /\ Copied \in [0..Len(items) -> Seq(Accumulator)]
           /\ Copied[0] = <<>>
           /\ \A i \in 1..Len(items) :
                Copied[i] = IF valid(items[i]) THEN Append(Copied[i - 1], items[i])
                                               ELSE Copied[i - 1]
           /\ ValidItems = Copied[Len(items)]
<1> DEFINE n == Len(items)
           More(x, i) == IF valid(items[i]) THEN Append(x, items[i]) ELSE x
           step == [i \in 1..n |-> [x \in Seq(Accumulator) |-> More(x, i)]]
           Body(h) == [i \in 0..Len(items) |->
                         IF i = 0 THEN <<>>
                         ELSE IF valid(items[i]) THEN Append(h[i - 1], items[i]) ELSE h[i - 1]]
           copied == CHOOSE h : h = Body(h)
<1>0. n \in Nat /\ \A i \in 1..n : items[i] \in Accumulator
  OBVIOUS
<1> HIDE DEF n
<1>s. \A x \in Seq(Accumulator), i \in 1..n : More(x, i) \in Seq(Accumulator)
  BY <1>0
<1>m. \A x, i : More(x, i) = IF valid(items[i]) THEN Append(x, items[i]) ELSE x
  OBVIOUS
<1> HIDE DEF More
<1>1. step \in [1..n -> [Seq(Accumulator) -> Seq(Accumulator)]]
  BY <1>s
<1>2. \A i \in 1..n, x \in Seq(Accumulator) : step[i][x] = More(x, i)
  OBVIOUS
<1> HIDE DEF step
<1>3. <<>> \in Seq(Accumulator)
  OBVIOUS
<1>4. PICK f : Solution(f, Seq(Accumulator), <<>>, n, step)
  BY <1>0, <1>1, <1>3, Recursion
<1>5. /\ f \in [0..n -> Seq(Accumulator)] /\ f[0] = <<>>
      /\ \A i \in 1..n : f[i] = step[i][f[i - 1]]
  BY <1>4 DEF Solution
<1>6. ASSUME NEW i \in 1..n PROVE f[i] = More(f[i - 1], i)
  <2>1. f[i - 1] \in Seq(Accumulator)
    BY <1>0, <1>5
  <2> QED
    BY <1>2, <1>5, <2>1
<1>7. f = Body(f)
  <2>1. \A i \in 0..n : i # 0 => i \in 1..n
    BY <1>0
  <2>2. \A i \in 0..n : f[i] = IF i = 0 THEN <<>> ELSE More(f[i - 1], i)
    BY <1>5, <1>6, <2>1
  <2>3. f = [i \in 0..n |-> f[i]]
    BY <1>5
  <2> QED
    BY <2>2, <2>3 DEF n, More
<1>8. copied = Body(copied)
  <2> HIDE DEF Body
  <2> QED
    BY <1>7
<1>9. Copied = copied /\ ValidItems = copied[n]
  BY DEF Copied, ValidItems, n
<1> HIDE DEF copied
<1>10. copied[0] = <<>>
  <2>1. 0 \in 0..Len(items)
    BY <1>0 DEF n
  <2> QED
    BY <1>8, <2>1
<1>11. \A i \in 1..n : copied[i] = More(copied[i - 1], i)
  <2>1. \A i \in 1..n : i \in 0..Len(items) /\ i # 0
    BY <1>0 DEF n
  <2> QED
    BY <1>8, <2>1 DEF More
<1>12. copied \in [0..n -> Seq(Accumulator)]
  <2> DEFINE G == {i \in 0..n : copied[i] \in Seq(Accumulator)}
  <2>1. 0 \in G
    <3>1. copied[0] \in Seq(Accumulator)
      BY <1>3, <1>10, Zenon
    <3> QED
      BY <1>0, <3>1
  <2>2. ASSUME NEW i \in 1..n, i - 1 \in G PROVE i \in G
    <3>1. i \in 0..n /\ copied[i - 1] \in Seq(Accumulator)
      BY <2>2, <1>0
    <3> QED
      BY <1>s, <1>11, <3>1
  <2> HIDE DEF G
  <2>3. 0..n \subseteq G
    BY <1>0, <2>1, <2>2, Induction
  <2>4. \A i \in 0..n : copied[i] \in Seq(Accumulator)
    BY <2>3 DEF G
  <2>5. copied = [i \in 0..n |-> copied[i]]
    BY <1>8 DEF n
  <2> HIDE DEF Body
  <2> QED
    BY <2>4, <2>5
<1>13. \A i \in 1..n : Copied[i] = IF valid(items[i]) THEN Append(Copied[i - 1], items[i])
                                                       ELSE Copied[i - 1]
  BY <1>9, <1>11, <1>m
<1> QED
  BY <1>9, <1>10, <1>12, <1>13 DEF n

----------------------------------------------------------------------------
(* Types                                                                   *)

\* What is pushed in one step to the accumulator of the device d, and to the
\* one being filled.
DatumOf(d) == IF d = "avx2" THEN [1..Lanes -> Double] ELSE Double

Datum == DatumOf(device)

\* How many doubles of the file such a step takes.
OpenWidth == WidthOf(device)

\* The accumulator being filled: a scalar one, a lane each, or the doubles of a
\* work item that stored one.
CurrentOK ==
    CASE device = "scalar" -> current \in Accumulator
      [] device = "avx2"   -> current \in [1..Lanes -> Accumulator]
      [] device = "opencl" -> \E a \in Accumulator : current = Store(a)

\* Types, and that a merge has something to merge.
TypeOK ==
    /\ device \in Kinds
    /\ read \in 0..MaxValues
    /\ pc \in {"fill", "start", "merge", "classify", "done"}
    /\ open \in Seq(Datum)
    /\ CurrentOK
    /\ items \in Seq(Accumulator)
    /\ kinds \in Seq(Kinds)
    /\ parts \in Seq(Seq(Double) \cup Seq([1..Lanes -> Double]))
    /\ Len(kinds) = Len(items) /\ Len(parts) = Len(items)
    /\ \A i \in 1..Len(items) : parts[i] \in Seq(DatumOf(kinds[i]))
    /\ pc # "fill" => items # <<>>
    /\ filtered \in Seq(Accumulator)
    /\ next \in Nat
    /\ pc = "merge" => filtered # <<>> /\ next \in 2..(Len(filtered) + 1)
    /\ result \in Accumulator

LEMMA LoadStore ==
    ASSUME NEW a \in Accumulator
    PROVE  /\ Load(Store(a)) = [a EXCEPT !.numericalErrorWhileMerging = FALSE]
           /\ Load(Store(a)) \in Accumulator
<1>1. Load(Store(a)) =
        [NewAccumulator EXCEPT
            !.n = a.n, !.m1 = a.m1, !.m2 = a.m2, !.m3 = a.m3, !.m4 = a.m4,
            !.isIntegerDistribution = Real(IF a.isIntegerDistribution THEN 1 ELSE 0) # Zero,
            !.minVal = a.minVal]
  BY DEF Load, Store, Real
<1> DEFINE c == Real(IF a.isIntegerDistribution THEN 1 ELSE 0) # Zero
<1>2. c = a.isIntegerDistribution
  BY AccumulatorFields DEF Real, Zero
<1> HIDE DEF c
<1>3. Load(Store(a)) =
        [NewAccumulator EXCEPT
            !.n = a.n, !.m1 = a.m1, !.m2 = a.m2, !.m3 = a.m3, !.m4 = a.m4,
            !.isIntegerDistribution = a.isIntegerDistribution, !.minVal = a.minVal]
  BY <1>1, <1>2 DEF c
<1>4. Load(Store(a)) = [a EXCEPT !.numericalErrorWhileMerging = FALSE]
  BY <1>3 DEF NewAccumulator, Accumulator
<1>5. [a EXCEPT !.numericalErrorWhileMerging = FALSE] \in Accumulator
  BY DEF Accumulator
<1> QED
  BY <1>4, <1>5

LEMMA asScalarType ==
    ASSUME NEW v \in [1..Lanes -> Accumulator]
    PROVE  asScalar(v) \in Accumulator
<1>1. Lanes \in Nat \ {0} /\ Lanes \in 1..Lanes
  BY LanesAssumption
<1>2. MergeSums(v, Lanes) \in [1..Lanes -> Accumulator]
  BY <1>1, MergeSumsFacts
<1> QED
  BY <1>1, <1>2, asScalarSum

LEMMA ItemType ==
    ASSUME CurrentOK, device \in Kinds
    PROVE  Item \in Accumulator
<1>1. CASE device = "scalar"
  BY <1>1 DEF CurrentOK, Item
<1>2. CASE device = "avx2"
  BY <1>2, asScalarType DEF CurrentOK, Item
<1>3. CASE device = "opencl"
  BY <1>3, LoadStore DEF CurrentOK, Item
<1> QED
  BY <1>1, <1>2, <1>3 DEF Kinds

LEMMA FreshType ==
    device \in Kinds /\ current = Fresh => CurrentOK
<1> SUFFICES ASSUME device \in Kinds, current = Fresh
             PROVE  CurrentOK
  OBVIOUS
<1>1. CASE device = "scalar"
  BY <1>1, NewAccumulatorType DEF CurrentOK, Fresh
<1>2. CASE device = "avx2"
  BY <1>2, NewAccumulatorType DEF CurrentOK, Fresh, NewVectorAccumulator
<1>3. CASE device = "opencl"
  <2>1. NewStats = Store(NewAccumulator)
    BY DEF NewStats, Store, NewAccumulator, Real, Zero
  <2> QED
    BY <1>3, <2>1, NewAccumulatorType DEF CurrentOK, Fresh
<1> QED
  BY <1>1, <1>2, <1>3 DEF Kinds

LEMMA ResultsConstants ==
    /\ Scale \in Nat \ {0} /\ MaxValues \in Nat \ {0} /\ MaxItems \in Nat \ {0}
    /\ Lanes \in Nat \ {0}
    /\ WordModulus \in Nat \ {0} /\ MaxValues < WordModulus
    /\ Values \subseteq Double
BY ResultsAssumption, LanesAssumption, WordAssumption

LEMMA TypeInit == Init => TypeOK
<1> SUFFICES ASSUME Init PROVE TypeOK
  OBVIOUS
<1>1. CurrentOK
  BY FreshType DEF Init
<1>2. /\ open \in Seq(Datum) /\ items \in Seq(Accumulator) /\ filtered \in Seq(Accumulator)
      /\ parts \in Seq(Seq(Double) \cup Seq([1..Lanes -> Double])) /\ kinds \in Seq(Kinds)
      /\ Len(parts) = Len(items) /\ Len(kinds) = Len(items) /\ Len(items) = 0
  BY DEF Init
<1> QED
  BY <1>1, <1>2, ResultsConstants, NewAccumulatorType DEF Init, TypeOK

LEMMA TypeNext == TypeOK /\ [Next]_vars => TypeOK'
<1> SUFFICES ASSUME TypeOK, [Next]_vars PROVE TypeOK'
  OBVIOUS
<1> USE ResultsConstants
<1>1. CASE Push
  <2>1. PICK x \in Values : open' = Append(open, x) /\ current' = push(current, x)
    BY <1>1 DEF Push
  <2>2. x \in Double /\ Datum = Double /\ Datum' = Double
    BY <1>1 DEF Push, Datum, DatumOf
  <2>3. open' \in Seq(Datum)'
    BY <2>1, <2>2 DEF TypeOK
  <2>4. current \in Accumulator
    BY <1>1 DEF TypeOK, CurrentOK, Push
  <2>5. CurrentOK'
    BY <1>1, <2>1, <2>2, <2>4, pushType DEF Push, CurrentOK
  <2>6. read' \in 0..MaxValues
    BY <1>1 DEF TypeOK, Push, Read
  <2> QED
    BY <1>1, <2>2, <2>3, <2>5, <2>6 DEF TypeOK, Push, merging
<1>2. CASE PushVector
  <2>1. PICK x \in [1..Lanes -> Values] :
          open' = Append(open, x) /\ current' = pushWithFiltering(current, x)
    BY <1>2 DEF PushVector
  <2>2. x \in [1..Lanes -> Double] /\ Datum = [1..Lanes -> Double] /\ Datum' = Datum
    BY <1>2 DEF PushVector, Datum, DatumOf
  <2>3. open' \in Seq(Datum)'
    BY <2>1, <2>2 DEF TypeOK
  <2>4. current \in [1..Lanes -> Accumulator]
    BY <1>2 DEF TypeOK, CurrentOK, PushVector
  <2>5. \A i \in 1..Lanes : PushLane(current[i], x[i]) \in Accumulator
    BY <2>2, <2>4, PushLaneType
  <2>6. current' \in [1..Lanes -> Accumulator]
    BY <2>1, <2>5 DEF pushWithFiltering
  <2>7. CurrentOK'
    BY <1>2, <2>6 DEF PushVector, CurrentOK
  <2>8. read' \in 0..MaxValues
    BY <1>2 DEF TypeOK, PushVector, Read
  <2> QED
    BY <1>2, <2>2, <2>3, <2>7, <2>8 DEF TypeOK, PushVector, merging
<1>3. CASE RunKernel
  <2>1. PICK k \in 1..MaxValues : Read(k) /\ \E x \in [1..k -> Values] :
          open' = open \o x /\ current' = computeStats(current, x)
    BY <1>3 DEF RunKernel
  <2>2. PICK x \in [1..k -> Values] : open' = open \o x /\ current' = computeStats(current, x)
    BY <2>1
  <2>x. k \in Nat /\ x \in [1..k -> Double]
    OBVIOUS
  <2>3. x \in Seq(Double) /\ Datum = Double /\ Datum' = Double
    BY <1>3, <2>x DEF RunKernel, Datum, DatumOf
  <2>4. open' \in Seq(Datum)'
    BY <2>2, <2>3 DEF TypeOK
  <2>5. PICK a \in Accumulator : current = Store(a)
    BY <1>3 DEF RunKernel, TypeOK, CurrentOK
  <2>6. Load(current) \in Accumulator
    BY <2>5, LoadStore
  <2>7. Len(x) \in Nat /\ Len(x) \in 0..Len(x)
    BY <2>3
  <2>8. KernelLoop(current, x) \in Accumulator
    BY <2>3, <2>6, <2>7, KernelSumsFacts
  <2>9. CurrentOK'
    BY <1>3, <2>2, <2>8 DEF RunKernel, CurrentOK, computeStats
  <2>10. read' \in 0..MaxValues
    BY <2>1 DEF TypeOK, Read
  <2> QED
    BY <1>3, <2>3, <2>4, <2>9, <2>10 DEF TypeOK, RunKernel, merging
<1>4. CASE Close
  <2>1. Item \in Accumulator
    BY ItemType DEF TypeOK
  <2>2. items' \in Seq(Accumulator) /\ Len(items') = Len(items) + 1
    BY <1>4, <2>1 DEF TypeOK, Close
  <2>3. parts' \in Seq(Seq(Double) \cup Seq([1..Lanes -> Double])) /\ Len(parts') = Len(parts) + 1
    <3>1. open \in Seq(Double) \cup Seq([1..Lanes -> Double])
      BY DEF TypeOK, Datum, DatumOf
    <3> QED
      BY <1>4, <3>1 DEF TypeOK, Close
  <2>4. kinds' \in Seq(Kinds) /\ Len(kinds') = Len(kinds) + 1
    BY <1>4 DEF TypeOK, Close
  <2>5. ASSUME NEW i \in 1..Len(items') PROVE parts'[i] \in Seq(DatumOf(kinds'[i]))
    <3>1. CASE i = Len(items) + 1
      <4>1. parts'[i] = open /\ kinds'[i] = device
        BY <1>4, <3>1 DEF TypeOK, Close
      <4> QED
        BY <4>1 DEF TypeOK, Datum, DatumOf
    <3>2. CASE i # Len(items) + 1
      <4>1. i \in 1..Len(items)
        BY <2>2, <3>2 DEF TypeOK
      <4>2. parts'[i] = parts[i] /\ kinds'[i] = kinds[i]
        BY <1>4, <4>1 DEF TypeOK, Close
      <4> QED
        BY <4>1, <4>2 DEF TypeOK
    <3> QED
      BY <3>1, <3>2
  <2>6. device' \in Kinds
    BY <1>4 DEF TypeOK, Close
  <2>7. CurrentOK'
    <3>1. (device \in Kinds /\ current = Fresh => CurrentOK)'
      BY FreshType, PTL
    <3> QED
      BY <1>4, <2>6, <3>1 DEF Close
  <2>8. open' \in Seq(Datum)'
    BY <1>4 DEF Close
  <2> QED
    BY <1>4, <2>2, <2>3, <2>4, <2>5, <2>6, <2>7, <2>8 DEF TypeOK, Close, merging
<1>5. CASE Return
  BY <1>5 DEF TypeOK, Return, merging, Datum, CurrentOK
<1>6. CASE StartMerge
  <2>1. ValidItems \in Seq(Accumulator)
    <3>1. items \in Seq(Accumulator) /\ Len(items) \in 0..Len(items)
      BY DEF TypeOK
    <3> QED
      BY <3>1, CopiedFacts
  <2>2. items # <<>> /\ items[1] \in Accumulator
    BY <1>6 DEF TypeOK, StartMerge
  <2>3. filtered' # <<>> => 2 \in 2..(Len(filtered') + 1)
    BY <1>6, <2>1 DEF StartMerge
  <2>4. Datum' = Datum /\ CurrentOK'
    BY <1>6 DEF TypeOK, StartMerge, Datum, CurrentOK
  <2> QED
    BY <1>6, <2>1, <2>2, <2>3, <2>4 DEF TypeOK, StartMerge
<1>7. CASE MergeStep
  <2>1. next \in 2..Len(filtered) /\ filtered[next] \in Accumulator /\ 1 \in 1..Len(filtered)
    BY <1>7 DEF TypeOK, MergeStep
  <2>2. Merge(filtered[1], filtered[next]) \in Accumulator
    BY <2>1, MergeType DEF TypeOK
  <2>3. filtered' \in Seq(Accumulator) /\ Len(filtered') = Len(filtered) /\ filtered' # <<>>
    BY <1>7, <2>1, <2>2 DEF TypeOK, MergeStep
  <2>4. next' \in 2..(Len(filtered') + 1)
    BY <1>7, <2>1, <2>3 DEF TypeOK, MergeStep
  <2>5. Datum' = Datum /\ CurrentOK'
    BY <1>7 DEF TypeOK, MergeStep, Datum, CurrentOK
  <2> QED
    BY <1>7, <2>3, <2>4, <2>5 DEF TypeOK, MergeStep
<1>8. CASE MergeEnd
  <2>1. filtered[1] \in Accumulator
    BY <1>8 DEF TypeOK, MergeEnd
  <2>2. Datum' = Datum /\ CurrentOK'
    BY <1>8 DEF TypeOK, MergeEnd, Datum, CurrentOK
  <2> QED
    BY <1>8, <2>1, <2>2 DEF TypeOK, MergeEnd
<1>9. CASE Classify
  <2>1. Datum' = Datum /\ CurrentOK'
    BY <1>9 DEF TypeOK, Classify, Datum, CurrentOK
  <2> QED
    BY <1>9, <2>1 DEF TypeOK, Classify, merging
<1>10. CASE UNCHANGED vars
  BY <1>10 DEF TypeOK, vars, merging, Datum, CurrentOK
<1> QED
  BY <1>1, <1>2, <1>3, <1>4, <1>5, <1>6, <1>7, <1>8, <1>9, <1>10 DEF Next

----------------------------------------------------------------------------
(* The report is made twice                                                *)

\* What mergeLeftToRight returns, as a function of the items alone.
Expected ==
    IF ValidItems = <<>> THEN items[1]
    ELSE MergeSums(ValidItems, Len(ValidItems))[Len(ValidItems)]

Report == classifyDistribution(Expected)

\* The merge works on a copy of the valid items, whose first one holds the
\* sum of those before next; so both merges return what is Expected.
MergeInv ==
    /\ pc = "merge" =>
         /\ ValidItems # <<>>
         /\ filtered = [ValidItems EXCEPT ![1] = MergeSums(ValidItems, Len(ValidItems))[next - 1]]
    /\ pc = "classify" => result = Expected
    /\ pc = "fill" => reports = <<>>
    /\ IF pc = "done" THEN reports = <<Report, Report>> ELSE reports \in {<<>>, <<Report>>}

Inv == TypeOK /\ MergeInv

LEMMA ItemsKept ==
    ASSUME items' = items
    PROVE  ValidItems' = ValidItems /\ Expected' = Expected /\ Report' = Report
<1>1. ValidItems' = ValidItems
  BY DEF ValidItems
<1>2. Expected' = Expected
  BY <1>1 DEF Expected
<1> QED
  BY <1>1, <1>2 DEF Report

LEMMA ValidItemsType ==
    ASSUME TypeOK
    PROVE  ValidItems \in Seq(Accumulator)
<1>1. items \in Seq(Accumulator) /\ Len(items) \in 0..Len(items)
  BY DEF TypeOK
<1> QED
  BY <1>1, CopiedFacts

LEMMA MergeInit == Init => MergeInv
BY DEF Init, MergeInv

LEMMA MergeNext == TypeOK /\ TypeOK' /\ MergeInv /\ [Next]_vars => MergeInv'
<1> SUFFICES ASSUME TypeOK, TypeOK', MergeInv, [Next]_vars PROVE MergeInv'
  OBVIOUS
<1>1. CASE Push \/ PushVector \/ RunKernel \/ Close
  BY <1>1 DEF Push, PushVector, RunKernel, Close, MergeInv
<1>2. CASE Return
  <2>1. pc' = "start" /\ reports' = <<>>
    BY <1>2 DEF Return, MergeInv
  <2> QED
    BY <2>1 DEF MergeInv
<1> DEFINE v == ValidItems
           n == Len(ValidItems)
           sum == MergeSums(v, n)
<1>v. v \in Seq(Accumulator) /\ n \in Nat
  BY ValidItemsType
<1>s. ASSUME v # <<>>
      PROVE  /\ n \in Nat \ {0} /\ v \in [1..n -> Accumulator]
             /\ sum \in [1..n -> Accumulator] /\ sum[1] = v[1]
             /\ \A i \in 2..n : sum[i] = Merge(sum[i - 1], v[i])
  <2>1. n \in Nat \ {0} /\ v \in [1..n -> Accumulator]
    BY <1>v, <1>s
  <2> HIDE DEF v, n
  <2> QED
    BY <2>1, MergeSumsFacts
<1>3. CASE StartMerge
  <2>1. items' = items /\ reports' = reports /\ reports \in {<<>>, <<Report>>}
    BY <1>3 DEF StartMerge, MergeInv
  <2>2. ValidItems' = v /\ Expected' = Expected /\ Report' = Report
    BY <2>1, ItemsKept
  <2>3. CASE v = <<>>
    <3>1. pc' = "classify" /\ result' = Expected
      BY <1>3, <2>3 DEF StartMerge, Expected
    <3> QED
      BY <3>1, <2>1, <2>2 DEF MergeInv
  <2>4. CASE v # <<>>
    <3>1. pc' = "merge" /\ next' = 2 /\ filtered' = v
      BY <1>3, <2>4 DEF StartMerge
    <3>2. v = [v EXCEPT ![1] = sum[2 - 1]]
      BY <1>s, <2>4
    <3> QED
      BY <2>1, <2>2, <2>4, <3>1, <3>2 DEF MergeInv
  <2> QED
    BY <2>3, <2>4
<1>4. CASE MergeStep
  <2>1. /\ items' = items /\ reports' = reports /\ reports \in {<<>>, <<Report>>}
        /\ pc' = "merge" /\ pc = "merge" /\ next' = next + 1
        /\ filtered' = [filtered EXCEPT ![1] = Merge(filtered[1], filtered[next])]
    BY <1>4 DEF MergeStep, MergeInv
  <2>2. ValidItems' = v /\ Expected' = Expected /\ Report' = Report
    BY <2>1, ItemsKept
  <2>3. v # <<>> /\ filtered = [v EXCEPT ![1] = sum[next - 1]]
    BY <2>1 DEF MergeInv
  <2> HIDE DEF sum, v
  <2>4. next \in 2..n
    BY <1>4, <1>s, <2>1, <2>3 DEF TypeOK, MergeStep, v
  <2>5. filtered[1] = sum[next - 1] /\ filtered[next] = v[next]
    BY <1>s, <2>3, <2>4
  <2>6. Merge(filtered[1], filtered[next]) = sum[next]
    BY <1>s, <2>3, <2>4, <2>5
  <2>7. filtered' = [v EXCEPT ![1] = sum[next' - 1]]
    <3>1. \A x, y : [[v EXCEPT ![1] = x] EXCEPT ![1] = y] = [v EXCEPT ![1] = y]
      BY <1>s, <2>3
    <3>2. filtered' = [v EXCEPT ![1] = sum[next]]
      BY <2>1, <2>3, <2>6, <3>1, Zenon
    <3>3. next' - 1 = next
      BY <2>1, <2>4
    <3> QED
      BY <3>2, <3>3
  <2> QED
    BY <2>1, <2>2, <2>3, <2>7 DEF MergeInv, sum, v
<1>5. CASE MergeEnd
  <2>1. /\ items' = items /\ reports' = reports /\ reports \in {<<>>, <<Report>>}
        /\ pc' = "classify" /\ pc = "merge" /\ result' = filtered[1] /\ next > Len(filtered)
    BY <1>5 DEF MergeEnd, MergeInv
  <2>2. ValidItems' = v /\ Expected' = Expected /\ Report' = Report
    BY <2>1, ItemsKept
  <2>3. v # <<>> /\ filtered = [v EXCEPT ![1] = sum[next - 1]]
    BY <2>1 DEF MergeInv
  <2> HIDE DEF sum, v
  <2>4. next = n + 1
    <3>1. Len(filtered) = n /\ next \in 2..(Len(filtered) + 1)
      BY <1>s, <2>1, <2>3 DEF TypeOK, v
    <3> QED
      BY <1>v, <2>1, <3>1
  <2>5. filtered[1] = sum[n]
    BY <1>s, <2>3, <2>4
  <2>6. result' = Expected
    BY <2>1, <2>3, <2>5 DEF Expected, v, sum
  <2> QED
    BY <2>1, <2>2, <2>6 DEF MergeInv
<1>6. CASE Classify
  <2>1. /\ items' = items /\ pc = "classify" /\ result = Expected
        /\ reports' = Append(reports, classifyDistribution(result))
        /\ pc' = IF Len(reports') = 2 THEN "done" ELSE "start"
        /\ reports \in {<<>>, <<Report>>}
    BY <1>6 DEF Classify, MergeInv
  <2>2. Expected' = Expected /\ Report' = Report
    BY <2>1, ItemsKept
  <2>3. reports' = Append(reports, Report)
    BY <2>1 DEF Report
  <2>4. CASE reports = <<>>
    <3>1. reports' = <<Report>> /\ Len(reports') = 1
      BY <2>3, <2>4
    <3> QED
      BY <2>1, <2>2, <3>1 DEF MergeInv
  <2>5. CASE reports = <<Report>>
    <3>a. ASSUME NEW r PROVE Append(<<r>>, r) = <<r, r>> /\ Len(<<r, r>>) = 2
      <4>1. <<r>> \in Seq({r}) /\ Len(<<r>>) = 1 /\ <<r>>[1] = r
        OBVIOUS
      <4>2. /\ Append(<<r>>, r) \in Seq({r}) /\ Len(Append(<<r>>, r)) = 2
            /\ Append(<<r>>, r)[1] = r /\ Append(<<r>>, r)[2] = r
        BY <4>1
      <4>3. <<r, r>> \in Seq({r}) /\ Len(<<r, r>>) = 2 /\ <<r, r>>[1] = r /\ <<r, r>>[2] = r
        OBVIOUS
      <4>4. \A s \in Seq({r}) : s = [i \in 1..Len(s) |-> s[i]]
        OBVIOUS
      <4>5. [i \in 1..2 |-> Append(<<r>>, r)[i]] = [i \in 1..2 |-> <<r, r>>[i]]
        BY <4>2, <4>3
      <4> QED
        BY <4>2, <4>3, <4>4, <4>5
    <3>1. reports' = <<Report, Report>> /\ Len(reports') = 2
      BY <3>a, <2>3, <2>5, Zenon
    <3> QED
      BY <2>1, <2>2, <3>1 DEF MergeInv
  <2> QED
    BY <2>1, <2>4, <2>5
<1>7. CASE UNCHANGED vars
  <2>1. ValidItems' = ValidItems /\ Expected' = Expected /\ Report' = Report
    BY <1>7, ItemsKept DEF vars
  <2> QED
    BY <1>7, <2>1 DEF vars, merging, MergeInv
<1> QED
  BY <1>1, <1>2, <1>3, <1>4, <1>5, <1>6, <1>7 DEF Next

LEMMA Invariance == Spec => []Inv
<1>1. Init => Inv
  BY TypeInit, MergeInit DEF Inv
<1>2. Inv /\ [Next]_vars => Inv'
  BY TypeNext, MergeNext DEF Inv
<1> QED
  BY <1>1, <1>2, PTL DEF Spec

\* Whatever overflows in push, operator+ or the kernel, accumulators stay
\* accumulators, what mergeLeftToRight calls the first of its copy exists, and
\* its counter never passes the end by more than one.
THEOREM TypeCorrect == Spec => []TypeOK
<1>1. Inv => TypeOK
  BY DEF Inv
<1> QED
  BY <1>1, Invariance, PTL

\* The console and the output file show the same results, although the second
\* merge is made of items the first one has gone through (main.cpp).
THEOREM SameReports == Spec => []SameReportTwice
<1>1. Inv => SameReportTwice
  BY DEF Inv, MergeInv, SameReportTwice
<1> QED
  BY <1>1, Invariance, PTL

----------------------------------------------------------------------------
(* Counts                                                                  *)

LEMMA PushCounts ==
    ASSUME NEW a \in Accumulator, NEW x \in Double
    PROVE  /\ push(a, x).n <= a.n + 1
           /\ KernelPush(a, x).n <= a.n + 1
           /\ PushLane(a, x).n <= a.n + 1
<1>1. a.n \in Nat /\ Word(a.n + 1) \in Nat
  BY AccumulatorFields, Words
<1>2. Word(a.n + 1) <= a.n + 1
  BY <1>1, Words
<1>3. push(a, x).n \in {a.n, Word(a.n + 1)}
  BY DEF push, Accumulator
<1>4. KernelPush(a, x).n \in {a.n, push(a, x).n}
  BY pushType DEF KernelPush, Accumulator
<1>5. PushLane(a, x).n = a.n + IF valuesValid(x) THEN 1 ELSE 0
  BY DEF PushLane, Accumulator
<1> QED
  BY <1>1, <1>2, <1>3, <1>4, <1>5

\* A sum has no more values than its operands together, and stays usable.
LEMMA MergeCounts ==
    ASSUME NEW a \in Accumulator, NEW b \in Accumulator
    PROVE  /\ Merge(a, b).n <= a.n + b.n
           /\ valid(a) /\ valid(b) => valid(Merge(a, b))
           /\ /\ valid(a) /\ valid(b) /\ a.n + b.n < WordModulus
              /\ a.n > 0 \/ b.n > 0
              => Merge(a, b).n > 0
<1>1. a.n \in Nat /\ b.n \in Nat
  BY AccumulatorFields
<1>2. Word(a.n + b.n) \in Nat /\ Word(a.n + b.n) <= a.n + b.n
  BY <1>1, Words
<1>3. a.n + b.n < WordModulus => Word(a.n + b.n) = a.n + b.n
  BY <1>1, Words
<1>4. Combine(a, b).n = Word(a.n + b.n)
  BY DEF Combine, NewAccumulator
<1> DEFINE keptA == [a EXCEPT !.numericalErrorWhileMerging = TRUE]
           keptB == [b EXCEPT !.numericalErrorWhileMerging = TRUE]
           dropped == [a EXCEPT !.numericalErrorWhileMerging = TRUE,
                                !.minVal = Combine(a, b).minVal]
<1>5. /\ keptA.n = a.n /\ (valid(a) => valid(keptA))
      /\ keptB.n = b.n /\ (valid(b) => valid(keptB))
      /\ dropped.n = a.n /\ (valid(a) => valid(dropped))
  BY DEF Accumulator, valid
<1>6. /\ Empty(b) => Merge(a, b) = keptA
      /\ ~Empty(b) /\ Empty(a) => Merge(a, b) = keptB
      /\ ~Empty(b) /\ ~Empty(a) =>
           Merge(a, b) = IF valid(Combine(a, b)) THEN Combine(a, b) ELSE dropped
  BY MergeCases
<1> HIDE DEF keptA, keptB, dropped
<1>7. CASE Empty(b)
  <2>1. valid(b) => b.n = 0
    BY <1>7 DEF Empty
  <2> QED
    BY <1>1, <1>5, <1>6, <1>7, <2>1
<1>8. CASE ~Empty(b) /\ Empty(a)
  <2>1. valid(a) => a.n = 0
    BY <1>8 DEF Empty
  <2> QED
    BY <1>1, <1>5, <1>6, <1>8, <2>1
<1>9. CASE ~Empty(b) /\ ~Empty(a)
  <2>1. a.n > 0
    BY <1>1, <1>9 DEF Empty
  <2> QED
    BY <1>1, <1>2, <1>3, <1>4, <1>5, <1>6, <1>9, <2>1
<1> QED
  BY <1>7, <1>8, <1>9

\* t[i] counts the values of the first i accumulators of s.
Counts(t, s) ==
    /\ t \in [0..Len(s) -> Nat]
    /\ t[0] = 0
    /\ \A i \in 1..Len(s) : t[i] = t[i - 1] + s[i].n

LEMMA CountsGrow ==
    ASSUME NEW s \in Seq(Accumulator), NEW t, Counts(t, s)
    PROVE  \A i \in 0..Len(s) : t[i] <= t[Len(s)]
<1> DEFINE G == {k \in 0..Len(s) : \A i \in 0..k : t[i] <= t[k]}
<1>1. Len(s) \in Nat /\ \A i \in 1..Len(s) : s[i].n \in Nat
  BY AccumulatorFields
<1>2. 0 \in G
  BY <1>1 DEF Counts
<1>3. ASSUME NEW k \in 1..Len(s), k - 1 \in G PROVE k \in G
  <2>1. t[k] = t[k - 1] + s[k].n /\ t[k] \in Nat /\ t[k - 1] \in Nat
    BY <1>1 DEF Counts
  <2>2. \A i \in 0..(k - 1) : t[i] <= t[k - 1] /\ t[i] \in Nat
    <3>1. \A i \in 0..(k - 1) : t[i] <= t[k - 1]
      BY <1>3
    <3>2. \A i \in 0..(k - 1) : t[i] \in Nat
      BY <1>1 DEF Counts
    <3> QED
      BY <3>1, <3>2
  <2>3. \A i \in 0..k : i = k \/ i \in 0..(k - 1)
    BY <1>1
  <2>4. \A i \in 0..k : t[i] <= t[k]
    BY <1>1, <2>1, <2>2, <2>3
  <2> QED
    BY <1>1, <2>4
<1> HIDE DEF G
<1>4. 0..Len(s) \subseteq G
  BY <1>1, <1>2, <1>3, Induction
<1> QED
  BY <1>1, <1>4 DEF G

LEMMA CountsAppend ==
    ASSUME NEW s \in Seq(Accumulator), NEW a \in Accumulator, NEW t, Counts(t, s)
    PROVE  \E u : /\ Counts(u, Append(s, a))
                  /\ u[Len(Append(s, a))] = t[Len(s)] + a.n
<1> DEFINE n == Len(s)
           z == Append(s, a)
           u == [i \in 0..(n + 1) |-> IF i = n + 1 THEN t[n] + a.n ELSE t[i]]
<1>1. n \in Nat /\ Len(z) = n + 1 /\ z[n + 1] = a /\ \A i \in 1..n : z[i] = s[i]
  OBVIOUS
<1>2. a.n \in Nat /\ \A i \in 0..n : t[i] \in Nat
  BY AccumulatorFields DEF Counts
<1>3. t[0] = 0 /\ \A i \in 1..n : t[i] = t[i - 1] + s[i].n
  BY DEF Counts
<1> HIDE DEF n, z
<1>4. \A i \in 0..(n + 1) : i = n + 1 \/ i \in 0..n
  BY <1>1
<1>5. u \in [0..(n + 1) -> Nat]
  BY <1>1, <1>2, <1>4
<1>6. u[n + 1] = t[n] + a.n /\ \A i \in 0..n : u[i] = t[i]
  BY <1>1
<1> HIDE DEF u
<1>7. u[0] = 0
  BY <1>1, <1>3, <1>6
<1>8. ASSUME NEW i \in 1..(n + 1) PROVE u[i] = u[i - 1] + z[i].n
  <2>1. CASE i = n + 1
    <3>1. i - 1 = n /\ n \in 0..n
      BY <1>1, <2>1
    <3> QED
      BY <1>1, <1>6, <2>1, <3>1
  <2>2. CASE i # n + 1
    <3>1. i \in 1..n /\ i \in 0..n /\ i - 1 \in 0..n
      BY <1>1, <2>2
    <3> QED
      BY <1>1, <1>3, <1>6, <3>1
  <2> QED
    BY <2>1, <2>2
<1>9. Counts(u, z)
  BY <1>1, <1>5, <1>7, <1>8 DEF Counts
<1> QED
  BY <1>1, <1>6, <1>9 DEF n, z

\* The sums have no more values than what is summed.
LEMMA SumCount ==
    ASSUME NEW n \in Nat \ {0}, NEW v \in [1..n -> Accumulator], NEW u \in [1..n -> Nat],
           v[1].n <= u[1],
           \A i \in 2..n : u[i - 1] + v[i].n <= u[i]
    PROVE  \A i \in 1..n : MergeSums(v, n)[i].n <= u[i]
<1> DEFINE sum == MergeSums(v, n)
           G == {i \in 1..n : sum[i].n <= u[i]}
<1>1. /\ sum \in [1..n -> Accumulator] /\ sum[1] = v[1]
      /\ \A i \in 2..n : sum[i] = Merge(sum[i - 1], v[i])
  BY MergeSumsFacts
<1> HIDE DEF sum
<1>2. 1 \in G
  BY <1>1
<1>3. ASSUME NEW i \in 2..n, i - 1 \in G PROVE i \in G
  <2>1. i - 1 \in 1..n /\ i \in 1..n /\ sum[i - 1].n <= u[i - 1] /\ u[i - 1] + v[i].n <= u[i]
    BY <1>3
  <2>2. sum[i - 1] \in Accumulator /\ v[i] \in Accumulator /\ sum[i] \in Accumulator
    BY <1>1, <2>1
  <2>3. sum[i - 1].n \in Nat /\ v[i].n \in Nat /\ sum[i].n \in Nat /\ u[i - 1] \in Nat /\ u[i] \in Nat
    BY <2>1, <2>2, AccumulatorFields
  <2>4. sum[i].n <= sum[i - 1].n + v[i].n
    BY <1>1, <2>1, <2>2, MergeCounts
  <2>5. sum[i].n <= u[i]
    BY <2>1, <2>3, <2>4
  <2> QED
    BY <2>1, <2>5
<1> HIDE DEF G
<1>4. 1..n \subseteq G
  BY <1>2, <1>3, InductionFromOne
<1> QED
  BY <1>4 DEF G, sum

\* The valid items are those of the items, and have no more values.
LEMMA ValidItemsContents ==
    ASSUME items \in Seq(Accumulator), NEW t, Counts(t, items)
    PROVE  /\ ValidItems \in Seq(Accumulator)
           /\ \A j \in 1..Len(ValidItems) :
                \E k \in 1..Len(items) : valid(items[k]) /\ ValidItems[j] = items[k]
           /\ \A k \in 1..Len(items) :
                valid(items[k]) => \E j \in 1..Len(ValidItems) : ValidItems[j] = items[k]
           /\ \E u : Counts(u, ValidItems) /\ u[Len(ValidItems)] <= t[Len(items)]
<1> DEFINE n == Len(items)
           From(s, i) == \A j \in 1..Len(s) : \E k \in 1..i : valid(items[k]) /\ s[j] = items[k]
           Holds(s, i) == \A k \in 1..i : valid(items[k]) => \E j \in 1..Len(s) : s[j] = items[k]
           Bounded(s, i) == \E u : Counts(u, s) /\ u[Len(s)] <= t[i]
           Good(s, i) == From(s, i) /\ Holds(s, i) /\ Bounded(s, i)
           G == {i \in 0..n : Good(Copied[i], i)}
<1>1. /\ n \in Nat /\ \A i \in 1..n : items[i] \in Accumulator
      /\ t \in [0..n -> Nat] /\ t[0] = 0 /\ \A i \in 1..n : t[i] = t[i - 1] + items[i].n
  BY DEF Counts
<1>2. /\ Copied \in [0..n -> Seq(Accumulator)]
      /\ Copied[0] = <<>>
      /\ \A i \in 1..n : Copied[i] = IF valid(items[i]) THEN Append(Copied[i - 1], items[i])
                                                        ELSE Copied[i - 1]
      /\ ValidItems = Copied[n]
  BY CopiedFacts
<1> HIDE DEF n
<1>3. Good(<<>>, 0)
  <2>1. Counts([i \in 0..0 |-> 0], <<>>)
    BY DEF Counts
  <2>2. Bounded(<<>>, 0)
    <3>1. [i \in 0..0 |-> 0][Len(<<>>)] <= t[0]
      BY <1>1
    <3> QED
      BY <2>1, <3>1
  <2> QED
    BY <2>2
<1>4. ASSUME NEW i \in 1..n, NEW s \in Seq(Accumulator), Good(s, i - 1), valid(items[i])
      PROVE  Good(Append(s, items[i]), i)
  <2> DEFINE z == Append(s, items[i])
  <2>1. /\ items[i] \in Accumulator /\ i \in Nat
        /\ \A k \in 1..(i - 1) : k \in 1..i
        /\ \A k \in 1..i : k = i \/ k \in 1..(i - 1)
        /\ i \in 1..i
    BY <1>1
  <2>2. /\ Len(s) \in Nat /\ Len(z) = Len(s) + 1 /\ z[Len(s) + 1] = items[i]
        /\ \A j \in 1..Len(s) : z[j] = s[j]
    BY <2>1
  <2> HIDE DEF z
  <2>3. From(z, i)
    <3>1. ASSUME NEW j \in 1..Len(z)
          PROVE  \E k \in 1..i : valid(items[k]) /\ z[j] = items[k]
      <4>1. CASE j = Len(s) + 1
        BY <1>4, <2>1, <2>2, <4>1
      <4>2. CASE j \in 1..Len(s)
        <5>1. PICK k \in 1..(i - 1) : valid(items[k]) /\ s[j] = items[k]
          BY <1>4, <4>2
        <5> QED
          BY <2>1, <2>2, <4>2, <5>1
      <4> QED
        BY <2>2, <4>1, <4>2
    <3> QED
      BY <3>1
  <2>4. Holds(z, i)
    <3>1. ASSUME NEW k \in 1..i, valid(items[k])
          PROVE  \E j \in 1..Len(z) : z[j] = items[k]
      <4>1. CASE k = i
        <5>1. Len(s) + 1 \in 1..Len(z)
          BY <2>2
        <5> QED
          BY <2>2, <4>1, <5>1
      <4>2. CASE k \in 1..(i - 1)
        <5>1. PICK j \in 1..Len(s) : s[j] = items[k]
          BY <1>4, <3>1, <4>2
        <5>2. j \in 1..Len(z) /\ z[j] = items[k]
          BY <2>2, <5>1
        <5> QED
          BY <5>2
      <4> QED
        BY <2>1, <4>1, <4>2
    <3> QED
      BY <3>1
  <2>5. Bounded(z, i)
    <3>1. PICK u : Counts(u, s) /\ u[Len(s)] <= t[i - 1]
      BY <1>4
    <3>2. PICK w : Counts(w, z) /\ w[Len(z)] = u[Len(s)] + items[i].n
      BY <2>1, <3>1, CountsAppend DEF z
    <3>3. w[Len(z)] <= t[i]
      <4>1. items[i].n \in Nat /\ t[i - 1] \in Nat /\ t[i] = t[i - 1] + items[i].n
        BY <1>1, <2>1, AccumulatorFields
      <4>2. u[Len(s)] \in Nat
        BY <2>2, <3>1 DEF Counts
      <4> QED
        BY <3>1, <3>2, <4>1, <4>2
    <3> QED
      BY <3>2, <3>3
  <2> QED
    BY <2>3, <2>4, <2>5 DEF z
<1>5. ASSUME NEW i \in 1..n, NEW s \in Seq(Accumulator), Good(s, i - 1), ~valid(items[i])
      PROVE  Good(s, i)
  <2>1. /\ i \in Nat
        /\ \A k \in 1..(i - 1) : k \in 1..i
        /\ \A k \in 1..i : k = i \/ k \in 1..(i - 1)
    BY <1>1
  <2>2. From(s, i) /\ Holds(s, i)
    BY <1>5, <2>1
  <2>3. Bounded(s, i)
    <3>1. PICK u : Counts(u, s) /\ u[Len(s)] <= t[i - 1]
      BY <1>5
    <3>2. t[i - 1] \in Nat /\ t[i] = t[i - 1] + items[i].n /\ items[i].n \in Nat
      BY <1>1, <2>1, AccumulatorFields
    <3>3. u[Len(s)] \in Nat
      BY <3>1 DEF Counts
    <3> QED
      BY <3>1, <3>2, <3>3
  <2> QED
    BY <2>2, <2>3
<1>6. 0 \in G
  BY <1>1, <1>2, <1>3
<1> HIDE DEF Good
<1>7. ASSUME NEW i \in 1..n, i - 1 \in G PROVE i \in G
  <2>1. i \in 0..n /\ Copied[i - 1] \in Seq(Accumulator) /\ Good(Copied[i - 1], i - 1)
    BY <1>1, <1>2, <1>7
  <2> QED
    BY <1>2, <1>4, <1>5, <2>1
<1> HIDE DEF G
<1>8. 0..n \subseteq G
  BY <1>1, <1>6, <1>7, Induction
<1>9. Good(ValidItems, n)
  BY <1>1, <1>2, <1>8 DEF G
<1>10. ValidItems \in Seq(Accumulator)
  BY <1>1, <1>2
<1> QED
  BY <1>9, <1>10 DEF Good, n

\* An accumulator counts no more than was pushed to it.
CurrentCount ==
    CASE device = "scalar" -> current.n <= Len(open)
      [] device = "avx2"   -> \A i \in 1..Lanes : current[i].n <= Len(open)
      [] device = "opencl" -> Load(current).n <= Len(open)

\* The counts of all items together are at most the doubles read, which are
\* fewer than a word can count; so no sum of counts wraps.
CountInv ==
    /\ CurrentCount
    /\ \E t : Counts(t, items) /\ t[Len(items)] + OpenWidth * Len(open) <= read

LEMMA KernelCount ==
    ASSUME NEW stats, Load(stats) \in Accumulator, NEW data \in Seq(Double)
    PROVE  KernelLoop(stats, data).n <= Load(stats).n + Len(data)
<1> DEFINE sum == KernelSums(stats, data)
           n == Len(data)
           m == Load(stats).n
           G == {i \in 0..n : sum[i].n <= m + i}
<1>1. /\ sum \in [0..n -> Accumulator] /\ sum[0] = Load(stats)
      /\ \A i \in 1..n : sum[i] = KernelPush(sum[i - 1], data[i])
      /\ KernelLoop(stats, data) = sum[n]
  BY KernelSumsFacts
<1>2. n \in Nat /\ m \in Nat /\ \A i \in 1..n : data[i] \in Double
  BY AccumulatorFields
<1>3. 0 \in G
  BY <1>1, <1>2
<1> HIDE DEF sum, n, m
<1>4. ASSUME NEW i \in 1..n, i - 1 \in G PROVE i \in G
  <2>1. i \in 0..n /\ i - 1 \in 0..n /\ sum[i - 1].n <= m + (i - 1)
    BY <1>2, <1>4
  <2>2. sum[i - 1] \in Accumulator /\ sum[i] \in Accumulator
    BY <1>1, <2>1
  <2>3. sum[i - 1].n \in Nat /\ sum[i].n \in Nat
    BY <2>2, AccumulatorFields
  <2>4. sum[i].n <= sum[i - 1].n + 1
    BY <1>1, <1>2, <2>2, PushCounts
  <2> QED
    BY <1>2, <2>1, <2>3, <2>4
<1> HIDE DEF G
<1>5. 0..n \subseteq G
  BY <1>2, <1>3, <1>4, Induction
<1>6. sum[n].n <= m + n
  BY <1>2, <1>5 DEF G
<1> QED
  BY <1>1, <1>6 DEF m, n

LEMMA ItemCount ==
    ASSUME TypeOK, CurrentCount
    PROVE  Item.n <= OpenWidth * Len(open)
<1>0. Len(open) \in Nat
  BY DEF TypeOK
<1>1. CASE device = "scalar"
  BY <1>0, <1>1 DEF CurrentCount, Item, OpenWidth, WidthOf
<1>2. CASE device = "opencl"
  BY <1>0, <1>2 DEF CurrentCount, Item, OpenWidth, WidthOf
<1>3. CASE device = "avx2"
  <2> DEFINE l == Len(open)
             u == [i \in 1..Lanes |-> i * l]
  <2>1. /\ current \in [1..Lanes -> Accumulator] /\ Item = asScalar(current)
        /\ \A i \in 1..Lanes : current[i].n <= l
        /\ Lanes \in Nat \ {0} /\ l \in Nat
    BY <1>0, <1>3, LanesAssumption DEF TypeOK, CurrentOK, CurrentCount, Item
  <2> HIDE DEF l
  <2>2. \A i \in 1..Lanes : i * l \in Nat
    BY <2>1
  <2>3. u \in [1..Lanes -> Nat] /\ \A i \in 1..Lanes : u[i] = i * l
    BY <2>2
  <2> HIDE DEF u
  <2>4. current[1].n <= u[1]
    BY <2>1, <2>3
  <2>5. ASSUME NEW i \in 2..Lanes PROVE u[i - 1] + current[i].n <= u[i]
    <3>1. i \in 1..Lanes /\ i - 1 \in 1..Lanes /\ i - 1 \in Nat
      BY <2>1
    <3>2. ((i - 1) + 1) * l = (i - 1) * l + l /\ (i - 1) * l \in Nat
      BY <2>1, <3>1, Product
    <3>3. (i - 1) + 1 = i
      OBVIOUS
    <3>4. u[i] = u[i - 1] + l /\ u[i - 1] \in Nat
      BY <2>3, <3>1, <3>2, <3>3
    <3>5. current[i].n <= l /\ current[i].n \in Nat
      BY <2>1, <3>1, AccumulatorFields
    <3> QED
      BY <2>1, <3>4, <3>5
  <2>6. MergeSums(current, Lanes)[Lanes].n <= u[Lanes]
    <3>1. \A i \in 1..Lanes : MergeSums(current, Lanes)[i].n <= u[i]
      BY <2>1, <2>3, <2>4, <2>5, SumCount
    <3>2. Lanes \in 1..Lanes
      BY <2>1
    <3> QED
      BY <3>1, <3>2
  <2>7. asScalar(current).n <= Lanes * l
    BY <2>1, <2>3, <2>6, asScalarSum
  <2> QED
    BY <1>3, <2>1, <2>7 DEF OpenWidth, WidthOf, l
<1> QED
  BY <1>1, <1>2, <1>3 DEF TypeOK, Kinds

LEMMA FreshCount ==
    device \in Kinds /\ current = Fresh /\ open = <<>> => CurrentCount
<1> SUFFICES ASSUME device \in Kinds, current = Fresh, open = <<>>
             PROVE  CurrentCount
  OBVIOUS
<1>1. CASE device = "scalar"
  BY <1>1 DEF CurrentCount, Fresh, NewAccumulator
<1>2. CASE device = "avx2"
  BY <1>2 DEF CurrentCount, Fresh, NewVectorAccumulator, NewAccumulator
<1>3. CASE device = "opencl"
  BY <1>3 DEF CurrentCount, Fresh, NewStats, Load, NewAccumulator, Zero
<1> QED
  BY <1>1, <1>2, <1>3 DEF Kinds

LEMMA CountInit == Init => CountInv
<1> SUFFICES ASSUME Init PROVE CountInv
  OBVIOUS
<1>1. CurrentCount
  BY FreshCount DEF Init
<1>2. Counts([i \in 0..0 |-> 0], items)
  BY DEF Counts, Init
<1>3. [i \in 0..0 |-> 0][Len(items)] + OpenWidth * Len(open) <= read
  <2>1. Len(items) = 0 /\ Len(open) = 0 /\ read = 0
    BY DEF Init
  <2>2. OpenWidth \in Nat
    BY ResultsConstants DEF OpenWidth, WidthOf
  <2> QED
    BY <2>1, <2>2
<1> QED
  BY <1>1, <1>2, <1>3 DEF CountInv

LEMMA CountNext == TypeOK /\ TypeOK' /\ CountInv /\ [Next]_vars => CountInv'
<1> SUFFICES ASSUME TypeOK, TypeOK', CountInv, [Next]_vars PROVE CountInv'
  OBVIOUS
<1>t. PICK t : Counts(t, items) /\ t[Len(items)] + OpenWidth * Len(open) <= read
  BY DEF CountInv
<1>w. /\ OpenWidth \in Nat /\ Len(open) \in Nat /\ Len(open') \in Nat /\ Len(items) \in Nat
      /\ read \in Nat /\ t[Len(items)] \in Nat
  <2>1. Len(open) \in Nat /\ Len(items) \in Nat /\ read \in Nat
    BY ResultsConstants DEF TypeOK
  <2>2. Len(open') \in Nat
    BY DEF TypeOK
  <2>3. OpenWidth \in Nat
    BY ResultsConstants DEF OpenWidth, WidthOf
  <2>4. t[Len(items)] \in Nat
    BY <1>t, <2>1 DEF Counts
  <2> QED
    BY <2>1, <2>2, <2>3, <2>4
<1>o. \A k \in Nat : OpenWidth * (Len(open) + k) = OpenWidth * Len(open) + OpenWidth * k
  BY <1>w
<1>1. CASE Push
  <2>1. PICK x \in Values : open' = Append(open, x) /\ current' = push(current, x)
    BY <1>1 DEF Push
  <2>2. /\ Len(open') = Len(open) + 1 /\ read' = read + 1 /\ items' = items
        /\ device = "scalar" /\ device' = "scalar" /\ OpenWidth = 1 /\ OpenWidth' = 1
    BY <1>1, <2>1 DEF Push, Read, TypeOK, OpenWidth, WidthOf
  <2>3. x \in Double /\ current \in Accumulator /\ current.n <= Len(open) /\ current' \in Accumulator
    BY <2>1, <2>2, ResultsConstants DEF TypeOK, CurrentOK, CountInv, CurrentCount
  <2>4. current'.n <= Len(open')
    <3>1. current.n \in Nat /\ current'.n \in Nat
      BY <2>3, AccumulatorFields
    <3>2. current'.n <= current.n + 1
      BY <2>1, <2>3, PushCounts
    <3> QED
      BY <1>w, <2>2, <2>3, <3>1, <3>2
  <2>5. CurrentCount'
    BY <2>2, <2>4 DEF CurrentCount
  <2>6. t[Len(items)] + 1 * Len(open') <= read'
    BY <1>t, <1>w, <2>2
  <2>7. t[Len(items')] + OpenWidth' * Len(open') <= read'
    BY <2>2, <2>6
  <2>8. Counts(t, items)'
    BY <1>t, <2>2 DEF Counts
  <2> QED
    BY <2>5, <2>7, <2>8 DEF CountInv
<1>2. CASE PushVector
  <2>1. PICK x \in [1..Lanes -> Values] :
          open' = Append(open, x) /\ current' = pushWithFiltering(current, x)
    BY <1>2 DEF PushVector
  <2>2. /\ Len(open') = Len(open) + 1 /\ read' = read + Lanes /\ items' = items
        /\ device = "avx2" /\ device' = "avx2" /\ OpenWidth = Lanes /\ OpenWidth' = Lanes
    BY <1>2, <2>1 DEF PushVector, Read, TypeOK, OpenWidth, WidthOf
  <2>3. /\ x \in [1..Lanes -> Double]
        /\ current \in [1..Lanes -> Accumulator] /\ current' \in [1..Lanes -> Accumulator]
        /\ \A i \in 1..Lanes : current[i].n <= Len(open)
    BY <2>1, <2>2, ResultsConstants DEF TypeOK, CurrentOK, CountInv, CurrentCount
  <2>4. ASSUME NEW i \in 1..Lanes PROVE current'[i].n <= Len(open')
    <3>1. current[i].n \in Nat /\ current'[i].n \in Nat /\ current[i].n <= Len(open)
      BY <2>3, AccumulatorFields
    <3>2. current'[i] = PushLane(current[i], x[i])
      BY <2>1 DEF pushWithFiltering
    <3>3. current'[i].n <= current[i].n + 1
      BY <2>3, <3>2, PushCounts
    <3> QED
      BY <1>w, <2>2, <3>1, <3>3
  <2>5. CurrentCount'
    BY <2>2, <2>4 DEF CurrentCount
  <2>6. t[Len(items)] + OpenWidth * (Len(open) + 1) <= read + Lanes
    <3>1. /\ OpenWidth * (Len(open) + 1) = OpenWidth * Len(open) + OpenWidth
          /\ OpenWidth * Len(open) \in Nat
      BY <1>w
    <3> QED
      BY <1>t, <1>w, <2>2, <3>1
  <2>7. t[Len(items')] + OpenWidth' * Len(open') <= read'
    BY <2>2, <2>6
  <2>8. Counts(t, items)'
    BY <1>t, <2>2 DEF Counts
  <2> QED
    BY <2>5, <2>7, <2>8 DEF CountInv
<1>3. CASE RunKernel
  <2>1. PICK k \in 1..MaxValues : Read(k) /\ \E x \in [1..k -> Values] :
          open' = open \o x /\ current' = computeStats(current, x)
    BY <1>3 DEF RunKernel
  <2>2. PICK x \in [1..k -> Values] : open' = open \o x /\ current' = computeStats(current, x)
    BY <2>1
  <2>x. k \in Nat /\ x \in [1..k -> Double]
    BY ResultsConstants
  <2>y. x \in Seq(Double) /\ Len(x) = k
    BY <2>x
  <2>z. device = "opencl" /\ device' = "opencl" /\ items' = items
    BY <1>3 DEF RunKernel
  <2>o. open \in Seq(Double)
    BY <2>z DEF TypeOK, Datum, DatumOf
  <2>3. /\ Len(open') = Len(open) + k /\ read' = read + k
        /\ OpenWidth = 1 /\ OpenWidth' = 1
    <3>1. Len(open \o x) = Len(open) + Len(x)
      BY <2>y, <2>o
    <3> QED
      BY <2>1, <2>2, <2>y, <2>z, <3>1 DEF Read, OpenWidth, WidthOf
  <2>4. PICK a \in Accumulator : current = Store(a)
    BY <2>z DEF TypeOK, CurrentOK
  <2>5. Load(current) \in Accumulator /\ Load(current).n \in Nat /\ Load(current).n <= Len(open)
    BY <2>z, <2>4, LoadStore, AccumulatorFields DEF CountInv, CurrentCount
  <2>6. KernelLoop(current, x).n <= Load(current).n + k
    BY <2>y, <2>5, KernelCount
  <2>7. KernelLoop(current, x) \in Accumulator
    <3>1. k \in 0..Len(x)
      BY <2>x, <2>y
    <3> QED
      BY <2>y, <2>5, <3>1, KernelSumsFacts
  <2>8. Load(current').n = KernelLoop(current, x).n
    <3>1. current' = Store(KernelLoop(current, x))
      BY <2>2 DEF computeStats
    <3>2. Load(current') = [KernelLoop(current, x) EXCEPT !.numericalErrorWhileMerging = FALSE]
      BY <2>7, <3>1, LoadStore
    <3> QED
      BY <2>7, <3>2 DEF Accumulator
  <2>9. Load(current').n <= Len(open')
    <3>1. KernelLoop(current, x).n \in Nat
      BY <2>7, AccumulatorFields
    <3> QED
      BY <1>w, <2>x, <2>3, <2>5, <2>6, <2>8, <3>1
  <2>10. CurrentCount'
    BY <2>z, <2>9 DEF CurrentCount
  <2>11. t[Len(items)] + 1 * Len(open') <= read'
    BY <1>t, <1>w, <2>3, <2>x
  <2>12. t[Len(items')] + OpenWidth' * Len(open') <= read'
    BY <2>3, <2>z, <2>11
  <2>13. Counts(t, items)'
    BY <1>t, <2>z DEF Counts
  <2> QED
    BY <2>10, <2>12, <2>13 DEF CountInv
<1>4. CASE Close
  <2>1. Item \in Accumulator /\ items \in Seq(Accumulator)
    BY ItemType DEF TypeOK
  <2>2. items' = Append(items, Item) /\ open' = <<>> /\ read' = read /\ device' \in Kinds
    BY <1>4 DEF TypeOK, Close
  <2>3. PICK u : Counts(u, Append(items, Item))
                 /\ u[Len(Append(items, Item))] = t[Len(items)] + Item.n
    BY <1>t, <2>1, CountsAppend
  <2>4. Item.n <= OpenWidth * Len(open) /\ Item.n \in Nat /\ OpenWidth * Len(open) \in Nat
    BY <1>w, <2>1, ItemCount, AccumulatorFields DEF CountInv
  <2>5. u[Len(items')] <= read
    BY <1>t, <1>w, <2>2, <2>3, <2>4
  <2>6. OpenWidth' * Len(open') = 0 /\ u[Len(items')] \in Nat
    <3>1. Len(open') = 0 /\ OpenWidth' \in Nat
      BY <2>2, ResultsConstants DEF OpenWidth, WidthOf
    <3>2. OpenWidth' * Len(open') = 0
      <4>1. \A w \in Nat : w * 0 = 0
        OBVIOUS
      <4> QED
        BY <3>1, <4>1
    <3> QED
      BY <1>w, <2>2, <2>3, <2>4, <3>2
  <2>7. CurrentCount'
    <3>1. (device \in Kinds /\ current = Fresh /\ open = <<>>
             => CurrentCount)'
      BY FreshCount, PTL
    <3>2. current' = Fresh'
      BY <1>4 DEF Close
    <3> QED
      BY <2>2, <3>1, <3>2
  <2>8. Counts(u, items)'
    BY <2>2, <2>3 DEF Counts
  <2>9. u[Len(items')] + OpenWidth' * Len(open') <= read'
    BY <1>w, <2>2, <2>5, <2>6
  <2> QED
    BY <2>7, <2>8, <2>9 DEF CountInv
<1>5. CASE UNCHANGED <<device, read, open, current, items>>
  <2>1. Counts(t, items)' /\ OpenWidth' = OpenWidth /\ CurrentCount'
    BY <1>t, <1>5 DEF Counts, OpenWidth, WidthOf, CountInv, CurrentCount
  <2>2. t[Len(items')] + OpenWidth' * Len(open') <= read'
    BY <1>t, <1>5, <2>1
  <2> QED
    BY <2>1, <2>2 DEF CountInv
<1>6. CASE Return \/ StartMerge \/ MergeStep \/ MergeEnd \/ Classify \/ UNCHANGED vars
  BY <1>5, <1>6 DEF Return, StartMerge, MergeStep, MergeEnd, Classify, vars
<1> QED
  BY <1>1, <1>2, <1>3, <1>4, <1>6 DEF Next

\* Sums of usable accumulators that together stay below 2^64 are usable, and
\* hold something if one of them does.
LEMMA SumUsable ==
    ASSUME NEW v \in Seq(Accumulator), v # <<>>, NEW u, Counts(u, v), u[Len(v)] < WordModulus,
           \A i \in 1..Len(v) : valid(v[i])
    PROVE  \A i \in 1..Len(v) :
             /\ valid(MergeSums(v, Len(v))[i])
             /\ (\E j \in 1..i : v[j].n > 0) => MergeSums(v, Len(v))[i].n > 0
<1> DEFINE n == Len(v)
           sum == MergeSums(v, n)
           G == {i \in 1..n : valid(sum[i]) /\ ((\E j \in 1..i : v[j].n > 0) => sum[i].n > 0)}
<1>1. n \in Nat \ {0} /\ v \in [1..n -> Accumulator]
  OBVIOUS
<1>2. /\ sum \in [1..n -> Accumulator] /\ sum[1] = v[1]
      /\ \A i \in 2..n : sum[i] = Merge(sum[i - 1], v[i])
  <2> HIDE DEF n
  <2> QED
    BY <1>1, MergeSumsFacts
<1>3. /\ u \in [0..n -> Nat] /\ u[0] = 0 /\ \A i \in 1..n : u[i] = u[i - 1] + v[i].n
      /\ \A i \in 1..n : v[i].n \in Nat
  BY <1>1, AccumulatorFields DEF Counts
<1>4. \A i \in 0..n : u[i] < WordModulus
  <2>1. \A i \in 0..n : u[i] <= u[n]
    BY CountsGrow
  <2>2. \A i \in 0..n : u[i] \in Nat
    BY <1>3
  <2> QED
    BY <1>1, <2>1, <2>2, WordAssumption
<1>5. \A i \in 1..n : sum[i].n <= u[i]
  <2> DEFINE w == [i \in 1..n |-> u[i]]
  <2>1. w \in [1..n -> Nat] /\ \A i \in 1..n : w[i] = u[i]
    BY <1>1, <1>3
  <2> HIDE DEF w
  <2>2. v[1].n <= w[1]
    <3>1. 1 \in 1..n /\ 1 - 1 = 0
      BY <1>1
    <3> QED
      BY <1>3, <2>1, <3>1
  <2>3. ASSUME NEW i \in 2..n PROVE w[i - 1] + v[i].n <= w[i]
    <3>1. i \in 1..n /\ i - 1 \in 1..n
      BY <1>1
    <3>2. u[i] = u[i - 1] + v[i].n /\ u[i] \in Nat
      BY <1>3, <3>1
    <3> QED
      BY <2>1, <3>1, <3>2
  <2> HIDE DEF n
  <2>4. \A i \in 1..n : MergeSums(v, n)[i].n <= w[i]
    BY <1>1, <2>1, <2>2, <2>3, SumCount
  <2> QED
    BY <2>1, <2>4
<1> HIDE DEF n, sum
<1>v. \A i \in 1..n : valid(v[i])
  BY DEF n
<1>6. 1 \in G
  BY <1>1, <1>2, <1>v
<1>7. ASSUME NEW i \in 2..n, i - 1 \in G PROVE i \in G
  <2>1. i \in 1..n /\ i - 1 \in 1..n /\ i - 1 \in 0..n /\ i \in 0..n
    BY <1>1
  <2>2. valid(sum[i - 1]) /\ ((\E j \in 1..(i - 1) : v[j].n > 0) => sum[i - 1].n > 0)
    BY <1>7
  <2>3. sum[i - 1] \in Accumulator /\ v[i] \in Accumulator
    BY <1>1, <1>2, <2>1
  <2>4. sum[i - 1].n \in Nat /\ v[i].n \in Nat
    BY <2>3, AccumulatorFields
  <2>5. sum[i - 1].n + v[i].n < WordModulus
    <3>1. sum[i - 1].n <= u[i - 1] /\ u[i] = u[i - 1] + v[i].n /\ u[i] < WordModulus
          /\ u[i - 1] \in Nat
      BY <1>3, <1>4, <1>5, <2>1
    <3> QED
      BY <2>4, <3>1, WordAssumption
  <2>6. sum[i] = Merge(sum[i - 1], v[i])
    BY <1>2
  <2>7. valid(sum[i])
    BY <1>v, <2>1, <2>2, <2>3, <2>6, MergeCounts
  <2>8. ASSUME NEW j \in 1..i, v[j].n > 0 PROVE sum[i].n > 0
    <3>1. v[i].n > 0 \/ sum[i - 1].n > 0
      <4>1. j = i \/ j \in 1..(i - 1)
        BY <2>1
      <4> QED
        BY <2>2, <2>8, <4>1
    <3> QED
      BY <1>v, <2>1, <2>2, <2>3, <2>5, <2>6, <3>1, MergeCounts
  <2> QED
    BY <2>1, <2>7, <2>8
<1> HIDE DEF G
<1>8. 1..n \subseteq G
  BY <1>1, <1>6, <1>7, InductionFromOne
<1> QED
  BY <1>8 DEF G, sum, n

\* One accumulator with data is enough for a result that is valid and not
\* empty: merging (main.cpp, operator+) loses all of the data of none but
\* unusable ones, and the counts of a file that fits size_t never wrap.
THEOREM ValidResult == Spec => []ValidWhenAny
<1>1. ASSUME Inv, CountInv PROVE ValidWhenAny
  <2> SUFFICES ASSUME pc = "classify",
                      NEW i \in DOMAIN items, items[i].n > 0, valid(items[i])
               PROVE  valid(result) /\ result.n > 0
    BY DEF ValidWhenAny, Merged
  <2>1. items \in Seq(Accumulator) /\ i \in 1..Len(items)
    BY <1>1 DEF Inv, TypeOK
  <2>2. PICK t : Counts(t, items) /\ t[Len(items)] + OpenWidth * Len(open) <= read
    BY <1>1 DEF CountInv
  <2>3. t[Len(items)] < WordModulus /\ t[Len(items)] \in Nat
    <3>1. t[Len(items)] \in Nat
      BY <2>1, <2>2 DEF Counts
    <3>2. OpenWidth \in Nat /\ Len(open) \in Nat /\ read \in 0..MaxValues
      BY <1>1, ResultsConstants DEF Inv, TypeOK, OpenWidth, WidthOf
    <3>3. OpenWidth * Len(open) \in Nat
      BY <3>2
    <3> QED
      BY <2>2, <3>1, <3>2, <3>3, ResultsConstants
  <2>4. /\ ValidItems \in Seq(Accumulator)
        /\ \A j \in 1..Len(ValidItems) :
             \E k \in 1..Len(items) : valid(items[k]) /\ ValidItems[j] = items[k]
        /\ \A k \in 1..Len(items) :
             valid(items[k]) => \E j \in 1..Len(ValidItems) : ValidItems[j] = items[k]
        /\ \E u : Counts(u, ValidItems) /\ u[Len(ValidItems)] <= t[Len(items)]
    BY <2>1, <2>2, ValidItemsContents
  <2>5. PICK u : Counts(u, ValidItems) /\ u[Len(ValidItems)] <= t[Len(items)]
    BY <2>4
  <2>6. PICK j \in 1..Len(ValidItems) : ValidItems[j] = items[i]
    BY <2>1, <2>4
  <2>7. ValidItems # <<>> /\ ValidItems[j].n > 0 /\ \A k \in 1..Len(ValidItems) : valid(ValidItems[k])
    BY <2>4, <2>6
  <2>8. u[Len(ValidItems)] < WordModulus
    <3>1. u[Len(ValidItems)] \in Nat
      <4>1. Len(ValidItems) \in 0..Len(ValidItems)
        BY <2>4
      <4>2. u \in [0..Len(ValidItems) -> Nat]
        BY <2>5 DEF Counts
      <4> QED
        BY <4>1, <4>2
    <3> QED
      BY <2>3, <2>5, <3>1, WordAssumption
  <2>9. result = MergeSums(ValidItems, Len(ValidItems))[Len(ValidItems)]
    BY <1>1, <2>7 DEF Inv, MergeInv, Expected
  <2>10. Len(ValidItems) \in 1..Len(ValidItems)
    BY <2>4, <2>7
  <2> QED
    BY <2>4, <2>5, <2>6, <2>7, <2>8, <2>9, <2>10, SumUsable
<1>2. Init => Inv /\ CountInv
  BY TypeInit, MergeInit, CountInit DEF Inv
<1>3. Inv /\ CountInv /\ [Next]_vars => Inv' /\ CountInv'
  BY TypeNext, MergeNext, CountNext DEF Inv
<1> QED
  BY <1>1, <1>2, <1>3, PTL DEF Spec

----------------------------------------------------------------------------
(* The minimum                                                             *)

\* Numbers are ordered, with an infinity above them.
Comparable == Number \cup {Infinity}

LEMMA Times ==
    ASSUME NEW a \in Int, NEW b \in Int, NEW c \in Nat \ {0}
    PROVE  /\ a * c \in Int
           /\ a < b <=> a * c < b * c
<1>1. a < b => a * c < b * c
  OBVIOUS
<1>2. b < a => b * c < a * c
  OBVIOUS
<1>3. a * c \in Int /\ b * c \in Int
  OBVIOUS
<1> QED
  BY <1>1, <1>2, <1>3

LEMMA LessNumbers ==
    ASSUME NEW x \in Number, NEW y \in Number
    PROVE  /\ Less(x, y) <=> x[1] * y[2] < y[1] * x[2]
           /\ Less(x, Infinity)
           /\ ~Less(Infinity, x)
           /\ ~Less(Infinity, Infinity)
BY DEF Number, Less, Infinite, NaN, Infinity, MinusInfinity

LEMMA LessOrder ==
    ASSUME NEW x \in Comparable, NEW y \in Comparable, NEW z \in Comparable
    PROVE  /\ ~Less(x, x)
           /\ Less(x, y) /\ Less(y, z) => Less(x, z)
           /\ Less(x, z) => Less(x, y) \/ Less(y, z)
<1>1. CASE x \in Number /\ y \in Number /\ z \in Number
  <2> DEFINE a == x[1]  b == x[2]  c == y[1]  d == y[2]  e == z[1]  f == z[2]
  <2>1. /\ a \in Int /\ c \in Int /\ e \in Int
        /\ b \in Nat \ {0} /\ d \in Nat \ {0} /\ f \in Nat \ {0}
    BY <1>1, DoubleCases
  <2>2. /\ Less(x, y) <=> a * d < c * b
        /\ Less(y, z) <=> c * f < e * d
        /\ Less(x, z) <=> a * f < e * b
        /\ Less(x, x) <=> a * b < a * b
    BY <1>1, LessNumbers
  <2> HIDE DEF a, b, c, d, e, f
  <2>3. /\ a * d \in Int /\ c * b \in Int /\ c * f \in Int /\ e * d \in Int
        /\ a * f \in Int /\ e * b \in Int /\ a * b \in Int
    BY <2>1
  <2>4. a * d < c * b <=> (a * d) * f < (c * b) * f
    BY <2>1, <2>3, Times
  <2>5. c * f < e * d <=> (c * f) * b < (e * d) * b
    BY <2>1, <2>3, Times
  <2>6. a * f < e * b <=> (a * f) * d < (e * b) * d
    BY <2>1, <2>3, Times
  <2>7. (a * d) * f = (a * f) * d /\ (c * b) * f = (c * f) * b /\ (e * d) * b = (e * b) * d
    BY <2>1, Regroup
  <2>8. (a * f) * d \in Int /\ (c * f) * b \in Int /\ (e * b) * d \in Int
    BY <2>1, <2>3, Times
  <2> QED
    BY <2>2, <2>3, <2>4, <2>5, <2>6, <2>7, <2>8
<1>2. CASE ~(x \in Number /\ y \in Number /\ z \in Number)
  <2>1. \A p \in Comparable : ~Less(Infinity, p)
    BY LessNumbers, SomeDoubles DEF Comparable
  <2>2. \A p \in Comparable : p = Infinity \/ Less(p, Infinity)
    BY LessNumbers DEF Comparable
  <2>3. \A p \in Comparable : ~Less(p, p)
    <3>1. \A p \in Number : ~Less(p, p)
      BY LessNumbers, DoubleCases
    <3> QED
      BY <2>1, <3>1 DEF Comparable
  <2>4. x = Infinity \/ y = Infinity \/ z = Infinity
    BY <1>2 DEF Comparable
  <2> QED
    BY <2>1, <2>2, <2>3, <2>4
<1> QED
  BY <1>1, <1>2

LEMMA NormalNumber ==
    \A x \in Double : valueNormalOrZero(x) => x \in Number
BY DoubleCases DEF valueNormalOrZero

\* The doubles of S that count.
Normal(S) == {x \in S : valueNormalOrZero(x)}

\* a holds the minimum of the doubles S, and is not empty if one of them counts.
Summarises(a, S) ==
    /\ a.minVal \in Normal(S) \cup {Infinity}
    /\ \A y \in Normal(S) : a.n > 0 /\ ~Less(y, a.minVal)

LEMMA PushSummarises ==
    ASSUME NEW a \in Accumulator, NEW x \in Double, NEW S, S \subseteq Double,
           Summarises(a, S), a.n + 1 < WordModulus
    PROVE  /\ Summarises(push(a, x), S \cup {x})
           /\ Summarises(KernelPush(a, x), S \cup {x})
<1>1. CASE ~valueNormalOrZero(x)
  <2>1. push(a, x) = a /\ KernelPush(a, x) = a
    BY <1>1 DEF push, KernelPush, KernelNormalOrZero, valueNormalOrZero
  <2>2. Normal(S \cup {x}) = Normal(S)
    BY <1>1 DEF Normal
  <2> QED
    BY <2>1, <2>2 DEF Summarises
<1>2. CASE valueNormalOrZero(x)
  <2>1. x \in Number /\ Normal(S) \subseteq Number /\ Normal(S \cup {x}) = Normal(S) \cup {x}
    BY <1>2, NormalNumber DEF Normal
  <2> DEFINE m == IF Less(x, a.minVal) THEN x ELSE a.minVal
  <2>2. a.minVal \in Comparable /\ a.minVal \in Normal(S) \cup {Infinity}
        /\ \A y \in Normal(S) : ~Less(y, a.minVal)
    BY <2>1 DEF Summarises, Comparable
  <2>3. m \in Normal(S) \cup {x} \cup {Infinity}
    BY <2>2
  <2>4. ASSUME NEW y \in Normal(S) \cup {x} PROVE ~Less(y, m)
    <3>1. y \in Comparable /\ x \in Comparable
      BY <2>1 DEF Comparable
    <3>2. CASE Less(x, a.minVal)
      BY <2>2, <3>1, <3>2, LessOrder
    <3>3. CASE ~Less(x, a.minVal)
      BY <2>2, <3>3
    <3> QED
      BY <3>2, <3>3
  <2>5. /\ push(a, x).minVal = m /\ push(a, x).n = Word(a.n + 1)
        /\ push(a, x) \in Accumulator
    <3>1. push(a, x) \in Accumulator
      BY pushType
    <3>2. push(a, x).minVal = m
      BY <1>2 DEF push, StdMin, Accumulator
    <3>3. push(a, x).n = Word(a.n + 1)
      BY <1>2 DEF push, Accumulator
    <3> QED
      BY <3>1, <3>2, <3>3
  <2>6. a.minVal # NaN
    BY <2>2 DEF Comparable, Number, NaN, Infinity
  <2>7. /\ KernelPush(a, x).minVal = m /\ KernelPush(a, x).n = Word(a.n + 1)
    <3>1. KernelPush(a, x) = [push(a, x) EXCEPT !.minVal = Fmin(a.minVal, x)]
      BY <1>2 DEF KernelPush, KernelNormalOrZero, valueNormalOrZero
    <3>2. Fmin(a.minVal, x) = m
      BY <2>6 DEF Fmin
    <3> QED
      BY <2>5, <3>1, <3>2 DEF Accumulator
  <2>8. Word(a.n + 1) > 0
    <3>1. a.n \in Nat
      BY AccumulatorFields
    <3>2. Word(a.n + 1) = a.n + 1
      BY <3>1, Words
    <3> QED
      BY <3>1, <3>2
  <2> HIDE DEF m
  <2> QED
    BY <2>1, <2>3, <2>4, <2>5, <2>7, <2>8 DEF Summarises
<1> QED
  BY <1>1, <1>2

\* No number below the minimum of a sum is hidden by an operand that is not
\* empty, not even by one that an overflow drops.
LEMMA MergeMinimum ==
    ASSUME NEW a \in Accumulator, NEW b \in Accumulator, valid(a), valid(b),
           a.minVal \in Comparable, b.minVal \in Comparable
    PROVE  /\ Merge(a, b).minVal \in {a.minVal, b.minVal}
           /\ \A y \in Comparable :
                \/ a.n > 0 /\ ~Less(y, a.minVal)
                \/ b.n > 0 /\ ~Less(y, b.minVal)
                => ~Less(y, Merge(a, b).minVal)
<1> DEFINE m == IF Less(b.minVal, a.minVal) THEN b.minVal ELSE a.minVal
<1>1. a.n \in Nat /\ b.n \in Nat
  BY AccumulatorFields
<1>2. Combine(a, b).minVal = m
  BY DEF Combine, NewAccumulator, StdMin
<1>3. \A y \in Comparable :
        ~Less(y, a.minVal) \/ ~Less(y, b.minVal) => ~Less(y, m)
  BY LessOrder
<1> DEFINE keptA == [a EXCEPT !.numericalErrorWhileMerging = TRUE]
           keptB == [b EXCEPT !.numericalErrorWhileMerging = TRUE]
           dropped == [a EXCEPT !.numericalErrorWhileMerging = TRUE,
                                !.minVal = Combine(a, b).minVal]
<1>k. keptA.minVal = a.minVal /\ keptB.minVal = b.minVal /\ dropped.minVal = m
  BY <1>2 DEF Accumulator
<1>c. /\ Empty(b) => Merge(a, b) = keptA
      /\ ~Empty(b) /\ Empty(a) => Merge(a, b) = keptB
      /\ ~Empty(b) /\ ~Empty(a) =>
           Merge(a, b) = IF valid(Combine(a, b)) THEN Combine(a, b) ELSE dropped
  BY MergeCases
<1> HIDE DEF m, keptA, keptB, dropped
<1>4. CASE a.n = 0 \/ b.n = 0
  <2>1. Empty(a) <=> a.n = 0
    BY DEF Empty
  <2>2. Empty(b) <=> b.n = 0
    BY DEF Empty
  <2>3. b.n = 0 => Merge(a, b).minVal = a.minVal
    BY <1>c, <1>k, <2>2
  <2>4. b.n # 0 => Merge(a, b).minVal = b.minVal
    BY <1>4, <1>c, <1>k, <2>1, <2>2
  <2> QED
    BY <1>1, <1>4, <2>3, <2>4
<1>5. CASE a.n # 0 /\ b.n # 0
  <2>1. ~Empty(a) /\ ~Empty(b)
    BY <1>5 DEF Empty
  <2>2. Merge(a, b).minVal = m
    BY <1>2, <1>c, <1>k, <2>1
  <2>3. m \in {a.minVal, b.minVal}
    BY DEF m
  <2> QED
    BY <1>3, <2>2, <2>3
<1> QED
  BY <1>4, <1>5

\* The sums' minimum is one of the operands', and no other's is less.
LEMMA SumMinimum ==
    ASSUME NEW v \in Seq(Accumulator), v # <<>>, NEW u, Counts(u, v), u[Len(v)] < WordModulus,
           \A i \in 1..Len(v) : valid(v[i]) /\ v[i].minVal \in Comparable
    PROVE  /\ \E j \in 1..Len(v) : MergeSums(v, Len(v))[Len(v)].minVal = v[j].minVal
           /\ \A y \in Comparable, j \in 1..Len(v) :
                v[j].n > 0 /\ ~Less(y, v[j].minVal)
                  => ~Less(y, MergeSums(v, Len(v))[Len(v)].minVal)
<1> DEFINE n == Len(v)
           sum == MergeSums(v, n)
           One(i) == \E j \in 1..n : sum[i].minVal = v[j].minVal
           Least(i) == \A y \in Comparable, j \in 1..i :
                         v[j].n > 0 /\ ~Less(y, v[j].minVal) => ~Less(y, sum[i].minVal)
           G == {i \in 1..n : One(i) /\ Least(i)}
<1>1. n \in Nat \ {0} /\ v \in [1..n -> Accumulator]
  OBVIOUS
<1>2. /\ sum \in [1..n -> Accumulator] /\ sum[1] = v[1]
      /\ \A i \in 2..n : sum[i] = Merge(sum[i - 1], v[i])
  <2> HIDE DEF n
  <2> QED
    BY <1>1, MergeSumsFacts
<1>3. \A i \in 1..n : valid(sum[i]) /\ ((\E j \in 1..i : v[j].n > 0) => sum[i].n > 0)
  BY SumUsable
<1>v. \A i \in 1..n : valid(v[i]) /\ v[i].minVal \in Comparable
  OBVIOUS
<1> HIDE DEF n, sum
<1>4. 1 \in G
  <2>1. One(1)
    BY <1>1, <1>2
  <2>2. Least(1)
    BY <1>2
  <2> QED
    BY <1>1, <2>1, <2>2
<1>5. ASSUME NEW i \in 2..n, i - 1 \in G PROVE i \in G
  <2>1. i \in 1..n /\ i - 1 \in 1..n
    BY <1>1
  <2>2. One(i - 1) /\ Least(i - 1)
    BY <1>5
  <2>3. /\ sum[i] = Merge(sum[i - 1], v[i])
        /\ sum[i - 1] \in Accumulator /\ v[i] \in Accumulator
        /\ valid(sum[i - 1]) /\ valid(v[i])
        /\ sum[i - 1].minVal \in Comparable /\ v[i].minVal \in Comparable
    BY <1>1, <1>2, <1>3, <1>v, <2>1, <2>2
  <2>4. /\ sum[i].minVal \in {sum[i - 1].minVal, v[i].minVal}
        /\ \A y \in Comparable :
             \/ sum[i - 1].n > 0 /\ ~Less(y, sum[i - 1].minVal)
             \/ v[i].n > 0 /\ ~Less(y, v[i].minVal)
             => ~Less(y, sum[i].minVal)
    BY <2>3, MergeMinimum
  <2>5. One(i)
    BY <2>1, <2>2, <2>4
  <2>6. Least(i)
    <3>1. ASSUME NEW y \in Comparable, NEW j \in 1..i, v[j].n > 0, ~Less(y, v[j].minVal)
          PROVE  ~Less(y, sum[i].minVal)
      <4>1. CASE j = i
        BY <2>4, <3>1, <4>1
      <4>2. CASE j \in 1..(i - 1)
        <5>1. sum[i - 1].n > 0
          BY <1>3, <2>1, <3>1, <4>2
        <5>2. ~Less(y, sum[i - 1].minVal)
          BY <2>2, <3>1, <4>2
        <5> QED
          BY <2>4, <5>1, <5>2
      <4>3. j = i \/ j \in 1..(i - 1)
        BY <2>1
      <4> QED
        BY <4>1, <4>2, <4>3
    <3> QED
      BY <3>1
  <2> QED
    BY <2>1, <2>5, <2>6
<1> HIDE DEF G
<1>6. 1..n \subseteq G
  BY <1>1, <1>4, <1>5, InductionFromOne
<1>7. n \in G
  BY <1>1, <1>6
<1> QED
  BY <1>7 DEF G, sum, n

\* One work item or one thread: what it has pushed, what it has stored.
MinInv ==
    /\ device # "avx2"
         => Summarises(IF device = "scalar" THEN current ELSE Load(current), ToSet(open))
    /\ \A i \in 1..Len(items) : kinds[i] # "avx2" => Summarises(items[i], ToSet(parts[i]))

LEMMA KernelSummarises ==
    ASSUME NEW stats, Load(stats) \in Accumulator, NEW data \in Seq(Double),
           NEW S, S \subseteq Double, Summarises(Load(stats), S),
           Load(stats).n + Len(data) < WordModulus
    PROVE  Summarises(KernelLoop(stats, data), S \cup ToSet(data))
<1> DEFINE sum == KernelSums(stats, data)
           n == Len(data)
           m == Load(stats).n
           Seen(i) == {data[j] : j \in 1..i}
           G == {i \in 0..n : sum[i].n <= m + i /\ Summarises(sum[i], S \cup Seen(i))}
<1>1. /\ sum \in [0..n -> Accumulator] /\ sum[0] = Load(stats)
      /\ \A i \in 1..n : sum[i] = KernelPush(sum[i - 1], data[i])
      /\ KernelLoop(stats, data) = sum[n]
  BY KernelSumsFacts
<1>2. n \in Nat /\ m \in Nat /\ (\A i \in 1..n : data[i] \in Double) /\ m + n < WordModulus
  BY AccumulatorFields
<1>3. ToSet(data) = Seen(n)
  BY DEF ToSet
<1>s. Summarises(sum[0], S) /\ sum[0].n = m
  BY <1>1
<1> HIDE DEF sum, n, m
<1>4. 0 \in G
  <2>1. S \cup Seen(0) = S
    OBVIOUS
  <2> HIDE DEF Seen
  <2>2. Summarises(sum[0], S \cup Seen(0))
    BY <1>s, <2>1
  <2>3. sum[0].n <= m + 0 /\ 0 \in 0..n
    BY <1>2, <1>s
  <2> QED
    BY <2>2, <2>3
<1>5. ASSUME NEW i \in 1..n, i - 1 \in G PROVE i \in G
  <2>1. i \in 0..n /\ i - 1 \in 0..n /\ sum[i - 1].n <= m + (i - 1)
        /\ Summarises(sum[i - 1], S \cup Seen(i - 1))
    BY <1>2, <1>5
  <2>2. sum[i - 1] \in Accumulator /\ sum[i] \in Accumulator /\ data[i] \in Double
    BY <1>1, <1>2, <2>1
  <2>3. sum[i - 1].n \in Nat /\ sum[i].n \in Nat
    BY <2>2, AccumulatorFields
  <2>4. sum[i].n <= sum[i - 1].n + 1 /\ sum[i] = KernelPush(sum[i - 1], data[i])
    BY <1>1, <2>2, PushCounts
  <2>5. sum[i - 1].n + 1 < WordModulus
    BY <1>2, <2>1, <2>3, WordAssumption
  <2>6. Seen(i) = Seen(i - 1) \cup {data[i]} /\ S \cup Seen(i - 1) \subseteq Double
    <3>1. \A j \in 1..i : j = i \/ j \in 1..(i - 1)
      BY <1>2
    <3>2. i \in 1..i /\ \A j \in 1..(i - 1) : j \in 1..i /\ j \in 1..n
      BY <1>2
    <3> QED
      BY <1>2, <3>1, <3>2
  <2> HIDE DEF Seen
  <2>7. Summarises(KernelPush(sum[i - 1], data[i]), (S \cup Seen(i - 1)) \cup {data[i]})
    BY <2>1, <2>2, <2>5, <2>6, PushSummarises
  <2>8. (S \cup Seen(i - 1)) \cup {data[i]} = S \cup Seen(i)
    BY <2>6
  <2>9. sum[i].n <= m + i
    BY <1>2, <2>1, <2>3, <2>4
  <2> QED
    BY <2>1, <2>4, <2>7, <2>8, <2>9
<1> HIDE DEF G
<1>6. 0..n \subseteq G
  BY <1>2, <1>4, <1>5, Induction
<1>7. n \in G
  BY <1>2, <1>6
<1> QED
  BY <1>1, <1>3, <1>7 DEF G

LEMMA FreshSummarises ==
    device \in {"scalar", "opencl"} /\ current = Fresh /\ open = <<>>
      => Summarises(IF device = "scalar" THEN current ELSE Load(current), ToSet(open))
<1> SUFFICES ASSUME device \in {"scalar", "opencl"}, current = Fresh, open = <<>>
             PROVE  Summarises(IF device = "scalar" THEN current ELSE Load(current), ToSet(open))
  OBVIOUS
<1>1. Normal(ToSet(open)) = {}
  BY DEF Normal, ToSet
<1>2. (IF device = "scalar" THEN current ELSE Load(current)).minVal = Infinity
  BY DEF Fresh, NewAccumulator, NewStats, Load
<1> QED
  BY <1>1, <1>2 DEF Summarises

LEMMA MinInit == Init => MinInv
<1> SUFFICES ASSUME Init PROVE MinInv
  OBVIOUS
<1>1. device # "avx2"
        => Summarises(IF device = "scalar" THEN current ELSE Load(current), ToSet(open))
  BY FreshSummarises DEF Init, Kinds
<1>2. \A i \in 1..Len(items) : kinds[i] # "avx2" => Summarises(items[i], ToSet(parts[i]))
  BY DEF Init
<1> QED
  BY <1>1, <1>2 DEF MinInv

LEMMA ToSetAppend ==
    ASSUME NEW S, NEW s \in Seq(S)
    PROVE  /\ \A x \in S : ToSet(Append(s, x)) = ToSet(s) \cup {x}
           /\ \A t \in Seq(S) : ToSet(s \o t) = ToSet(s) \cup ToSet(t)
           /\ ToSet(s) \subseteq S
<1>1. \A r \in Seq(S) : ToSet(r) = {r[i] : i \in 1..Len(r)}
  BY DEF ToSet
<1>2. ASSUME NEW x \in S PROVE ToSet(Append(s, x)) = ToSet(s) \cup {x}
  <2> DEFINE z == Append(s, x)
  <2>1. /\ z \in Seq(S) /\ Len(s) \in Nat /\ Len(z) = Len(s) + 1 /\ z[Len(s) + 1] = x
        /\ \A i \in 1..Len(s) : z[i] = s[i]
    OBVIOUS
  <2> HIDE DEF z
  <2>2. \A i \in 1..Len(z) : i = Len(s) + 1 \/ i \in 1..Len(s)
    BY <2>1
  <2>3. Len(s) + 1 \in 1..Len(z) /\ \A i \in 1..Len(s) : i \in 1..Len(z)
    BY <2>1
  <2>4. ToSet(z) = ToSet(s) \cup {x}
    BY <1>1, <2>1, <2>2, <2>3
  <2> QED
    BY <2>4 DEF z
<1>3. ASSUME NEW t \in Seq(S) PROVE ToSet(s \o t) = ToSet(s) \cup ToSet(t)
  <2> DEFINE z == s \o t
  <2>1. /\ z \in Seq(S) /\ Len(s) \in Nat /\ Len(t) \in Nat /\ Len(z) = Len(s) + Len(t)
        /\ \A i \in 1..Len(s) : z[i] = s[i]
        /\ \A i \in 1..Len(t) : z[Len(s) + i] = t[i]
    OBVIOUS
  <2> HIDE DEF z
  <2>2. ASSUME NEW i \in 1..Len(z) PROVE z[i] \in ToSet(s) \cup ToSet(t)
    <3>1. CASE i \in 1..Len(s)
      BY <1>1, <2>1, <3>1
    <3>2. CASE i \notin 1..Len(s)
      <4>1. i - Len(s) \in 1..Len(t) /\ Len(s) + (i - Len(s)) = i
        BY <2>1, <3>2
      <4>2. z[i] = t[i - Len(s)]
        BY <2>1, <4>1
      <4> QED
        BY <1>1, <4>1, <4>2
    <3> QED
      BY <3>1, <3>2
  <2>3. ASSUME NEW y \in ToSet(s) \cup ToSet(t) PROVE y \in ToSet(z)
    <3>1. CASE y \in ToSet(s)
      <4>1. PICK i \in 1..Len(s) : y = s[i]
        BY <1>1, <3>1
      <4>2. i \in 1..Len(z) /\ z[i] = y
        BY <2>1, <4>1
      <4> QED
        BY <1>1, <2>1, <4>2
    <3>2. CASE y \in ToSet(t)
      <4>1. PICK i \in 1..Len(t) : y = t[i]
        BY <1>1, <3>2
      <4>2. Len(s) + i \in 1..Len(z) /\ z[Len(s) + i] = y
        BY <2>1, <4>1
      <4> QED
        BY <1>1, <2>1, <4>2
    <3> QED
      BY <3>1, <3>2
  <2>4. ToSet(z) \subseteq ToSet(s) \cup ToSet(t)
    BY <1>1, <2>1, <2>2
  <2>5. ToSet(z) = ToSet(s) \cup ToSet(t)
    BY <2>3, <2>4
  <2> QED
    BY <2>5 DEF z
<1>4. ToSet(s) \subseteq S
  BY <1>1
<1> QED
  BY <1>2, <1>3, <1>4

LEMMA MinNext ==
    TypeOK /\ TypeOK' /\ CountInv /\ CountInv' /\ MinInv /\ [Next]_vars => MinInv'
<1> SUFFICES ASSUME TypeOK, TypeOK', CountInv, CountInv', MinInv, [Next]_vars PROVE MinInv'
  OBVIOUS
<1>m. \A i \in 1..Len(items) : kinds[i] # "avx2" => Summarises(items[i], ToSet(parts[i]))
  BY DEF MinInv
<1>o. ASSUME device \in {"scalar", "opencl"}
      PROVE  /\ open \in Seq(Double) /\ ToSet(open) \subseteq Double
             /\ Summarises(IF device = "scalar" THEN current ELSE Load(current), ToSet(open))
  <2>1. open \in Seq(Double)
    BY <1>o DEF TypeOK, Datum, DatumOf
  <2> QED
    BY <1>o, <2>1, ToSetAppend DEF MinInv
\* Nothing that is being filled has wrapped.
<1>r. Len(open') < WordModulus /\ Len(open') \in Nat
  <2>1. PICK t : (Counts(t, items) /\ t[Len(items)] + OpenWidth * Len(open) <= read)'
    BY DEF CountInv
  <2>2. t[Len(items')] \in Nat
    <3>1. Len(items') \in 0..Len(items')
      BY DEF TypeOK
    <3>2. t \in [0..Len(items') -> Nat]
      BY <2>1 DEF Counts
    <3> QED
      BY <3>1, <3>2
  <2>3. OpenWidth' \in Nat \ {0} /\ Len(open') \in Nat /\ read' \in 0..MaxValues
    BY ResultsConstants DEF TypeOK, OpenWidth, WidthOf
  <2>4. t[Len(items')] + OpenWidth' * Len(open') <= read'
    BY <2>1
  <2>5. Len(open') <= OpenWidth' * Len(open') /\ OpenWidth' * Len(open') \in Nat
    <3>1. 1 * Len(open') <= OpenWidth' * Len(open')
      BY <2>3, ProductMonotone
    <3> QED
      BY <2>3, <3>1
  <2> QED
    BY <2>2, <2>3, <2>4, <2>5, ResultsConstants
<1>1. CASE Push
  <2>o. /\ open \in Seq(Double) /\ ToSet(open) \subseteq Double
        /\ Summarises(current, ToSet(open))
    BY <1>1, <1>o DEF Push
  <2>1. PICK x \in Values : open' = Append(open, x) /\ current' = push(current, x)
    BY <1>1 DEF Push
  <2>2. /\ device = "scalar" /\ device' = "scalar" /\ x \in Double /\ current \in Accumulator
        /\ items' = items /\ parts' = parts /\ kinds' = kinds /\ current.n <= Len(open)
    BY <1>1, <2>1, ResultsConstants DEF Push, TypeOK, CurrentOK, CountInv, CurrentCount
  <2>3. current.n + 1 < WordModulus
    <3>1. Len(open') = Len(open) + 1 /\ Len(open) \in Nat
      BY <2>o, <2>1, <2>2
    <3>2. current.n \in Nat
      BY <2>2, AccumulatorFields
    <3> QED
      BY <1>r, <2>2, <3>1, <3>2, ResultsConstants
  <2>4. Summarises(push(current, x), ToSet(open) \cup {x})
    BY <2>o, <2>2, <2>3, PushSummarises
  <2>5. ToSet(open') = ToSet(open) \cup {x}
    BY <2>o, <2>1, <2>2, ToSetAppend
  <2> QED
    BY <1>m, <2>o, <2>1, <2>2, <2>4, <2>5 DEF MinInv
<1>2. CASE RunKernel
  <2>o. /\ open \in Seq(Double) /\ ToSet(open) \subseteq Double
        /\ Summarises(Load(current), ToSet(open))
    BY <1>2, <1>o DEF RunKernel
  <2>1. PICK k \in 1..MaxValues : Read(k) /\ \E x \in [1..k -> Values] :
          open' = open \o x /\ current' = computeStats(current, x)
    BY <1>2 DEF RunKernel
  <2>2. PICK x \in [1..k -> Values] : open' = open \o x /\ current' = computeStats(current, x)
    BY <2>1
  <2>x. k \in Nat /\ x \in [1..k -> Double]
    BY ResultsConstants
  <2>y. x \in Seq(Double) /\ Len(x) = k
    BY <2>x
  <2>3. /\ device = "opencl" /\ device' = "opencl"
        /\ items' = items /\ parts' = parts /\ kinds' = kinds
    BY <1>2 DEF RunKernel
  <2>4. PICK a \in Accumulator : current = Store(a)
    BY <2>3 DEF TypeOK, CurrentOK
  <2>5. Load(current) \in Accumulator /\ Load(current).n \in Nat /\ Load(current).n <= Len(open)
    BY <2>3, <2>4, LoadStore, AccumulatorFields DEF CountInv, CurrentCount
  <2>6. Load(current).n + Len(x) < WordModulus
    <3>1. Len(open') = Len(open) + Len(x) /\ Len(open) \in Nat /\ Len(x) \in Nat
      <4>1. Len(open \o x) = Len(open) + Len(x) /\ Len(open) \in Nat /\ Len(x) \in Nat
        BY <2>o, <2>y
      <4> QED
        BY <2>2, <4>1
    <3> QED
      BY <1>r, <2>5, <3>1, ResultsConstants
  <2>7. Summarises(KernelLoop(current, x), ToSet(open) \cup ToSet(x))
    BY <2>o, <2>3, <2>y, <2>5, <2>6, KernelSummarises
  <2>8. KernelLoop(current, x) \in Accumulator
    <3>1. Len(x) \in 0..Len(x)
      BY <2>x, <2>y
    <3> QED
      BY <2>y, <2>5, <3>1, KernelSumsFacts
  <2>9. /\ Load(current').n = KernelLoop(current, x).n
        /\ Load(current').minVal = KernelLoop(current, x).minVal
    <3>1. current' = Store(KernelLoop(current, x))
      BY <2>2 DEF computeStats
    <3>2. Load(current') = [KernelLoop(current, x) EXCEPT !.numericalErrorWhileMerging = FALSE]
      BY <2>8, <3>1, LoadStore
    <3> QED
      BY <2>8, <3>2 DEF Accumulator
  <2>10. ToSet(open') = ToSet(open) \cup ToSet(x)
    BY <2>o, <2>2, <2>y, ToSetAppend
  <2>11. Summarises(Load(current'), ToSet(open'))
    BY <2>7, <2>9, <2>10 DEF Summarises
  <2> QED
    BY <1>m, <2>o, <2>3, <2>11 DEF MinInv
<1>3. CASE Close
  <2>1. device # "avx2" => Item = IF device = "scalar" THEN current ELSE Load(current)
    BY DEF TypeOK, Kinds, Item
  <2>2. /\ items' = Append(items, Item) /\ parts' = Append(parts, open)
        /\ kinds' = Append(kinds, device)
        /\ open' = <<>> /\ (current = Fresh)' /\ device' \in Kinds
    BY <1>3 DEF TypeOK, Close
  <2>3. /\ Len(items') = Len(items) + 1 /\ Len(items) \in Nat
        /\ items'[Len(items) + 1] = Item /\ parts'[Len(items) + 1] = open
        /\ kinds'[Len(items) + 1] = device
        /\ \A i \in 1..Len(items) :
             items'[i] = items[i] /\ parts'[i] = parts[i] /\ kinds'[i] = kinds[i]
    BY <2>2 DEF TypeOK
  <2>4. ASSUME NEW i \in 1..Len(items'), kinds'[i] # "avx2"
        PROVE  Summarises(items'[i], ToSet(parts'[i]))
    <3>1. i = Len(items) + 1 \/ i \in 1..Len(items)
      BY <2>3
    <3>2. CASE i = Len(items) + 1
      BY <2>1, <2>3, <2>4, <3>2 DEF MinInv
    <3>3. CASE i \in 1..Len(items)
      BY <1>m, <2>3, <2>4, <3>3
    <3> QED
      BY <3>1, <3>2, <3>3
  <2>5. (device \in {"scalar", "opencl"} /\ current = Fresh /\ open = <<>>
           => Summarises(IF device = "scalar" THEN current ELSE Load(current), ToSet(open)))'
    BY FreshSummarises, PTL
  <2> QED
    BY <2>2, <2>4, <2>5 DEF MinInv, Kinds
<1>4. CASE UNCHANGED <<device, kinds, open, current, items, parts>>
  BY <1>4 DEF MinInv
<1>5. CASE Return \/ StartMerge \/ MergeStep \/ MergeEnd \/ Classify \/ UNCHANGED vars
  BY <1>4, <1>5 DEF Return, StartMerge, MergeStep, MergeEnd, Classify, vars
<1>6. CASE PushVector
  BY <1>m, <1>6 DEF PushVector, MinInv
<1> QED
  BY <1>1, <1>2, <1>3, <1>5, <1>6 DEF Next

\* When all goes well on one thread or in one work item, the minimum reported
\* is that of every number read that an accumulator could use, also when a
\* merge overflows and drops the moments of one of its operands (operator+).
THEOREM MinimumKept == Spec => []ScalarMinimum
<1>1. ASSUME Inv, CountInv, MinInv PROVE ScalarMinimum
  <2> SUFFICES ASSUME pc = "classify", valid(result), "avx2" \notin ToSet(kinds)
               PROVE  IsMinimum(result.minVal, AllUsed)
    BY DEF ScalarMinimum, Merged
  <2> DEFINE v == ValidItems
             n == Len(ValidItems)
  <2>1. /\ items \in Seq(Accumulator) /\ Len(items) \in Nat /\ items # <<>>
        /\ DOMAIN items = 1..Len(items)
    BY <1>1 DEF Inv, TypeOK
  <2>2. PICK t : Counts(t, items) /\ t[Len(items)] + OpenWidth * Len(open) <= read
    BY <1>1 DEF CountInv
  <2>3. /\ v \in Seq(Accumulator)
        /\ \A j \in 1..n : \E k \in 1..Len(items) : valid(items[k]) /\ v[j] = items[k]
        /\ \A k \in 1..Len(items) : valid(items[k]) => \E j \in 1..n : v[j] = items[k]
        /\ \E u : Counts(u, v) /\ u[n] <= t[Len(items)]
    BY <2>1, <2>2, ValidItemsContents
  <2>4. PICK u : Counts(u, v) /\ u[n] <= t[Len(items)]
    BY <2>3
  <2>5. u[n] < WordModulus
    <3>1. n \in 0..n /\ Len(items) \in 0..Len(items)
      BY <2>1, <2>3
    <3>2. u[n] \in Nat
      <4>1. u \in [0..n -> Nat]
        BY <2>4 DEF Counts
      <4> HIDE DEF v, n
      <4> QED
        BY <3>1, <4>1
    <3>3. t[Len(items)] \in Nat
      <4>1. t \in [0..Len(items) -> Nat]
        BY <2>2 DEF Counts
      <4> QED
        BY <3>1, <4>1
    <3>4. OpenWidth \in Nat /\ Len(open) \in Nat /\ read \in 0..MaxValues
      BY <1>1, ResultsConstants DEF Inv, TypeOK, OpenWidth, WidthOf
    <3>5. t[Len(items)] <= MaxValues
      <4>1. OpenWidth * Len(open) \in Nat
        BY <3>4
      <4> QED
        BY <2>2, <3>3, <3>4, <4>1, ResultsConstants
    <3> QED
      BY <2>4, <3>2, <3>3, <3>5, ResultsConstants
  <2>6. ASSUME NEW k \in 1..Len(items)
        PROVE  /\ Summarises(items[k], ToSet(parts[k]))
               /\ Normal(ToSet(parts[k])) \subseteq Number
               /\ valid(items[k]) => Used(k) = Normal(ToSet(parts[k]))
               /\ ~valid(items[k]) => Used(k) = {}
    <3>a. kinds[k] # "avx2"
      <4>1. k \in DOMAIN kinds
        BY <1>1 DEF Inv, TypeOK
      <4> QED
        BY <4>1 DEF ToSet
    <3>1. parts[k] \in Seq(Double)
      BY <1>1, <2>1, <3>a DEF Inv, TypeOK, DatumOf
    <3>2. ToSet(parts[k]) \subseteq Double
      BY <3>1, ToSetAppend
    <3>3. Normal(ToSet(parts[k])) \subseteq Number
      BY <3>2, NormalNumber DEF Normal
    <3>4. Summarises(items[k], ToSet(parts[k]))
      BY <1>1, <3>a DEF MinInv
    <3>5. Used(k) = {x \in ToSet(parts[k]) : valueNormalOrZero(x) /\ valid(items[k])}
      <4>1. UNION {ToSet(Lane(k, lane)) : lane \in 1..Width(k)} = ToSet(parts[k])
        <5>1. \A lane : Lane(k, lane) = parts[k]
          BY <3>a DEF Lane, LaneOf
        <5>2. 1..Width(k) = {1}
          BY <3>a DEF Width, WidthOf
        <5> QED
          BY <5>1, <5>2
      <4> QED
        BY <4>1 DEF Used
    <3> QED
      BY <3>3, <3>4, <3>5 DEF Normal
  <2>7. AllUsed \subseteq Number
    BY <2>1, <2>6 DEF AllUsed
  <2>8. \A k \in 1..Len(items) : Used(k) \subseteq AllUsed
    BY <2>1 DEF AllUsed
  <2>9. v # <<>>
    <3>1. v = <<>> => result = items[1]
      BY <1>1 DEF Inv, MergeInv, Expected
    <3>2. 1 \in 1..Len(items)
      BY <2>1
    <3>3. v = <<>> => n = 0
      OBVIOUS
    <3> HIDE DEF v, n
    <3> QED
      BY <2>3, <3>1, <3>2, <3>3
  <2>10. result = MergeSums(v, n)[n]
    BY <1>1, <2>9 DEF Inv, MergeInv, Expected
  <2> HIDE DEF v
  <2>11. ASSUME NEW j \in 1..n
         PROVE  valid(v[j]) /\ v[j].minVal \in Comparable /\ v[j].minVal \in AllUsed \cup {Infinity}
    <3>1. PICK k \in 1..Len(items) : valid(items[k]) /\ v[j] = items[k]
      BY <2>3
    <3>2. items[k].minVal \in Normal(ToSet(parts[k])) \cup {Infinity}
      BY <2>6 DEF Summarises
    <3>3. Used(k) = Normal(ToSet(parts[k]))
      BY <2>6, <3>1
    <3> QED
      BY <2>6, <2>8, <3>1, <3>2, <3>3 DEF Comparable
  <2>12. /\ \E j \in 1..n : result.minVal = v[j].minVal
         /\ \A y \in Comparable, j \in 1..n :
              v[j].n > 0 /\ ~Less(y, v[j].minVal) => ~Less(y, result.minVal)
    <3>1. n = Len(v)
      BY DEF v
    <3> HIDE DEF n
    <3> QED
      BY <2>3, <2>4, <2>5, <2>9, <2>10, <2>11, <3>1, SumMinimum
  <2>13. result.minVal \in AllUsed \cup {Infinity}
    BY <2>11, <2>12
  <2>14. ASSUME NEW y \in AllUsed PROVE ~Less(y, result.minVal)
    <3>1. PICK k \in 1..Len(items) : y \in Used(k)
      BY <2>1 DEF AllUsed
    <3>2. valid(items[k]) /\ y \in Normal(ToSet(parts[k]))
      BY <2>6, <3>1
    <3>3. items[k].n > 0 /\ ~Less(y, items[k].minVal)
      BY <2>6, <3>2 DEF Summarises
    <3>4. PICK j \in 1..n : v[j] = items[k]
      BY <2>3, <3>2
    <3>5. y \in Comparable
      BY <2>7 DEF Comparable
    <3> QED
      BY <2>12, <3>3, <3>4, <3>5
  <2>15. AllUsed # {} => result.minVal # Infinity
    <3>1. \A y \in AllUsed : Less(y, Infinity)
      BY <2>7, LessNumbers
    <3> QED
      BY <2>14, <3>1
  <2> QED
    BY <2>13, <2>14, <2>15 DEF IsMinimum
<1>2. Init => Inv /\ CountInv /\ MinInv
  BY TypeInit, MergeInit, CountInit, MinInit DEF Inv
<1>3. Inv /\ CountInv /\ MinInv /\ [Next]_vars => Inv' /\ CountInv' /\ MinInv'
  BY TypeNext, MergeNext, CountNext, MinNext DEF Inv
<1> QED
  BY <1>1, <1>2, <1>3, PTL DEF Spec

----------------------------------------------------------------------------
(* The classification                                                      *)

LEMMA SquareRootType ==
    ASSUME NEW i \in Nat
    PROVE  SquareRoot(i) \in Nat
<1> DEFINE S == {r \in Nat : i < (r + 1) * (r + 1)}
<1>1. i \in S
  <2>1. 1 * (i + 1) <= (i + 1) * (i + 1)
    BY ProductMonotone
  <2> QED
    BY <2>1
<1>2. S \subseteq Nat /\ S # {}
  BY <1>1
<1>3. \A r \in S : r \in Nat /\ i < (r + 1) * (r + 1)
  OBVIOUS
<1>4. \A r \in Nat : i < (r + 1) * (r + 1) => r \in S
  OBVIOUS
<1> HIDE DEF S
<1>5. PICK r \in S : \A m \in S : r <= m
  BY <1>2, LeastNumber
<1>6. r \in Nat /\ r <= i /\ i < (r + 1) * (r + 1)
  BY <1>1, <1>3, <1>5
<1>7. r * r <= i
  <2>1. CASE r = 0
    BY <2>1
  <2>2. CASE r # 0
    <3>1. r - 1 \in Nat /\ (r - 1) + 1 = r /\ ~(r <= r - 1)
      BY <1>6, <2>2
    <3>2. r - 1 \notin S
      BY <1>5, <3>1
    <3>3. ~(i < r * r)
      BY <1>4, <3>1, <3>2
    <3>4. r * r \in Nat
      BY <1>6
    <3> QED
      BY <3>3, <3>4
  <2> QED
    BY <2>1, <2>2
<1>8. \E q \in 0..i : q * q <= i /\ i < (q + 1) * (q + 1)
  BY <1>6, <1>7
<1>9. SquareRoot(i) \in 0..i
  BY <1>8 DEF SquareRoot
<1> QED
  BY <1>9

\* A finite coordinate is a number of grid lines.
GridLine == {Real(i) : i \in Int}

LEMMA GridLines ==
    /\ GridLine \subseteq Number
    /\ \A x \in GridLine : x[1] \in Int /\ Finite(x)
    /\ \A i \in Int : Real(i) \in GridLine
    /\ Zero \in GridLine
BY DEF GridLine, Real, Number, Finite, Zero

LEMMA Coordinates ==
    ASSUME NEW x \in Double
    PROVE  /\ OnGrid(x) \in Double /\ (Finite(OnGrid(x)) => OnGrid(x) \in GridLine)
           /\ RootOnGrid(x) \in Double /\ (Finite(RootOnGrid(x)) => RootOnGrid(x) \in GridLine)
<1>1. CASE Finite(x)
  <2>1. x[1] \in Int /\ x[2] \in Nat \ {0}
    BY <1>1, DoubleCases
  <2>2. (Grid * x[1]) \div x[2] \in Int
    BY <2>1 DEF Grid
  <2>3. OnGrid(x) \in GridLine
    BY <1>1, <2>2, GridLines DEF OnGrid
  <2>4. CASE x[1] < 0
    BY <1>1, <2>3, <2>4, GridLines, SomeDoubles DEF RootOnGrid, Finite, NaN
  <2>5. CASE ~(x[1] < 0)
    <3>1. Grid * Grid * x[1] \in Nat
      BY <2>1, <2>5 DEF Grid
    <3>2. (Grid * Grid * x[1]) \div x[2] \in Nat
      <4> HIDE DEF Grid
      <4> DEFINE g == Grid * Grid * x[1]
      <4>1. g \in Nat
        BY <3>1
      <4> HIDE DEF g
      <4>2. g \div x[2] \in Nat
        BY <2>1, <4>1, Division
      <4> QED
        BY <4>2 DEF g
    <3>3. RootOnGrid(x) \in GridLine
      BY <1>1, <2>5, <3>2, SquareRootType, GridLines DEF RootOnGrid
    <3> QED
      BY <2>3, <3>3, GridLines, SomeDoubles
  <2> QED
    BY <2>4, <2>5
<1>2. CASE ~Finite(x)
  BY <1>2 DEF OnGrid, RootOnGrid
<1> QED
  BY <1>1, <1>2

LEMMA EstimatedCoordinates ==
    ASSUME NEW a \in Accumulator, FinitePoint(EstimatedPoint(a))
    PROVE  EstimatedPoint(a) \in GridLine \X GridLine
<1> DEFINE ratio == a.m3 // a.m2
           root  == RootOnGrid(Real(a.n) // a.m2)
<1>1. ratio \in Double /\ Real(a.n) // a.m2 \in Double
  BY AccumulatorFields, SomeDoubles, DoubleArithmetic
<1>2. root \in Double /\ (Finite(root) => root \in GridLine)
  BY <1>1, Coordinates
<1>3. getKurtosis(a) \in Double
  <2>1. Real(a.n) ** a.m4 \in Double /\ a.m2 ** a.m2 \in Double /\ Three \in Double
    BY AccumulatorFields, SomeDoubles, DoubleArithmetic DEF Three
  <2>2. (Real(a.n) ** a.m4) // (a.m2 ** a.m2) \in Double
    BY <2>1, DoubleArithmetic
  <2> QED
    BY <2>1, <2>2, DoubleArithmetic DEF getKurtosis
<1>4. /\ Finite(SkewnessOnGrid(a)) /\ Finite(OnGrid(getKurtosis(a)))
      /\ EstimatedPoint(a) = <<SkewnessOnGrid(a), OnGrid(getKurtosis(a))>>
  BY DEF FinitePoint, EstimatedPoint
<1>5. OnGrid(getKurtosis(a)) \in GridLine
  BY <1>3, <1>4, Coordinates
<1>6. SkewnessOnGrid(a) = IF Finite(ratio) /\ Finite(root)
                            THEN Real((ratio[1] * root[1]) \div ratio[2]) ELSE ratio ** root
  BY DEF SkewnessOnGrid
<1> HIDE DEF ratio, root
<1>7. CASE Finite(ratio) /\ Finite(root)
  <2>1. ratio[1] \in Int /\ ratio[2] \in Nat \ {0} /\ root[1] \in Int
    BY <1>1, <1>2, <1>7, DoubleCases, GridLines
  <2>2. ratio[1] * root[1] \in Int
    BY <2>1
  <2>3. (ratio[1] * root[1]) \div ratio[2] \in Int
    <3> DEFINE p == ratio[1] * root[1]
    <3>1. p \in Int
      BY <2>2
    <3> HIDE DEF p
    <3>2. p \div ratio[2] \in Int
      BY <2>1, <3>1
    <3> QED
      BY <3>2 DEF p
  <2>4. SkewnessOnGrid(a) \in GridLine
    BY <1>6, <1>7, <2>3, GridLines
  <2> QED
    BY <1>4, <1>5, <2>4
<1>8. CASE ~(Finite(ratio) /\ Finite(root))
  <2>1. ~Finite(ratio ** root)
    BY <1>8 DEF **, Finite
  <2> QED
    BY <1>4, <1>6, <1>8, <2>1
<1> QED
  BY <1>7, <1>8

LEMMA PointCoordinates ==
    ASSUME NEW a \in Accumulator
    PROVE  /\ \A i \in {0, EXPONENTIAL_IDX, UNIFORM_IDX} : Point(i, a) \in GridLine \X GridLine
           /\ Point(POISSON_IDX, a) \in Double \X Double
           /\ \A k \in {1, 2} :
                Finite(Point(POISSON_IDX, a)[k]) => Point(POISSON_IDX, a)[k] \in GridLine
<1>1. Point(0, a) = <<Zero, Zero>>
  BY DEF Point, EXPONENTIAL_IDX, UNIFORM_IDX, POISSON_IDX
<1>2. Point(EXPONENTIAL_IDX, a) = <<Real(24), Real(72)>>
  BY DEF Point, EXPONENTIAL_IDX, UNIFORM_IDX, POISSON_IDX, Grid
<1>3. Point(UNIFORM_IDX, a) = <<Zero, Real((-5 * Grid) \div 6)>>
  BY DEF Point, EXPONENTIAL_IDX, UNIFORM_IDX, POISSON_IDX
<1>4. (-5 * Grid) \div 6 \in Int
  BY DEF Grid
<1>5. \A i \in {0, EXPONENTIAL_IDX, UNIFORM_IDX} : Point(i, a) \in GridLine \X GridLine
  BY <1>1, <1>2, <1>3, <1>4, GridLines
<1>6. Point(POISSON_IDX, a) = PoissonPoint(a.m1)
  BY DEF Point, EXPONENTIAL_IDX, UNIFORM_IDX, POISSON_IDX
<1>7. CASE a.m1 = Zero
  <2>1. PoissonPoint(a.m1) = <<Zero, Zero>>
    BY <1>7 DEF PoissonPoint
  <2> QED
    BY <1>5, <1>6, <2>1, GridLines, SomeDoubles
<1>8. CASE a.m1 # Zero
  <2> DEFINE r == Real(1) // a.m1
  <2>1. r \in Double
    BY AccumulatorFields, SomeDoubles, DoubleArithmetic
  <2>2. PoissonPoint(a.m1) = <<RootOnGrid(r), OnGrid(r)>>
    BY <1>8 DEF PoissonPoint
  <2> HIDE DEF r
  <2> QED
    BY <1>5, <1>6, <2>1, <2>2, Coordinates
<1> QED
  BY <1>7, <1>8

LEMMA DistanceType ==
    ASSUME NEW p \in Double \X Double, NEW q \in GridLine \X GridLine
    PROVE  /\ euclideanDistance2d(p, q) \in Comparable \cup {NaN}
           /\ p \in GridLine \X GridLine => euclideanDistance2d(p, q) \in Number
<1> DEFINE x == IF Finite(p[1]) /\ Finite(q[1]) THEN Real(p[1][1] - q[1][1]) ELSE p[1] -- q[1]
           y == IF Finite(p[2]) /\ Finite(q[2]) THEN Real(p[2][1] - q[2][1]) ELSE p[2] -- q[2]
<1>1. /\ p[1] \in Double /\ p[2] \in Double /\ q[1] \in GridLine /\ q[2] \in GridLine
      /\ q[1] \in Double /\ q[2] \in Double /\ q[1][1] \in Int /\ q[2][1] \in Int
      /\ Finite(q[1]) /\ Finite(q[2])
  BY GridLines, SomeDoubles
<1>2. /\ Finite(p[1]) => x = Real(p[1][1] - q[1][1]) /\ p[1][1] - q[1][1] \in Int
      /\ ~Finite(p[1]) => x = p[1] -- q[1]
  BY <1>1, DoubleCases
<1>3. /\ Finite(p[2]) => y = Real(p[2][1] - q[2][1]) /\ p[2][1] - q[2][1] \in Int
      /\ ~Finite(p[2]) => y = p[2] -- q[2]
  BY <1>1, DoubleCases
<1>4. euclideanDistance2d(p, q) =
        IF Infinite(x) \/ Infinite(y) THEN Infinity
        ELSE IF x = NaN \/ y = NaN THEN NaN
        ELSE Real(x[1] * x[1] + y[1] * y[1])
  BY DEF euclideanDistance2d
<1> HIDE DEF x, y
<1>5. /\ x \in Double /\ (Finite(p[1]) => x \in Number)
      /\ y \in Double /\ (Finite(p[2]) => y \in Number)
  BY <1>1, <1>2, <1>3, SomeDoubles, DoubleArithmetic
<1>6. x[1] \in Int /\ y[1] \in Int
  BY <1>5, DoubleCases
<1>7. Real(x[1] * x[1] + y[1] * y[1]) \in Number
  <2>1. x[1] * x[1] + y[1] * y[1] \in Int
    BY <1>6
  <2> QED
    BY <2>1, SomeDoubles
<1>8. \A z \in Number : ~Infinite(z) /\ z # NaN
  BY DEF Number, Infinite, Infinity, MinusInfinity, NaN
<1>9. p \in GridLine \X GridLine => Finite(p[1]) /\ Finite(p[2])
  BY GridLines
<1> QED
  BY <1>4, <1>5, <1>7, <1>8, <1>9 DEF Comparable

\* The loop of std::min_element, one entry after the other.
LEMMA MinElementSteps ==
    ASSUME NEW d
    PROVE  \E s1, s2 \in 0..3 :
             /\ s1 = IF Less(d[1], d[0]) THEN 1 ELSE 0
             /\ s2 = IF Less(d[2], d[s1]) THEN 2 ELSE s1
             /\ MinElement(d) = IF Less(d[3], d[s2]) THEN 3 ELSE s2
<1> DEFINE Body(h) == [i \in Distributions |->
                         IF i = 0 THEN 0 ELSE IF Less(d[i], d[h[i - 1]]) THEN i ELSE h[i - 1]]
           smallest == CHOOSE h : h = Body(h)
           s1 == IF Less(d[1], d[0]) THEN 1 ELSE 0
           s2 == IF Less(d[2], d[s1]) THEN 2 ELSE s1
           s3 == IF Less(d[3], d[s2]) THEN 3 ELSE s2
           f == [i \in Distributions |-> IF i = 0 THEN 0 ELSE IF i = 1 THEN s1
                                         ELSE IF i = 2 THEN s2 ELSE s3]
<1>1. /\ s1 \in 0..3 /\ s2 \in 0..3
      /\ s1 = IF Less(d[1], d[0]) THEN 1 ELSE 0
      /\ s2 = IF Less(d[2], d[s1]) THEN 2 ELSE s1
      /\ s3 = IF Less(d[3], d[s2]) THEN 3 ELSE s2
  OBVIOUS
<1> HIDE DEF s1, s2, s3
<1>2. f[0] = 0 /\ f[1] = s1 /\ f[2] = s2 /\ f[3] = s3
  BY DEF Distributions
<1>3. f = [i \in Distributions |-> f[i]]
  OBVIOUS
<1> HIDE DEF f
<1>4. ASSUME NEW i \in Distributions
      PROVE  f[i] = IF i = 0 THEN 0 ELSE IF Less(d[i], d[f[i - 1]]) THEN i ELSE f[i - 1]
  <2>1. i = 0 \/ i = 1 \/ i = 2 \/ i = 3
    BY DEF Distributions
  <2>2. CASE i = 0
    BY <1>2, <2>2
  <2>3. CASE i = 1
    <3>1. i - 1 = 0
      BY <2>3
    <3> QED
      BY <1>1, <1>2, <2>3, <3>1
  <2>4. CASE i = 2
    <3>1. i - 1 = 1
      BY <2>4
    <3> QED
      BY <1>1, <1>2, <2>4, <3>1
  <2>5. CASE i = 3
    <3>1. i - 1 = 2
      BY <2>5
    <3> QED
      BY <1>1, <1>2, <2>5, <3>1
  <2> QED
    BY <2>1, <2>2, <2>3, <2>4, <2>5
<1>5. f = Body(f)
  BY <1>3, <1>4
<1>6. smallest = Body(smallest)
  <2> HIDE DEF Body
  <2> QED
    BY <1>5
<1>7. MinElement(d) = smallest[3]
  BY DEF MinElement
<1> HIDE DEF smallest
<1>8. /\ smallest[0] = 0
      /\ smallest[1] = IF Less(d[1], d[smallest[0]]) THEN 1 ELSE smallest[0]
      /\ smallest[2] = IF Less(d[2], d[smallest[1]]) THEN 2 ELSE smallest[1]
      /\ smallest[3] = IF Less(d[3], d[smallest[2]]) THEN 3 ELSE smallest[2]
  <2>1. \A i \in Distributions : smallest[i] =
          IF i = 0 THEN 0 ELSE IF Less(d[i], d[smallest[i - 1]]) THEN i ELSE smallest[i - 1]
    BY <1>6
  <2> HIDE DEF Body
  <2>2. /\ 0 \in Distributions /\ 1 \in Distributions /\ 2 \in Distributions /\ 3 \in Distributions
        /\ 1 - 1 = 0 /\ 2 - 1 = 1 /\ 3 - 1 = 2
    BY DEF Distributions
  <2> QED
    BY <2>1, <2>2
<1>9. MinElement(d) = s3
  BY <1>1, <1>7, <1>8
<1> QED
  BY <1>1, <1>9

\* Against numbers, an infinite distance loses and NaN is not chosen.
LEMMA LessChosen ==
    ASSUME NEW x \in Comparable \cup {NaN}, NEW y \in Number
    PROVE  /\ Less(x, y) => x \in Number
           /\ ~Less(NaN, y)
<1>1. ~Less(NaN, y)
  BY DEF Less
<1>2. ~Less(Infinity, y)
  BY LessNumbers
<1> QED
  BY <1>1, <1>2 DEF Comparable

LEMMA NearestDistance ==
    ASSUME NEW a \in Accumulator, FinitePoint(EstimatedPoint(a))
    PROVE  LET chosen == classifyStatsAccumulator(a).DistributionIdx
           IN  /\ Considered(chosen, a.isIntegerDistribution)
               /\ Finite(Distances(a)[chosen])
               /\ \A i \in Distributions :
                    Considered(i, a.isIntegerDistribution)
                      => ~Less(Distances(a)[i], Distances(a)[chosen])
<1> DEFINE d == Distances(a)
           chosen == MinElement(d)
<1>1. classifyStatsAccumulator(a).DistributionIdx = chosen
  BY DEF classifyStatsAccumulator
<1>2. ASSUME NEW i \in Distributions
      PROVE  /\ Considered(i, a.isIntegerDistribution) =>
                  /\ d[i] \in Comparable \cup {NaN}
                  /\ i # POISSON_IDX => d[i] \in Number
             /\ ~Considered(i, a.isIntegerDistribution) => d[i] = Infinity
  <2>1. d[i] = IF Considered(i, a.isIntegerDistribution)
                 THEN euclideanDistance2d(Point(i, a), EstimatedPoint(a)) ELSE Infinity
    BY DEF Distances
  <2>2. EstimatedPoint(a) \in GridLine \X GridLine
    BY EstimatedCoordinates
  <2>3. i # POISSON_IDX => i \in {0, EXPONENTIAL_IDX, UNIFORM_IDX}
    BY DEF Distributions, POISSON_IDX, EXPONENTIAL_IDX, UNIFORM_IDX
  <2>4. i # POISSON_IDX => Point(i, a) \in GridLine \X GridLine
    BY <2>3, PointCoordinates
  <2>5. GridLine \X GridLine \subseteq Double \X Double
    BY GridLines, SomeDoubles
  <2>6. Point(i, a) \in Double \X Double
    BY <2>4, <2>5, PointCoordinates
  <2> HIDE DEF d
  <2>7. euclideanDistance2d(Point(i, a), EstimatedPoint(a)) \in Comparable \cup {NaN}
    BY <2>2, <2>6, DistanceType
  <2>8. i # POISSON_IDX => euclideanDistance2d(Point(i, a), EstimatedPoint(a)) \in Number
    BY <2>2, <2>4, <2>6, DistanceType
  <2> QED
    BY <2>1, <2>7, <2>8
<1> HIDE DEF d
<1>3. PICK s1 \in 0..3, s2 \in 0..3 :
        /\ s1 = IF Less(d[1], d[0]) THEN 1 ELSE 0
        /\ s2 = IF Less(d[2], d[s1]) THEN 2 ELSE s1
        /\ chosen = IF Less(d[3], d[s2]) THEN 3 ELSE s2
  BY MinElementSteps
<1> HIDE DEF chosen
<1>4. Distributions = {0, 1, 2, 3} /\ POISSON_IDX = 3 /\ UNIFORM_IDX = 2 /\ EXPONENTIAL_IDX = 1
  BY DEF Distributions, POISSON_IDX, EXPONENTIAL_IDX, UNIFORM_IDX
<1>5. /\ Considered(chosen, a.isIntegerDistribution)
      /\ d[chosen] \in Number
      /\ \A i \in Distributions :
           Considered(i, a.isIntegerDistribution) => ~Less(d[i], d[chosen])
  <2>1. CASE a.isIntegerDistribution
    <3>1. \A i \in Distributions : Considered(i, a.isIntegerDistribution) <=> i \in {2, 3}
      BY <1>4, <2>1 DEF Considered
    <3>2. d[0] = Infinity /\ d[1] = Infinity /\ d[2] \in Number /\ d[3] \in Comparable \cup {NaN}
      BY <1>2, <1>4, <3>1
    <3>3. s1 = 0 /\ s2 = 2
      <4>1. ~Less(d[1], d[0]) /\ Less(d[2], d[0])
        BY <3>2, LessNumbers
      <4> QED
        BY <1>3, <4>1
    <3>4. CASE Less(d[3], d[2])
      <4>1. chosen = 3 /\ d[3] \in Number
        BY <1>3, <3>2, <3>3, <3>4, LessChosen
      <4>2. d[2] \in Comparable /\ d[3] \in Comparable
        BY <3>2, <4>1 DEF Comparable
      <4>3. ~Less(d[2], d[3]) /\ ~Less(d[3], d[3])
        BY <3>4, <4>2, LessOrder
      <4> QED
        BY <1>4, <3>1, <4>1, <4>3
    <3>5. CASE ~Less(d[3], d[2])
      <4>1. chosen = 2
        BY <1>3, <3>3, <3>5
      <4>2. ~Less(d[2], d[2])
        BY <3>2, LessOrder DEF Comparable
      <4> QED
        BY <1>4, <3>1, <3>2, <3>5, <4>1, <4>2
    <3> QED
      BY <3>4, <3>5
  <2>2. CASE ~a.isIntegerDistribution
    <3>1. \A i \in Distributions : Considered(i, a.isIntegerDistribution) <=> i \in {0, 1, 2}
      BY <1>4, <2>2 DEF Considered
    <3>2. d[0] \in Number /\ d[1] \in Number /\ d[2] \in Number /\ d[3] = Infinity
      BY <1>2, <1>4, <3>1
    <3>3. d[0] \in Comparable /\ d[1] \in Comparable /\ d[2] \in Comparable
      BY <3>2 DEF Comparable
    <3>4. s1 \in {0, 1} /\ ~Less(d[0], d[s1]) /\ ~Less(d[1], d[s1])
      BY <1>3, <3>3, LessOrder
    <3>5. s2 \in {0, 1, 2} /\ ~Less(d[0], d[s2]) /\ ~Less(d[1], d[s2]) /\ ~Less(d[2], d[s2])
      <4>1. d[s1] \in Comparable
        BY <3>3, <3>4
      <4>2. CASE Less(d[2], d[s1])
        <5>1. s2 = 2
          BY <1>3, <4>2
        <5>2. ~Less(d[0], d[2]) /\ ~Less(d[1], d[2]) /\ ~Less(d[2], d[2])
          BY <3>3, <3>4, <4>1, <4>2, LessOrder
        <5> QED
          BY <5>1, <5>2
      <4>3. CASE ~Less(d[2], d[s1])
        <5>1. s2 = s1
          BY <1>3, <4>3
        <5> QED
          BY <3>4, <4>3, <5>1
      <4> QED
        BY <4>2, <4>3
    <3>6. d[s2] \in Number
      BY <3>2, <3>5
    <3>7. chosen = s2
      BY <1>3, <3>2, <3>6, LessNumbers
    <3> QED
      BY <1>4, <3>1, <3>5, <3>6, <3>7
  <2> QED
    BY <2>1, <2>2
<1>6. Finite(d[chosen])
  BY <1>5, SomeDoubles, DoubleCases
<1> QED
  BY <1>1, <1>5, <1>6 DEF d

\* The distribution reported is one of those that were compared, at a finite
\* distance, and none of them is nearer: the loop of std::min_element survives
\* a distance that is NaN (DistributionClassification.h).
THEOREM NearestReported == Spec => []NearestConsidered
<1>1. Inv => NearestConsidered
  <2> SUFFICES ASSUME Inv, FinitePoint(EstimatedPoint(result)) PROVE NearestConsidered
    BY DEF NearestConsidered
  <2>1. result \in Accumulator
    BY DEF Inv, TypeOK
  <2> QED
    BY <2>1, NearestDistance DEF NearestConsidered
<1> QED
  BY <1>1, Invariance, PTL

----------------------------------------------------------------------------
(* Values: an operation on doubles that does not overflow is exact.         *)

\* Only a fraction equals a number.
LEMMA EqualsNumber ==
    ASSUME NEW x \in Double, NEW n, NEW d
    PROVE  Equals(x, n, d) <=> x \in Number /\ x[1] * d = n * x[2]
BY DoubleCases DEF Equals

\* Two fractions of one value.
LEMMA EqualsSame ==
    ASSUME NEW x \in Double, NEW n \in Int, NEW d \in Nat \ {0}, Equals(x, n, d),
           NEW m \in Int, NEW e \in Int, n * e = m * d
    PROVE  Equals(x, m, e)
<1>1. x[1] \in Int /\ x[2] \in Int /\ x[1] * d = n * x[2]
  BY EqualsNumber, DoubleCases
<1>2. (x[1] * e) * d = (m * x[2]) * d
  <2>1. (x[1] * e) * d = (x[1] * d) * e /\ (m * x[2]) * d = (m * d) * x[2]
    BY <1>1
  <2>2. (n * x[2]) * e = (n * e) * x[2]
    BY <1>1
  <2> QED
    BY <1>1, <2>1, <2>2
<1>3. x[1] * e \in Int /\ m * x[2] \in Int /\ d \in Int /\ d # 0
  BY <1>1
<1>4. x[1] * e = m * x[2]
  BY <1>2, <1>3, CancelFactor
<1> QED
  BY <1>4, EqualsNumber

LEMMA FractionValue ==
    ASSUME NEW n \in Int, NEW d \in Nat \ {0}
    PROVE  Equals(Fraction(n, d), n, d)
<1> DEFINE g == Gcd(Abs(n), d)
<1>1. Abs(n) \in Nat /\ (n = Abs(n) \/ n = -Abs(n))
  BY DEF Abs
<1>2. g \in 1..d /\ Divides(g, Abs(n)) /\ Divides(g, d)
  BY <1>1, GcdBounds
<1>f. Fraction(n, d) = <<n \div g, d \div g>>
  BY DEF Fraction
<1> HIDE DEF g
<1>3. g \in Nat \ {0}
  BY <1>2
<1>4. PICK u \in Nat, v \in Nat : Abs(n) = u * g /\ d = v * g
  BY <1>2 DEF Divides
<1>5. PICK w \in Int : n = w * g
  <2>1. n = u * g \/ n = (-u) * g
    BY <1>1, <1>3, <1>4
  <2> QED
    BY <2>1
<1>6. n \div g = w /\ d \div g = v
  BY <1>3, <1>4, <1>5, QuotientInt
<1>7. w * (v * g) = (w * g) * v
  BY <1>3
<1>8. Fraction(n, d) \in Number
  BY FractionType
<1>9. Fraction(n, d)[1] * d = n * Fraction(n, d)[2]
  BY <1>f, <1>4, <1>5, <1>6, <1>7
<1> QED
  BY <1>8, <1>9, EqualsNumber, SomeDoubles

LEMMA RoundedValue ==
    ASSUME NEW n \in Int, NEW d \in Nat \ {0}, Rounded(n, d) \in Number
    PROVE  Equals(Rounded(n, d), n, d)
<1>1. <<Sign(n), 0>> \notin Number
  BY DEF Number
<1>2. Rounded(n, d) = Fraction(n, d)
  BY <1>1 DEF Rounded
<1> QED
  BY <1>2, FractionValue

LEMMA PlusOperands ==
    ASSUME NEW x \in Double, NEW y \in Double, x ++ y \in Number
    PROVE  x \in Number /\ y \in Number
<1>1. NaN \notin Number
  BY DEF NaN, Number
<1>2. CASE Finite(x) /\ Finite(y)
  BY <1>2, DoubleCases
<1>3. CASE ~(Finite(x) /\ Finite(y))
  <2>1. x ++ y \in {x, y, NaN}
    BY <1>3 DEF ++
  <2>2. x ++ y = x => ~Finite(x)
    BY <1>3, DoubleCases DEF ++
  <2>3. x ++ y = y => ~Finite(y)
    BY <1>3, DoubleCases DEF ++
  <2> QED
    BY <1>1, <2>1, <2>2, <2>3, DoubleCases
<1> QED
  BY <1>2, <1>3

LEMMA PlusValue ==
    ASSUME NEW x \in Double, NEW p \in Int, NEW q \in Nat \ {0}, Equals(x, p, q),
           NEW y \in Double, NEW r \in Int, NEW t \in Nat \ {0}, Equals(y, r, t),
           x ++ y \in Number
    PROVE  Equals(x ++ y, p * t + r * q, q * t)
<1> DEFINE g == Gcd(x[2], y[2])
           v == y[2] \div g
           u == x[2] \div g
           z == x ++ y
<1>1. /\ x[1] \in Int /\ x[2] \in Nat \ {0} /\ y[1] \in Int /\ y[2] \in Nat \ {0}
      /\ Finite(x) /\ Finite(y)
  BY PlusOperands, DoubleCases
<1>2. g \in 1..y[2] /\ Divides(g, x[2]) /\ Divides(g, y[2])
  BY <1>1, GcdBounds
<1>3. z = Rounded(x[1] * v + y[1] * u, x[2] * v)
  BY <1>1 DEF ++
<1> HIDE DEF g
<1>4. g \in Nat \ {0}
  BY <1>1, <1>2
<1>5. u \in Nat /\ v \in Nat /\ x[2] = u * g /\ y[2] = v * g
  BY <1>2, <1>4, QuotientInt DEF Divides
<1> HIDE DEF u, v, z
<1>6. v # 0
  BY <1>1, <1>4, <1>5
<1>7. x[1] * v + y[1] * u \in Int /\ x[2] * v \in Nat \ {0}
  BY <1>1, <1>5, <1>6
<1>8. z \in Number
  BY DEF z
<1>9. Equals(z, x[1] * v + y[1] * u, x[2] * v)
  BY <1>3, <1>7, <1>8, RoundedValue
<1>10. /\ z[1] * (x[2] * v) = (x[1] * v + y[1] * u) * z[2] /\ z[1] \in Int /\ z[2] \in Int
       /\ x[1] * q = p * x[2] /\ y[1] * t = r * y[2]
  BY <1>8, <1>9, EqualsNumber, DoubleCases, SomeDoubles
<1>11. (z[1] * (q * t)) * (x[2] * v) = ((p * t + r * q) * z[2]) * (x[2] * v)
  <2> DEFINE x1 == x[1]  x2 == x[2]  y1 == y[1]  y2 == y[2]  z1 == z[1]  z2 == z[2]
  <2>1. /\ {x1, x2, y1, y2, z1, z2} \subseteq Int
        /\ x2 = u * g /\ y2 = v * g
        /\ z1 * (x2 * v) = (x1 * v + y1 * u) * z2 /\ x1 * q = p * x2 /\ y1 * t = r * y2
    BY <1>1, <1>5, <1>10
  <2> HIDE DEF x1, x2, y1, y2, z1, z2
  <2>2. (z1 * (q * t)) * (x2 * v) = (z1 * (x2 * v)) * (q * t)
    BY <1>5, <2>1
  <2>3. ((x1 * v + y1 * u) * z2) * (q * t) = ((x1 * q) * v * t + (y1 * t) * u * q) * z2
    BY <1>5, <2>1
  <2>4. ((p * x2) * v * t + (r * y2) * u * q) * z2 = ((p * t + r * q) * z2) * (x2 * v)
    BY <1>4, <1>5, <2>1
  <2>5. (z1 * (q * t)) * (x2 * v) = ((p * t + r * q) * z2) * (x2 * v)
    BY <2>1, <2>2, <2>3, <2>4
  <2> QED
    BY <2>5 DEF x1, x2, z1, z2
<1>12. z[1] * (q * t) \in Int /\ (p * t + r * q) * z[2] \in Int
  BY <1>10
<1>13. z[1] * (q * t) = (p * t + r * q) * z[2]
  BY <1>7, <1>11, <1>12, CancelFactor
<1> QED
  BY <1>8, <1>13, EqualsNumber, SomeDoubles DEF z

LEMMA MinusEquals ==
    ASSUME NEW y \in Double, NEW r \in Int, NEW t \in Nat \ {0}, Equals(y, r, t)
    PROVE  Minus(y) \in Double /\ Equals(Minus(y), -r, t)
<1>1. y \in Number /\ y[1] \in Int /\ y[2] \in Int /\ y[1] * t = r * y[2]
  BY EqualsNumber, DoubleCases
<1>2. Minus(y) \in Double
  BY MinusType
<1>3. CASE y = Denormal
  <2>1. 0 * t = r * 2
    BY <1>1, <1>3 DEF Denormal
  <2>2. 0 * t = (-r) * 2
    BY <2>1
  <2>3. Minus(y) = Denormal /\ Denormal \in Number /\ Denormal[1] = 0 /\ Denormal[2] = 2
    BY <1>3, SomeDoubles DEF Minus, Denormal
  <2> QED
    BY <2>2, <2>3, EqualsNumber, SomeDoubles
<1>4. CASE y # Denormal
  <2>1. Minus(y) = <<-y[1], y[2]>>
    BY <1>4 DEF Minus
  <2>2. Minus(y) \in Number
    BY <1>1, <2>1, DoubleCases
  <2>3. (-y[1]) * t = (-r) * y[2]
    <3>1. \A u, v \in Int : u * t = r * v => (-u) * t = (-r) * v
      <4>1. \A u, v \in Int : (-u) * t = -(u * t) /\ (-r) * v = -(r * v)
        OBVIOUS
      <4> QED
        BY <4>1
    <3> QED
      BY <1>1, <3>1
  <2>4. Minus(y)[1] * t = (-r) * Minus(y)[2]
    BY <2>1, <2>3
  <2> QED
    BY <2>2, <2>4, <1>2, EqualsNumber
<1> QED
  BY <1>3, <1>4

LEMMA MinusValue ==
    ASSUME NEW x \in Double, NEW p \in Int, NEW q \in Nat \ {0}, Equals(x, p, q),
           NEW y \in Double, NEW r \in Int, NEW t \in Nat \ {0}, Equals(y, r, t),
           x -- y \in Number
    PROVE  Equals(x -- y, p * t - r * q, q * t)
<1>1. x -- y = x ++ Minus(y)
  BY DEF --
<1>2. Equals(x ++ Minus(y), p * t + (-r) * q, q * t)
  <2>1. -r \in Int /\ x ++ Minus(y) \in Number
    BY <1>1
  <2> QED
    BY <2>1, MinusEquals, PlusValue
<1>3. p * t + (-r) * q = p * t - r * q
  OBVIOUS
<1> QED
  BY <1>1, <1>2, <1>3

LEMMA MinusOperands ==
    ASSUME NEW x \in Double, NEW y \in Double, x -- y \in Number
    PROVE  x \in Number /\ y \in Number
<1>1. x \in Number /\ Minus(y) \in Number
  BY MinusType, PlusOperands DEF --
<1>2. Minus(y) \in Number => y \in Number
  BY SomeDoubles, DoubleCases DEF Minus, Finite
<1> QED
  BY <1>1, <1>2

LEMMA TimesOperands ==
    ASSUME NEW x \in Double, NEW y \in Double, x ** y \in Number
    PROVE  x \in Number /\ y \in Number
<1>1. \A i : <<i, 0>> \notin Number
  BY DEF Number
<1>2. Finite(x) /\ Finite(y)
  BY <1>1, TimesCases
<1> QED
  BY <1>2, DoubleCases

LEMMA TimesValue ==
    ASSUME NEW x \in Double, NEW p \in Int, NEW q \in Nat \ {0}, Equals(x, p, q),
           NEW y \in Double, NEW r \in Int, NEW t \in Nat \ {0}, Equals(y, r, t),
           x ** y \in Number
    PROVE  Equals(x ** y, p * r, q * t)
<1> DEFINE a == Fraction(x[1], y[2])
           b == Fraction(y[1], x[2])
           z == x ** y
           x1 == x[1]  x2 == x[2]  y1 == y[1]  y2 == y[2]
<1>1. /\ x1 \in Int /\ x2 \in Nat \ {0} /\ y1 \in Int /\ y2 \in Nat \ {0}
      /\ Finite(x) /\ Finite(y)
  BY TimesOperands, DoubleCases
<1>2. x1 * q = p * x2 /\ y1 * t = r * y2
  BY EqualsNumber
<1>3. CASE x1 = 0 \/ y1 = 0
  <2>1. z = Zero
    BY <1>1, <1>3, TimesCases
  <2> HIDE DEF x1, x2, y1, y2, z
  <2>2. p * r = 0
    <3>1. x1 = 0 => p * x2 = 0 * x2
      BY <1>1, <1>2
    <3>2. y1 = 0 => r * y2 = 0 * y2
      BY <1>1, <1>2
    <3>3. p = 0 \/ r = 0
      BY <1>1, <1>3, <3>1, <3>2, CancelFactor
    <3> QED
      BY <3>3
  <2>3. Zero \in Number /\ Zero[1] = 0 /\ Zero[2] = 1
    BY SomeDoubles DEF Zero
  <2>4. q * t \in Nat /\ 0 * (q * t) = 0 * 1
    OBVIOUS
  <2> QED
    BY <2>1, <2>2, <2>3, <2>4, EqualsNumber, SomeDoubles DEF z
<1>4. CASE x1 # 0 /\ y1 # 0
  <2>1. z = Rounded(a[1] * b[1], a[2] * b[2])
    BY <1>1, <1>4, TimesCases
  <2>2. a \in Number /\ b \in Number /\ Equals(a, x1, y2) /\ Equals(b, y1, x2)
    BY <1>1, FractionType, FractionValue
  <2> HIDE DEF a, b, z, x1, x2, y1, y2
  <2> DEFINE a1 == a[1]  a2 == a[2]  b1 == b[1]  b2 == b[2]  z1 == z[1]  z2 == z[2]
  <2>3. /\ a1 \in Int /\ b1 \in Int /\ a2 \in Nat \ {0} /\ b2 \in Nat \ {0}
        /\ a1 * y2 = x1 * a2 /\ b1 * x2 = y1 * b2
    BY <2>2, EqualsNumber, DoubleCases, SomeDoubles
  <2>4. z \in Number
    BY DEF z
  <2>5. a1 * b1 \in Int /\ a2 * b2 \in Nat \ {0}
    BY <2>3
  <2>6. Equals(z, a1 * b1, a2 * b2)
    BY <2>1, <2>4, <2>5, RoundedValue
  <2>7. z1 \in Int /\ z2 \in Int /\ z1 * (a2 * b2) = (a1 * b1) * z2
    BY <2>4, <2>6, EqualsNumber, DoubleCases, SomeDoubles
  <2> HIDE DEF a1, a2, b1, b2, z1, z2
  <2> DEFINE c == (a2 * b2) * (x2 * y2)
  <2>8. (z1 * (q * t)) * c = ((p * r) * z2) * c
    <3>1. (z1 * (q * t)) * c = (z1 * (a2 * b2)) * (q * t * x2 * y2)
      BY <1>1, <2>3, <2>7
    <3>2. ((a1 * b1) * z2) * (q * t * x2 * y2) = (a1 * y2) * (b1 * x2) * z2 * q * t
      BY <1>1, <2>3, <2>7
    <3>3. (x1 * a2) * (y1 * b2) * z2 * q * t = (x1 * q) * (y1 * t) * z2 * a2 * b2
      BY <1>1, <2>3, <2>7
    <3>4. (p * x2) * (r * y2) * z2 * a2 * b2 = ((p * r) * z2) * c
      BY <1>1, <2>3, <2>7
    <3> HIDE DEF c
    <3> QED
      BY <1>2, <2>3, <2>7, <3>1, <3>2, <3>3, <3>4
  <2>9. c \in Int /\ c # 0
    BY <1>1, <2>3
  <2> HIDE DEF c
  <2>10. z1 * (q * t) = (p * r) * z2
    <3>1. z1 * (q * t) \in Int /\ (p * r) * z2 \in Int
      BY <2>7
    <3> QED
      BY <2>8, <2>9, <3>1, CancelFactor
  <2> QED
    BY <2>4, <2>10, EqualsNumber, SomeDoubles DEF z, z1, z2
<1> QED
  BY <1>3, <1>4

LEMMA RealValue ==
    ASSUME NEW i \in Int
    PROVE  Real(i) \in Double /\ Real(i) \in Number /\ Equals(Real(i), i, 1)
<1>1. Real(i) \in Number /\ Real(i)[1] * 1 = i * Real(i)[2]
  BY SomeDoubles DEF Real
<1> QED
  BY <1>1, EqualsNumber, SomeDoubles

LEMMA DivideValue ==
    ASSUME NEW x \in Double, NEW p \in Int, NEW q \in Nat \ {0}, Equals(x, p, q),
           NEW n \in Nat \ {0}, x // Real(n) \in Number
    PROVE  Equals(x // Real(n), p, q * n)
<1>1. Reciprocal(Real(n)) = <<1, n>>
  <2>1. Real(n) # NaN /\ ~Infinite(Real(n)) /\ Real(n)[1] # 0
    BY DEF Real, NaN, Infinite, Infinity, MinusInfinity
  <2> QED
    BY <2>1 DEF Reciprocal, Real, Sign, Abs
<1>2. <<1, n>> \in Number /\ Equals(<<1, n>>, 1, n)
  <2>1. <<1, n>> \in Number /\ <<1, n>>[1] = 1 /\ <<1, n>>[2] = n
    BY DoubleCases
  <2> QED
    BY <2>1, EqualsNumber, SomeDoubles
<1>3. Equals(x // Real(n), p * 1, q * n)
  BY <1>1, <1>2, TimesValue, SomeDoubles DEF //
<1> QED
  BY <1>3

LEMMA DivideOperand ==
    ASSUME NEW x \in Double, NEW y \in Double, x // y \in Number
    PROVE  x \in Number
BY ReciprocalType, TimesOperands DEF //

----------------------------------------------------------------------------
(* Doubles that are ratios of polynomials of integers                       *)

\* The double x is a number, the ratio p/q of two integers.
Ratio(x, p, q) == x \in Double /\ p \in Int /\ q \in Nat \ {0} /\ Equals(x, p, q)

LEMMA RatioReal ==
    ASSUME NEW i \in Int
    PROVE  Ratio(Real(i), i, 1)
BY RealValue DEF Ratio

LEMMA RatioSame ==
    ASSUME NEW x, NEW p, NEW q, Ratio(x, p, q),
           NEW m \in Int, NEW e \in Nat \ {0}, p * e = m * q
    PROVE  Ratio(x, m, e)
BY EqualsSame DEF Ratio

LEMMA RatioPlus ==
    ASSUME NEW x, NEW p, NEW q, Ratio(x, p, q), NEW y, NEW r, NEW t, Ratio(y, r, t),
           x ++ y \in Number
    PROVE  Ratio(x ++ y, p * t + r * q, q * t)
<1>1. p * t + r * q \in Int /\ q * t \in Nat \ {0}
  BY DEF Ratio
<1>2. x ++ y \in Double
  BY DoubleArithmetic DEF Ratio
<1>3. Equals(x ++ y, p * t + r * q, q * t)
  BY PlusValue DEF Ratio
<1> QED
  BY <1>1, <1>2, <1>3 DEF Ratio

LEMMA RatioMinus ==
    ASSUME NEW x, NEW p, NEW q, Ratio(x, p, q), NEW y, NEW r, NEW t, Ratio(y, r, t),
           x -- y \in Number
    PROVE  Ratio(x -- y, p * t - r * q, q * t)
<1>1. p * t - r * q \in Int /\ q * t \in Nat \ {0}
  BY DEF Ratio
<1>2. x -- y \in Double
  BY DoubleArithmetic DEF Ratio
<1>3. Equals(x -- y, p * t - r * q, q * t)
  BY MinusValue DEF Ratio
<1> QED
  BY <1>1, <1>2, <1>3 DEF Ratio

LEMMA RatioTimes ==
    ASSUME NEW x, NEW p, NEW q, Ratio(x, p, q), NEW y, NEW r, NEW t, Ratio(y, r, t),
           x ** y \in Number
    PROVE  Ratio(x ** y, p * r, q * t)
<1>1. p * r \in Int /\ q * t \in Nat \ {0}
  BY DEF Ratio
<1>2. x ** y \in Double
  BY DoubleArithmetic DEF Ratio
<1>3. Equals(x ** y, p * r, q * t)
  BY TimesValue DEF Ratio
<1> QED
  BY <1>1, <1>2, <1>3 DEF Ratio

LEMMA RatioSquare ==
    ASSUME NEW x, NEW p, NEW q, Ratio(x, p, q), x ** x \in Number
    PROVE  Ratio(x ** x, p * p, q * q)
BY RatioTimes, Zenon

LEMMA RatioScaled ==
    ASSUME NEW x, NEW p, NEW q, Ratio(x, p, q), NEW k \in Int
    PROVE  /\ x ** Real(k) \in Number => Ratio(x ** Real(k), p * k, q)
           /\ Real(k) ** x \in Number => Ratio(Real(k) ** x, k * p, q)
<1>1. Ratio(Real(k), k, 1)
  BY RatioReal
<1>2. p \in Int /\ q \in Nat \ {0} /\ q * 1 = q /\ 1 * q = q
  BY DEF Ratio
<1>3. x ** Real(k) \in Number => Ratio(x ** Real(k), p * k, q * 1)
  BY <1>1, RatioTimes, Zenon
<1>4. Real(k) ** x \in Number => Ratio(Real(k) ** x, k * p, 1 * q)
  BY <1>1, RatioTimes, Zenon
<1> QED
  BY <1>2, <1>3, <1>4, Zenon

LEMMA RatioDivide ==
    ASSUME NEW x, NEW p, NEW q, Ratio(x, p, q), NEW n \in Nat \ {0}, x // Real(n) \in Number
    PROVE  Ratio(x // Real(n), p, q * n)
<1>1. p \in Int /\ q * n \in Nat \ {0}
  BY DEF Ratio
<1>2. x // Real(n) \in Double
  BY DoubleArithmetic, SomeDoubles DEF Ratio
<1>3. Equals(x // Real(n), p, q * n)
  BY DivideValue DEF Ratio
<1> QED
  BY <1>1, <1>2, <1>3 DEF Ratio

\* A sum brought to the denominator that it is to have.
LEMMA RatioSum ==
    ASSUME NEW x, NEW p, NEW q, Ratio(x, p, q), NEW y, NEW r, NEW t, Ratio(y, r, t),
           x ++ y \in Number,
           NEW f \in Int, NEW e \in Int, NEW v \in Int, NEW w \in Nat \ {0},
           t = q * f, t = e * w, p * f + r = e * v
    PROVE  Ratio(x ++ y, v, w)
<1>1. Ratio(x ++ y, p * t + r * q, q * t)
  BY RatioPlus
<1>2. p \in Int /\ q \in Int /\ r \in Int /\ t \in Int
  BY DEF Ratio
<1>3. (p * t + r * q) * w = v * (q * t)
  <2>1. p * (q * f) + r * q = (p * f + r) * q
    BY <1>2
  <2>2. ((e * v) * q) * w = v * (q * (e * w))
    BY <1>2
  <2> QED
    BY <2>1, <2>2
<1> QED
  BY <1>1, <1>3, RatioSame

----------------------------------------------------------------------------
(* Accumulators that have the moments of given sums                        *)

\* The cube of every count fits into size_t.
CubeFits == MaxValues * MaxValues * MaxValues < WordModulus

\* Products of two counts up to k fit, those of three as far as they do in files
\* of this size.
Fits(k) == k * k < WordModulus /\ (CubeFits => k * k * k < WordModulus)

\* The doubles are the mean and the moments, times the count, of integers
\* with the sums s, each divided by Scale.  The fourth is wrong if cubes wrap.
Moments(m1, m2, m3, m4, s) ==
    LET d == IF s[0] = 0 THEN 1 ELSE s[0]
        C == Scale
    IN  /\ Ratio(m1, s[1], d * C)
        /\ Ratio(m2, Second(s[0], s[1], s[2]), d * C * C)
        /\ Ratio(m3, Third(s[0], s[1], s[2], s[3]), d * d * C * C * C)
        /\ CubeFits => Ratio(m4, Fourth(s[0], s[1], s[2], s[3], s[4]), d * d * d * C * C * C * C)

\* The doubles are what one more integer X adds to them.
Increments(i1, i2, i3, i4, s, X) ==
    LET n == s[0]
        d == IF s[0] = 0 THEN 1 ELSE s[0]
        N == s[0] + 1
        C == Scale
        D == d * X - s[1]
        A2 == Second(s[0], s[1], s[2])
        A3 == Third(s[0], s[1], s[2], s[3])
    IN  /\ Ratio(i1, D, d * C * N)
        /\ Ratio(i2, D * D * n, d * d * C * C * N)
        /\ Ratio(i3, D * D * D * n * (N - 2) - 3 * d * N * D * A2, d * d * d * C * C * C * N * N)
        /\ Ratio(i4, D * D * D * D * n * (N * N - 3 * N + 3) + 6 * d * N * D * D * A2
                       - 4 * d * N * N * D * A3,
                 d * d * d * d * C * C * C * C * N * N * N)

\* Adding the increments to the moments of s gives those of s and X together.
LEMMA PushExact ==
    ASSUME NEW s \in Sums, NEW X \in Int, NEW m1, NEW m2, NEW m3, NEW m4, Moments(m1, m2, m3, m4, s),
           NEW i1, NEW i2, NEW i3, NEW i4, Increments(i1, i2, i3, i4, s, X),
           m1 ++ i1 \in Number, m2 ++ i2 \in Number, m3 ++ i3 \in Number, m4 ++ i4 \in Number
    PROVE  Moments(m1 ++ i1, m2 ++ i2, m3 ++ i3, m4 ++ i4, Added(s, Powers(X)))
<1> DEFINE n == s[0]
           d == IF s[0] = 0 THEN 1 ELSE s[0]
           N == s[0] + 1
           C == Scale
           D == d * X - s[1]
           p1 == s[1]
           p2 == s[2]
           p3 == s[3]
           p4 == s[4]
           A2 == Second(n, p1, p2)
           A3 == Third(n, p1, p2, p3)
           A4 == Fourth(n, p1, p2, p3, p4)
<1>x. /\ n \in Nat /\ p1 \in Int /\ p2 \in Int /\ p3 \in Int /\ p4 \in Int /\ d \in Nat \ {0}
      /\ d = n \/ (n = 0 /\ d = 1 /\ p1 = 0 /\ p2 = 0 /\ p3 = 0 /\ p4 = 0)
      /\ N \in Nat \ {0} /\ N = n + 1 /\ C \in Nat \ {0} /\ D = d * X - p1
  BY SumsFacts, ResultsConstants
<1>y. /\ Ratio(m1, p1, d * C) /\ Ratio(m2, A2, d * C * C)
      /\ Ratio(m3, A3, d * d * C * C * C)
      /\ CubeFits => Ratio(m4, A4, d * d * d * C * C * C * C)
  BY DEF Moments
<1>z. /\ Ratio(i1, D, d * C * N)
      /\ Ratio(i2, D * D * n, d * d * C * C * N)
      /\ Ratio(i3, D * D * D * n * (N - 2) - 3 * d * N * D * A2, d * d * d * C * C * C * N * N)
      /\ Ratio(i4, D * D * D * D * n * (N * N - 3 * N + 3) + 6 * d * N * D * D * A2
                     - 4 * d * N * N * D * A3,
               d * d * d * d * C * C * C * C * N * N * N)
  BY DEF Increments
<1>u. A2 = Second(n, p1, p2) /\ A3 = Third(n, p1, p2, p3) /\ A4 = Fourth(n, p1, p2, p3, p4)
  OBVIOUS
<1>v. s[0] = n /\ s[1] = p1 /\ s[2] = p2 /\ s[3] = p3 /\ s[4] = p4 /\ Scale = C
  OBVIOUS
<1> HIDE DEF n, d, N, C, D, p1, p2, p3, p4, A2, A3, A4
<1>w. D \in Int /\ A2 \in Int /\ A3 \in Int /\ A4 \in Int
  <2>1. D \in Int
    BY <1>x
  <2> QED
    BY <1>x, <1>u, <2>1, MomentTypes
<1> USE <1>x, <1>y, <1>z, <1>u, <1>w
<1> DEFINE B1 == p1 + X
           B2 == Second(N, p1 + X, p2 + X * X)
           B3 == Third(N, p1 + X, p2 + X * X, p3 + X * X * X)
           B4 == Fourth(N, p1 + X, p2 + X * X, p3 + X * X * X, p4 + X * X * X * X)
           q1 == d * C
           q2 == d * C * C
           q3 == d * d * C * C * C
           q4 == d * d * d * C * C * C * C
           w1 == N * C
           w2 == N * C * C
           w3 == N * N * C * C * C
           w4 == N * N * N * C * C * C * C
           t1 == d * C * N
           t2 == d * d * C * C * N
           t3 == d * d * d * C * C * C * N * N
           t4 == d * d * d * d * C * C * C * C * N * N * N
           F == N
           I1 == D
           I2 == D * D * n
           I3 == D * D * D * n * (N - 2) - 3 * d * N * D * A2
           I4 == D * D * D * D * n * (N * N - 3 * N + 3) + 6 * d * N * D * D * A2 - 4 * d * N * N * D * A3
<1>1. B1 \in Int /\ B2 \in Int /\ B3 \in Int /\ B4 \in Int
  <2>1. /\ p1 + X \in Int /\ p2 + X * X \in Int /\ p3 + X * X * X \in Int
        /\ p4 + X * X * X * X \in Int /\ N \in Int
    OBVIOUS
  <2> QED
    BY <2>1, MomentTypes
<1> HIDE DEF B2, B3, B4
<1>2. /\ p1 * F + I1 = d * B1
      /\ A2 * (d * N) + I2 = (d * d) * B2
      /\ A3 * (d * N * N) + I3 = (d * d * d) * B3
      /\ A4 * (d * N * N * N) + I4 = (d * d * d * d) * B4
  <2>1. CASE d = n
    BY <2>1 DEF Second, Third, Fourth, B2, B3, B4
  <2>2. CASE n = 0 /\ d = 1 /\ p1 = 0 /\ p2 = 0 /\ p3 = 0 /\ p4 = 0
    <3>1. N = 1 /\ D = X /\ A2 = 0 /\ A3 = 0
      BY <2>2 DEF Second, Third
    <3>2. A4 = 0
      BY <2>2 DEF Fourth
    <3>3. B1 = X /\ B2 = 0 /\ B3 = 0 /\ B4 = 0
      BY <2>2, <3>1 DEF Second, Third, Fourth, B2, B3, B4
    <3>4. /\ 0 * 1 + X = 1 * X
          /\ 0 * (1 * 1) + X * X * 0 = (1 * 1) * 0
          /\ 0 * (1 * 1 * 1) + (X * X * X * 0 * (1 - 2) - 3 * 1 * 1 * X * 0) = (1 * 1 * 1) * 0
          /\ 0 * (1 * 1 * 1 * 1) + (X * X * X * X * 0 * (1 * 1 - 3 * 1 + 3) + 6 * 1 * 1 * X * X * 0
               - 4 * 1 * 1 * 1 * X * 0) = (1 * 1 * 1 * 1) * 0
      OBVIOUS
    <3> HIDE DEF B1
    <3> QED
      BY <2>2, <3>1, <3>2, <3>3, <3>4, Zenon
  <2> QED
    BY <2>1, <2>2
<1>3. /\ F \in Int /\ w1 \in Nat \ {0} /\ w2 \in Nat \ {0} /\ w3 \in Nat \ {0} /\ w4 \in Nat \ {0}
      /\ d * N \in Int /\ d * N * N \in Int /\ d * N * N * N \in Int
      /\ d \in Int /\ N \in Int /\ d * d \in Int /\ d * d * d \in Int /\ d * d * d * d \in Int
  BY Factors
<1>4. /\ t1 = q1 * F /\ t1 = d * w1 /\ t2 = q2 * (d * N) /\ t2 = (d * d) * w2
      /\ t3 = q3 * (d * N * N) /\ t3 = (d * d * d) * w3
      /\ t4 = q4 * (d * N * N * N) /\ t4 = (d * d * d * d) * w4
  OBVIOUS
<1>5. /\ Ratio(m1, p1, q1) /\ Ratio(m2, A2, q2) /\ Ratio(m3, A3, q3)
      /\ CubeFits => Ratio(m4, A4, q4)
      /\ Ratio(i1, I1, t1) /\ Ratio(i2, I2, t2) /\ Ratio(i3, I3, t3) /\ Ratio(i4, I4, t4)
  OBVIOUS
<1> HIDE DEF B1, q1, q2, q3, q4, w1, w2, w3, w4, t1, t2, t3, t4, F, I1, I2, I3, I4
<1>6. Ratio(m1 ++ i1, B1, w1)
  <2>1. /\ Ratio(m1, p1, q1) /\ Ratio(i1, I1, t1) /\ F \in Int /\ d \in Int /\ B1 \in Int
        /\ w1 \in Nat \ {0} /\ t1 = q1 * F /\ t1 = d * w1 /\ p1 * F + I1 = d * B1
    BY <1>1, <1>2, <1>3, <1>4, <1>5
  <2>2. m1 ++ i1 \in Number
    OBVIOUS
  <2> QED
    BY <2>1, <2>2, RatioSum, Zenon
<1>7. Ratio(m2 ++ i2, B2, w2)
  <2> DEFINE f == d * N  e == d * d
  <2>1. /\ Ratio(m2, A2, q2) /\ Ratio(i2, I2, t2) /\ f \in Int /\ e \in Int /\ B2 \in Int
        /\ w2 \in Nat \ {0} /\ t2 = q2 * f /\ t2 = e * w2 /\ A2 * f + I2 = e * B2
    BY <1>1, <1>2, <1>3, <1>4, <1>5
  <2>2. m2 ++ i2 \in Number
    OBVIOUS
  <2> HIDE DEF f, e
  <2> QED
    BY <2>1, <2>2, RatioSum, Zenon
<1>8. Ratio(m3 ++ i3, B3, w3)
  <2> DEFINE f == d * N * N  e == d * d * d
  <2>1. /\ Ratio(m3, A3, q3) /\ Ratio(i3, I3, t3) /\ f \in Int /\ e \in Int /\ B3 \in Int
        /\ w3 \in Nat \ {0} /\ t3 = q3 * f /\ t3 = e * w3 /\ A3 * f + I3 = e * B3
    BY <1>1, <1>2, <1>3, <1>4, <1>5
  <2>2. m3 ++ i3 \in Number
    OBVIOUS
  <2> HIDE DEF f, e
  <2> QED
    BY <2>1, <2>2, RatioSum, Zenon
<1>9. CubeFits => Ratio(m4 ++ i4, B4, w4)
  <2> SUFFICES ASSUME CubeFits PROVE Ratio(m4 ++ i4, B4, w4)
    OBVIOUS
  <2> DEFINE f == d * N * N * N  e == d * d * d * d
  <2>1. /\ Ratio(m4, A4, q4) /\ Ratio(i4, I4, t4) /\ f \in Int /\ e \in Int /\ B4 \in Int
        /\ w4 \in Nat \ {0} /\ t4 = q4 * f /\ t4 = e * w4 /\ A4 * f + I4 = e * B4
    BY <1>1, <1>2, <1>3, <1>4, <1>5
  <2>2. m4 ++ i4 \in Number
    OBVIOUS
  <2> HIDE DEF f, e
  <2> QED
    BY <2>1, <2>2, RatioSum, Zenon
<1> DEFINE t == Added(s, Powers(X))
<1>10. /\ t[0] = N /\ t[1] = p1 + X /\ t[2] = p2 + X * X /\ t[3] = p3 + X * X * X
       /\ t[4] = p4 + X * X * X * X
  <2>1. /\ \A k \in 0..4 : t[k] = s[k] + Powers(X)[k]
        /\ Powers(X)[0] = 1 /\ Powers(X)[1] = X /\ Powers(X)[2] = X * X
        /\ Powers(X)[3] = X * X * X /\ Powers(X)[4] = X * X * X * X
    BY PowersFacts, AddedFacts
  <2>2. /\ t[0] = s[0] + Powers(X)[0] /\ t[1] = s[1] + Powers(X)[1] /\ t[2] = s[2] + Powers(X)[2]
        /\ t[3] = s[3] + Powers(X)[3] /\ t[4] = s[4] + Powers(X)[4]
    <3> HIDE DEF t
    <3> QED
      BY <2>1
  <2> QED
    BY <1>v, <2>1, <2>2
<1> HIDE DEF t
<1>11. (IF t[0] = 0 THEN 1 ELSE t[0]) = N
  BY <1>10
<1>12. /\ Ratio(m1 ++ i1, t[1], N * C)
       /\ Ratio(m2 ++ i2, Second(t[0], t[1], t[2]), N * C * C)
       /\ Ratio(m3 ++ i3, Third(t[0], t[1], t[2], t[3]), N * N * C * C * C)
       /\ CubeFits => Ratio(m4 ++ i4, Fourth(t[0], t[1], t[2], t[3], t[4]), N * N * N * C * C * C * C)
  BY <1>6, <1>7, <1>8, <1>9, <1>10 DEF B1, B2, B3, B4, w1, w2, w3, w4
<1>13. Moments(m1 ++ i1, m2 ++ i2, m3 ++ i3, m4 ++ i4, t)
  BY <1>11, <1>12, <1>v DEF Moments
<1> QED
  BY <1>13 DEF t

Numbers(a) == {a.m1, a.m2, a.m3, a.m4} \subseteq Number

\* Unless it has overflowed, the accumulator is that of integers with the sums
\* s, in units of 1/Scale.
Tracked(a, s) == a.n = s[0] /\ (Numbers(a) => Moments(a.m1, a.m2, a.m3, a.m4, s))

\* The arithmetic of size_t in push.
LEMMA PushWords ==
    ASSUME NEW n \in Nat, Fits(n + 1), NEW N, N = Word(n + 1)
    PROVE  /\ N = n + 1 /\ N \in Nat \ {0}
           /\ Word(N - 2) \in Int /\ n * Word(N - 2) = n * (N - 2)
           /\ Word(N * N - 3 * N + 3) \in Int
           /\ n * Word(N * N - 3 * N + 3) = n * (N * N - 3 * N + 3)
<1> DEFINE M == n + 1
<1>1. M \in Nat /\ M <= M * M /\ M * M \in Nat
  <2>1. M \in Nat /\ 1 <= M /\ M * M \in Nat
    OBVIOUS
  <2>2. 1 * M <= M * M
    BY <2>1, ProductMonotone
  <2> QED
    BY <2>1, <2>2
<1>2. M < WordModulus /\ M * M < WordModulus
  BY <1>1, WordAssumption DEF Fits
<1>3. N = M
  BY <1>1, <1>2, Words
<1>4. n = 0 \/ (M - 2 \in Nat /\ M - 2 < WordModulus)
  BY <1>2, WordAssumption
<1>5. M * M - 3 * M + 3 \in Nat /\ M * M - 3 * M + 3 < WordModulus
  <2>1. M * M - 3 * M + 3 = n * n - n + 1
    OBVIOUS
  <2>2. n = 0 \/ (n * n >= n /\ n * n \in Nat)
    OBVIOUS
  <2>3. M * M = n * n + 2 * n + 1
    OBVIOUS
  <2> QED
    BY <1>2, <2>1, <2>2, <2>3, WordAssumption
<1> HIDE DEF M
<1>6. Word(M - 2) \in Int /\ Word(M * M - 3 * M + 3) \in Int
  <2>1. M - 2 \in Int /\ M * M - 3 * M + 3 \in Int
    BY <1>1
  <2> QED
    BY <2>1, Words
<1>7. n * Word(M - 2) = n * (M - 2)
  <2>1. CASE n = 0
    BY <1>1, <1>6, <2>1
  <2>2. CASE n # 0
    BY <1>4, <2>2, Words
  <2> QED
    BY <2>1, <2>2
<1>8. Word(M * M - 3 * M + 3) = M * M - 3 * M + 3
  BY <1>5, Words
<1>9. M = n + 1 /\ M # 0
  BY DEF M
<1> QED
  BY <1>1, <1>3, <1>6, <1>7, <1>8, <1>9

\* push is exact unless it overflows.
LEMMA pushExact ==
    ASSUME NEW a \in Accumulator, NEW s \in Sums, Tracked(a, s), NEW x \in Double, NEW X \in Int,
           Ratio(x, X, Scale), valueNormalOrZero(x), Fits(s[0] + 1)
    PROVE  Tracked(push(a, x), Added(s, Powers(X)))
<1> DEFINE n == a.n
           N == Word(a.n + 1)
           j == Word(N - 2)
           k == Word(N * N - 3 * N + 3)
           m1 == a.m1
           m2 == a.m2
           m3 == a.m3
           m4 == a.m4
           delta == x -- m1
           i1 == delta // Real(N)
           sq == i1 ** i1
           dd == delta ** i1
           i2 == dd ** Real(n)
           e0 == i2 ** i1
           e1 == e0 ** Real(j)
           g0 == Three ** i1
           e2 == g0 ** m2
           i3 == e1 -- e2
           f0 == i2 ** sq
           f1 == f0 ** Real(k)
           h0 == Six ** sq
           f2 == h0 ** m2
           f3 == f1 ++ f2
           l0 == Four ** i1
           f4 == l0 ** m3
           i4 == f3 -- f4
           o1 == m1 ++ i1
           o2 == m2 ++ i2
           o3 == m3 ++ i3
           o4 == m4 ++ i4
           p1 == s[1]
           d == IF s[0] = 0 THEN 1 ELSE s[0]
           C == Scale
           D == d * X - p1
           A2 == Second(n, p1, s[2])
           A3 == Third(n, p1, s[2], s[3])
           b == push(a, x)
<1>b. b.n = N /\ b.m1 = o1 /\ b.m2 = o2 /\ b.m3 = o3 /\ b.m4 = o4
  BY DEF push, Accumulator
<1>e. /\ delta = x -- m1 /\ i1 = delta // Real(N)
      /\ sq = i1 ** i1 /\ dd = delta ** i1
      /\ i2 = dd ** Real(n) /\ e0 = i2 ** i1
      /\ e1 = e0 ** Real(j) /\ g0 = Three ** i1
      /\ e2 = g0 ** m2 /\ i3 = e1 -- e2
      /\ f0 = i2 ** sq /\ f1 = f0 ** Real(k)
      /\ h0 = Six ** sq /\ f2 = h0 ** m2
      /\ f3 = f1 ++ f2 /\ l0 = Four ** i1
      /\ f4 = l0 ** m3 /\ i4 = f3 -- f4
      /\ o1 = m1 ++ i1 /\ o2 = m2 ++ i2
      /\ o3 = m3 ++ i3 /\ o4 = m4 ++ i4
  OBVIOUS
<1>i. n = a.n /\ p1 = s[1] /\ C = Scale /\ s[0] = n
      /\ D = d * X - p1 /\ A2 = Second(n, p1, s[2]) /\ A3 = Third(n, p1, s[2], s[3])
      /\ d = (IF n = 0 THEN 1 ELSE n) /\ m1 = a.m1 /\ m2 = a.m2 /\ m3 = a.m3 /\ m4 = a.m4
  BY DEF Tracked
<1>d. m1 \in Double /\ m2 \in Double /\ m3 \in Double /\ m4 \in Double
  BY AccumulatorFields
<1>w. /\ N = n + 1 /\ n \in Nat /\ N \in Nat \ {0} /\ j \in Int /\ k \in Int
      /\ n * j = n * (N - 2) /\ n * k = n * (N * N - 3 * N + 3)
  BY <1>i, AccumulatorFields, PushWords
<1> HIDE DEF n, N, j, k, m1, m2, m3, m4, p1, d, C, D, A2, A3, b
<1> HIDE DEF delta, i1, sq, dd, i2, e0, e1, g0, e2, i3, f0, f1, h0, f2, f3, l0, f4, i4, o1, o2, o3, o4
<1> SUFFICES ASSUME Numbers(b) PROVE Moments(b.m1, b.m2, b.m3, b.m4, Added(s, Powers(X)))
  <2>1. Added(s, Powers(X))[0] = s[0] + 1
    BY CountAdded
  <2> QED
    BY <1>b, <1>i, <1>w, <2>1 DEF Tracked, b
<1>f. o1 \in Number /\ o2 \in Number /\ o3 \in Number /\ o4 \in Number
  BY <1>b DEF Numbers
<1> USE <1>e, <1>w
<1>r. /\ Real(N) \in Double /\ Real(n) \in Double /\ Real(j) \in Double /\ Three \in Double
      /\ Real(k) \in Double /\ Six \in Double /\ Four \in Double
  BY SomeDoubles DEF Three, Four, Six
<1>t. {delta, i1, sq, dd, i2, e0, e1, g0, e2, i3, f0, f1, h0, f2, f3, l0, f4, i4, o1,
      o2, o3, o4} \subseteq Double
  <2>1. delta \in Double
    BY <1>d, <1>r, DoubleArithmetic
  <2>2. i1 \in Double
    BY <1>d, <1>r, <2>1, DoubleArithmetic
  <2>3. sq \in Double
    BY <1>d, <1>r, <2>2, DoubleArithmetic
  <2>4. dd \in Double
    BY <1>d, <1>r, <2>1, <2>2, DoubleArithmetic
  <2>5. i2 \in Double
    BY <1>d, <1>r, <2>4, DoubleArithmetic
  <2>6. e0 \in Double
    BY <1>d, <1>r, <2>5, <2>2, DoubleArithmetic
  <2>7. e1 \in Double
    BY <1>d, <1>r, <2>6, DoubleArithmetic
  <2>8. g0 \in Double
    BY <1>d, <1>r, <2>2, DoubleArithmetic
  <2>9. e2 \in Double
    BY <1>d, <1>r, <2>8, DoubleArithmetic
  <2>10. i3 \in Double
    BY <1>d, <1>r, <2>7, <2>9, DoubleArithmetic
  <2>11. f0 \in Double
    BY <1>d, <1>r, <2>5, <2>3, DoubleArithmetic
  <2>12. f1 \in Double
    BY <1>d, <1>r, <2>11, DoubleArithmetic
  <2>13. h0 \in Double
    BY <1>d, <1>r, <2>3, DoubleArithmetic
  <2>14. f2 \in Double
    BY <1>d, <1>r, <2>13, DoubleArithmetic
  <2>15. f3 \in Double
    BY <1>d, <1>r, <2>12, <2>14, DoubleArithmetic
  <2>16. l0 \in Double
    BY <1>d, <1>r, <2>2, DoubleArithmetic
  <2>17. f4 \in Double
    BY <1>d, <1>r, <2>16, DoubleArithmetic
  <2>18. i4 \in Double
    BY <1>d, <1>r, <2>15, <2>17, DoubleArithmetic
  <2>19. o1 \in Double
    BY <1>d, <1>r, <2>2, DoubleArithmetic
  <2>20. o2 \in Double
    BY <1>d, <1>r, <2>5, DoubleArithmetic
  <2>21. o3 \in Double
    BY <1>d, <1>r, <2>10, DoubleArithmetic
  <2>22. o4 \in Double
    BY <1>d, <1>r, <2>18, DoubleArithmetic
  <2> QED
    BY <2>1, <2>2, <2>3, <2>4, <2>5, <2>6, <2>7, <2>8, <2>9, <2>10, <2>11, <2>12,
       <2>13, <2>14, <2>15, <2>16, <2>17, <2>18, <2>19, <2>20, <2>21, <2>22
<1>n. {m1, m2, m3, m4, delta, i1, sq, dd, i2, e0, e1, g0, e2, i3, f0, f1, h0, f2, f3,
      l0, f4, i4} \subseteq Number
  <2>1. m4 \in Number /\ i4 \in Number
    BY <1>d, <1>r, <1>t, <1>f, PlusOperands
  <2>2. m3 \in Number /\ i3 \in Number
    BY <1>d, <1>r, <1>t, <1>f, PlusOperands
  <2>3. m2 \in Number /\ i2 \in Number
    BY <1>d, <1>r, <1>t, <1>f, PlusOperands
  <2>4. m1 \in Number /\ i1 \in Number
    BY <1>d, <1>r, <1>t, <1>f, PlusOperands
  <2>5. f3 \in Number /\ f4 \in Number
    BY <1>d, <1>r, <1>t, <2>1, MinusOperands
  <2>6. l0 \in Number
    BY <1>d, <1>r, <1>t, <2>5, TimesOperands
  <2>7. f1 \in Number /\ f2 \in Number
    BY <1>d, <1>r, <1>t, <2>5, PlusOperands
  <2>8. h0 \in Number
    BY <1>d, <1>r, <1>t, <2>7, TimesOperands
  <2>9. sq \in Number
    BY <1>d, <1>r, <1>t, <2>8, TimesOperands
  <2>10. f0 \in Number
    BY <1>d, <1>r, <1>t, <2>7, TimesOperands
  <2>11. e1 \in Number /\ e2 \in Number
    BY <1>d, <1>r, <1>t, <2>2, MinusOperands
  <2>12. g0 \in Number
    BY <1>d, <1>r, <1>t, <2>11, TimesOperands
  <2>13. e0 \in Number
    BY <1>d, <1>r, <1>t, <2>11, TimesOperands
  <2>14. dd \in Number
    BY <1>d, <1>r, <1>t, <2>3, TimesOperands
  <2>15. delta \in Number
    BY <1>d, <1>r, <1>t, <2>14, TimesOperands
  <2> QED
    BY <2>1, <2>2, <2>3, <2>4, <2>5, <2>6, <2>7, <2>8, <2>9, <2>10, <2>11, <2>12,
       <2>13, <2>14, <2>15
<1>g. Moments(m1, m2, m3, m4, s)
  BY <1>i, <1>n DEF Tracked, Numbers
<1>h. p1 \in Int /\ d \in Nat \ {0} /\ C \in Nat \ {0} /\ D \in Int /\ D = d * X - p1
  BY <1>i, SumsFacts, ResultsConstants
<1>k. A2 \in Int /\ A3 \in Int
  <2>1. s[2] \in Int /\ s[3] \in Int /\ n \in Int
    BY <1>w, SumsFacts
  <2> QED
    BY <1>h, <1>i, <2>1, MomentTypes
<1>m. /\ Ratio(m1, p1, d * C) /\ Ratio(m2, A2, d * C * C) /\ Ratio(m3, A3, d * d * C * C * C)
      /\ Ratio(x, X, C)
  BY <1>g, <1>i DEF Moments
<1> USE <1>h, <1>k
<1> DEFINE q1 == d * C
           q2 == d * C * C
           q3 == d * d * C * C * C
           q4 == d * C * N
           v1 == D * D * n
           q5 == d * d * C * C * N
           v2 == D * D * D * n * (N - 2)
           q6 == d * d * d * C * C * C * N * N
           v3 == 6 * D * D * A2
           q7 == d * d * d * C * C * C * C * N * N
           v4 == 4 * D * A3
           q8 == d * d * d * C * C * C * C * N
           v5 == D * D * D * n * (N - 2) - 3 * d * N * D * A2
           v6 == D * D * D * D * n * (N * N - 3 * N + 3)
           q9 == d * d * d * d * C * C * C * C * N * N * N
           v7 == D * D * D * D * n * (N * N - 3 * N + 3) + 6 * d * N * D * D * A2
           v8 == D * D * D * D * n * (N * N - 3 * N + 3) + 6 * d * N * D * D * A2 - 4 * d * N * N * D * A3
<1>c. /\ q1 \in Nat \ {0} /\ q2 \in Nat \ {0} /\ q3 \in Nat \ {0}
      /\ q4 \in Nat \ {0} /\ v1 \in Int /\ q5 \in Nat \ {0}
      /\ v2 \in Int /\ q6 \in Nat \ {0} /\ v3 \in Int
      /\ q7 \in Nat \ {0} /\ v4 \in Int /\ q8 \in Nat \ {0}
      /\ v5 \in Int /\ v6 \in Int /\ q9 \in Nat \ {0}
      /\ v7 \in Int /\ v8 \in Int
      /\ n \in Int /\ N \in Int /\ d \in Int /\ C \in Int /\ D \in Int
  BY Factors
<1>a. /\ Ratio(m1, p1, q1) /\ Ratio(m2, A2, q2) /\ Ratio(m3, A3, q3)
      /\ Ratio(x, X, C)
  BY <1>m
<1> HIDE DEF q1, q2, q3, q4, v1, q5, v2, q6, v3, q7, v4, q8, v5, v6, q9, v7, v8
<1>s. /\ Ratio(Real(N), N, 1) /\ Ratio(Real(n), n, 1) /\ Ratio(Real(j), j, 1)
      /\ Ratio(Three, 3, 1) /\ Ratio(Real(k), k, 1) /\ Ratio(Six, 6, 1)
      /\ Ratio(Four, 4, 1)
  BY <1>c, RatioReal DEF Three, Four, Six
<1>1. Ratio(delta, D, q1)
  <2>1. Ratio(delta, X * q1 - p1 * C, C * q1)
    BY <1>n, <1>a, RatioMinus
  <2>2. (X * q1 - p1 * C) * q1 = D * (C * q1)
    BY <1>c DEF q1
  <2> QED
    BY <1>c, <2>1, <2>2, RatioSame
<1>2. Ratio(i1, D, q4)
  <2>1. Ratio(i1, D, q1 * N)
    BY <1>n, <1>c, <1>1, RatioDivide
  <2>2. D * q4 = D * (q1 * N)
    BY <1>c DEF q1, q4
  <2> QED
    BY <1>c, <2>1, <2>2, RatioSame
<1>3. Ratio(sq, D * D, q4 * q4)
  BY <1>n, <1>2, RatioSquare
<1>4. Ratio(dd, D * D, q1 * q4)
  BY <1>n, <1>1, <1>2, RatioTimes
<1>5. Ratio(i2, v1, q5)
  <2>1. Ratio(i2, (D * D) * n, q1 * q4)
    BY <1>n, <1>c, <1>4, RatioScaled
  <2>2. ((D * D) * n) * q5 = v1 * (q1 * q4)
    BY <1>c DEF q1, q4, q5, v1
  <2> QED
    BY <1>c, <2>1, <2>2, RatioSame
<1>6. Ratio(e0, v1 * D, q5 * q4)
  BY <1>n, <1>5, <1>2, RatioTimes
<1>7. Ratio(e1, v2, q6)
  <2>1. Ratio(e1, (v1 * D) * j, q5 * q4)
    BY <1>n, <1>c, <1>6, RatioScaled
  <2>2. ((v1 * D) * j) * q6 = v2 * (q5 * q4)
    BY <1>c DEF q4, q5, q6, v1, v2
  <2> QED
    BY <1>c, <2>1, <2>2, RatioSame
<1>8. Ratio(g0, 3 * D, q4)
  BY <1>n, <1>c, <1>2, RatioScaled DEF Three
<1>9. Ratio(e2, (3 * D) * A2, q4 * q2)
  BY <1>n, <1>8, <1>a, RatioTimes
<1>10. Ratio(i3, v5, q6)
  <2>1. Ratio(i3, v2 * (q4 * q2) - ((3 * D) * A2) * q6, q6 * (q4 * q2))
    BY <1>n, <1>7, <1>9, RatioMinus
  <2>2. (v2 * (q4 * q2) - ((3 * D) * A2) * q6) * q6 = v5 * (q6 * (q4 * q2))
    BY <1>c DEF q2, q4, q6, v2, v5
  <2> QED
    BY <1>c, <2>1, <2>2, RatioSame
<1>11. Ratio(f0, v1 * (D * D), q5 * (q4 * q4))
  BY <1>n, <1>5, <1>3, RatioTimes
<1>12. Ratio(f1, v6, q9)
  <2>1. Ratio(f1, (v1 * (D * D)) * k, q5 * (q4 * q4))
    BY <1>n, <1>c, <1>11, RatioScaled
  <2>2. ((v1 * (D * D)) * k) * q9 = v6 * (q5 * (q4 * q4))
    <3>1. ((v1 * (D * D)) * k) * q9 = (n * k) * ((D * D * D * D) * q9)
      BY <1>c DEF v1
    <3>2. (n * (N * N - 3 * N + 3)) * ((D * D * D * D) * q9) = v6 * (q5 * (q4 * q4))
      BY <1>c DEF v6, q4, q5, q9
    <3> QED
      BY <3>1, <3>2
  <2> QED
    BY <1>c, <2>1, <2>2, RatioSame
<1>13. Ratio(h0, 6 * (D * D), q4 * q4)
  BY <1>n, <1>c, <1>3, RatioScaled DEF Six
<1>14. Ratio(f2, v3, q7)
  <2>1. Ratio(f2, (6 * (D * D)) * A2, (q4 * q4) * q2)
    BY <1>n, <1>13, <1>a, RatioTimes
  <2>2. ((6 * (D * D)) * A2) * q7 = v3 * ((q4 * q4) * q2)
    BY <1>c DEF q2, q4, q7, v3
  <2> QED
    BY <1>c, <2>1, <2>2, RatioSame
<1>15. Ratio(f3, v7, q9)
  <2>1. Ratio(f3, v6 * q7 + v3 * q9, q9 * q7)
    BY <1>n, <1>12, <1>14, RatioPlus
  <2>2. (v6 * q7 + v3 * q9) * q9 = v7 * (q9 * q7)
    BY <1>c DEF q7, q9, v3, v6, v7
  <2> QED
    BY <1>c, <2>1, <2>2, RatioSame
<1>16. Ratio(l0, 4 * D, q4)
  BY <1>n, <1>c, <1>2, RatioScaled DEF Four
<1>17. Ratio(f4, v4, q8)
  <2>1. Ratio(f4, (4 * D) * A3, q4 * q3)
    BY <1>n, <1>16, <1>a, RatioTimes
  <2>2. ((4 * D) * A3) * q8 = v4 * (q4 * q3)
    BY <1>c DEF q3, q4, q8, v4
  <2> QED
    BY <1>c, <2>1, <2>2, RatioSame
<1>18. Ratio(i4, v8, q9)
  <2>1. Ratio(i4, v7 * q8 - v4 * q9, q9 * q8)
    BY <1>n, <1>15, <1>17, RatioMinus
  <2>2. (v7 * q8 - v4 * q9) * q9 = v8 * (q9 * q8)
    BY <1>c DEF q8, q9, v4, v7, v8
  <2> QED
    BY <1>c, <2>1, <2>2, RatioSame
<1>19. Increments(i1, i2, i3, i4, s, X)
  <2>1. /\ Ratio(i1, D, d * C * N)
        /\ Ratio(i2, D * D * n, d * d * C * C * N)
        /\ Ratio(i3, D * D * D * n * (N - 2) - 3 * d * N * D * A2, d * d * d * C * C * C * N * N)
        /\ Ratio(i4, D * D * D * D * n * (N * N - 3 * N + 3) + 6 * d * N * D * D * A2 - 4 * d * N * N * D * A3,
                 d * d * d * d * C * C * C * C * N * N * N)
    BY <1>2, <1>5, <1>10, <1>18 DEF q4, q5, q6, q9, v1, v5, v8
  <2> QED
    BY <1>i, <2>1, Zenon DEF Increments
<1>20. Moments(m1 ++ i1, m2 ++ i2, m3 ++ i3, m4 ++ i4, Added(s, Powers(X)))
  BY <1>f, <1>g, <1>19, PushExact
<1> QED
  BY <1>b, <1>20

\* So is the AVX2 code, whose order of operations is another.
LEMMA PushLaneExact ==
    ASSUME NEW a \in Accumulator, NEW s \in Sums, Tracked(a, s), NEW x \in Double, NEW X \in Int,
           Ratio(x, X, Scale), valuesValid(x)
    PROVE  Tracked(PushLane(a, x), Added(s, Powers(X)))
<1> DEFINE n == a.n
           N == a.n + 1
           m1 == a.m1
           m2 == a.m2
           m3 == a.m3
           m4 == a.m4
           delta == x -- m1
           i1 == delta // Real(N)
           sq == i1 ** i1
           dd == i1 ** Real(n)
           i2 == delta ** dd
           w0 == Real(N) -- Real(2)
           e0 == i1 ** w0
           e1 == i2 ** e0
           g0 == i1 ** m2
           e2 == Three ** g0
           i3 == e1 -- e2
           f0 == i2 ** sq
           k0 == Real(N) ** Real(N)
           k1 == Three ** Real(N)
           k2 == k0 -- k1
           k3 == Three ++ k2
           f1 == f0 ** k3
           h0 == sq ** m2
           f2 == Six ** h0
           l0 == i1 ** m3
           f4 == Four ** l0
           f3 == f2 -- f4
           i4 == f1 ++ f3
           o1 == m1 ++ i1
           o2 == m2 ++ i2
           o3 == m3 ++ i3
           o4 == m4 ++ i4
           p1 == s[1]
           d == IF s[0] = 0 THEN 1 ELSE s[0]
           C == Scale
           D == d * X - p1
           A2 == Second(n, p1, s[2])
           A3 == Third(n, p1, s[2], s[3])
           b == PushLane(a, x)
<1>b. b.n = N /\ b.m1 = o1 /\ b.m2 = o2 /\ b.m3 = o3 /\ b.m4 = o4
  BY DEF PushLane, Accumulator, maskDouble4
<1>e. /\ delta = x -- m1 /\ i1 = delta // Real(N)
      /\ sq = i1 ** i1 /\ dd = i1 ** Real(n)
      /\ i2 = delta ** dd /\ w0 = Real(N) -- Real(2)
      /\ e0 = i1 ** w0 /\ e1 = i2 ** e0
      /\ g0 = i1 ** m2 /\ e2 = Three ** g0
      /\ i3 = e1 -- e2 /\ f0 = i2 ** sq
      /\ k0 = Real(N) ** Real(N) /\ k1 = Three ** Real(N)
      /\ k2 = k0 -- k1 /\ k3 = Three ++ k2
      /\ f1 = f0 ** k3 /\ h0 = sq ** m2
      /\ f2 = Six ** h0 /\ l0 = i1 ** m3
      /\ f4 = Four ** l0 /\ f3 = f2 -- f4
      /\ i4 = f1 ++ f3 /\ o1 = m1 ++ i1
      /\ o2 = m2 ++ i2 /\ o3 = m3 ++ i3
      /\ o4 = m4 ++ i4
  OBVIOUS
<1>i. n = a.n /\ p1 = s[1] /\ C = Scale /\ s[0] = n
      /\ D = d * X - p1 /\ A2 = Second(n, p1, s[2]) /\ A3 = Third(n, p1, s[2], s[3])
      /\ d = (IF n = 0 THEN 1 ELSE n) /\ m1 = a.m1 /\ m2 = a.m2 /\ m3 = a.m3 /\ m4 = a.m4
  BY DEF Tracked
<1>d. m1 \in Double /\ m2 \in Double /\ m3 \in Double /\ m4 \in Double
  BY AccumulatorFields
<1>w. N = n + 1 /\ n \in Nat /\ N \in Nat \ {0}
  BY AccumulatorFields
<1> HIDE DEF n, N, m1, m2, m3, m4, p1, d, C, D, A2, A3, b
<1> HIDE DEF delta, i1, sq, dd, i2, w0, e0, e1, g0, e2, i3, f0, k0, k1, k2, k3, f1, h0, f2, l0, f4, f3, i4, o1, o2, o3, o4
<1> SUFFICES ASSUME Numbers(b) PROVE Moments(b.m1, b.m2, b.m3, b.m4, Added(s, Powers(X)))
  <2>1. Added(s, Powers(X))[0] = s[0] + 1
    BY CountAdded
  <2> QED
    BY <1>b, <1>i, <1>w, <2>1 DEF Tracked, b
<1>f. o1 \in Number /\ o2 \in Number /\ o3 \in Number /\ o4 \in Number
  BY <1>b DEF Numbers
<1> USE <1>e, <1>w
<1>r. /\ Real(N) \in Double /\ Real(n) \in Double /\ Real(2) \in Double /\ Three \in Double
      /\ Six \in Double /\ Four \in Double
  BY SomeDoubles DEF Three, Four, Six
<1>t. {delta, i1, sq, dd, i2, w0, e0, e1, g0, e2, i3, f0, k0, k1, k2, k3, f1, h0, f2,
      l0, f4, f3, i4, o1, o2, o3, o4} \subseteq Double
  <2>1. delta \in Double
    BY <1>d, <1>r, DoubleArithmetic
  <2>2. i1 \in Double
    BY <1>d, <1>r, <2>1, DoubleArithmetic
  <2>3. sq \in Double
    BY <1>d, <1>r, <2>2, DoubleArithmetic
  <2>4. dd \in Double
    BY <1>d, <1>r, <2>2, DoubleArithmetic
  <2>5. i2 \in Double
    BY <1>d, <1>r, <2>1, <2>4, DoubleArithmetic
  <2>6. w0 \in Double
    BY <1>d, <1>r, DoubleArithmetic
  <2>7. e0 \in Double
    BY <1>d, <1>r, <2>2, <2>6, DoubleArithmetic
  <2>8. e1 \in Double
    BY <1>d, <1>r, <2>5, <2>7, DoubleArithmetic
  <2>9. g0 \in Double
    BY <1>d, <1>r, <2>2, DoubleArithmetic
  <2>10. e2 \in Double
    BY <1>d, <1>r, <2>9, DoubleArithmetic
  <2>11. i3 \in Double
    BY <1>d, <1>r, <2>8, <2>10, DoubleArithmetic
  <2>12. f0 \in Double
    BY <1>d, <1>r, <2>5, <2>3, DoubleArithmetic
  <2>13. k0 \in Double
    BY <1>d, <1>r, DoubleArithmetic
  <2>14. k1 \in Double
    BY <1>d, <1>r, DoubleArithmetic
  <2>15. k2 \in Double
    BY <1>d, <1>r, <2>13, <2>14, DoubleArithmetic
  <2>16. k3 \in Double
    BY <1>d, <1>r, <2>15, DoubleArithmetic
  <2>17. f1 \in Double
    BY <1>d, <1>r, <2>12, <2>16, DoubleArithmetic
  <2>18. h0 \in Double
    BY <1>d, <1>r, <2>3, DoubleArithmetic
  <2>19. f2 \in Double
    BY <1>d, <1>r, <2>18, DoubleArithmetic
  <2>20. l0 \in Double
    BY <1>d, <1>r, <2>2, DoubleArithmetic
  <2>21. f4 \in Double
    BY <1>d, <1>r, <2>20, DoubleArithmetic
  <2>22. f3 \in Double
    BY <1>d, <1>r, <2>19, <2>21, DoubleArithmetic
  <2>23. i4 \in Double
    BY <1>d, <1>r, <2>17, <2>22, DoubleArithmetic
  <2>24. o1 \in Double
    BY <1>d, <1>r, <2>2, DoubleArithmetic
  <2>25. o2 \in Double
    BY <1>d, <1>r, <2>5, DoubleArithmetic
  <2>26. o3 \in Double
    BY <1>d, <1>r, <2>11, DoubleArithmetic
  <2>27. o4 \in Double
    BY <1>d, <1>r, <2>23, DoubleArithmetic
  <2> QED
    BY <2>1, <2>2, <2>3, <2>4, <2>5, <2>6, <2>7, <2>8, <2>9, <2>10, <2>11, <2>12,
       <2>13, <2>14, <2>15, <2>16, <2>17, <2>18, <2>19, <2>20, <2>21, <2>22, <2>23,
       <2>24, <2>25, <2>26, <2>27
<1>n. {m1, m2, m3, m4, delta, i1, sq, dd, i2, w0, e0, e1, g0, e2, i3, f0, k0, k1, k2,
      k3, f1, h0, f2, l0, f4, f3, i4} \subseteq Number
  <2>1. m4 \in Number /\ i4 \in Number
    BY <1>d, <1>r, <1>t, <1>f, PlusOperands
  <2>2. m3 \in Number /\ i3 \in Number
    BY <1>d, <1>r, <1>t, <1>f, PlusOperands
  <2>3. m2 \in Number /\ i2 \in Number
    BY <1>d, <1>r, <1>t, <1>f, PlusOperands
  <2>4. m1 \in Number /\ i1 \in Number
    BY <1>d, <1>r, <1>t, <1>f, PlusOperands
  <2>5. f1 \in Number /\ f3 \in Number
    BY <1>d, <1>r, <1>t, <2>1, PlusOperands
  <2>6. f2 \in Number /\ f4 \in Number
    BY <1>d, <1>r, <1>t, <2>5, MinusOperands
  <2>7. l0 \in Number
    BY <1>d, <1>r, <1>t, <2>6, TimesOperands
  <2>8. h0 \in Number
    BY <1>d, <1>r, <1>t, <2>6, TimesOperands
  <2>9. sq \in Number
    BY <1>d, <1>r, <1>t, <2>8, TimesOperands
  <2>10. f0 \in Number /\ k3 \in Number
    BY <1>d, <1>r, <1>t, <2>5, TimesOperands
  <2>11. k2 \in Number
    BY <1>d, <1>r, <1>t, <2>10, PlusOperands
  <2>12. k0 \in Number /\ k1 \in Number
    BY <1>d, <1>r, <1>t, <2>11, MinusOperands
  <2>13. e1 \in Number /\ e2 \in Number
    BY <1>d, <1>r, <1>t, <2>2, MinusOperands
  <2>14. g0 \in Number
    BY <1>d, <1>r, <1>t, <2>13, TimesOperands
  <2>15. e0 \in Number
    BY <1>d, <1>r, <1>t, <2>13, TimesOperands
  <2>16. w0 \in Number
    BY <1>d, <1>r, <1>t, <2>15, TimesOperands
  <2>17. delta \in Number /\ dd \in Number
    BY <1>d, <1>r, <1>t, <2>3, TimesOperands
  <2> QED
    BY <2>1, <2>2, <2>3, <2>4, <2>5, <2>6, <2>7, <2>8, <2>9, <2>10, <2>11, <2>12,
       <2>13, <2>14, <2>15, <2>16, <2>17
<1>g. Moments(m1, m2, m3, m4, s)
  BY <1>i, <1>n DEF Tracked, Numbers
<1>h. p1 \in Int /\ d \in Nat \ {0} /\ C \in Nat \ {0} /\ D \in Int /\ D = d * X - p1
  BY <1>i, SumsFacts, ResultsConstants
<1>k. A2 \in Int /\ A3 \in Int
  <2>1. s[2] \in Int /\ s[3] \in Int /\ n \in Int
    BY <1>w, SumsFacts
  <2> QED
    BY <1>h, <1>i, <2>1, MomentTypes
<1>m. /\ Ratio(m1, p1, d * C) /\ Ratio(m2, A2, d * C * C) /\ Ratio(m3, A3, d * d * C * C * C)
      /\ Ratio(x, X, C)
  BY <1>g, <1>i DEF Moments
<1> USE <1>h, <1>k
<1> DEFINE q1 == d * C
           q2 == d * C * C
           q3 == d * d * C * C * C
           q4 == d * C * N
           v1 == D * D * n
           q5 == d * d * C * C * N
           v2 == D * D * D * n * (N - 2)
           q6 == d * d * d * C * C * C * N * N
           v3 == 6 * D * D * A2
           q7 == d * d * d * C * C * C * C * N * N
           v4 == 4 * D * A3
           q8 == d * d * d * C * C * C * C * N
           v5 == D * D * D * n * (N - 2) - 3 * d * N * D * A2
           v6 == D * D * D * D * n * (N * N - 3 * N + 3)
           q9 == d * d * d * d * C * C * C * C * N * N * N
           v7 == 6 * N * D * D * A2 - 4 * N * N * D * A3
           q10 == d * d * d * C * C * C * C * N * N * N
           v8 == D * D * D * D * n * (N * N - 3 * N + 3) + 6 * d * N * D * D * A2 - 4 * d * N * N * D * A3
<1>c. /\ q1 \in Nat \ {0} /\ q2 \in Nat \ {0} /\ q3 \in Nat \ {0}
      /\ q4 \in Nat \ {0} /\ v1 \in Int /\ q5 \in Nat \ {0}
      /\ v2 \in Int /\ q6 \in Nat \ {0} /\ v3 \in Int
      /\ q7 \in Nat \ {0} /\ v4 \in Int /\ q8 \in Nat \ {0}
      /\ v5 \in Int /\ v6 \in Int /\ q9 \in Nat \ {0}
      /\ v7 \in Int /\ q10 \in Nat \ {0} /\ v8 \in Int
      /\ n \in Int /\ N \in Int /\ d \in Int /\ C \in Int /\ D \in Int
  BY Factors
<1>a. /\ Ratio(m1, p1, q1) /\ Ratio(m2, A2, q2) /\ Ratio(m3, A3, q3)
      /\ Ratio(x, X, C)
  BY <1>m
<1> HIDE DEF q1, q2, q3, q4, v1, q5, v2, q6, v3, q7, v4, q8, v5, v6, q9, v7, q10, v8
<1>s. /\ Ratio(Real(N), N, 1) /\ Ratio(Real(n), n, 1) /\ Ratio(Real(2), 2, 1)
      /\ Ratio(Three, 3, 1) /\ Ratio(Six, 6, 1) /\ Ratio(Four, 4, 1)
  BY <1>c, RatioReal DEF Three, Four, Six
<1>1. Ratio(delta, D, q1)
  <2>1. Ratio(delta, X * q1 - p1 * C, C * q1)
    BY <1>n, <1>a, RatioMinus
  <2>2. (X * q1 - p1 * C) * q1 = D * (C * q1)
    BY <1>c DEF q1
  <2> QED
    BY <1>c, <2>1, <2>2, RatioSame
<1>2. Ratio(i1, D, q4)
  <2>1. Ratio(i1, D, q1 * N)
    BY <1>n, <1>c, <1>1, RatioDivide
  <2>2. D * q4 = D * (q1 * N)
    BY <1>c DEF q1, q4
  <2> QED
    BY <1>c, <2>1, <2>2, RatioSame
<1>3. Ratio(sq, D * D, q4 * q4)
  BY <1>n, <1>2, RatioSquare
<1>4. Ratio(dd, D * n, q4)
  BY <1>n, <1>c, <1>2, RatioScaled
<1>5. Ratio(i2, v1, q5)
  <2>1. Ratio(i2, D * (D * n), q1 * q4)
    BY <1>n, <1>1, <1>4, RatioTimes
  <2>2. (D * (D * n)) * q5 = v1 * (q1 * q4)
    BY <1>c DEF q1, q4, q5, v1
  <2> QED
    BY <1>c, <2>1, <2>2, RatioSame
<1>6. Ratio(w0, N * 1 - 2 * 1, 1 * 1)
  BY <1>n, <1>s, RatioMinus
<1>7. Ratio(e0, D * (N * 1 - 2 * 1), q4 * (1 * 1))
  BY <1>n, <1>2, <1>6, RatioTimes
<1>8. Ratio(e1, v2, q6)
  <2>1. Ratio(e1, v1 * (D * (N * 1 - 2 * 1)), q5 * (q4 * (1 * 1)))
    BY <1>n, <1>5, <1>7, RatioTimes
  <2>2. (v1 * (D * (N * 1 - 2 * 1))) * q6 = v2 * (q5 * (q4 * (1 * 1)))
    BY <1>c DEF q4, q5, q6, v1, v2
  <2> QED
    BY <1>c, <2>1, <2>2, RatioSame
<1>9. Ratio(g0, D * A2, q4 * q2)
  BY <1>n, <1>2, <1>a, RatioTimes
<1>10. Ratio(e2, 3 * (D * A2), q4 * q2)
  BY <1>n, <1>c, <1>9, RatioScaled DEF Three
<1>11. Ratio(i3, v5, q6)
  <2>1. Ratio(i3, v2 * (q4 * q2) - (3 * (D * A2)) * q6, q6 * (q4 * q2))
    BY <1>n, <1>8, <1>10, RatioMinus
  <2>2. (v2 * (q4 * q2) - (3 * (D * A2)) * q6) * q6 = v5 * (q6 * (q4 * q2))
    BY <1>c DEF q2, q4, q6, v2, v5
  <2> QED
    BY <1>c, <2>1, <2>2, RatioSame
<1>12. Ratio(f0, v1 * (D * D), q5 * (q4 * q4))
  BY <1>n, <1>5, <1>3, RatioTimes
<1>13. Ratio(k0, N * N, 1 * 1)
  BY <1>n, <1>s, RatioSquare
<1>14. Ratio(k1, 3 * N, 1)
  BY <1>n, <1>c, <1>s, RatioScaled
<1>15. Ratio(k2, (N * N) * 1 - (3 * N) * (1 * 1), (1 * 1) * 1)
  BY <1>n, <1>13, <1>14, RatioMinus
<1>16. Ratio(k3, 3 * ((1 * 1) * 1) + ((N * N) * 1 - (3 * N) * (1 * 1)) * 1, 1 * ((1 * 1) * 1))
  <2> DEFINE p == (N * N) * 1 - (3 * N) * (1 * 1)  q == (1 * 1) * 1
  <2>1. Ratio(k2, p, q)
    BY <1>15
  <2> HIDE DEF p, q
  <2>2. Ratio(k3, 3 * q + p * 1, 1 * q)
    BY <1>n, <1>s, <2>1, RatioPlus
  <2> QED
    BY <2>2 DEF p, q
<1>17. Ratio(f1, v6, q9)
  <2>1. Ratio(f1, (v1 * (D * D)) * (3 * ((1 * 1) * 1) + ((N * N) * 1 - (3 * N) * (1 * 1)) * 1), (q5 * (q4 * q4)) * (1 * ((1 * 1) * 1)))
    BY <1>n, <1>12, <1>16, RatioTimes
  <2>2. ((v1 * (D * D)) * (3 * ((1 * 1) * 1) + ((N * N) * 1 - (3 * N) * (1 * 1)) * 1)) * q9 = v6 * ((q5 * (q4 * q4)) * (1 * ((1 * 1) * 1)))
    BY <1>c DEF q4, q5, q9, v1, v6
  <2> QED
    BY <1>c, <2>1, <2>2, RatioSame
<1>18. Ratio(h0, (D * D) * A2, (q4 * q4) * q2)
  <2> DEFINE p == D * D  q == q4 * q4
  <2>1. Ratio(sq, p, q)
    BY <1>3
  <2> HIDE DEF p, q
  <2>2. Ratio(h0, p * A2, q * q2)
    BY <1>n, <1>a, <2>1, RatioTimes
  <2> QED
    BY <2>2 DEF p, q
<1>19. Ratio(f2, v3, q7)
  <2>1. Ratio(f2, 6 * ((D * D) * A2), (q4 * q4) * q2)
    BY <1>n, <1>c, <1>18, RatioScaled DEF Six
  <2>2. (6 * ((D * D) * A2)) * q7 = v3 * ((q4 * q4) * q2)
    BY <1>c DEF q2, q4, q7, v3
  <2> QED
    BY <1>c, <2>1, <2>2, RatioSame
<1>20. Ratio(l0, D * A3, q4 * q3)
  BY <1>n, <1>2, <1>a, RatioTimes
<1>21. Ratio(f4, v4, q8)
  <2>1. Ratio(f4, 4 * (D * A3), q4 * q3)
    BY <1>n, <1>c, <1>20, RatioScaled DEF Four
  <2>2. (4 * (D * A3)) * q8 = v4 * (q4 * q3)
    BY <1>c DEF q3, q4, q8, v4
  <2> QED
    BY <1>c, <2>1, <2>2, RatioSame
<1>22. Ratio(f3, v7, q10)
  <2>1. Ratio(f3, v3 * q8 - v4 * q7, q7 * q8)
    BY <1>n, <1>19, <1>21, RatioMinus
  <2>2. (v3 * q8 - v4 * q7) * q10 = v7 * (q7 * q8)
    BY <1>c DEF q10, q7, q8, v3, v4, v7
  <2> QED
    BY <1>c, <2>1, <2>2, RatioSame
<1>23. Ratio(i4, v8, q9)
  <2>1. Ratio(i4, v6 * q10 + v7 * q9, q9 * q10)
    BY <1>n, <1>17, <1>22, RatioPlus
  <2>2. (v6 * q10 + v7 * q9) * q9 = v8 * (q9 * q10)
    <3>1. q9 = d * q10 /\ v8 = v6 + d * v7
      BY <1>c DEF q9, q10, v6, v7, v8
    <3>2. (v6 * q10 + v7 * (d * q10)) * q9 = (v6 + d * v7) * (q9 * q10)
      BY <1>c
    <3> QED
      BY <3>1, <3>2
  <2> QED
    BY <1>c, <2>1, <2>2, RatioSame
<1>24. Increments(i1, i2, i3, i4, s, X)
  <2>1. /\ Ratio(i1, D, d * C * N)
        /\ Ratio(i2, D * D * n, d * d * C * C * N)
        /\ Ratio(i3, D * D * D * n * (N - 2) - 3 * d * N * D * A2, d * d * d * C * C * C * N * N)
        /\ Ratio(i4, D * D * D * D * n * (N * N - 3 * N + 3) + 6 * d * N * D * D * A2 - 4 * d * N * N * D * A3,
                 d * d * d * d * C * C * C * C * N * N * N)
    BY <1>2, <1>5, <1>11, <1>23 DEF q4, q5, q6, q9, v1, v5, v8
  <2> QED
    BY <1>i, <2>1, Zenon DEF Increments
<1>25. Moments(m1 ++ i1, m2 ++ i2, m3 ++ i3, m4 ++ i4, Added(s, Powers(X)))
  BY <1>f, <1>g, <1>24, PushExact
<1> QED
  BY <1>b, <1>25

\* What operator+ makes of the moments that have the sums s and t.
Combined(c1, c2, c3, c4, s, t) ==
    LET n == s[0]
        m == t[0]
        N == s[0] + t[0]
        C == Scale
        p1 == s[1]
        r1 == t[1]
        D == n * r1 - m * p1
        A2 == Second(n, p1, s[2])
        A3 == Third(n, p1, s[2], s[3])
        A4 == Fourth(n, p1, s[2], s[3], s[4])
        B2 == Second(m, r1, t[2])
        B3 == Third(m, r1, t[2], t[3])
        B4 == Fourth(m, r1, t[2], t[3], t[4])
    IN  /\ Ratio(c1, p1 + r1, N * C)
        /\ Ratio(c2, N * (A2 * m + B2 * n) + D * D, n * m * N * C * C)
        /\ Ratio(c3, N * N * (A3 * m * m + B3 * n * n) + D * D * D * (n - m)
                     + 3 * N * D * (n * n * B2 - m * m * A2),
                 n * n * m * m * N * N * C * C * C)
        /\ CubeFits =>
             Ratio(c4, N * N * N * (A4 * m * m * m + B4 * n * n * n)
                     + D * D * D * D * (n * n - n * m + m * m)
                     + 6 * N * D * D * (n * n * n * B2 + m * m * m * A2)
                     + 4 * N * N * D * (n * n * n * B3 - m * m * m * A3),
                 n * n * n * m * m * m * N * N * N * C * C * C * C)

\* They are the moments that have the sums of both.
LEMMA CombineMoments ==
    ASSUME NEW s \in Sums, NEW t \in Sums, s[0] # 0, t[0] # 0,
           NEW c1, NEW c2, NEW c3, NEW c4, Combined(c1, c2, c3, c4, s, t)
    PROVE  Moments(c1, c2, c3, c4, Added(s, t))
<1> DEFINE n == s[0]
           m == t[0]
           N == s[0] + t[0]
           C == Scale
           p1 == s[1]
           p2 == s[2]
           p3 == s[3]
           p4 == s[4]
           r1 == t[1]
           r2 == t[2]
           r3 == t[3]
           r4 == t[4]
           D == n * r1 - m * p1
           A2 == Second(n, p1, p2)
           A3 == Third(n, p1, p2, p3)
           A4 == Fourth(n, p1, p2, p3, p4)
           B2 == Second(m, r1, r2)
           B3 == Third(m, r1, r2, r3)
           B4 == Fourth(m, r1, r2, r3, r4)
           S1 == p1 + r1
           S2 == Second(N, p1 + r1, p2 + r2)
           S3 == Third(N, p1 + r1, p2 + r2, p3 + r3)
           S4 == Fourth(N, p1 + r1, p2 + r2, p3 + r3, p4 + r4)
           w1 == N * C
           w2 == N * C * C
           w3 == N * N * C * C * C
           w4 == N * N * N * C * C * C * C
           u == Added(s, t)
<1>x. /\ n \in Nat \ {0} /\ m \in Nat \ {0} /\ N \in Nat \ {0} /\ N = n + m /\ C \in Nat \ {0}
      /\ n \in Int /\ m \in Int /\ N \in Int
      /\ p1 \in Int /\ p2 \in Int /\ p3 \in Int /\ p4 \in Int
      /\ r1 \in Int /\ r2 \in Int /\ r3 \in Int /\ r4 \in Int
      /\ D \in Int /\ D = n * r1 - m * p1
  <2>1. /\ n \in Nat \ {0} /\ m \in Nat \ {0} /\ C \in Nat \ {0}
        /\ p1 \in Int /\ p2 \in Int /\ p3 \in Int /\ p4 \in Int
        /\ r1 \in Int /\ r2 \in Int /\ r3 \in Int /\ r4 \in Int
    BY SumsFacts, ResultsConstants
  <2> HIDE DEF n, m, C, p1, p2, p3, p4, r1, r2, r3, r4
  <2>2. N = n + m
    BY DEF n, m
  <2> QED
    BY <2>1, <2>2
<1>y. /\ Ratio(c1, p1 + r1, N * C)
      /\ Ratio(c2, N * (A2 * m + B2 * n) + D * D, n * m * N * C * C)
      /\ Ratio(c3, N * N * (A3 * m * m + B3 * n * n) + D * D * D * (n - m)
                   + 3 * N * D * (n * n * B2 - m * m * A2),
               n * n * m * m * N * N * C * C * C)
      /\ CubeFits =>
           Ratio(c4, N * N * N * (A4 * m * m * m + B4 * n * n * n)
                   + D * D * D * D * (n * n - n * m + m * m)
                   + 6 * N * D * D * (n * n * n * B2 + m * m * m * A2)
                   + 4 * N * N * D * (n * n * n * B3 - m * m * m * A3),
               n * n * n * m * m * m * N * N * N * C * C * C * C)
  BY DEF Combined
<1>u. u[0] = N /\ u[1] = S1 /\ u[2] = p2 + r2 /\ u[3] = p3 + r3 /\ u[4] = p4 + r4
  BY AddedFacts
<1>v. /\ A2 = Second(n, p1, p2) /\ A3 = Third(n, p1, p2, p3) /\ A4 = Fourth(n, p1, p2, p3, p4)
      /\ B2 = Second(m, r1, r2) /\ B3 = Third(m, r1, r2, r3) /\ B4 = Fourth(m, r1, r2, r3, r4)
      /\ Scale = C
  OBVIOUS
<1> HIDE DEF n, m, N, C, p1, p2, p3, p4, r1, r2, r3, r4, D, A2, A3, A4, B2, B3, B4, u
<1> USE <1>x, <1>v
<1>1. /\ A2 \in Int /\ A3 \in Int /\ A4 \in Int /\ B2 \in Int /\ B3 \in Int /\ B4 \in Int
      /\ S1 \in Int /\ S2 \in Int /\ S3 \in Int /\ S4 \in Int
  <2>1. p1 + r1 \in Int /\ p2 + r2 \in Int /\ p3 + r3 \in Int /\ p4 + r4 \in Int
    OBVIOUS
  <2> QED
    BY <2>1, MomentTypes
<1> HIDE DEF S2, S3, S4, w2, w3, w4
<1>2. /\ Ratio(c2, (n * m) * S2, (n * m) * w2)
      /\ Ratio(c3, (n * n * m * m) * S3, (n * n * m * m) * w3)
      /\ CubeFits => Ratio(c4, (n * n * n * m * m * m) * S4, (n * n * n * m * m * m) * w4)
  <2>1. /\ N * (A2 * m + B2 * n) + D * D = n * m * S2
        /\ N * N * (A3 * m * m + B3 * n * n) + D * D * D * (n - m)
             + 3 * N * D * (n * n * B2 - m * m * A2) = n * n * m * m * S3
        /\ N * N * N * (A4 * m * m * m + B4 * n * n * n)
             + D * D * D * D * (n * n - n * m + m * m)
             + 6 * N * D * D * (n * n * n * B2 + m * m * m * A2)
             + 4 * N * N * D * (n * n * n * B3 - m * m * m * A3)
             = n * n * n * m * m * m * S4
    BY <1>1, MergePolynomials DEF S2, S3, S4
  <2>2. /\ n * m * N * C * C = (n * m) * w2 /\ n * n * m * m * N * N * C * C * C = (n * n * m * m) * w3
        /\ n * n * n * m * m * m * N * N * N * C * C * C * C = (n * n * n * m * m * m) * w4
    BY DEF w2, w3, w4
  <2> QED
    BY <1>y, <2>1, <2>2, Zenon
<1>3. /\ n * m \in Int /\ n * n * m * m \in Int /\ n * n * n * m * m * m \in Int
      /\ w2 \in Nat \ {0} /\ w3 \in Nat \ {0} /\ w4 \in Nat \ {0}
  BY Factors DEF w2, w3, w4
<1>4. ASSUME NEW e \in Int, NEW v \in Int, NEW w \in Nat \ {0} PROVE (e * v) * w = v * (e * w)
  OBVIOUS
<1>5. Ratio(c2, S2, w2) /\ Ratio(c3, S3, w3) /\ (CubeFits => Ratio(c4, S4, w4))
  BY <1>1, <1>2, <1>3, <1>4, RatioSame
<1>6. Ratio(c1, S1, w1)
  BY <1>y
<1>7. (IF u[0] = 0 THEN 1 ELSE u[0]) = N
  BY <1>u
<1>8. /\ Ratio(c1, u[1], N * C)
      /\ Ratio(c2, Second(u[0], u[1], u[2]), N * C * C)
      /\ Ratio(c3, Third(u[0], u[1], u[2], u[3]), N * N * C * C * C)
      /\ CubeFits => Ratio(c4, Fourth(u[0], u[1], u[2], u[3], u[4]), N * N * N * C * C * C * C)
  BY <1>5, <1>6, <1>u DEF S2, S3, S4, w2, w3, w4
<1>9. Moments(c1, c2, c3, c4, u)
  BY <1>7, <1>8 DEF Moments
<1> QED
  BY <1>9 DEF u

\* The arithmetic of size_t in operator+.
LEMMA CombineWords ==
    ASSUME NEW n \in Nat, NEW m \in Nat, 0 < m, m <= n, Fits(n + m),
           NEW N, N = Word(n + m), NEW N2, N2 = Word(N * N), NEW N3, N3 = Word(N2 * N),
           NEW f, f = Word(n - m), NEW g, g = Word(n * n - n * m + m * m),
           NEW n2, n2 = Word(n * n), NEW m2, m2 = Word(m * m)
    PROVE  /\ N = n + m /\ N2 = N * N /\ f = n - m /\ g = n * n - n * m + m * m
           /\ n2 = n * n /\ m2 = m * m
           /\ n \in Nat \ {0} /\ m \in Nat \ {0} /\ N \in Nat \ {0} /\ N2 \in Nat \ {0} /\ N3 \in Nat
           /\ CubeFits => N3 = N * N * N /\ N3 \in Nat \ {0}
           /\ f \in Int /\ g \in Int /\ n2 \in Int /\ m2 \in Int
<1> DEFINE M == n + m
           k == n - m
           h == n * n - n * m + m * m
<1>1. /\ M \in Nat /\ M * M * M \in Nat /\ M <= M * M /\ M * M <= M * M * M /\ M * M \in Nat
      /\ M # 0
  <2>1. M \in Nat /\ 1 <= M /\ M * M \in Nat /\ M * M * M \in Nat
    OBVIOUS
  <2>2. 1 * M <= M * M
    BY <2>1, ProductMonotone
  <2>3. 1 * (M * M) <= M * (M * M)
    BY <2>1, ProductMonotone
  <2> QED
    BY <2>1, <2>2, <2>3
<1>2. M < WordModulus /\ M * M < WordModulus /\ (CubeFits => M * M * M < WordModulus)
  BY <1>1, WordAssumption DEF Fits
<1>3. k \in Nat /\ k <= M
  OBVIOUS
<1>4. h \in Nat /\ n * n \in Nat /\ m * m \in Nat /\ h <= M * M /\ n * n <= M * M /\ m * m <= M * M
  <2>1. n * m \in Nat /\ n * n \in Nat /\ m * m \in Nat
    OBVIOUS
  <2>2. h = k * k + n * m /\ k * k \in Nat
    BY <1>3
  <2>3. M * M = n * n + 2 * (n * m) + m * m
    OBVIOUS
  <2> QED
    BY <2>1, <2>2, <2>3
<1>5. N = M
  BY <1>1, <1>2, Words
<1>6. f = k
  BY <1>1, <1>2, <1>3, Words, WordAssumption
<1>7. g = h /\ n2 = n * n /\ m2 = m * m
  BY <1>1, <1>2, <1>4, Words, WordAssumption
<1> HIDE DEF M
<1>8. N2 = M * M
  BY <1>1, <1>2, <1>5, Words
<1>9. N3 \in Nat /\ (CubeFits => N3 = M * M * M)
  BY <1>1, <1>2, <1>5, <1>8, Words
<1>10. M * M # 0 /\ M * M * M # 0
  BY <1>1
<1> QED
  BY <1>1, <1>3, <1>4, <1>5, <1>6, <1>7, <1>8, <1>9, <1>10 DEF M

\* operator+ is exact unless it overflows, when the left operand holds at least
\* as many values as the right one.
LEMMA CombineExact ==
    ASSUME NEW a \in Accumulator, NEW s \in Sums, Tracked(a, s),
           NEW b \in Accumulator, NEW t \in Sums, Tracked(b, t),
           0 < t[0], t[0] <= s[0], Fits(s[0] + t[0])
    PROVE  Tracked(Combine(a, b), Added(s, t))
<1> DEFINE n == a.n
           m == b.n
           N == Word(a.n + b.n)
           N2 == Word(N * N)
           N3 == Word(N2 * N)
           f == Word(a.n - b.n)
           g == Word(a.n * a.n - a.n * b.n + b.n * b.n)
           n2 == Word(a.n * a.n)
           m2 == Word(b.n * b.n)
           a1 == a.m1
           a2 == a.m2
           a3 == a.m3
           a4 == a.m4
           b1 == b.m1
           b2 == b.m2
           b3 == b.m3
           b4 == b.m4
           delta == b1 -- a1
           delta2 == delta ** delta
           delta3 == delta2 ** delta
           delta4 == delta2 ** delta2
           s1 == a1 ** Real(n)
           s2 == b1 ** Real(m)
           s3 == s1 ++ s2
           c1 == s3 // Real(N)
           t0 == a2 ++ b2
           t1 == delta2 ** Real(n)
           t2 == t1 ** Real(m)
           t3 == t2 // Real(N)
           c2 == t0 ++ t3
           u0 == a3 ++ b3
           u1 == delta3 ** Real(n)
           u2 == u1 ** Real(m)
           u3 == u2 ** Real(f)
           u4 == u3 // Real(N2)
           u5 == u0 ++ u4
           w1 == Three ** delta
           w2 == Real(n) ** b2
           w3 == Real(m) ** a2
           w4 == w2 -- w3
           w5 == w1 ** w4
           w6 == w5 // Real(N)
           c3 == u5 ++ w6
           x0 == a4 ++ b4
           x1 == delta4 ** Real(n)
           x2 == x1 ** Real(m)
           x3 == x2 ** Real(g)
           x4 == x3 // Real(N3)
           x5 == x0 ++ x4
           y1 == Six ** delta2
           y2 == Real(n2) ** b2
           y3 == Real(m2) ** a2
           y4 == y2 ++ y3
           y5 == y1 ** y4
           y6 == y5 // Real(N2)
           x6 == x5 ++ y6
           z1 == Four ** delta
           z2 == Real(n) ** b3
           z3 == Real(m) ** a3
           z4 == z2 -- z3
           z5 == z1 ** z4
           z6 == z5 // Real(N)
           c4 == x6 ++ z6
           p1 == s[1]
           r1 == t[1]
           C == Scale
           D == n * r1 - m * p1
           A2 == Second(n, p1, s[2])
           A3 == Third(n, p1, s[2], s[3])
           A4 == Fourth(n, p1, s[2], s[3], s[4])
           B2 == Second(m, r1, t[2])
           B3 == Third(m, r1, t[2], t[3])
           B4 == Fourth(m, r1, t[2], t[3], t[4])
           c == Combine(a, b)
<1>b. c.n = N /\ c.m1 = c1 /\ c.m2 = c2 /\ c.m3 = c3 /\ c.m4 = c4
  BY DEF Combine, NewAccumulator
<1>e. /\ delta = b1 -- a1 /\ delta2 = delta ** delta
      /\ delta3 = delta2 ** delta /\ delta4 = delta2 ** delta2
      /\ s1 = a1 ** Real(n) /\ s2 = b1 ** Real(m)
      /\ s3 = s1 ++ s2 /\ c1 = s3 // Real(N)
      /\ t0 = a2 ++ b2 /\ t1 = delta2 ** Real(n)
      /\ t2 = t1 ** Real(m) /\ t3 = t2 // Real(N)
      /\ c2 = t0 ++ t3 /\ u0 = a3 ++ b3
      /\ u1 = delta3 ** Real(n) /\ u2 = u1 ** Real(m)
      /\ u3 = u2 ** Real(f) /\ u4 = u3 // Real(N2)
      /\ u5 = u0 ++ u4 /\ w1 = Three ** delta
      /\ w2 = Real(n) ** b2 /\ w3 = Real(m) ** a2
      /\ w4 = w2 -- w3 /\ w5 = w1 ** w4
      /\ w6 = w5 // Real(N) /\ c3 = u5 ++ w6
      /\ x0 = a4 ++ b4 /\ x1 = delta4 ** Real(n)
      /\ x2 = x1 ** Real(m) /\ x3 = x2 ** Real(g)
      /\ x4 = x3 // Real(N3) /\ x5 = x0 ++ x4
      /\ y1 = Six ** delta2 /\ y2 = Real(n2) ** b2
      /\ y3 = Real(m2) ** a2 /\ y4 = y2 ++ y3
      /\ y5 = y1 ** y4 /\ y6 = y5 // Real(N2)
      /\ x6 = x5 ++ y6 /\ z1 = Four ** delta
      /\ z2 = Real(n) ** b3 /\ z3 = Real(m) ** a3
      /\ z4 = z2 -- z3 /\ z5 = z1 ** z4
      /\ z6 = z5 // Real(N) /\ c4 = x6 ++ z6
  OBVIOUS
<1>i. /\ n = a.n /\ m = b.n /\ p1 = s[1] /\ r1 = t[1] /\ C = Scale /\ s[0] = n /\ t[0] = m
      /\ D = n * r1 - m * p1 /\ a1 = a.m1 /\ a2 = a.m2 /\ a3 = a.m3 /\ a4 = a.m4
      /\ b1 = b.m1 /\ b2 = b.m2 /\ b3 = b.m3 /\ b4 = b.m4
      /\ A2 = Second(n, p1, s[2]) /\ A3 = Third(n, p1, s[2], s[3])
      /\ A4 = Fourth(n, p1, s[2], s[3], s[4])
      /\ B2 = Second(m, r1, t[2]) /\ B3 = Third(m, r1, t[2], t[3])
      /\ B4 = Fourth(m, r1, t[2], t[3], t[4])
  BY DEF Tracked
<1>d. /\ a1 \in Double /\ a2 \in Double /\ a3 \in Double /\ a4 \in Double
      /\ b1 \in Double /\ b2 \in Double /\ b3 \in Double /\ b4 \in Double
  BY AccumulatorFields
<1>w. /\ N = n + m /\ N2 = N * N /\ f = n - m /\ g = n * n - n * m + m * m
      /\ n2 = n * n /\ m2 = m * m
      /\ n \in Nat \ {0} /\ m \in Nat \ {0} /\ N \in Nat \ {0} /\ N2 \in Nat \ {0} /\ N3 \in Nat
      /\ CubeFits => N3 = N * N * N /\ N3 \in Nat \ {0}
      /\ f \in Int /\ g \in Int /\ n2 \in Int /\ m2 \in Int
  <2>1. n \in Nat /\ m \in Nat /\ 0 < m /\ m <= n /\ Fits(n + m)
    BY <1>i, AccumulatorFields
  <2> QED
    BY <2>1, CombineWords
<1> HIDE DEF n, m, N, N2, N3, f, g, n2, m2, a1, a2, a3, a4, b1, b2, b3, b4, p1, r1, C, D,
             A2, A3, A4, B2, B3, B4, c
<1> HIDE DEF delta, delta2, delta3, delta4, s1, s2, s3, c1, t0, t1, t2, t3, c2, u0, u1,
             u2, u3, u4, u5, w1, w2, w3, w4, w5, w6, c3, x0, x1, x2, x3, x4, x5, y1,
             y2, y3, y4, y5, y6, x6, z1, z2, z3, z4, z5, z6, c4
<1> SUFFICES ASSUME Numbers(c) PROVE Moments(c.m1, c.m2, c.m3, c.m4, Added(s, t))
  <2>1. Added(s, t)[0] = s[0] + t[0]
    BY AddedFacts
  <2> QED
    BY <1>b, <1>i, <1>w, <2>1 DEF Tracked, c
<1>f. c1 \in Number /\ c2 \in Number /\ c3 \in Number /\ c4 \in Number
  BY <1>b DEF Numbers
<1> USE <1>e, <1>w
<1>r. /\ Real(n) \in Double /\ Real(m) \in Double /\ Real(N) \in Double /\ Real(f) \in Double
      /\ Real(N2) \in Double /\ Three \in Double /\ Real(g) \in Double /\ Real(N3) \in Double
      /\ Six \in Double /\ Real(n2) \in Double /\ Real(m2) \in Double /\ Four \in Double
  BY SomeDoubles DEF Three, Four, Six
<1>t. {delta, delta2, delta3, delta4, s1, s2, s3, c1, t0, t1, t2, t3, c2, u0, u1, u2,
      u3, u4, u5, w1, w2, w3, w4, w5, w6, c3, x0, x1, x2, x3, x4, x5, y1, y2, y3, y4,
      y5, y6, x6, z1, z2, z3, z4, z5, z6, c4} \subseteq Double
  <2>1. delta \in Double
    BY <1>d, <1>r, DoubleArithmetic
  <2>2. delta2 \in Double
    BY <1>d, <1>r, <2>1, DoubleArithmetic
  <2>3. delta3 \in Double
    BY <1>d, <1>r, <2>2, <2>1, DoubleArithmetic
  <2>4. delta4 \in Double
    BY <1>d, <1>r, <2>2, DoubleArithmetic
  <2>5. s1 \in Double
    BY <1>d, <1>r, DoubleArithmetic
  <2>6. s2 \in Double
    BY <1>d, <1>r, DoubleArithmetic
  <2>7. s3 \in Double
    BY <1>d, <1>r, <2>5, <2>6, DoubleArithmetic
  <2>8. c1 \in Double
    BY <1>d, <1>r, <2>7, DoubleArithmetic
  <2>9. t0 \in Double
    BY <1>d, <1>r, DoubleArithmetic
  <2>10. t1 \in Double
    BY <1>d, <1>r, <2>2, DoubleArithmetic
  <2>11. t2 \in Double
    BY <1>d, <1>r, <2>10, DoubleArithmetic
  <2>12. t3 \in Double
    BY <1>d, <1>r, <2>11, DoubleArithmetic
  <2>13. c2 \in Double
    BY <1>d, <1>r, <2>9, <2>12, DoubleArithmetic
  <2>14. u0 \in Double
    BY <1>d, <1>r, DoubleArithmetic
  <2>15. u1 \in Double
    BY <1>d, <1>r, <2>3, DoubleArithmetic
  <2>16. u2 \in Double
    BY <1>d, <1>r, <2>15, DoubleArithmetic
  <2>17. u3 \in Double
    BY <1>d, <1>r, <2>16, DoubleArithmetic
  <2>18. u4 \in Double
    BY <1>d, <1>r, <2>17, DoubleArithmetic
  <2>19. u5 \in Double
    BY <1>d, <1>r, <2>14, <2>18, DoubleArithmetic
  <2>20. w1 \in Double
    BY <1>d, <1>r, <2>1, DoubleArithmetic
  <2>21. w2 \in Double
    BY <1>d, <1>r, DoubleArithmetic
  <2>22. w3 \in Double
    BY <1>d, <1>r, DoubleArithmetic
  <2>23. w4 \in Double
    BY <1>d, <1>r, <2>21, <2>22, DoubleArithmetic
  <2>24. w5 \in Double
    BY <1>d, <1>r, <2>20, <2>23, DoubleArithmetic
  <2>25. w6 \in Double
    BY <1>d, <1>r, <2>24, DoubleArithmetic
  <2>26. c3 \in Double
    BY <1>d, <1>r, <2>19, <2>25, DoubleArithmetic
  <2>27. x0 \in Double
    BY <1>d, <1>r, DoubleArithmetic
  <2>28. x1 \in Double
    BY <1>d, <1>r, <2>4, DoubleArithmetic
  <2>29. x2 \in Double
    BY <1>d, <1>r, <2>28, DoubleArithmetic
  <2>30. x3 \in Double
    BY <1>d, <1>r, <2>29, DoubleArithmetic
  <2>31. x4 \in Double
    BY <1>d, <1>r, <2>30, DoubleArithmetic
  <2>32. x5 \in Double
    BY <1>d, <1>r, <2>27, <2>31, DoubleArithmetic
  <2>33. y1 \in Double
    BY <1>d, <1>r, <2>2, DoubleArithmetic
  <2>34. y2 \in Double
    BY <1>d, <1>r, DoubleArithmetic
  <2>35. y3 \in Double
    BY <1>d, <1>r, DoubleArithmetic
  <2>36. y4 \in Double
    BY <1>d, <1>r, <2>34, <2>35, DoubleArithmetic
  <2>37. y5 \in Double
    BY <1>d, <1>r, <2>33, <2>36, DoubleArithmetic
  <2>38. y6 \in Double
    BY <1>d, <1>r, <2>37, DoubleArithmetic
  <2>39. x6 \in Double
    BY <1>d, <1>r, <2>32, <2>38, DoubleArithmetic
  <2>40. z1 \in Double
    BY <1>d, <1>r, <2>1, DoubleArithmetic
  <2>41. z2 \in Double
    BY <1>d, <1>r, DoubleArithmetic
  <2>42. z3 \in Double
    BY <1>d, <1>r, DoubleArithmetic
  <2>43. z4 \in Double
    BY <1>d, <1>r, <2>41, <2>42, DoubleArithmetic
  <2>44. z5 \in Double
    BY <1>d, <1>r, <2>40, <2>43, DoubleArithmetic
  <2>45. z6 \in Double
    BY <1>d, <1>r, <2>44, DoubleArithmetic
  <2>46. c4 \in Double
    BY <1>d, <1>r, <2>39, <2>45, DoubleArithmetic
  <2> QED
    BY <2>1, <2>2, <2>3, <2>4, <2>5, <2>6, <2>7, <2>8, <2>9, <2>10, <2>11, <2>12,
       <2>13, <2>14, <2>15, <2>16, <2>17, <2>18, <2>19, <2>20, <2>21, <2>22, <2>23,
       <2>24, <2>25, <2>26, <2>27, <2>28, <2>29, <2>30, <2>31, <2>32, <2>33, <2>34,
       <2>35, <2>36, <2>37, <2>38, <2>39, <2>40, <2>41, <2>42, <2>43, <2>44, <2>45,
       <2>46
<1>n. {a1, a2, a3, a4, b1, b2, b3, b4, delta, delta2, delta3, delta4, s1, s2, s3, t0,
      t1, t2, t3, u0, u1, u2, u3, u4, u5, w1, w2, w3, w4, w5, w6, x0, x1, x2, x3, x4,
      x5, y1, y2, y3, y4, y5, y6, x6, z1, z2, z3, z4, z5, z6} \subseteq Number
  <2>1. x6 \in Number /\ z6 \in Number
    BY <1>d, <1>r, <1>t, <1>f, PlusOperands
  <2>2. z5 \in Number
    BY <1>d, <1>r, <1>t, <2>1, DivideOperand
  <2>3. z1 \in Number /\ z4 \in Number
    BY <1>d, <1>r, <1>t, <2>2, TimesOperands
  <2>4. z2 \in Number /\ z3 \in Number
    BY <1>d, <1>r, <1>t, <2>3, MinusOperands
  <2>5. a3 \in Number
    BY <1>d, <1>r, <1>t, <2>4, TimesOperands
  <2>6. b3 \in Number
    BY <1>d, <1>r, <1>t, <2>4, TimesOperands
  <2>7. delta \in Number
    BY <1>d, <1>r, <1>t, <2>3, TimesOperands
  <2>8. x5 \in Number /\ y6 \in Number
    BY <1>d, <1>r, <1>t, <2>1, PlusOperands
  <2>9. y5 \in Number
    BY <1>d, <1>r, <1>t, <2>8, DivideOperand
  <2>10. y1 \in Number /\ y4 \in Number
    BY <1>d, <1>r, <1>t, <2>9, TimesOperands
  <2>11. y2 \in Number /\ y3 \in Number
    BY <1>d, <1>r, <1>t, <2>10, PlusOperands
  <2>12. a2 \in Number
    BY <1>d, <1>r, <1>t, <2>11, TimesOperands
  <2>13. b2 \in Number
    BY <1>d, <1>r, <1>t, <2>11, TimesOperands
  <2>14. delta2 \in Number
    BY <1>d, <1>r, <1>t, <2>10, TimesOperands
  <2>15. x0 \in Number /\ x4 \in Number
    BY <1>d, <1>r, <1>t, <2>8, PlusOperands
  <2>16. x3 \in Number
    BY <1>d, <1>r, <1>t, <2>15, DivideOperand
  <2>17. x2 \in Number
    BY <1>d, <1>r, <1>t, <2>16, TimesOperands
  <2>18. x1 \in Number
    BY <1>d, <1>r, <1>t, <2>17, TimesOperands
  <2>19. delta4 \in Number
    BY <1>d, <1>r, <1>t, <2>18, TimesOperands
  <2>20. a4 \in Number /\ b4 \in Number
    BY <1>d, <1>r, <1>t, <2>15, PlusOperands
  <2>21. u5 \in Number /\ w6 \in Number
    BY <1>d, <1>r, <1>t, <1>f, PlusOperands
  <2>22. w5 \in Number
    BY <1>d, <1>r, <1>t, <2>21, DivideOperand
  <2>23. w1 \in Number /\ w4 \in Number
    BY <1>d, <1>r, <1>t, <2>22, TimesOperands
  <2>24. w2 \in Number /\ w3 \in Number
    BY <1>d, <1>r, <1>t, <2>23, MinusOperands
  <2>25. u0 \in Number /\ u4 \in Number
    BY <1>d, <1>r, <1>t, <2>21, PlusOperands
  <2>26. u3 \in Number
    BY <1>d, <1>r, <1>t, <2>25, DivideOperand
  <2>27. u2 \in Number
    BY <1>d, <1>r, <1>t, <2>26, TimesOperands
  <2>28. u1 \in Number
    BY <1>d, <1>r, <1>t, <2>27, TimesOperands
  <2>29. delta3 \in Number
    BY <1>d, <1>r, <1>t, <2>28, TimesOperands
  <2>30. t0 \in Number /\ t3 \in Number
    BY <1>d, <1>r, <1>t, <1>f, PlusOperands
  <2>31. t2 \in Number
    BY <1>d, <1>r, <1>t, <2>30, DivideOperand
  <2>32. t1 \in Number
    BY <1>d, <1>r, <1>t, <2>31, TimesOperands
  <2>33. s3 \in Number
    BY <1>d, <1>r, <1>t, <1>f, DivideOperand
  <2>34. s1 \in Number /\ s2 \in Number
    BY <1>d, <1>r, <1>t, <2>33, PlusOperands
  <2>35. b1 \in Number
    BY <1>d, <1>r, <1>t, <2>34, TimesOperands
  <2>36. a1 \in Number
    BY <1>d, <1>r, <1>t, <2>34, TimesOperands
  <2> QED
    BY <2>1, <2>2, <2>3, <2>4, <2>5, <2>6, <2>7, <2>8, <2>9, <2>10, <2>11, <2>12,
       <2>13, <2>14, <2>15, <2>16, <2>17, <2>18, <2>19, <2>20, <2>21, <2>22, <2>23,
       <2>24, <2>25, <2>26, <2>27, <2>28, <2>29, <2>30, <2>31, <2>32, <2>33, <2>34,
       <2>35, <2>36
<1>v. {delta, delta2, delta3, delta4, s1, s2, s3, c1, t0, t1, t2, t3, c2, u0, u1, u2,
      u3, u4, u5, w1, w2, w3, w4, w5, w6, c3, x0, x1, x2, x3, x4, x5, y1, y2, y3, y4,
      y5, y6, x6, z1, z2, z3, z4, z5, z6, c4} \subseteq Number
  BY <1>f, <1>n
<1>g. Moments(a1, a2, a3, a4, s) /\ Moments(b1, b2, b3, b4, t)
  BY <1>i, <1>n DEF Tracked, Numbers
<1>h. p1 \in Int /\ r1 \in Int /\ C \in Nat \ {0} /\ D \in Int /\ D = n * r1 - m * p1
  BY <1>i, SumsFacts, ResultsConstants
<1>k. /\ A2 \in Int /\ A3 \in Int /\ A4 \in Int /\ B2 \in Int /\ B3 \in Int /\ B4 \in Int
  <2>1. /\ s[2] \in Int /\ s[3] \in Int /\ s[4] \in Int /\ n \in Int
        /\ t[2] \in Int /\ t[3] \in Int /\ t[4] \in Int /\ m \in Int
    BY <1>w, SumsFacts
  <2> QED
    BY <1>h, <1>i, <2>1, MomentTypes
<1>m. /\ Ratio(a1, p1, n * C) /\ Ratio(a2, A2, n * C * C) /\ Ratio(a3, A3, n * n * C * C * C)
      /\ CubeFits => Ratio(a4, A4, n * n * n * C * C * C * C)
      /\ Ratio(b1, r1, m * C) /\ Ratio(b2, B2, m * C * C) /\ Ratio(b3, B3, m * m * C * C * C)
      /\ CubeFits => Ratio(b4, B4, m * m * m * C * C * C * C)
  <2>1. (IF s[0] = 0 THEN 1 ELSE s[0]) = n /\ (IF t[0] = 0 THEN 1 ELSE t[0]) = m
    BY <1>i, <1>w
  <2> QED
    BY <1>g, <1>i, <2>1 DEF Moments
<1> USE <1>h, <1>k
<1> DEFINE q1 == n * C
           q2 == n * C * C
           q3 == n * n * C * C * C
           q4 == n * n * n * C * C * C * C
           q5 == m * C
           q6 == m * C * C
           q7 == m * m * C * C * C
           q8 == m * m * m * C * C * C * C
           q9 == n * m * C
           v1 == D * D
           q10 == n * n * m * m * C * C
           v2 == D * D * D
           q11 == n * n * n * m * m * m * C * C * C
           v3 == D * D * D * D
           q12 == n * n * n * n * m * m * m * m * C * C * C * C
           v4 == p1 + r1
           q13 == N * C
           v5 == A2 * m + B2 * n
           q14 == n * m * C * C
           q15 == n * m * N * C * C
           v6 == N * (A2 * m + B2 * n) + D * D
           v7 == A3 * m * m + B3 * n * n
           q16 == n * n * m * m * C * C * C
           v8 == D * D * D * (n - m)
           q17 == n * n * m * m * N * N * C * C * C
           v9 == N * N * (A3 * m * m + B3 * n * n) + D * D * D * (n - m)
           v10 == n * n * B2 - m * m * A2
           v11 == 3 * D * (n * n * B2 - m * m * A2)
           q18 == n * n * m * m * N * C * C * C
           v12 == N * N * (A3 * m * m + B3 * n * n) + D * D * D * (n - m) + 3 * N * D * (n * n * B2 - m * m * A2)
           v13 == A4 * m * m * m + B4 * n * n * n
           q19 == n * n * n * m * m * m * C * C * C * C
           v14 == D * D * D * D * (n * n - n * m + m * m)
           q20 == n * n * n * m * m * m * N * N * N * C * C * C * C
           v15 == N * N * N * (A4 * m * m * m + B4 * n * n * n) + D * D * D * D * (n * n - n * m + m * m)
           v16 == n * n * n * B2 + m * m * m * A2
           v17 == 6 * D * D * (n * n * n * B2 + m * m * m * A2)
           q21 == n * n * n * m * m * m * N * N * C * C * C * C
           v18 == N * N * N * (A4 * m * m * m + B4 * n * n * n) + D * D * D * D * (n * n - n * m + m * m) + 6 * N * D * D * (n * n * n * B2 + m * m * m * A2)
           v19 == n * n * n * B3 - m * m * m * A3
           v20 == 4 * D * (n * n * n * B3 - m * m * m * A3)
           q22 == n * n * n * m * m * m * N * C * C * C * C
           v21 == N * N * N * (A4 * m * m * m + B4 * n * n * n) + D * D * D * D * (n * n - n * m + m * m) + 6 * N * D * D * (n * n * n * B2 + m * m * m * A2) + 4 * N * N * D * (n * n * n * B3 - m * m * m * A3)
<1>c. /\ q1 \in Nat \ {0} /\ q2 \in Nat \ {0} /\ q3 \in Nat \ {0}
      /\ q4 \in Nat \ {0} /\ q5 \in Nat \ {0} /\ q6 \in Nat \ {0}
      /\ q7 \in Nat \ {0} /\ q8 \in Nat \ {0} /\ q9 \in Nat \ {0}
      /\ v1 \in Int /\ q10 \in Nat \ {0} /\ v2 \in Int
      /\ q11 \in Nat \ {0} /\ v3 \in Int /\ q12 \in Nat \ {0}
      /\ v4 \in Int /\ q13 \in Nat \ {0} /\ v5 \in Int
      /\ q14 \in Nat \ {0} /\ q15 \in Nat \ {0} /\ v6 \in Int
      /\ v7 \in Int /\ q16 \in Nat \ {0} /\ v8 \in Int
      /\ q17 \in Nat \ {0} /\ v9 \in Int /\ v10 \in Int
      /\ v11 \in Int /\ q18 \in Nat \ {0} /\ v12 \in Int
      /\ v13 \in Int /\ q19 \in Nat \ {0} /\ v14 \in Int
      /\ q20 \in Nat \ {0} /\ v15 \in Int /\ v16 \in Int
      /\ v17 \in Int /\ q21 \in Nat \ {0} /\ v18 \in Int
      /\ v19 \in Int /\ v20 \in Int /\ q22 \in Nat \ {0}
      /\ v21 \in Int
      /\ n \in Int /\ m \in Int /\ N \in Int /\ C \in Int /\ D \in Int
  BY Factors
<1>a. /\ Ratio(a1, p1, q1) /\ Ratio(a2, A2, q2) /\ Ratio(a3, A3, q3)
      /\ Ratio(b1, r1, q5) /\ Ratio(b2, B2, q6) /\ Ratio(b3, B3, q7)
      /\ CubeFits => Ratio(a4, A4, q4) /\ Ratio(b4, B4, q8)
  BY <1>m
<1> HIDE DEF q1, q2, q3, q4, q5, q6, q7, q8, q9, v1, q10, v2, q11, v3, q12, v4, q13, v5,
            q14, q15, v6, v7, q16, v8, q17, v9, v10, v11, q18, v12, v13, q19, v14, q20,
            v15, v16, v17, q21, v18, v19, v20, q22, v21
<1>s. /\ Ratio(Real(n), n, 1) /\ Ratio(Real(m), m, 1) /\ Ratio(Real(N), N, 1)
      /\ Ratio(Real(f), f, 1) /\ Ratio(Real(N2), N2, 1) /\ Ratio(Three, 3, 1)
      /\ Ratio(Real(g), g, 1) /\ Ratio(Real(N3), N3, 1) /\ Ratio(Six, 6, 1)
      /\ Ratio(Real(n2), n2, 1) /\ Ratio(Real(m2), m2, 1) /\ Ratio(Four, 4, 1)
  BY <1>c, RatioReal DEF Three, Four, Six
<1>1. Ratio(delta, D, q9)
  <2>1. Ratio(delta, r1 * q1 - p1 * q5, q5 * q1)
    BY <1>v, <1>a, RatioMinus
  <2>2. (r1 * q1 - p1 * q5) * q9 = D * (q5 * q1)
    BY <1>c DEF q1, q5, q9
  <2> QED
    BY <1>c, <2>1, <2>2, RatioSame
<1>2. Ratio(delta2, v1, q10)
  <2>1. Ratio(delta2, D * D, q9 * q9)
    BY <1>v, <1>1, RatioSquare
  <2>2. (D * D) * q10 = v1 * (q9 * q9)
    BY <1>c DEF q10, q9, v1
  <2> QED
    BY <1>c, <2>1, <2>2, RatioSame
<1>3. Ratio(delta3, v2, q11)
  <2>1. Ratio(delta3, v1 * D, q10 * q9)
    BY <1>v, <1>2, <1>1, RatioTimes
  <2>2. (v1 * D) * q11 = v2 * (q10 * q9)
    BY <1>c DEF q10, q11, q9, v1, v2
  <2> QED
    BY <1>c, <2>1, <2>2, RatioSame
<1>4. Ratio(delta4, v3, q12)
  <2>1. Ratio(delta4, v1 * v1, q10 * q10)
    BY <1>v, <1>2, RatioSquare
  <2>2. (v1 * v1) * q12 = v3 * (q10 * q10)
    BY <1>c DEF q10, q12, v1, v3
  <2> QED
    BY <1>c, <2>1, <2>2, RatioSame
<1>5. Ratio(s1, p1 * n, q1)
  BY <1>v, <1>c, <1>a, RatioScaled
<1>6. Ratio(s2, r1 * m, q5)
  BY <1>v, <1>c, <1>a, RatioScaled
<1>7. Ratio(s3, v4, C)
  <2>1. Ratio(s3, (p1 * n) * q5 + (r1 * m) * q1, q1 * q5)
    BY <1>v, <1>5, <1>6, RatioPlus
  <2>2. ((p1 * n) * q5 + (r1 * m) * q1) * C = v4 * (q1 * q5)
    BY <1>c DEF q1, q5, v4
  <2> QED
    BY <1>c, <2>1, <2>2, RatioSame
<1>8. Ratio(c1, v4, q13)
  <2>1. Ratio(c1, v4, C * N)
    BY <1>v, <1>c, <1>7, RatioDivide
  <2>2. v4 * q13 = v4 * (C * N)
    BY <1>c DEF q13, v4
  <2> QED
    BY <1>c, <2>1, <2>2, RatioSame
<1>9. Ratio(t0, v5, q14)
  <2>1. Ratio(t0, A2 * q6 + B2 * q2, q2 * q6)
    BY <1>v, <1>a, RatioPlus
  <2>2. (A2 * q6 + B2 * q2) * q14 = v5 * (q2 * q6)
    BY <1>c DEF q14, q2, q6, v5
  <2> QED
    BY <1>c, <2>1, <2>2, RatioSame
<1>10. Ratio(t1, v1 * n, q10)
  BY <1>v, <1>c, <1>2, RatioScaled
<1>11. Ratio(t2, (v1 * n) * m, q10)
  BY <1>v, <1>c, <1>10, RatioScaled
<1>12. Ratio(t3, v1, q15)
  <2>1. Ratio(t3, (v1 * n) * m, q10 * N)
    BY <1>v, <1>c, <1>11, RatioDivide
  <2>2. ((v1 * n) * m) * q15 = v1 * (q10 * N)
    BY <1>c DEF q10, q15, v1
  <2> QED
    BY <1>c, <2>1, <2>2, RatioSame
<1>13. Ratio(c2, v6, q15)
  <2>1. Ratio(c2, v5 * q15 + v1 * q14, q14 * q15)
    BY <1>v, <1>9, <1>12, RatioPlus
  <2>2. (v5 * q15 + v1 * q14) * q15 = v6 * (q14 * q15)
    BY <1>c DEF q14, q15, v1, v5, v6
  <2> QED
    BY <1>c, <2>1, <2>2, RatioSame
<1>14. Ratio(u0, v7, q16)
  <2>1. Ratio(u0, A3 * q7 + B3 * q3, q3 * q7)
    BY <1>v, <1>a, RatioPlus
  <2>2. (A3 * q7 + B3 * q3) * q16 = v7 * (q3 * q7)
    BY <1>c DEF q16, q3, q7, v7
  <2> QED
    BY <1>c, <2>1, <2>2, RatioSame
<1>15. Ratio(u1, v2 * n, q11)
  BY <1>v, <1>c, <1>3, RatioScaled
<1>16. Ratio(u2, v2, q16)
  <2>1. Ratio(u2, (v2 * n) * m, q11)
    BY <1>v, <1>c, <1>15, RatioScaled
  <2>2. ((v2 * n) * m) * q16 = v2 * (q11)
    BY <1>c DEF q11, q16, v2
  <2> QED
    BY <1>c, <2>1, <2>2, RatioSame
<1>17. Ratio(u3, v2 * f, q16)
  BY <1>v, <1>c, <1>16, RatioScaled
<1>18. Ratio(u4, v8, q17)
  <2>1. Ratio(u4, v2 * f, q16 * N2)
    BY <1>v, <1>c, <1>17, RatioDivide
  <2>2. (v2 * f) * q17 = v8 * (q16 * N2)
    BY <1>c DEF q16, q17, v2, v8
  <2> QED
    BY <1>c, <2>1, <2>2, RatioSame
<1>19. Ratio(u5, v9, q17)
  <2>1. Ratio(u5, v7 * q17 + v8 * q16, q16 * q17)
    BY <1>v, <1>14, <1>18, RatioPlus
  <2>2. (v7 * q17 + v8 * q16) * q17 = v9 * (q16 * q17)
    BY <1>c DEF q16, q17, v7, v8, v9
  <2> QED
    BY <1>c, <2>1, <2>2, RatioSame
<1>20. Ratio(w1, 3 * D, q9)
  BY <1>v, <1>c, <1>1, RatioScaled DEF Three
<1>21. Ratio(w2, n * B2, q6)
  BY <1>v, <1>c, <1>a, RatioScaled
<1>22. Ratio(w3, m * A2, q2)
  BY <1>v, <1>c, <1>a, RatioScaled
<1>23. Ratio(w4, v10, q14)
  <2>1. Ratio(w4, (n * B2) * q2 - (m * A2) * q6, q6 * q2)
    BY <1>v, <1>21, <1>22, RatioMinus
  <2>2. ((n * B2) * q2 - (m * A2) * q6) * q14 = v10 * (q6 * q2)
    BY <1>c DEF q14, q2, q6, v10
  <2> QED
    BY <1>c, <2>1, <2>2, RatioSame
<1>24. Ratio(w5, (3 * D) * v10, q9 * q14)
  BY <1>v, <1>20, <1>23, RatioTimes
<1>25. Ratio(w6, v11, q18)
  <2>1. Ratio(w6, (3 * D) * v10, (q9 * q14) * N)
    BY <1>v, <1>c, <1>24, RatioDivide
  <2>2. ((3 * D) * v10) * q18 = v11 * ((q9 * q14) * N)
    BY <1>c DEF q14, q18, q9, v10, v11
  <2> QED
    BY <1>c, <2>1, <2>2, RatioSame
<1>26. Ratio(c3, v12, q17)
  <2>1. Ratio(c3, v9 * q18 + v11 * q17, q17 * q18)
    BY <1>v, <1>19, <1>25, RatioPlus
  <2>2. (v9 * q18 + v11 * q17) * q17 = v12 * (q17 * q18)
    BY <1>c DEF q17, q18, v11, v12, v9
  <2> QED
    BY <1>c, <2>1, <2>2, RatioSame
<1>27. CubeFits => Ratio(x0, v13, q19)
  <2> HAVE CubeFits
  <2>1. Ratio(x0, A4 * q8 + B4 * q4, q4 * q8)
    BY <1>v, <1>a, RatioPlus
  <2>2. (A4 * q8 + B4 * q4) * q19 = v13 * (q4 * q8)
    BY <1>c DEF q19, q4, q8, v13
  <2> QED
    BY <1>c, <2>1, <2>2, RatioSame
<1>28. Ratio(x1, v3 * n, q12)
  BY <1>v, <1>c, <1>4, RatioScaled
<1>29. Ratio(x2, v3, q19)
  <2>1. Ratio(x2, (v3 * n) * m, q12)
    BY <1>v, <1>c, <1>28, RatioScaled
  <2>2. ((v3 * n) * m) * q19 = v3 * (q12)
    BY <1>c DEF q12, q19, v3
  <2> QED
    BY <1>c, <2>1, <2>2, RatioSame
<1>30. Ratio(x3, v3 * g, q19)
  BY <1>v, <1>c, <1>29, RatioScaled
<1>31. CubeFits => Ratio(x4, v14, q20)
  <2> HAVE CubeFits
  <2>1. Ratio(x4, v3 * g, q19 * N3)
    BY <1>v, <1>c, <1>30, RatioDivide
  <2>2. (v3 * g) * q20 = v14 * (q19 * N3)
    BY <1>c DEF q19, q20, v14, v3
  <2> QED
    BY <1>c, <2>1, <2>2, RatioSame
<1>32. CubeFits => Ratio(x5, v15, q20)
  <2> HAVE CubeFits
  <2>1. Ratio(x5, v13 * q20 + v14 * q19, q19 * q20)
    BY <1>v, <1>27, <1>31, RatioPlus
  <2>2. (v13 * q20 + v14 * q19) * q20 = v15 * (q19 * q20)
    BY <1>c DEF q19, q20, v13, v14, v15
  <2> QED
    BY <1>c, <2>1, <2>2, RatioSame
<1>33. Ratio(y1, 6 * v1, q10)
  BY <1>v, <1>c, <1>2, RatioScaled DEF Six
<1>34. Ratio(y2, n2 * B2, q6)
  BY <1>v, <1>c, <1>a, RatioScaled
<1>35. Ratio(y3, m2 * A2, q2)
  BY <1>v, <1>c, <1>a, RatioScaled
<1>36. Ratio(y4, v16, q14)
  <2>1. Ratio(y4, (n2 * B2) * q2 + (m2 * A2) * q6, q6 * q2)
    BY <1>v, <1>34, <1>35, RatioPlus
  <2>2. ((n2 * B2) * q2 + (m2 * A2) * q6) * q14 = v16 * (q6 * q2)
    BY <1>c DEF q14, q2, q6, v16
  <2> QED
    BY <1>c, <2>1, <2>2, RatioSame
<1>37. Ratio(y5, (6 * v1) * v16, q10 * q14)
  BY <1>v, <1>33, <1>36, RatioTimes
<1>38. Ratio(y6, v17, q21)
  <2>1. Ratio(y6, (6 * v1) * v16, (q10 * q14) * N2)
    BY <1>v, <1>c, <1>37, RatioDivide
  <2>2. ((6 * v1) * v16) * q21 = v17 * ((q10 * q14) * N2)
    BY <1>c DEF q10, q14, q21, v1, v16, v17
  <2> QED
    BY <1>c, <2>1, <2>2, RatioSame
<1>39. CubeFits => Ratio(x6, v18, q20)
  <2> HAVE CubeFits
  <2>1. Ratio(x6, v15 * q21 + v17 * q20, q20 * q21)
    BY <1>v, <1>32, <1>38, RatioPlus
  <2>2. (v15 * q21 + v17 * q20) * q20 = v18 * (q20 * q21)
    BY <1>c DEF q20, q21, v15, v17, v18
  <2> QED
    BY <1>c, <2>1, <2>2, RatioSame
<1>40. Ratio(z1, 4 * D, q9)
  BY <1>v, <1>c, <1>1, RatioScaled DEF Four
<1>41. Ratio(z2, n * B3, q7)
  BY <1>v, <1>c, <1>a, RatioScaled
<1>42. Ratio(z3, m * A3, q3)
  BY <1>v, <1>c, <1>a, RatioScaled
<1>43. Ratio(z4, v19, q16)
  <2>1. Ratio(z4, (n * B3) * q3 - (m * A3) * q7, q7 * q3)
    BY <1>v, <1>41, <1>42, RatioMinus
  <2>2. ((n * B3) * q3 - (m * A3) * q7) * q16 = v19 * (q7 * q3)
    BY <1>c DEF q16, q3, q7, v19
  <2> QED
    BY <1>c, <2>1, <2>2, RatioSame
<1>44. Ratio(z5, (4 * D) * v19, q9 * q16)
  BY <1>v, <1>40, <1>43, RatioTimes
<1>45. Ratio(z6, v20, q22)
  <2>1. Ratio(z6, (4 * D) * v19, (q9 * q16) * N)
    BY <1>v, <1>c, <1>44, RatioDivide
  <2>2. ((4 * D) * v19) * q22 = v20 * ((q9 * q16) * N)
    BY <1>c DEF q16, q22, q9, v19, v20
  <2> QED
    BY <1>c, <2>1, <2>2, RatioSame
<1>46. CubeFits => Ratio(c4, v21, q20)
  <2> HAVE CubeFits
  <2>1. Ratio(c4, v18 * q22 + v20 * q20, q20 * q22)
    BY <1>v, <1>39, <1>45, RatioPlus
  <2>2. (v18 * q22 + v20 * q20) * q20 = v21 * (q20 * q22)
    BY <1>c DEF q20, q22, v18, v20, v21
  <2> QED
    BY <1>c, <2>1, <2>2, RatioSame
<1>47. Combined(c1, c2, c3, c4, s, t)
  <2>1. /\ Ratio(c1, p1 + r1, N * C)
        /\ Ratio(c2, N * (A2 * m + B2 * n) + D * D, n * m * N * C * C)
        /\ Ratio(c3, N * N * (A3 * m * m + B3 * n * n) + D * D * D * (n - m)
                     + 3 * N * D * (n * n * B2 - m * m * A2),
                 n * n * m * m * N * N * C * C * C)
        /\ CubeFits =>
             Ratio(c4, N * N * N * (A4 * m * m * m + B4 * n * n * n)
                     + D * D * D * D * (n * n - n * m + m * m)
                     + 6 * N * D * D * (n * n * n * B2 + m * m * m * A2)
                     + 4 * N * N * D * (n * n * n * B3 - m * m * m * A3),
                 n * n * n * m * m * m * N * N * N * C * C * C * C)
    BY <1>8, <1>13, <1>26, <1>46 DEF q13, q15, q17, q20, v12, v21, v4, v6
  <2>2. s[0] + t[0] = N
    BY <1>i
  <2> QED
    BY <1>i, <2>1, <2>2, Zenon DEF Combined
<1>48. Moments(c1, c2, c3, c4, Added(s, t))
  <2>1. s[0] # 0 /\ t[0] # 0
    BY <1>i, <1>w
  <2> QED
    BY <1>47, <2>1, CombineMoments
<1> QED
  BY <1>b, <1>48

----------------------------------------------------------------------------
(* Sums of polynomials of the data                                         *)

\* What a value adds to the sums.
Term(x) == IF valueNormalOrZero(x) THEN Powers(Whole(x)) ELSE NoSums

\* The sums of the first n of the data.
SumsTo(data, n) == TotalSums([j \in 1..n |-> Term(data[j])], n)

LEMMA TermType ==
    ASSUME NEW x \in Double
    PROVE  /\ valueNormalOrZero(x) => Whole(x) \in Int
           /\ Term(x) \in Sums
<1>1. ASSUME valueNormalOrZero(x) PROVE Whole(x) \in Int
  <2>1. x[1] \in Int /\ x[2] \in Nat \ {0}
    BY <1>1, NormalNumber DEF Number
  <2>2. x[1] * Scale \in Int
    BY <2>1, ResultsConstants
  <2> QED
    BY <2>1, <2>2 DEF Whole
<1> QED
  BY <1>1, Addition, PowersFacts DEF Term

LEMMA SumsToFacts ==
    ASSUME NEW n \in Nat, NEW data, \A j \in 1..n : data[j] \in Double
    PROVE  /\ SumsTo(data, n) \in Sums
           /\ \A m \in 0..(n - 1) : SumsTo(data, m + 1) = Added(SumsTo(data, m), Term(data[m + 1]))
           /\ SumsTo(data, 0) = NoSums
<1> DEFINE g(m) == [j \in 1..m |-> Term(data[j])]
<1>1. \A m \in 0..n : g(m) \in [1..m -> Sums] /\ \A j \in 1..m : g(m)[j] = Term(data[j])
  BY TermType
<1>2. \A m : SumsTo(data, m) = TotalSums(g(m), m)
  BY DEF SumsTo
<1> HIDE DEF g
<1>3. SumsTo(data, n) \in Sums
  BY <1>1, <1>2, TotalSumsType
<1>4. ASSUME NEW m \in 0..(n - 1)
      PROVE  SumsTo(data, m + 1) = Added(SumsTo(data, m), Term(data[m + 1]))
  <2>1. /\ m \in Nat /\ m \in 0..n /\ m + 1 \in 0..n /\ m + 1 \in 1..(m + 1)
        /\ \A j \in 1..m : j \in 1..(m + 1)
    OBVIOUS
  <2>2. g(m + 1) \in [1..(m + 1) -> Sums] /\ g(m) \in [1..m -> Sums]
        /\ (\A j \in 1..m : g(m)[j] = g(m + 1)[j]) /\ g(m + 1)[m + 1] = Term(data[m + 1])
    BY <1>1, <2>1
  <2>3. TotalSums(g(m + 1), m + 1) = Added(TotalSums(g(m), m), g(m + 1)[m + 1])
    BY <2>1, <2>2, TotalSumsAppend
  <2> QED
    BY <1>2, <2>2, <2>3
<1>5. SumsTo(data, 0) = NoSums
  <2>1. g(0) \in [1..0 -> Sums]
    BY <1>1
  <2>2. PartialSums(g(0), 0)[0] = NoSums /\ TotalSums(g(0), 0) = PartialSums(g(0), 0)[0]
    BY <2>1, PartialSumsFacts
  <2> QED
    BY <1>2, <2>2
<1> QED
  BY <1>3, <1>4, <1>5

LEMMA SumsToSame ==
    ASSUME NEW n \in Nat, NEW x, NEW y, \A j \in 1..n : x[j] = y[j]
    PROVE  SumsTo(x, n) = SumsTo(y, n)
<1>1. [j \in 1..n |-> Term(x[j])] = [j \in 1..n |-> Term(y[j])]
  OBVIOUS
<1> QED
  BY <1>1, Zenon DEF SumsTo

LaneSums(data) == SumsTo(data, Len(data))

\* A sum of powers of linear terms is a combination of sums of powers.
LEMMA LaneSumWeighted ==
    ASSUME NEW data \in Seq(Double), NEW factor, NEW shift, NEW k, NEW c \in [0..4 -> Int],
           Expands(factor, shift, k, c)
    PROVE  LaneSum(data, factor, shift, k) = Weighted(c, LaneSums(data))
<1> DEFINE n == Len(data)
           g == [j \in 1..n |-> Term(data[j])]
<1>1. n \in Nat /\ \A j \in 1..n : data[j] \in Double
  OBVIOUS
<1>2. g \in [1..n -> Sums] /\ \A j \in 1..n : g[j] = Term(data[j])
  BY <1>1, TermType
<1>3. ASSUME NEW j \in 1..n
      PROVE  (IF valueNormalOrZero(data[j]) THEN Power(factor * Whole(data[j]) - shift, k) ELSE 0)
               = Weighted(c, g[j])
  <2>1. CASE valueNormalOrZero(data[j])
    BY <1>1, <1>2, <2>1, TermType DEF Term, Expands
  <2>2. CASE ~valueNormalOrZero(data[j])
    BY <1>2, <2>2, WeightedFacts DEF Term
  <2> QED
    BY <2>1, <2>2
<1>4. LaneSums(data) = TotalSums(g, n)
  BY DEF LaneSums, SumsTo
<1>5. LaneSum(data, factor, shift, k)
        = Total([j \in 1..n |-> IF valueNormalOrZero(data[j])
                                  THEN Power(factor * Whole(data[j]) - shift, k) ELSE 0], n)
  BY DEF LaneSum
<1> HIDE DEF g, n
<1>6. [j \in 1..n |-> IF valueNormalOrZero(data[j])
                        THEN Power(factor * Whole(data[j]) - shift, k) ELSE 0]
        = [j \in 1..n |-> Weighted(c, g[j])]
  BY <1>3
<1> QED
  BY <1>1, <1>2, <1>4, <1>5, <1>6, TotalWeighted

LEMMA LaneType ==
    ASSUME NEW d, NEW part \in Seq(DatumOf(d)), NEW lane \in 1..WidthOf(d)
    PROVE  /\ LaneOf(d, part, lane) \in Seq(Double)
           /\ Len(LaneOf(d, part, lane)) = Len(part)
           /\ \A j \in 1..Len(part) :
                LaneOf(d, part, lane)[j] = IF d = "avx2" THEN part[j][lane] ELSE part[j]
<1>1. CASE d = "avx2"
  <2>1. part \in Seq([1..Lanes -> Double]) /\ lane \in 1..Lanes
    BY <1>1 DEF DatumOf, WidthOf
  <2>2. DOMAIN part = 1..Len(part) /\ Len(part) \in Nat
    BY <2>1
  <2>3. ASSUME NEW j \in 1..Len(part) PROVE part[j][lane] \in Double
    <3>1. part[j] \in [1..Lanes -> Double]
      BY <2>1
    <3> QED
      BY <2>1, <3>1
  <2>4. LaneOf(d, part, lane) = [j \in 1..Len(part) |-> part[j][lane]]
    BY <1>1, <2>2 DEF LaneOf
  <2> QED
    BY <1>1, <2>2, <2>3, <2>4
<1>2. CASE d # "avx2"
  BY <1>2 DEF LaneOf, DatumOf
<1> QED
  BY <1>1, <1>2

\* The sums of the i-th item's lanes that are in P, and those of all in P.
RowSums(i, P) ==
    Gather([lane \in 1..Width(i) |-> LaneSums(Lane(i, lane))],
           {lane \in 1..Width(i) : <<i, lane>> \in P}, Width(i))

SumsOf(P) == TotalSums([i \in 1..Len(items) |-> RowSums(i, P)], Len(items))

LEMMA LaneSumsType ==
    ASSUME TypeOK, NEW i \in 1..Len(items)
    PROVE  /\ [lane \in 1..Width(i) |-> LaneSums(Lane(i, lane))] \in [1..Width(i) -> Sums]
           /\ Width(i) \in Nat \ {0}
<1>1. Width(i) \in Nat \ {0}
  BY ResultsConstants DEF Width, WidthOf
<1>2. parts[i] \in Seq(DatumOf(kinds[i]))
  BY DEF TypeOK
<1>3. ASSUME NEW lane \in 1..Width(i) PROVE LaneSums(Lane(i, lane)) \in Sums
  <2> DEFINE data == Lane(i, lane)
  <2>1. data \in Seq(Double)
    BY <1>2, LaneType DEF Lane, Width
  <2> HIDE DEF data
  <2>2. Len(data) \in Nat /\ \A j \in 1..Len(data) : data[j] \in Double
    BY <2>1
  <2>3. LaneSums(data) \in Sums
    BY <2>2, SumsToFacts DEF LaneSums
  <2> QED
    BY <2>3 DEF data
<1> QED
  BY <1>1, <1>3

LEMMA SumWeighted ==
    ASSUME TypeOK, NEW P, NEW factor, NEW shift, NEW k, NEW c \in [0..4 -> Int],
           Expands(factor, shift, k, c)
    PROVE  /\ SumsOf(P) \in Sums
           /\ Sum(P, factor, shift, k) = Weighted(c, SumsOf(P))
<1> DEFINE n == Len(items)
           row == [i \in 1..n |-> RowSums(i, P)]
           Part(i) == Total([lane \in 1..Width(i) |->
                               IF <<i, lane>> \in P
                                 THEN LaneSum(Lane(i, lane), factor, shift, k) ELSE 0], Width(i))
<1>1. n \in Nat
  BY DEF TypeOK
<1>2. ASSUME NEW i \in 1..n PROVE RowSums(i, P) \in Sums /\ Part(i) = Weighted(c, RowSums(i, P))
  <2> DEFINE g == [lane \in 1..Width(i) |-> LaneSums(Lane(i, lane))]
             I == {lane \in 1..Width(i) : <<i, lane>> \in P}
             h == [lane \in 1..Width(i) |-> IF lane \in I THEN g[lane] ELSE NoSums]
  <2>1. g \in [1..Width(i) -> Sums] /\ Width(i) \in Nat
    BY LaneSumsType
  <2>2. h \in [1..Width(i) -> Sums]
    BY <2>1, Addition
  <2>3. RowSums(i, P) = TotalSums(h, Width(i))
    BY DEF RowSums, Gather
  <2>4. ASSUME NEW lane \in 1..Width(i)
        PROVE  (IF <<i, lane>> \in P THEN LaneSum(Lane(i, lane), factor, shift, k) ELSE 0)
                 = Weighted(c, h[lane])
    <3>1. Lane(i, lane) \in Seq(Double)
      <4>1. parts[i] \in Seq(DatumOf(kinds[i]))
        BY DEF TypeOK
      <4> QED
        BY <4>1, LaneType DEF Lane, Width
    <3>2. LaneSum(Lane(i, lane), factor, shift, k)
            = Weighted(c, LaneSums(Lane(i, lane)))
      BY <3>1, LaneSumWeighted
    <3>3. h[lane] = IF <<i, lane>> \in P THEN LaneSums(Lane(i, lane)) ELSE NoSums
      OBVIOUS
    <3> QED
      BY <3>2, <3>3, WeightedFacts
  <2> HIDE DEF h
  <2>5. Part(i) = Total([lane \in 1..Width(i) |-> Weighted(c, h[lane])], Width(i))
    <3>1. [lane \in 1..Width(i) |->
             IF <<i, lane>> \in P THEN LaneSum(Lane(i, lane), factor, shift, k) ELSE 0]
            = [lane \in 1..Width(i) |-> Weighted(c, h[lane])]
      BY <2>4
    <3> QED
      BY <3>1, Zenon
  <2> QED
    BY <2>1, <2>2, <2>3, <2>5, TotalWeighted, TotalSumsType
<1>3. row \in [1..n -> Sums] /\ \A i \in 1..n : row[i] = RowSums(i, P)
  BY <1>2
<1>4. Sum(P, factor, shift, k) = Total([i \in 1..n |-> Part(i)], n) /\ SumsOf(P) = TotalSums(row, n)
  BY DEF Sum, SumsOf
<1> HIDE DEF n, row, Part
<1>5. [i \in 1..n |-> Part(i)] = [i \in 1..n |-> Weighted(c, row[i])]
  BY <1>2, <1>3
<1> QED
  BY <1>1, <1>3, <1>4, <1>5, TotalWeighted, TotalSumsType

----------------------------------------------------------------------------
(* Central moments                                                         *)

\* The sums that Describes speaks of, as polynomials of the sums of powers.
LEMMA CentralSums ==
    ASSUME TypeOK, NEW P, NEW s, s = SumsOf(P)
    PROVE  /\ s \in Sums /\ Sum(P, 1, 0, 0) = s[0] /\ Sum(P, 1, 0, 1) = s[1]
           /\ Sum(P, s[0], s[1], 2) = s[0] * Second(s[0], s[1], s[2])
           /\ Sum(P, s[0], s[1], 3) = s[0] * Third(s[0], s[1], s[2], s[3])
           /\ Sum(P, s[0], s[1], 4) = s[0] * Fourth(s[0], s[1], s[2], s[3], s[4])
<1>1. s \in Sums
  <2> DEFINE w == Weights(1, 0, 0, 0, 0)
  <2>1. \A x \in Int : Power(1 * x - 0, 0) = 1 + 0 * x + 0 * (x * x) + 0 * (x * x * x) + 0 * (x * x * x * x)
    BY Binomials
  <2>2. w = Weights(1, 0, 0, 0, 0)
    OBVIOUS
  <2> HIDE DEF w
  <2>3. w \in [0..4 -> Int] /\ Expands(1, 0, 0, w)
    BY <2>1, <2>2, WeightsExpand
  <2> QED
    BY <2>3, SumWeighted
<1> DEFINE n == s[0]
           p1 == s[1]
           p2 == s[2]
           p3 == s[3]
           p4 == s[4]
<1>2. n \in Int /\ p1 \in Int /\ p2 \in Int /\ p3 \in Int /\ p4 \in Int
  BY <1>1, SumsFacts
<1>3. s = SumsOf(P) /\ s[0] = n /\ s[1] = p1 /\ s[2] = p2 /\ s[3] = p3 /\ s[4] = p4
  OBVIOUS
<1> HIDE DEF n, p1, p2, p3, p4
<1>4. Sum(P, 1, 0, 0) = n
  <2> DEFINE w == Weights(1, 0, 0, 0, 0)
  <2>2. ASSUME NEW x \in Int
        PROVE  Power(1 * x - 0, 0) = 1 + 0 * x + 0 * (x * x) + 0 * (x * x * x) + 0 * (x * x * x * x)
    <3>1. Power(1 * x - 0, 0) = 1
      BY <1>2, Binomials
    <3>2. 0 * x = 0 /\ 0 * (x * x) = 0 /\ 0 * (x * x * x) = 0 /\ 0 * (x * x * x * x) = 0
      OBVIOUS
    <3> QED
      BY <3>1, <3>2, <1>2
  <2>3. 1 * n + 0 * p1 + 0 * p2 + 0 * p3 + 0 * p4 = n
    BY <1>2
  <2>4. w = Weights(1, 0, 0, 0, 0)
    OBVIOUS
  <2> HIDE DEF w
  <2>5. w \in [0..4 -> Int] /\ Expands(1, 0, 0, w)
    BY <2>2, <2>4, WeightsExpand
  <2>6. Weighted(w, s) = 1 * s[0] + 0 * s[1] + 0 * s[2] + 0 * s[3] + 0 * s[4]
    BY <2>4, WeightsFacts
  <2>7. Sum(P, 1, 0, 0) = Weighted(w, s)
    BY <1>3, <2>5, SumWeighted
  <2> QED
    BY <1>3, <2>3, <2>6, <2>7, Zenon
<1>5. Sum(P, 1, 0, 1) = p1
  <2> DEFINE w == Weights(0, 1, 0, 0, 0)
  <2>2. ASSUME NEW x \in Int
        PROVE  Power(1 * x - 0, 1) = 0 + 1 * x + 0 * (x * x) + 0 * (x * x * x) + 0 * (x * x * x * x)
    <3>1. Power(1 * x - 0, 1) = x
      BY <1>2, Binomials
    <3>2. 0 * (x * x) = 0 /\ 0 * (x * x * x) = 0 /\ 0 * (x * x * x * x) = 0
      OBVIOUS
    <3> QED
      BY <3>1, <3>2, <1>2
  <2>3. 0 * n + 1 * p1 + 0 * p2 + 0 * p3 + 0 * p4 = p1
    BY <1>2
  <2>4. w = Weights(0, 1, 0, 0, 0)
    OBVIOUS
  <2> HIDE DEF w
  <2>5. w \in [0..4 -> Int] /\ Expands(1, 0, 1, w)
    BY <2>2, <2>4, WeightsExpand
  <2>6. Weighted(w, s) = 0 * s[0] + 1 * s[1] + 0 * s[2] + 0 * s[3] + 0 * s[4]
    BY <2>4, WeightsFacts
  <2>7. Sum(P, 1, 0, 1) = Weighted(w, s)
    BY <1>3, <2>5, SumWeighted
  <2> QED
    BY <1>3, <2>3, <2>6, <2>7, Zenon
<1>6. Sum(P, n, p1, 2) = n * Second(n, p1, p2)
  <2> DEFINE a == p1 * p1
             b == (-2) * n * p1
             c == n * n
             w == Weights(a, b, c, 0, 0)
  <2>1. a \in Int /\ b \in Int /\ c \in Int
    BY <1>2
  <2>2. ASSUME NEW x \in Int
        PROVE  Power(n * x - p1, 2) = a + b * x + c * (x * x) + 0 * (x * x * x) + 0 * (x * x * x * x)
    <3>1. Power(n * x - p1, 2) = p1 * p1 + (-2) * n * p1 * x + n * n * (x * x)
      BY <1>2, Binomials
    <3>2. 0 * (x * x * x) = 0 /\ 0 * (x * x * x * x) = 0
      OBVIOUS
    <3> QED
      BY <3>1, <3>2, <1>2
  <2>3. a * n + b * p1 + c * p2 + 0 * p3 + 0 * p4 = n * (n * p2 - p1 * p1)
    BY <1>2
  <2>4. w = Weights(a, b, c, 0, 0)
    OBVIOUS
  <2> HIDE DEF a, b, c, w
  <2>5. w \in [0..4 -> Int] /\ Expands(n, p1, 2, w)
    BY <2>1, <2>2, <2>4, WeightsExpand
  <2>6. Weighted(w, s) = a * s[0] + b * s[1] + c * s[2] + 0 * s[3] + 0 * s[4]
    BY <2>1, <2>4, WeightsFacts
  <2>7. Sum(P, n, p1, 2) = Weighted(w, s)
    BY <1>3, <2>5, SumWeighted
  <2> QED
    BY <1>3, <2>3, <2>6, <2>7, Zenon DEF Second
<1>7. Sum(P, n, p1, 3) = n * Third(n, p1, p2, p3)
  <2> DEFINE a == -(p1 * p1 * p1)
             b == 3 * n * p1 * p1
             c == (-3) * n * n * p1
             d == n * n * n
             w == Weights(a, b, c, d, 0)
  <2>1. a \in Int /\ b \in Int /\ c \in Int /\ d \in Int
    BY <1>2
  <2>2. ASSUME NEW x \in Int
        PROVE  Power(n * x - p1, 3) = a + b * x + c * (x * x) + d * (x * x * x) + 0 * (x * x * x * x)
    <3>1. Power(n * x - p1, 3) = -(p1 * p1 * p1) + 3 * n * p1 * p1 * x + (-3) * n * n * p1 * (x * x) + n * n * n * (x * x * x)
      BY <1>2, Binomials
    <3>2. 0 * (x * x * x * x) = 0
      OBVIOUS
    <3> QED
      BY <3>1, <3>2, <1>2
  <2>3. a * n + b * p1 + c * p2 + d * p3 + 0 * p4 = n * (n * n * p3 - 3 * n * p1 * p2 + 2 * p1 * p1 * p1)
    BY <1>2
  <2>4. w = Weights(a, b, c, d, 0)
    OBVIOUS
  <2> HIDE DEF a, b, c, d, w
  <2>5. w \in [0..4 -> Int] /\ Expands(n, p1, 3, w)
    BY <2>1, <2>2, <2>4, WeightsExpand
  <2>6. Weighted(w, s) = a * s[0] + b * s[1] + c * s[2] + d * s[3] + 0 * s[4]
    BY <2>1, <2>4, WeightsFacts
  <2>7. Sum(P, n, p1, 3) = Weighted(w, s)
    BY <1>3, <2>5, SumWeighted
  <2> QED
    BY <1>3, <2>3, <2>6, <2>7, Zenon DEF Third
<1>8. Sum(P, n, p1, 4) = n * Fourth(n, p1, p2, p3, p4)
  <2> DEFINE a == p1 * p1 * p1 * p1
             b == (-4) * n * p1 * p1 * p1
             c == 6 * n * n * p1 * p1
             d == (-4) * n * n * n * p1
             e == n * n * n * n
             w == Weights(a, b, c, d, e)
  <2>1. a \in Int /\ b \in Int /\ c \in Int /\ d \in Int /\ e \in Int
    BY <1>2
  <2>2. ASSUME NEW x \in Int
        PROVE  Power(n * x - p1, 4) = a + b * x + c * (x * x) + d * (x * x * x) + e * (x * x * x * x)
    <3>1. Power(n * x - p1, 4) = p1 * p1 * p1 * p1 + (-4) * n * p1 * p1 * p1 * x + 6 * n * n * p1 * p1 * (x * x) + (-4) * n * n * n * p1 * (x * x * x) + n * n * n * n * (x * x * x * x)
      BY <1>2, Binomials
    <3> QED
      BY <3>1, <1>2
  <2>3. a * n + b * p1 + c * p2 + d * p3 + e * p4 = n * (n * n * n * p4 - 4 * n * n * p1 * p3 + 6 * n * p1 * p1 * p2 - 3 * p1 * p1 * p1 * p1)
    BY <1>2
  <2>4. w = Weights(a, b, c, d, e)
    OBVIOUS
  <2> HIDE DEF a, b, c, d, e, w
  <2>5. w \in [0..4 -> Int] /\ Expands(n, p1, 4, w)
    BY <2>1, <2>2, <2>4, WeightsExpand
  <2>6. Weighted(w, s) = a * s[0] + b * s[1] + c * s[2] + d * s[3] + e * s[4]
    BY <2>1, <2>4, WeightsFacts
  <2>7. Sum(P, n, p1, 4) = Weighted(w, s)
    BY <1>3, <2>5, SumWeighted
  <2> QED
    BY <1>3, <2>3, <2>6, <2>7, Zenon DEF Fourth
<1> QED
  BY <1>1, <1>3, <1>4, <1>5, <1>6, <1>7, <1>8

\* The data of a lane.
LaneData(data) == {Whole(x) : x \in Normal(ToSet(data))}

AllWhole(S) == \A x \in S : x % Scale = 0

\* The accumulator is that of data with the sums s and the values S.
Follows(a, s, S) == Tracked(a, s) /\ (a.isIntegerDistribution <=> AllWhole(S))

\* An accumulator that follows the sums of the lanes P describes their data.
LEMMA FollowsDescribes ==
    ASSUME TypeOK, NEW a \in Accumulator, valid(a), NEW P, Follows(a, SumsOf(P), Data(P))
    PROVE  Describes(a, P, 3) /\ (CubeFits => Describes(a, P, 4))
<1> DEFINE s == SumsOf(P)
           n == s[0]
           C == Scale
           A2 == Second(s[0], s[1], s[2])
           A3 == Third(s[0], s[1], s[2], s[3])
           A4 == Fourth(s[0], s[1], s[2], s[3], s[4])
<1>1. /\ s \in Sums /\ Count(P) = n /\ Sum(P, 1, 0, 1) = s[1]
      /\ Sum(P, n, s[1], 2) = n * A2 /\ Sum(P, n, s[1], 3) = n * A3 /\ Sum(P, n, s[1], 4) = n * A4
  BY CentralSums DEF Count
<1>2. a.n = n
  BY DEF Follows, Tracked
<1>3. Numbers(a)
  <2>1. a.m1 \in Double /\ a.m2 \in Double /\ a.m3 \in Double /\ a.m4 \in Double
    BY AccumulatorFields
  <2> QED
    BY <2>1, NormalNumber DEF valid, Numbers
<1>4. Moments(a.m1, a.m2, a.m3, a.m4, s)
  BY <1>3 DEF Follows, Tracked
<1>5. ASSUME n > 0
      PROVE  /\ Equals(a.m1, s[1], n * C)
             /\ Equals(a.m2, n * A2, Power(n * C, 2))
             /\ Equals(a.m3, n * A3, Power(n * C, 3))
             /\ CubeFits => Equals(a.m4, n * A4, Power(n * C, 4))
  <2>1. (IF n = 0 THEN 1 ELSE n) = n
    BY <1>5
  <2>2. /\ Ratio(a.m1, s[1], n * C) /\ Ratio(a.m2, A2, n * C * C)
        /\ Ratio(a.m3, A3, n * n * C * C * C)
        /\ CubeFits => Ratio(a.m4, A4, n * n * n * C * C * C * C)
    BY <1>4, <2>1 DEF Moments
  <2>3. n \in Nat \ {0} /\ C \in Nat \ {0}
    BY <1>1, <1>5, SumsFacts, ResultsConstants
  <2>4. A2 \in Int /\ A3 \in Int /\ A4 \in Int
    <3>1. s[0] \in Int /\ s[1] \in Int /\ s[2] \in Int /\ s[3] \in Int /\ s[4] \in Int
      <4> HIDE DEF s
      <4> QED
        BY <1>1, SumsFacts
    <3> HIDE DEF s
    <3> QED
      BY <3>1, MomentTypes
  <2> HIDE DEF s, n, C, A2, A3, A4
  <2> DEFINE B == n * C
             e2 == B * B
             e3 == B * B * B
             e4 == B * B * B * B
             d2 == n * C * C
             d3 == n * n * C * C * C
             d4 == n * n * n * C * C * C * C
             F2 == n * A2
             F3 == n * A3
             F4 == n * A4
  <2>5. Power(B, 2) = e2 /\ Power(B, 3) = e3 /\ Power(B, 4) = e4
    BY DEF Power
  <2>6. e2 \in Nat \ {0} /\ e3 \in Nat \ {0} /\ e4 \in Nat \ {0} /\ F2 \in Int /\ F3 \in Int /\ F4 \in Int
    BY <2>3, <2>4, Factors
  <2>7. A2 * e2 = F2 * d2 /\ A3 * e3 = F3 * d3 /\ A4 * e4 = F4 * d4
    BY <2>3, <2>4
  <2>8. Ratio(a.m2, A2, d2) /\ Ratio(a.m3, A3, d3) /\ (CubeFits => Ratio(a.m4, A4, d4))
    BY <2>2
  <2> HIDE DEF B, e2, e3, e4, d2, d3, d4, F2, F3, F4
  <2>9. Ratio(a.m2, F2, e2) /\ Ratio(a.m3, F3, e3) /\ (CubeFits => Ratio(a.m4, F4, e4))
    BY <2>4, <2>6, <2>7, <2>8, RatioSame
  <2> QED
    BY <2>2, <2>5, <2>9 DEF Ratio, B, F2, F3, F4
<1>6. a.isIntegerDistribution <=> \A x \in Data(P) : x % Scale = 0
  BY DEF Follows, AllWhole
<1> HIDE DEF s, n, A2, A3, A4
<1> QED
  BY <1>1, <1>2, <1>5, <1>6 DEF Describes

----------------------------------------------------------------------------
(* A value is pushed                                                        *)

LEMMA WholeFacts ==
    ASSUME NEW x \in Values, valueNormalOrZero(x)
    PROVE  /\ Whole(x) \in Int
           /\ Ratio(x, Whole(x), Scale)
           /\ isValueInteger(x) <=> Whole(x) % Scale = 0
<1> DEFINE p == x[1]
           q == x[2]
           C == Scale
           X == Whole(x)
<1>1. x \in Double /\ C \in Nat \ {0} /\ C % q = 0
  BY ResultsConstants, ResultsAssumption
<1>2. Finite(x) /\ p \in Int /\ q \in Nat \ {0}
  BY <1>1, DoubleCases DEF valueNormalOrZero
<1>3. X = (p * C) \div q
  BY DEF Whole
<1>4. (isValueInteger(x) <=> p % q = 0) /\ (Equals(x, X, C) <=> p * C = X * q)
  BY <1>2 DEF isValueInteger, Equals
<1> HIDE DEF p, q, C, X
<1>5. PICK w \in Int : C = w * q
  <2>1. Divisible(C, q) /\ C \in Int
    BY <1>1 DEF Divisible
  <2>2. Multiple(C, q)
    BY <1>2, <2>1, DivisibleMultiple
  <2> QED
    BY <2>2 DEF Multiple
<1>6. w \in Nat \ {0}
  BY <1>1, <1>2, <1>5
<1>7. X = p * w
  <2>1. p * C = (p * w) * q /\ p * w \in Int
    BY <1>2, <1>5
  <2> QED
    BY <1>2, <1>3, <2>1, QuotientInt
<1>8. X \in Int /\ p * C = X * q
  BY <1>2, <1>5, <1>7
<1>9. p % q = 0 <=> X % C = 0
  <2>1. ASSUME NEW k \in Int, p = k * q PROVE X = k * C
    BY <1>2, <1>5, <1>7, <2>1
  <2>2. ASSUME NEW k \in Int, X = k * C PROVE p = k * q
    <3>1. p * w = (k * q) * w /\ k * q \in Int
      BY <1>2, <1>5, <1>7, <2>2
    <3> QED
      BY <1>2, <1>6, <3>1, CancelFactor
  <2>3. Divisible(p, q) <=> Multiple(p, q)
    BY <1>2, DivisibleMultiple
  <2>4. Divisible(X, C) <=> Multiple(X, C)
    BY <1>1, <1>8, DivisibleMultiple
  <2>5. Multiple(p, q) <=> Multiple(X, C)
    BY <2>1, <2>2, Zenon DEF Multiple
  <2> QED
    BY <2>3, <2>4, <2>5, Zenon DEF Divisible
<1>10. Ratio(x, X, C)
  BY <1>1, <1>4, <1>8 DEF Ratio
<1> QED
  BY <1>4, <1>8, <1>9, <1>10 DEF X, C

\* What a value adds to the data.
Addend(x) == IF valueNormalOrZero(x) THEN {Whole(x)} ELSE {}

LEMMA FollowsPush ==
    ASSUME NEW a \in Accumulator, NEW s \in Sums, NEW S, Follows(a, s, S), NEW x \in Values,
           Fits(a.n + 1)
    PROVE  /\ Follows(push(a, x), Added(s, Term(x)), S \cup Addend(x))
           /\ Follows(KernelPush(a, x), Added(s, Term(x)), S \cup Addend(x))
<1>0. x \in Double
  BY ResultsConstants
<1>1. CASE ~valueNormalOrZero(x)
  <2>1. push(a, x) = a /\ KernelPush(a, x) = a
    BY <1>1 DEF push, KernelPush, KernelNormalOrZero, valueNormalOrZero
  <2>2. Added(s, Term(x)) = s /\ S \cup Addend(x) = S
    BY <1>1, Addition DEF Term, Addend
  <2> QED
    BY <2>1, <2>2
<1>2. CASE valueNormalOrZero(x)
  <2> DEFINE X == Whole(x)
             b == push(a, x)
             c == KernelPush(a, x)
             t == Added(s, Powers(X))
  <2>1. X \in Int /\ Ratio(x, X, Scale) /\ (isValueInteger(x) <=> X % Scale = 0)
    BY <1>2, WholeFacts
  <2>2. Tracked(b, t)
    BY <1>0, <1>2, <2>1, pushExact DEF Follows, Tracked
  <2>3. Added(s, Term(x)) = t /\ S \cup Addend(x) = S \cup {X}
    BY <1>2 DEF Term, Addend
  <2>4. b.isIntegerDistribution <=> a.isIntegerDistribution /\ isValueInteger(x)
    BY <1>2, AccumulatorFields DEF push, Accumulator
  <2>5. /\ c.n = b.n /\ c.m1 = b.m1 /\ c.m2 = b.m2 /\ c.m3 = b.m3 /\ c.m4 = b.m4
        /\ c.isIntegerDistribution = b.isIntegerDistribution
    <3>1. b \in Accumulator
      BY <1>0, pushType
    <3>2. c = [b EXCEPT !.minVal = Fmin(a.minVal, x)]
      BY <1>2 DEF KernelPush, KernelNormalOrZero, valueNormalOrZero
    <3> HIDE DEF b
    <3> QED
      BY <3>1, <3>2 DEF Accumulator
  <2> HIDE DEF X, b, c, t
  <2>6. AllWhole(S \cup {X}) <=> AllWhole(S) /\ X % Scale = 0
    BY DEF AllWhole
  <2>7. Follows(b, t, S \cup {X})
    BY <2>1, <2>2, <2>4, <2>6 DEF Follows
  <2>8. Follows(c, t, S \cup {X})
    BY <2>5, <2>7 DEF Follows, Tracked, Numbers
  <2> QED
    BY <2>3, <2>7, <2>8 DEF b, c
<1> QED
  BY <1>1, <1>2

\* A masked lane adds zero.
LEMMA MaskedLane ==
    ASSUME NEW a \in Accumulator, NEW s \in Sums, Tracked(a, s), NEW x \in Double, ~valuesValid(x)
    PROVE  Tracked(PushLane(a, x), s)
<1> DEFINE b == PushLane(a, x)
<1>1. /\ b.n = a.n + 0 /\ b.m1 = a.m1 ++ Zero /\ b.m2 = a.m2 ++ Zero
      /\ b.m3 = a.m3 ++ Zero /\ b.m4 = a.m4 ++ Zero
  BY DEF PushLane, maskDouble4, Accumulator
<1>2. b.n = s[0] /\ s[0] \in Nat
  BY <1>1, SumsFacts DEF Tracked
<1>3. a.m1 \in Double /\ a.m2 \in Double /\ a.m3 \in Double /\ a.m4 \in Double /\ Zero \in Double
  BY AccumulatorFields, SomeDoubles
<1> HIDE DEF b
<1>4. ASSUME Numbers(b)
      PROVE  Moments(b.m1, b.m2, b.m3, b.m4, s)
  <2>1. Numbers(a)
    BY <1>1, <1>3, <1>4, PlusOperands DEF Numbers
  <2>2. Moments(a.m1, a.m2, a.m3, a.m4, s)
    BY <2>1 DEF Tracked
  <2>3. ASSUME NEW m, NEW p, NEW q, Ratio(m, p, q), m ++ Zero \in Number
        PROVE  Ratio(m ++ Zero, p, q)
    <3>1. Ratio(Zero, 0, 1)
      <4>1. Zero = Real(0)
        BY DEF Zero, Real
      <4> QED
        BY <4>1, RatioReal
    <3>2. Ratio(m ++ Zero, p * 1 + 0 * q, q * 1)
      BY <2>3, <3>1, RatioPlus
    <3>3. p * 1 + 0 * q = p /\ q * 1 = q
      BY <2>3 DEF Ratio
    <3> QED
      BY <3>2, <3>3, Zenon
  <2>4. /\ a.m1 ++ Zero \in Number /\ a.m2 ++ Zero \in Number /\ a.m3 ++ Zero \in Number
        /\ a.m4 ++ Zero \in Number
    BY <1>1, <1>4 DEF Numbers
  <2> QED
    BY <1>1, <2>2, <2>3, <2>4, Zenon DEF Moments
<1> QED
  BY <1>2, <1>4 DEF Tracked, b

LEMMA FollowsPushLane ==
    ASSUME NEW a \in Accumulator, NEW s \in Sums, NEW S, Follows(a, s, S), NEW x \in Values
    PROVE  Follows(PushLane(a, x), Added(s, Term(x)), S \cup Addend(x))
<1> DEFINE b == PushLane(a, x)
<1>0. x \in Double /\ (valuesValid(x) <=> valueNormalOrZero(x))
  BY ResultsConstants DEF valuesValid, valueNormalOrZero
<1>1. b.isIntegerDistribution <=> a.isIntegerDistribution /\ (~valuesValid(x) \/ valuesInteger(x))
  BY DEF PushLane, Accumulator
<1> HIDE DEF b
<1>2. CASE ~valueNormalOrZero(x)
  <2>1. Tracked(b, s)
    BY <1>0, <1>2, MaskedLane DEF Follows, b
  <2>2. Added(s, Term(x)) = s /\ S \cup Addend(x) = S
    BY <1>2, Addition DEF Term, Addend
  <2> QED
    BY <1>0, <1>1, <1>2, <2>1, <2>2 DEF Follows, b
<1>3. CASE valueNormalOrZero(x)
  <2> DEFINE X == Whole(x)
  <2>1. X \in Int /\ Ratio(x, X, Scale) /\ (isValueInteger(x) <=> X % Scale = 0)
    BY <1>3, WholeFacts
  <2>2. Added(s, Term(x)) = Added(s, Powers(X)) /\ S \cup Addend(x) = S \cup {X}
    BY <1>3 DEF Term, Addend
  <2> HIDE DEF X
  <2>3. Tracked(b, Added(s, Powers(X)))
    BY <1>0, <1>3, <2>1, PushLaneExact DEF Follows, b
  <2>4. AllWhole(S \cup {X}) <=> AllWhole(S) /\ X % Scale = 0
    BY DEF AllWhole
  <2>5. b.isIntegerDistribution <=> a.isIntegerDistribution /\ isValueInteger(x)
    BY <1>0, <1>1, <1>3 DEF valuesInteger
  <2>6. Follows(b, Added(s, Powers(X)), S \cup {X})
    BY <2>1, <2>3, <2>4, <2>5 DEF Follows
  <2> QED
    BY <2>2, <2>6 DEF b
<1> QED
  BY <1>2, <1>3

----------------------------------------------------------------------------
(* Accumulators are merged                                                  *)

\* The accumulator is that of those of I of the data with the sums g and the
\* values S, of which one with data is not larger.
GatheredFrom(a, I, g, S, n) ==
    /\ Follows(a, Gather(g, I, n), UnionOf(S, I))
    /\ a.n > 0 => \E j \in I : 0 < g[j][0] /\ g[j][0] <= a.n

Gathered(a, J, g, S, n) == \E I \in SUBSET J : GatheredFrom(a, I, g, S, n)

\* The moments do not depend on the other fields.
LEMMA SameGathered ==
    ASSUME NEW a, NEW b, NEW J, NEW g, NEW S, NEW n, Gathered(a, J, g, S, n),
           b.n = a.n, b.m1 = a.m1, b.m2 = a.m2, b.m3 = a.m3, b.m4 = a.m4,
           b.isIntegerDistribution = a.isIntegerDistribution
    PROVE  Gathered(b, J, g, S, n)
<1>1. ASSUME NEW s, NEW T, Follows(a, s, T) PROVE Follows(b, s, T)
  BY <1>1 DEF Follows, Tracked, Numbers
<1>2. ASSUME NEW I, GatheredFrom(a, I, g, S, n) PROVE GatheredFrom(b, I, g, S, n)
  BY <1>1, <1>2 DEF GatheredFrom
<1> QED
  BY <1>2 DEF Gathered

LEMMA MoreGathered ==
    ASSUME NEW a, NEW J, NEW K, J \subseteq K, NEW g, NEW S, NEW n, Gathered(a, J, g, S, n)
    PROVE  Gathered(a, K, g, S, n)
BY DEF Gathered

LEMMA OneGathered ==
    ASSUME NEW n \in Nat, NEW g \in [1..n -> Sums], NEW S, NEW j \in 1..n, NEW a,
           Follows(a, g[j], S[j])
    PROVE  Gathered(a, {j}, g, S, n)
<1>1. g[j] \in Sums
  OBVIOUS
<1>2. Gather(g, {j}, n) = g[j]
  BY GatherOne
<1>3. UnionOf(S, {j}) = S[j]
  BY DEF UnionOf
<1>4. a.n = g[j][0] /\ g[j][0] \in Nat
  BY <1>1, SumsFacts DEF Follows, Tracked
<1>5. GatheredFrom(a, {j}, g, S, n)
  BY <1>2, <1>3, <1>4 DEF GatheredFrom
<1> QED
  BY <1>5 DEF Gathered

LEMMA CombineFollows ==
    ASSUME NEW a \in Accumulator, NEW s \in Sums, NEW S, Follows(a, s, S),
           NEW b \in Accumulator, NEW t \in Sums, NEW T, Follows(b, t, T),
           0 < b.n, b.n <= a.n, Fits(a.n + b.n)
    PROVE  Follows(Combine(a, b), Added(s, t), S \cup T)
<1>1. Tracked(a, s) /\ Tracked(b, t) /\ a.n = s[0] /\ b.n = t[0]
  BY DEF Follows, Tracked
<1>2. Tracked(Combine(a, b), Added(s, t))
  BY <1>1, CombineExact
<1>3. Combine(a, b).isIntegerDistribution <=> a.isIntegerDistribution /\ b.isIntegerDistribution
  BY DEF Combine, NewAccumulator
<1>4. AllWhole(S \cup T) <=> AllWhole(S) /\ AllWhole(T)
  BY DEF AllWhole
<1> QED
  BY <1>2, <1>3, <1>4 DEF Follows

\* One more is merged.
LEMMA MergeGathered ==
    ASSUME NEW n \in Nat, NEW g \in [1..n -> Sums], NEW S, NEW J \in SUBSET (1..n),
           NEW i \in 1..n, i \notin J,
           NEW a \in Accumulator, Gathered(a, J, g, S, n),
           NEW b \in Accumulator, Follows(b, g[i], S[i]),
           \A j \in J : g[i][0] > 0 => g[j][0] = 0 \/ g[j][0] >= g[i][0],
           Fits(a.n + b.n)
    PROVE  Gathered(Merge(a, b), J \cup {i}, g, S, n)
<1>1. CASE Empty(b)
  <2>1. Gathered(Merge(a, b), J, g, S, n)
    <3>1. Merge(a, b) = [a EXCEPT !.numericalErrorWhileMerging = TRUE]
      BY <1>1, MergeCases
    <3> QED
      BY <3>1, SameGathered DEF Accumulator
  <2> QED
    BY <2>1, MoreGathered
<1>2. CASE ~Empty(b) /\ Empty(a)
  <2>1. Gathered(b, {i}, g, S, n)
    BY OneGathered
  <2>2. Merge(a, b) = [b EXCEPT !.numericalErrorWhileMerging = TRUE]
    BY <1>2, MergeCases
  <2>3. Gathered(Merge(a, b), {i}, g, S, n)
    BY <2>1, <2>2, SameGathered DEF Accumulator
  <2> QED
    BY <2>3, MoreGathered
<1>3. CASE ~Empty(b) /\ ~Empty(a) /\ ~valid(Combine(a, b))
  <2>1. Gathered(Merge(a, b), J, g, S, n)
    <3>1. Merge(a, b) = [a EXCEPT !.numericalErrorWhileMerging = TRUE, !.minVal = Combine(a, b).minVal]
      BY <1>3, MergeCases
    <3> QED
      BY <3>1, SameGathered DEF Accumulator
  <2> QED
    BY <2>1, MoreGathered
<1>4. CASE ~Empty(b) /\ ~Empty(a) /\ valid(Combine(a, b))
  <2>1. Merge(a, b) = Combine(a, b)
    BY <1>4, MergeCases
  <2>2. PICK I \in SUBSET J : GatheredFrom(a, I, g, S, n)
    BY DEF Gathered
  <2> DEFINE s == Gather(g, I, n)
             K == I \cup {i}
  <2>3. Follows(a, s, UnionOf(S, I)) /\ s \in Sums /\ g[i] \in Sums /\ i \notin I
    BY <2>2, GatherFacts DEF GatheredFrom
  <2>4. a.n > 0 /\ b.n > 0 /\ a.n \in Nat /\ b.n \in Nat /\ b.n = g[i][0]
    BY <1>4, AccumulatorFields DEF Empty, Follows, Tracked
  <2>5. PICK j \in I : 0 < g[j][0] /\ g[j][0] <= a.n
    BY <2>2, <2>4 DEF GatheredFrom
  <2>6. b.n <= a.n
    <3>1. j \in J /\ g[j] \in Sums /\ g[j][0] \in Nat
      BY SumsFacts
    <3> QED
      BY <2>4, <2>5, <3>1
  <2>7. Gather(g, K, n) = Added(s, g[i]) /\ UnionOf(S, K) = UnionOf(S, I) \cup S[i]
    BY <2>3, GatherFacts DEF UnionOf
  <2> HIDE DEF s
  <2>8. Follows(Combine(a, b), Added(s, g[i]), UnionOf(S, I) \cup S[i])
    BY <2>3, <2>4, <2>6, CombineFollows
  <2>9. Combine(a, b).n >= a.n /\ Combine(a, b).n \in Nat
    <3>1. Combine(a, b).n = Added(s, g[i])[0] /\ a.n = s[0]
      BY <2>3, <2>8 DEF Follows, Tracked
    <3>2. Added(s, g[i])[0] = s[0] + g[i][0] /\ s[0] \in Nat /\ g[i][0] \in Nat
      BY <2>3, AddedFacts, SumsFacts
    <3> QED
      BY <3>1, <3>2
  <2>10. g[j][0] <= Combine(a, b).n
    <3>1. g[j] \in Sums /\ g[j][0] \in Nat
      BY SumsFacts
    <3> QED
      BY <2>4, <2>5, <2>9, <3>1
  <2>11. GatheredFrom(Combine(a, b), K, g, S, n)
    BY <2>5, <2>7, <2>8, <2>10 DEF GatheredFrom
  <2> QED
    BY <2>1, <2>11 DEF Gathered
<1> QED
  BY <1>1, <1>2, <1>3, <1>4

LEMMA FitsBelow ==
    ASSUME NEW a \in Nat, NEW b \in Nat, a <= b, Fits(b)
    PROVE  Fits(a)
<1>1. a * a <= b * b /\ a * a \in Nat /\ b * b \in Nat
  <2>1. a * a <= b * a /\ a * b <= b * b
    BY ProductMonotone
  <2>2. b * a = a * b
    OBVIOUS
  <2> QED
    BY <2>1, <2>2
<1>2. (a * a) * a <= (b * b) * a
  BY <1>1, ProductMonotone
<1>3. a * (b * b) <= b * (b * b)
  BY <1>1, ProductMonotone
<1>4. (b * b) * a = a * (b * b) /\ b * (b * b) = b * b * b
  OBVIOUS
<1>5. WordModulus \in Nat \ {0}
  BY ResultsConstants
<1>6. a * a < WordModulus
  BY <1>1, <1>5 DEF Fits
<1>7. ASSUME CubeFits PROVE a * a * a < WordModulus
  <2>1. b * b * b < WordModulus
    BY <1>7 DEF Fits
  <2> QED
    BY <1>2, <1>3, <1>4, <1>5, <2>1
<1> QED
  BY <1>6, <1>7 DEF Fits

----------------------------------------------------------------------------
(* A sequence of accumulators is merged from left to right                  *)

\* v are some of the accumulators of the data g and S, in their order, f says
\* which ones.
Picks(v, n, f, g, S, N) ==
    /\ f \in [1..n -> 1..N]
    /\ \A i, j \in 1..n : i < j => f[i] < f[j]
    /\ \A i \in 1..n : Follows(v[i], g[f[i]], S[f[i]])

\* The items that the first i merged ones are copies of.
FirstPicks(f, i) == {f[j] : j \in 1..i}

\* A merge from left to right follows the sums of some of what it merged, each
\* once: a step keeps both of its operands, or only one of them.
LEMMA SumGathered ==
    ASSUME NEW n \in Nat \ {0}, NEW v \in [1..n -> Accumulator],
           NEW N \in Nat, NEW g \in [1..N -> Sums], NEW S, NEW f, Picks(v, n, f, g, S, N),
           InOrder(g, N),
           NEW u \in [1..n -> Nat], v[1].n <= u[1], \A i \in 2..n : u[i - 1] + v[i].n <= u[i],
           NEW top \in Nat, \A i \in 1..n : u[i] <= top, Fits(top)
    PROVE  \A i \in 1..n : Gathered(MergeSums(v, n)[i], FirstPicks(f, i), g, S, N)
<1> DEFINE sum == MergeSums(v, n)
           G == {i \in 1..n : Gathered(sum[i], FirstPicks(f, i), g, S, N)}
<1>1. /\ sum \in [1..n -> Accumulator] /\ sum[1] = v[1]
      /\ \A i \in 2..n : sum[i] = Merge(sum[i - 1], v[i])
  BY MergeSumsFacts
<1>2. \A i \in 1..n : sum[i].n <= u[i]
  BY SumCount
<1> HIDE DEF sum
<1>3. 1 \in G
  <2>1. 1 \in 1..n /\ FirstPicks(f, 1) = {f[1]} /\ f[1] \in 1..N /\ Follows(v[1], g[f[1]], S[f[1]])
    <3>1. 1 \in 1..n
      OBVIOUS
    <3>2. FirstPicks(f, 1) = {f[1]}
      BY DEF FirstPicks
    <3>3. f \in [1..n -> 1..N] /\ \A i \in 1..n : Follows(v[i], g[f[i]], S[f[i]])
      BY DEF Picks
    <3> QED
      BY <3>1, <3>2, <3>3
  <2>2. Gathered(v[1], {f[1]}, g, S, N)
    BY <2>1, OneGathered
  <2> QED
    BY <1>1, <2>1, <2>2
<1>4. ASSUME NEW i \in 2..n, i - 1 \in G PROVE i \in G
  <2> DEFINE J == FirstPicks(f, i - 1)
             a == sum[i - 1]
             b == v[i]
             k == f[i]
  <2>1. i \in 1..n /\ i - 1 \in 1..n /\ Gathered(a, J, g, S, N) /\ sum[i] = Merge(a, b)
    BY <1>1, <1>4
  <2>2. a \in Accumulator /\ b \in Accumulator /\ k \in 1..N /\ Follows(b, g[k], S[k])
    BY <1>1, <2>1 DEF Picks
  <2>3. FirstPicks(f, i) = J \cup {k}
    <3>1. 1..i = (1..(i - 1)) \cup {i}
      OBVIOUS
    <3> QED
      BY <3>1 DEF FirstPicks
  <2>4. J \in SUBSET (1..N) /\ \A j \in J : j < k
    <3>1. ASSUME NEW j \in 1..(i - 1) PROVE f[j] \in 1..N /\ f[j] < k
      <4>1. j \in 1..n /\ i \in 1..n /\ j < i
        BY <2>1
      <4> QED
        BY <4>1 DEF Picks
    <3> QED
      BY <3>1 DEF FirstPicks
  <2>5. Fits(a.n + b.n)
    <3>1. a.n \in Nat /\ b.n \in Nat
      BY <2>2, AccumulatorFields
    <3>2. a.n <= u[i - 1] /\ u[i - 1] + b.n <= u[i] /\ u[i] <= top /\ u[i] \in Nat /\ u[i - 1] \in Nat
      BY <1>2, <2>1
    <3>3. a.n + b.n \in Nat /\ a.n + b.n <= top
      BY <3>1, <3>2
    <3> QED
      BY <3>3, FitsBelow
  <2>6. k \notin J
    BY <2>2, <2>4
  <2>7. \A j \in J : g[k][0] > 0 => g[j][0] = 0 \/ g[j][0] >= g[k][0]
    BY <2>2, <2>4 DEF InOrder
  <2> HIDE DEF J, a, b, k
  <2>8. Gathered(Merge(a, b), J \cup {k}, g, S, N)
    BY <2>1, <2>2, <2>4, <2>5, <2>6, <2>7, MergeGathered
  <2> QED
    BY <2>1, <2>3, <2>8
<1> HIDE DEF G
<1>5. 1..n \subseteq G
  BY <1>3, <1>4, InductionFromOne
<1> QED
  BY <1>5 DEF G, sum

\* The filter of the merge keeps the order, and every valid item.
LEMMA CopiedOrder ==
    ASSUME items \in Seq(Accumulator)
    PROVE  \E f \in [1..Len(ValidItems) -> 1..Len(items)] :
             /\ \A i, j \in 1..Len(ValidItems) : i < j => f[i] < f[j]
             /\ \A j \in 1..Len(ValidItems) : valid(items[f[j]]) /\ ValidItems[j] = items[f[j]]
             /\ \A k \in 1..Len(items) : valid(items[k]) => \E j \in 1..Len(ValidItems) : f[j] = k
<1> DEFINE n == Len(items)
           c == Copied
           Order(i, f) ==
             /\ f \in [1..Len(c[i]) -> 1..i]
             /\ \A j, k \in 1..Len(c[i]) : j < k => f[j] < f[k]
             /\ \A j \in 1..Len(c[i]) : valid(items[f[j]]) /\ c[i][j] = items[f[j]]
             /\ \A k \in 1..i : valid(items[k]) => \E j \in 1..Len(c[i]) : f[j] = k
           G == {i \in 0..n : \E f : Order(i, f)}
<1>1. /\ c \in [0..n -> Seq(Accumulator)] /\ c[0] = <<>> /\ n \in Nat
      /\ \A i \in 1..n : c[i] = IF valid(items[i]) THEN Append(c[i - 1], items[i]) ELSE c[i - 1]
      /\ ValidItems = c[n]
  BY CopiedFacts
<1> HIDE DEF c
<1>2. 0 \in G
  <2>1. Order(0, [j \in 1..0 |-> 0]) /\ 0 \in 0..n
    BY <1>1
  <2> HIDE DEF Order
  <2> QED
    BY <2>1
<1>3. ASSUME NEW i \in 1..n, i - 1 \in G PROVE i \in G
  <2>1. PICK f : Order(i - 1, f)
    BY <1>3
  <2> DEFINE l == Len(c[i - 1])
  <2>2. /\ i \in 0..n /\ c[i - 1] \in Seq(Accumulator) /\ l \in Nat /\ items[i] \in Accumulator
        /\ c[i] = IF valid(items[i]) THEN Append(c[i - 1], items[i]) ELSE c[i - 1]
    <3>1. i \in 0..n /\ i - 1 \in 0..n /\ i \in 1..Len(items)
      BY <1>1
    <3>2. c[i - 1] \in Seq(Accumulator) /\ items[i] \in Accumulator /\ l \in Nat
      BY <1>1, <3>1
    <3>3. c[i] = IF valid(items[i]) THEN Append(c[i - 1], items[i]) ELSE c[i - 1]
      BY <1>1
    <3> HIDE DEF l
    <3> QED
      BY <3>1, <3>2, <3>3
  <2>3. CASE ~valid(items[i])
    <3>1. c[i] = c[i - 1]
      BY <2>2, <2>3
    <3>2. \A j \in 1..l : f[j] \in 1..i
      BY <2>1
    <3>3. f \in [1..l -> 1..i]
      BY <2>1, <3>2
    <3>4. \A k \in 1..i : valid(items[k]) => k \in 1..(i - 1)
      BY <2>3
    <3>5. Order(i, f)
      BY <2>1, <3>1, <3>3, <3>4
    <3> QED
      BY <2>2, <3>5
  <2>4. CASE valid(items[i])
    <3> DEFINE h == [j \in 1..(l + 1) |-> IF j = l + 1 THEN i ELSE f[j]]
    <3>1. c[i] = Append(c[i - 1], items[i])
      BY <2>2, <2>4
    <3>2. /\ Len(c[i]) = l + 1 /\ c[i][l + 1] = items[i]
          /\ \A j \in 1..l : c[i][j] = c[i - 1][j]
      BY <2>2, <3>1
    <3>3. \A j \in 1..l : f[j] \in 1..(i - 1)
      BY <2>1
    <3>4. \A j \in 1..(l + 1) : j = l + 1 \/ j \in 1..l
      BY <2>2
    <3>5. h[l + 1] = i /\ \A j \in 1..l : h[j] = f[j]
      BY <2>2
    <3>6. h \in [1..(l + 1) -> 1..i]
      BY <2>2, <3>3, <3>4
    <3> HIDE DEF h, l
    <3>7. ASSUME NEW j \in 1..(l + 1), NEW k \in 1..(l + 1), j < k PROVE h[j] < h[k]
      <4>1. j \in 1..l
        BY <2>2, <3>7
      <4>2. CASE k = l + 1
        BY <3>3, <3>5, <4>1, <4>2
      <4>3. CASE k # l + 1
        <5>1. k \in 1..l
          BY <3>4, <4>3
        <5> QED
          BY <2>1, <3>5, <3>7, <4>1, <5>1 DEF l
      <4> QED
        BY <4>2, <4>3
    <3>8. ASSUME NEW j \in 1..(l + 1) PROVE valid(items[h[j]]) /\ c[i][j] = items[h[j]]
      <4>1. CASE j = l + 1
        BY <2>4, <3>2, <3>5, <4>1
      <4>2. CASE j # l + 1
        <5>1. j \in 1..l
          BY <3>4, <4>2
        <5> QED
          BY <2>1, <3>2, <3>5, <5>1 DEF l
      <4> QED
        BY <4>1, <4>2
    <3>9. ASSUME NEW k \in 1..i, valid(items[k]) PROVE \E j \in 1..(l + 1) : h[j] = k
      <4>1. CASE k = i
        <5>1. l + 1 \in 1..(l + 1)
          BY <2>2
        <5> QED
          BY <3>5, <4>1, <5>1
      <4>2. CASE k # i
        <5>1. k \in 1..(i - 1)
          BY <4>2
        <5>2. PICK j \in 1..l : f[j] = k
          BY <2>1, <3>9, <5>1 DEF l
        <5>3. j \in 1..(l + 1)
          BY <2>2
        <5> QED
          BY <3>5, <5>2, <5>3
      <4> QED
        BY <4>1, <4>2
    <3>10. Order(i, h)
      BY <3>2, <3>6, <3>7, <3>8, <3>9
    <3> QED
      BY <2>2, <3>10
  <2> QED
    BY <2>3, <2>4
<1> HIDE DEF G
<1>4. 0..n \subseteq G
  BY <1>1, <1>2, <1>3, Induction
<1>5. n \in G
  BY <1>1, <1>4
<1> QED
  BY <1>1, <1>5 DEF G

----------------------------------------------------------------------------
(* What has been pushed to the lanes of an accumulator                      *)

PartSums(d, part) == [lane \in 1..WidthOf(d) |-> LaneSums(LaneOf(d, part, lane))]

PartData(d, part) == [lane \in 1..WidthOf(d) |-> LaneData(LaneOf(d, part, lane))]

\* One more value.
LEMMA AppendSums ==
    ASSUME NEW data \in Seq(Double), NEW x \in Double
    PROVE  /\ LaneSums(Append(data, x)) = Added(LaneSums(data), Term(x))
           /\ LaneData(Append(data, x)) = LaneData(data) \cup Addend(x)
<1> DEFINE y == Append(data, x)
           n == Len(data)
<1>1. /\ n \in Nat /\ Len(y) = n + 1 /\ y[n + 1] = x /\ (\A j \in 1..n : y[j] = data[j])
      /\ y \in Seq(Double)
  OBVIOUS
<1>2. ToSet(y) = ToSet(data) \cup {x}
  BY ToSetAppend
<1> HIDE DEF y, n
<1>3. n + 1 \in Nat /\ n \in 0..((n + 1) - 1) /\ \A j \in 1..(n + 1) : y[j] \in Double
  BY <1>1
<1>4. SumsTo(y, n + 1) = Added(SumsTo(y, n), Term(y[n + 1]))
  BY <1>3, SumsToFacts
<1>5. SumsTo(y, n) = SumsTo(data, n)
  BY <1>1, SumsToSame
<1>6. LaneData(y) = LaneData(data) \cup Addend(x)
  <2>1. Normal(ToSet(y)) = Normal(ToSet(data)) \cup (IF valueNormalOrZero(x) THEN {x} ELSE {})
    BY <1>2 DEF Normal
  <2> QED
    BY <2>1 DEF LaneData, Addend
<1> QED
  BY <1>1, <1>4, <1>5, <1>6 DEF LaneSums, y, n

\* One more vector is one more value for every lane.
LEMMA LaneAppend ==
    ASSUME NEW part \in Seq([1..Lanes -> Double]), NEW x \in [1..Lanes -> Double], NEW lane \in 1..Lanes
    PROVE  /\ LaneOf("avx2", part, lane) \in Seq(Double)
           /\ LaneOf("avx2", Append(part, x), lane) = Append(LaneOf("avx2", part, lane), x[lane])
<1> DEFINE n == Len(part)  y == x[lane]  z == Append(part, x)
           data == LaneOf("avx2", part, lane)
<1>1. n \in Nat /\ DOMAIN part = 1..n /\ \A j \in 1..n : part[j] \in [1..Lanes -> Double]
  OBVIOUS
<1>2. \A j \in 1..n : part[j][lane] \in Double
  BY <1>1
<1>3. data \in Seq(Double) /\ Len(data) = n /\ \A j \in 1..n : data[j] = part[j][lane]
  BY <1>1, <1>2 DEF LaneOf
<1>4. DOMAIN z = 1..(n + 1) /\ z[n + 1] = x /\ \A j \in 1..n : z[j] = part[j]
  OBVIOUS
<1> HIDE DEF data
<1>5. Append(data, y) = [j \in 1..(n + 1) |-> IF j = n + 1 THEN y ELSE data[j]]
  BY <1>1, <1>3
<1>6. ASSUME NEW j \in 1..(n + 1)
      PROVE  z[j][lane] = IF j = n + 1 THEN y ELSE data[j]
  <2>1. j = n + 1 \/ j \in 1..n
    BY <1>1
  <2> QED
    BY <1>1, <1>3, <1>4, <2>1
<1>7. LaneOf("avx2", z, lane) = [j \in DOMAIN z |-> z[j][lane]]
  BY DEF LaneOf
<1> HIDE DEF n, y, z
<1>8. LaneOf("avx2", z, lane) = Append(data, y)
  BY <1>4, <1>5, <1>6, <1>7
<1> QED
  BY <1>3, <1>8 DEF data, y, z

LEMMA EmptySums == LaneSums(<<>>) = NoSums /\ LaneData(<<>>) = {}
<1>1. SumsTo(<<>>, 0) = NoSums
  <2>1. \A j \in 1..0 : <<>>[j] \in Double
    OBVIOUS
  <2> QED
    BY <2>1, SumsToFacts
<1>2. Len(<<>>) = 0
  OBVIOUS
<1>3. Normal(ToSet(<<>>)) = {}
  BY DEF Normal, ToSet
<1> QED
  BY <1>1, <1>2, <1>3 DEF LaneSums, LaneData

LEMMA NewFollows ==
    ASSUME NEW a, a.n = 0, a.m1 = Zero, a.m2 = Zero, a.m3 = Zero, a.m4 = Zero,
           a.isIntegerDistribution = TRUE
    PROVE  Follows(a, NoSums, {})
<1>1. NoSums[0] = 0 /\ NoSums[1] = 0 /\ NoSums[2] = 0 /\ NoSums[3] = 0 /\ NoSums[4] = 0
  BY DEF NoSums
<1>2. ASSUME NEW q \in Nat \ {0} PROVE Ratio(Zero, 0, q)
  <2>1. Ratio(Real(0), 0, 1) /\ Zero = Real(0)
    BY RatioReal DEF Zero, Real
  <2>2. 0 * q = 0 * 1
    OBVIOUS
  <2> QED
    BY <2>1, <2>2, RatioSame
<1>3. Second(0, 0, 0) = 0 /\ Third(0, 0, 0, 0) = 0 /\ Fourth(0, 0, 0, 0, 0) = 0
  BY DEF Second, Third, Fourth
<1>4. /\ 1 * Scale \in Nat \ {0} /\ 1 * Scale * Scale \in Nat \ {0}
      /\ 1 * 1 * Scale * Scale * Scale \in Nat \ {0}
      /\ 1 * 1 * 1 * Scale * Scale * Scale * Scale \in Nat \ {0}
  BY ResultsConstants, Factors
<1>5. Moments(Zero, Zero, Zero, Zero, NoSums)
  BY <1>1, <1>2, <1>3, <1>4 DEF Moments
<1> QED
  BY <1>1, <1>5 DEF Follows, Tracked, AllWhole

\* A run of the kernel.
LEMMA KernelFollows ==
    ASSUME NEW stats, Load(stats) \in Accumulator, NEW data \in Seq(Values),
           NEW part \in Seq(Double), Follows(Load(stats), LaneSums(part), LaneData(part)),
           NEW top \in Nat, Load(stats).n + Len(data) <= top, Fits(top)
    PROVE  Follows(KernelLoop(stats, data), LaneSums(part \o data), LaneData(part \o data))
<1> DEFINE sum == KernelSums(stats, data)
           n == Len(data)
           l == Len(part)
           m == Load(stats).n
           z == part \o data
           S == LaneData(part)
           Seen(i) == {data[j] : j \in 1..i}
           T(i) == {Whole(x) : x \in Normal(Seen(i))}
           G == {i \in 0..n : /\ sum[i].n <= m + i
                              /\ SumsTo(z, l + i) \in Sums
                              /\ Follows(sum[i], SumsTo(z, l + i), S \cup T(i))}
<1>0. data \in Seq(Double) /\ \A i \in 1..n : data[i] \in Values /\ data[i] \in Double
  <2>1. \A i \in 1..n : data[i] \in Values /\ data[i] \in Double
    BY ResultsConstants
  <2> QED
    BY <2>1
<1>1. /\ sum \in [0..n -> Accumulator] /\ sum[0] = Load(stats)
      /\ \A i \in 1..n : sum[i] = KernelPush(sum[i - 1], data[i])
      /\ KernelLoop(stats, data) = sum[n]
  BY <1>0, KernelSumsFacts
<1>2. n \in Nat /\ m \in Nat /\ m + n <= top /\ l \in Nat
  BY AccumulatorFields
<1>3. /\ z \in Seq(Double) /\ Len(z) = l + n /\ (\A j \in 1..l : z[j] = part[j])
      /\ \A i \in 1..n : z[l + i] = data[i]
  BY <1>0
<1>4. LaneSums(z) = SumsTo(z, l + n) /\ LaneSums(part) = SumsTo(part, l)
  BY <1>3 DEF LaneSums
<1>5. LaneData(z) = S \cup T(n)
  <2>0. ToSet(data) = Seen(n)
    BY <1>0 DEF ToSet
  <2> HIDE DEF Seen
  <2>1. ToSet(z) = ToSet(part) \cup ToSet(data)
    BY <1>0, ToSetAppend
  <2>2. Normal(ToSet(z)) = Normal(ToSet(part)) \cup Normal(Seen(n))
    BY <2>0, <2>1 DEF Normal
  <2> QED
    BY <2>2 DEF LaneData
<1>s. sum[0] = Load(stats) /\ sum[0].n = m /\ Follows(sum[0], SumsTo(part, l), S)
  BY <1>1, <1>4
<1> HIDE DEF sum, n, m, l, z, S
<1>6. \A i \in 0..n : SumsTo(z, l + i) \in Sums
  <2>1. ASSUME NEW i \in 0..n PROVE SumsTo(z, l + i) \in Sums
    <3>1. l + i \in Nat /\ \A j \in 1..(l + i) : z[j] \in Double
      BY <1>2, <1>3
    <3> QED
      BY <3>1, SumsToFacts
  <2> QED
    BY <2>1
<1>7. 0 \in G
  <2>1. S \cup T(0) = S
    BY DEF Normal
  <2>2. SumsTo(z, l + 0) = SumsTo(part, l)
    <3>1. SumsTo(z, l) = SumsTo(part, l)
      BY <1>2, <1>3, SumsToSame
    <3>2. l + 0 = l
      BY <1>2
    <3> QED
      BY <3>1, <3>2
  <2>3. 0 \in 0..n /\ sum[0].n <= m + 0
    BY <1>2, <1>s
  <2> QED
    BY <1>6, <1>s, <2>1, <2>2, <2>3
<1>8. ASSUME NEW i \in 1..n, i - 1 \in G PROVE i \in G
  <2> DEFINE s == SumsTo(z, l + (i - 1))
             a == sum[i - 1]
             x == data[i]
  <2>1. /\ i \in 0..n /\ i - 1 \in 0..n /\ a.n <= m + (i - 1) /\ s \in Sums
        /\ Follows(a, s, S \cup T(i - 1))
    BY <1>2, <1>8
  <2>2. a \in Accumulator /\ x \in Values /\ x \in Double /\ sum[i] = KernelPush(a, x)
        /\ sum[i] \in Accumulator
    BY <1>0, <1>1, <2>1
  <2>3. a.n \in Nat /\ sum[i].n \in Nat /\ sum[i].n <= a.n + 1
    BY <2>2, AccumulatorFields, PushCounts
  <2>4. Fits(a.n + 1)
    <3>1. a.n + 1 \in Nat /\ a.n + 1 <= top
      BY <1>2, <2>1, <2>3
    <3> QED
      BY <3>1, FitsBelow
  <2>5. SumsTo(z, l + i) = Added(s, Term(x))
    <3>1. /\ l + i \in Nat /\ l + (i - 1) \in 0..((l + i) - 1) /\ (l + (i - 1)) + 1 = l + i
          /\ \A j \in 1..(l + i) : z[j] \in Double
      BY <1>2, <1>3
    <3>2. SumsTo(z, (l + (i - 1)) + 1) = Added(SumsTo(z, l + (i - 1)), Term(z[(l + (i - 1)) + 1]))
      BY <3>1, SumsToFacts
    <3>3. z[l + i] = x
      BY <1>3
    <3> QED
      BY <3>1, <3>2, <3>3
  <2>6. S \cup T(i) = (S \cup T(i - 1)) \cup Addend(x)
    <3>1. \A j \in 1..i : j = i \/ j \in 1..(i - 1)
      BY <1>2
    <3>2. i \in 1..i /\ \A j \in 1..(i - 1) : j \in 1..i
      BY <1>2
    <3>3. Seen(i) = Seen(i - 1) \cup {x}
      BY <3>1, <3>2
    <3> HIDE DEF Seen
    <3>4. Normal(Seen(i)) = Normal(Seen(i - 1)) \cup (IF valueNormalOrZero(x) THEN {x} ELSE {})
      BY <3>3 DEF Normal
    <3> QED
      BY <3>4 DEF Addend
  <2> HIDE DEF s, a, x, T
  <2>7. Follows(KernelPush(a, x), Added(s, Term(x)), (S \cup T(i - 1)) \cup Addend(x))
    BY <2>1, <2>2, <2>4, FollowsPush
  <2>8. sum[i].n <= m + i
    BY <1>2, <2>1, <2>3
  <2> QED
    BY <1>6, <2>1, <2>2, <2>5, <2>6, <2>7, <2>8 DEF T
<1> HIDE DEF G
<1>9. 0..n \subseteq G
  BY <1>2, <1>7, <1>8, Induction
<1>10. n \in G
  BY <1>2, <1>9
<1> QED
  BY <1>1, <1>4, <1>5, <1>10 DEF G, z

----------------------------------------------------------------------------
(* Every accumulator follows the data that was pushed to it                 *)

\* The accumulator of a lane of the current one.
CurrentLane(d, c, lane) == IF d = "scalar" THEN c ELSE IF d = "avx2" THEN c[lane] ELSE Load(c)

CurrentFollows(d, c, part) ==
    \A lane \in 1..WidthOf(d) : Follows(CurrentLane(d, c, lane), PartSums(d, part)[lane], PartData(d, part)[lane])

\* An item has the data of some of its lanes, of which no one is added to a
\* smaller one.
ItemFollows(d, a, part) ==
    InOrder(PartSums(d, part), WidthOf(d)) =>
      \E L \in SUBSET (1..WidthOf(d)) :
        Follows(a, Gather(PartSums(d, part), L, WidthOf(d)), UnionOf(PartData(d, part), L))

MomentsInv ==
    /\ CurrentFollows(device, current, open)
    /\ \A i \in 1..Len(items) : ItemFollows(kinds[i], items[i], parts[i])

\* What is being filled has no more than was read.
LEMMA OpenCount == TypeOK /\ CountInv => CurrentCount /\ OpenWidth * Len(open) <= read
<1> SUFFICES ASSUME TypeOK, CountInv PROVE CurrentCount /\ OpenWidth * Len(open) <= read
  OBVIOUS
<1>1. PICK t : Counts(t, items) /\ t[Len(items)] + OpenWidth * Len(open) <= read
  BY DEF CountInv
<1>2. t[Len(items)] \in Nat
  <2>1. Len(items) \in 0..Len(items) /\ t \in [0..Len(items) -> Nat]
    BY <1>1 DEF TypeOK, Counts
  <2> QED
    BY <2>1
<1>3. OpenWidth * Len(open) \in Nat /\ read \in Nat
  <2>1. OpenWidth \in Nat /\ Len(open) \in Nat
    BY ResultsConstants DEF OpenWidth, WidthOf, TypeOK
  <2> QED
    BY <2>1, ResultsConstants DEF TypeOK
<1> QED
  BY <1>1, <1>2, <1>3 DEF CountInv

LEMMA PartLanes ==
    ASSUME NEW d \in Kinds, NEW part
    PROVE  /\ d # "avx2" => /\ WidthOf(d) = 1
                            /\ PartSums(d, part)[1] = LaneSums(part)
                            /\ PartData(d, part)[1] = LaneData(part)
           /\ d = "avx2" =>
                /\ WidthOf(d) = Lanes
                /\ \A lane \in 1..Lanes :
                     /\ PartSums(d, part)[lane] = LaneSums([j \in DOMAIN part |-> part[j][lane]])
                     /\ PartData(d, part)[lane] = LaneData([j \in DOMAIN part |-> part[j][lane]])
           /\ WidthOf(d) \in Nat \ {0}
BY LanesAssumption DEF WidthOf, PartSums, PartData, LaneOf

LEMMA OneLaneFollows ==
    ASSUME NEW d \in {"scalar", "opencl"}, NEW c, NEW part
    PROVE  CurrentFollows(d, c, part)
             <=> Follows(CurrentLane(d, c, 1), LaneSums(part), LaneData(part))
<1>1. WidthOf(d) = 1 /\ PartSums(d, part)[1] = LaneSums(part) /\ PartData(d, part)[1] = LaneData(part)
  BY PartLanes DEF Kinds
<1>2. CurrentLane(d, c, 1) = IF d = "scalar" THEN c ELSE Load(c)
  BY DEF CurrentLane
<1>3. \A lane \in 1..1 : lane = 1
  OBVIOUS
<1> QED
  BY <1>1, <1>2, <1>3 DEF CurrentFollows

LEMMA FreshFollows ==
    device \in Kinds /\ current = Fresh /\ open = <<>>
      => CurrentFollows(device, current, open)
<1> SUFFICES ASSUME device \in Kinds, current = Fresh, open = <<>>
             PROVE  CurrentFollows(device, current, open)
  OBVIOUS
<1>1. CASE device # "avx2"
  <2> DEFINE a == CurrentLane(device, current, 1)
  <2>1. /\ a.n = 0 /\ a.m1 = Zero /\ a.m2 = Zero /\ a.m3 = Zero /\ a.m4 = Zero
        /\ a.isIntegerDistribution = TRUE
    <3>1. CASE device = "scalar"
      BY <3>1 DEF CurrentLane, Fresh, NewAccumulator
    <3>2. CASE device = "opencl"
      <4>1. a = Load(NewStats)
        BY <3>2 DEF CurrentLane, Fresh
      <4>2. /\ NewStats[1] = Zero /\ NewStats[2] = Zero /\ NewStats[3] = Zero /\ NewStats[4] = Zero
            /\ NewStats[5] = Zero /\ NewStats[6] = Real(1)
        BY DEF NewStats
      <4>3. Zero[1] = 0 /\ Real(1) # Zero
        BY DEF Zero, Real
      <4> HIDE DEF a
      <4> QED
        BY <4>1, <4>2, <4>3 DEF Load, NewAccumulator
    <3> QED
      BY <1>1, <3>1, <3>2 DEF Kinds
  <2> HIDE DEF a
  <2>2. Follows(a, NoSums, {})
    BY <2>1, NewFollows
  <2>3. Follows(a, LaneSums(open), LaneData(open))
    BY <2>2, EmptySums
  <2> QED
    BY <1>1, <2>3, OneLaneFollows DEF a, Kinds
<1>2. CASE device = "avx2"
  <2>1. ASSUME NEW lane \in 1..Lanes
        PROVE  Follows(CurrentLane(device, current, lane), PartSums(device, open)[lane],
                       PartData(device, open)[lane])
    <3>1. lane \in 1..WidthOf(device) /\ LaneOf(device, open, lane) = <<>>
      BY <1>2 DEF LaneOf, WidthOf
    <3>2. PartSums(device, open)[lane] = NoSums /\ PartData(device, open)[lane] = {}
      BY <3>1, EmptySums DEF PartSums, PartData
    <3> DEFINE a == CurrentLane(device, current, lane)
    <3>3. /\ a.n = 0 /\ a.m1 = Zero /\ a.m2 = Zero /\ a.m3 = Zero /\ a.m4 = Zero
          /\ a.isIntegerDistribution = TRUE
      BY <1>2 DEF CurrentLane, Fresh, NewVectorAccumulator, NewAccumulator
    <3> HIDE DEF a
    <3>4. Follows(a, NoSums, {})
      BY <3>3, NewFollows
    <3> QED
      BY <3>2, <3>4 DEF a
  <2> QED
    BY <1>2, <2>1, PartLanes DEF CurrentFollows
<1> QED
  BY <1>1, <1>2

LEMMA PartSumsType ==
    ASSUME NEW d, NEW part \in Seq(DatumOf(d))
    PROVE  PartSums(d, part) \in [1..WidthOf(d) -> Sums]
<1>1. ASSUME NEW lane \in 1..WidthOf(d) PROVE LaneSums(LaneOf(d, part, lane)) \in Sums
  <2> DEFINE data == LaneOf(d, part, lane)
  <2>1. data \in Seq(Double)
    BY LaneType
  <2> HIDE DEF data
  <2>2. Len(data) \in Nat /\ \A j \in 1..Len(data) : data[j] \in Double
    BY <2>1
  <2>3. LaneSums(data) \in Sums
    BY <2>2, SumsToFacts DEF LaneSums
  <2> QED
    BY <2>3 DEF data
<1> QED
  BY <1>1 DEF PartSums

\* What a job stores.
LEMMA ItemFollowsCurrent ==
    ASSUME TypeOK, CurrentCount, CurrentFollows(device, current, open), OpenWidth * Len(open) <= MaxValues,
           Fits(MaxValues)
    PROVE  ItemFollows(device, Item, open)
<1> DEFINE g == PartSums(device, open)
           S == PartData(device, open)
           w == WidthOf(device)
<1>0. device \in Kinds /\ Len(open) \in Nat /\ open \in Seq(DatumOf(device))
  BY DEF TypeOK, Datum
<1>1. g \in [1..w -> Sums] /\ w \in Nat \ {0}
  BY <1>0, PartSumsType, PartLanes
<1>2. SUFFICES ASSUME InOrder(g, w) PROVE \E J \in SUBSET (1..w) : Gathered(Item, J, g, S, w)
  BY DEF ItemFollows, Gathered, GatheredFrom
<1>3. CASE device # "avx2"
  <2>1. Item = CurrentLane(device, current, 1)
    BY <1>0, <1>3 DEF Item, CurrentLane, Kinds
  <2>2. 1 \in 1..w
    BY <1>1
  <2>3. Follows(Item, g[1], S[1])
    BY <2>1, <2>2 DEF CurrentFollows
  <2> HIDE DEF g, S, w
  <2>4. Gathered(Item, {1}, g, S, w)
    BY <1>1, <2>2, <2>3, OneGathered
  <2> QED
    BY <2>2, <2>4
<1>4. CASE device = "avx2"
  <2> DEFINE l == Len(open)
             u == [i \in 1..Lanes |-> i * l]
             f == [i \in 1..Lanes |-> i]
  <2>1. /\ current \in [1..Lanes -> Accumulator] /\ Item = MergeSums(current, Lanes)[Lanes]
        /\ \A i \in 1..Lanes : current[i].n <= l
        /\ Lanes \in Nat \ {0} /\ l \in Nat /\ w = Lanes /\ Lanes * l <= MaxValues
    BY <1>0, <1>4, LanesAssumption, asScalarSum
       DEF TypeOK, CurrentOK, CurrentCount, Item, OpenWidth, WidthOf
  <2>2. \A i \in 1..Lanes : Follows(current[i], g[i], S[i])
    BY <1>4 DEF CurrentFollows, CurrentLane, WidthOf
  <2> HIDE DEF l, g, S, w
  <2>3. u \in [1..Lanes -> Nat] /\ \A i \in 1..Lanes : u[i] = i * l
    BY <2>1
  <2>4. f \in [1..Lanes -> 1..Lanes] /\ \A i \in 1..Lanes : f[i] = i
    OBVIOUS
  <2> HIDE DEF u, f
  <2>5. current[1].n <= u[1]
    BY <2>1, <2>3
  <2>6. ASSUME NEW i \in 2..Lanes PROVE u[i - 1] + current[i].n <= u[i]
    <3>1. i \in 1..Lanes /\ i - 1 \in 1..Lanes /\ i - 1 \in Nat
      BY <2>1
    <3>2. ((i - 1) + 1) * l = (i - 1) * l + l /\ (i - 1) * l \in Nat
      BY <2>1, <3>1, Product
    <3>3. (i - 1) + 1 = i
      OBVIOUS
    <3>4. u[i] = u[i - 1] + l /\ u[i - 1] \in Nat
      BY <2>3, <3>1, <3>2, <3>3
    <3>5. current[i].n <= l /\ current[i].n \in Nat
      BY <2>1, <3>1, AccumulatorFields
    <3> QED
      BY <2>1, <3>4, <3>5
  <2>7. ASSUME NEW i \in 1..Lanes PROVE u[i] <= MaxValues
    <3>1. i * l <= Lanes * l /\ i * l \in Nat /\ Lanes * l \in Nat
      BY <2>1, ProductMonotone
    <3> QED
      BY <2>1, <2>3, <3>1, ResultsConstants
  <2>8. Picks(current, Lanes, f, g, S, Lanes)
    BY <2>2, <2>4 DEF Picks
  <2>9. \A i \in 1..Lanes : Gathered(MergeSums(current, Lanes)[i], FirstPicks(f, i), g, S, Lanes)
    BY <1>1, <1>2, <2>1, <2>3, <2>5, <2>6, <2>7, <2>8, SumGathered, ResultsConstants
  <2>10. Lanes \in 1..Lanes /\ FirstPicks(f, Lanes) \in SUBSET (1..Lanes)
    BY <2>1, <2>4 DEF FirstPicks
  <2> QED
    BY <2>1, <2>9, <2>10
<1> QED
  BY <1>3, <1>4

LEMMA MomentsInit == Init => MomentsInv
<1> SUFFICES ASSUME Init PROVE MomentsInv
  OBVIOUS
<1>1. CurrentFollows(device, current, open)
  BY FreshFollows DEF Init
<1>2. \A i \in 1..Len(items) : ItemFollows(kinds[i], items[i], parts[i])
  BY DEF Init
<1> QED
  BY <1>1, <1>2 DEF MomentsInv

LEMMA MomentsNext ==
    ASSUME Fits(MaxValues)
    PROVE  TypeOK /\ TypeOK' /\ CountInv /\ MomentsInv /\ [Next]_vars => MomentsInv'
<1> SUFFICES ASSUME TypeOK, TypeOK', CountInv, MomentsInv, [Next]_vars PROVE MomentsInv'
  OBVIOUS
<1>m. /\ CurrentFollows(device, current, open)
      /\ \A i \in 1..Len(items) : ItemFollows(kinds[i], items[i], parts[i])
  BY DEF MomentsInv
<1>c. CurrentCount /\ OpenWidth * Len(open) <= read
  BY OpenCount
<1>r. Len(open) \in Nat /\ read \in Nat /\ MaxValues \in Nat /\ read <= MaxValues
  BY ResultsConstants DEF TypeOK
<1>1. CASE Push
  <2>1. PICK x \in Values : open' = Append(open, x) /\ current' = push(current, x)
    BY <1>1 DEF Push
  <2>2. /\ device = "scalar" /\ open \in Seq(Double) /\ x \in Double /\ read + 1 <= MaxValues
        /\ device' = device /\ kinds' = kinds /\ items' = items /\ parts' = parts
        /\ current \in Accumulator /\ current.n <= Len(open)
        /\ OpenWidth = 1
    BY <1>1, <1>c, ResultsConstants DEF Push, Read, TypeOK, CurrentOK, CurrentCount, Datum, DatumOf, OpenWidth, WidthOf
  <2>3. Follows(current, LaneSums(open), LaneData(open))
    BY <1>m, <2>2, OneLaneFollows DEF CurrentLane
  <2>4. Fits(current.n + 1)
    <3>1. current.n \in Nat
      BY <2>2, AccumulatorFields
    <3>2. current.n + 1 \in Nat /\ current.n + 1 <= MaxValues
      BY <1>c, <1>r, <2>2, <3>1
    <3> QED
      BY <1>r, <3>2, FitsBelow
  <2>5. LaneSums(open) \in Sums
    <3>1. Len(open) \in Nat /\ \A j \in 1..Len(open) : open[j] \in Double
      BY <2>2
    <3> QED
      BY <3>1, SumsToFacts DEF LaneSums
  <2>6. Follows(push(current, x), Added(LaneSums(open), Term(x)), LaneData(open) \cup Addend(x))
    BY <2>2, <2>3, <2>4, <2>5, FollowsPush
  <2>7. Follows(current', LaneSums(open'), LaneData(open'))
    BY <2>1, <2>2, <2>6, AppendSums
  <2>8. CurrentFollows(device', current', open')
    BY <2>2, <2>7, OneLaneFollows DEF CurrentLane
  <2> QED
    BY <1>m, <2>2, <2>8 DEF MomentsInv
<1>2. CASE PushVector
  <2>1. PICK x \in [1..Lanes -> Values] :
          open' = Append(open, x) /\ current' = pushWithFiltering(current, x)
    BY <1>2 DEF PushVector
  <2>2. /\ device = "avx2" /\ open \in Seq([1..Lanes -> Double]) /\ x \in [1..Lanes -> Double]
        /\ device' = device /\ kinds' = kinds /\ items' = items /\ parts' = parts
        /\ current \in [1..Lanes -> Accumulator]
    BY <1>2, <2>1, ResultsConstants DEF PushVector, TypeOK, CurrentOK, Datum, DatumOf
  <2>3. ASSUME NEW lane \in 1..Lanes
        PROVE  Follows(CurrentLane(device, current', lane), PartSums(device, open')[lane],
                       PartData(device, open')[lane])
    <3> DEFINE data == LaneOf(device, open, lane)
               more == LaneOf(device, open', lane)
               a == current[lane]
               y == x[lane]
    <3>1. /\ PartSums(device, open)[lane] = LaneSums(data) /\ PartData(device, open)[lane] = LaneData(data)
          /\ PartSums(device, open')[lane] = LaneSums(more) /\ PartData(device, open')[lane] = LaneData(more)
          /\ lane \in 1..WidthOf(device)
      BY <2>2 DEF PartSums, PartData, WidthOf
    <3>2. data \in Seq(Double) /\ more = Append(data, y)
      BY <2>1, <2>2, LaneAppend
    <3>4. a \in Accumulator /\ y \in Values /\ y \in Double
      BY <2>1, <2>2
    <3>5. CurrentLane(device, current, lane) = a /\ CurrentLane(device, current', lane) = PushLane(a, y)
      BY <2>1, <2>2 DEF CurrentLane, pushWithFiltering
    <3> HIDE DEF data, more, a, y
    <3>6. Follows(a, LaneSums(data), LaneData(data))
      BY <1>m, <3>1, <3>5 DEF CurrentFollows
    <3>7. LaneSums(data) \in Sums
      <4>1. Len(data) \in Nat /\ \A j \in 1..Len(data) : data[j] \in Double
        BY <3>2
      <4> QED
        BY <4>1, SumsToFacts DEF LaneSums
    <3>8. Follows(PushLane(a, y), Added(LaneSums(data), Term(y)), LaneData(data) \cup Addend(y))
      BY <3>4, <3>6, <3>7, FollowsPushLane
    <3> QED
      BY <3>1, <3>2, <3>4, <3>5, <3>8, AppendSums
  <2>4. CurrentFollows(device', current', open')
    BY <2>2, <2>3 DEF CurrentFollows, WidthOf
  <2> QED
    BY <1>m, <2>2, <2>4 DEF MomentsInv
<1>3. CASE RunKernel
  <2>1. PICK k \in 1..MaxValues : Read(k) /\ \E x \in [1..k -> Values] :
          open' = open \o x /\ current' = computeStats(current, x)
    BY <1>3 DEF RunKernel
  <2>2. PICK x \in [1..k -> Values] : open' = open \o x /\ current' = computeStats(current, x)
    BY <2>1
  <2>3. x \in Seq(Values) /\ x \in Seq(Double) /\ Len(x) = k /\ k \in Nat
    <3>1. k \in Nat
      OBVIOUS
    <3>2. x \in [1..k -> Double]
      BY ResultsConstants
    <3> QED
      BY <3>1, <3>2
  <2>4. /\ device = "opencl" /\ device' = device /\ open \in Seq(Double)
        /\ kinds' = kinds /\ items' = items /\ parts' = parts
        /\ OpenWidth = 1 /\ read + k <= MaxValues
    BY <1>3, <2>1 DEF RunKernel, TypeOK, Datum, DatumOf, OpenWidth, WidthOf, Read
  <2>5. PICK a \in Accumulator : current = Store(a)
    BY <2>4 DEF TypeOK, CurrentOK
  <2>6. Load(current) \in Accumulator /\ Load(current).n \in Nat /\ Load(current).n <= Len(open)
    BY <1>c, <2>4, <2>5, LoadStore, AccumulatorFields DEF CurrentCount
  <2>7. Follows(Load(current), LaneSums(open), LaneData(open))
    BY <1>m, <2>4, OneLaneFollows DEF CurrentLane
  <2>8. Load(current).n + Len(x) <= MaxValues
    BY <1>c, <1>r, <2>3, <2>4, <2>6
  <2>9. Follows(KernelLoop(current, x), LaneSums(open'), LaneData(open'))
    BY <1>r, <2>2, <2>3, <2>4, <2>6, <2>7, <2>8, KernelFollows
  <2>10. KernelLoop(current, x) \in Accumulator
    <3>1. k \in 0..Len(x)
      BY <2>3
    <3> QED
      BY <2>3, <2>6, <3>1, KernelSumsFacts
  <2> DEFINE b == KernelLoop(current, x)
             c == Load(current')
  <2>11. c = [b EXCEPT !.numericalErrorWhileMerging = FALSE]
    <3>1. current' = Store(b)
      BY <2>2 DEF computeStats
    <3> QED
      BY <2>10, <3>1, LoadStore
  <2> HIDE DEF b
  <2>12. /\ c.n = b.n /\ c.m1 = b.m1 /\ c.m2 = b.m2 /\ c.m3 = b.m3 /\ c.m4 = b.m4
         /\ c.isIntegerDistribution = b.isIntegerDistribution
    BY <2>10, <2>11 DEF Accumulator, b
  <2> HIDE DEF c
  <2>13. Follows(c, LaneSums(open'), LaneData(open'))
    BY <2>9, <2>12 DEF Follows, Tracked, Numbers, b
  <2>14. CurrentFollows(device', current', open')
    BY <2>4, <2>13, OneLaneFollows DEF CurrentLane, c
  <2> QED
    BY <1>m, <2>4, <2>14 DEF MomentsInv
<1>4. CASE Close
  <2>1. /\ items' = Append(items, Item) /\ parts' = Append(parts, open) /\ open' = <<>>
        /\ kinds' = Append(kinds, device) /\ device' \in Kinds /\ (current = Fresh)'
    BY <1>4 DEF TypeOK, Close
  <2>2. CurrentFollows(device', current', open')
    <3>1. (device \in Kinds /\ current = Fresh /\ open = <<>>
             => CurrentFollows(device, current, open))'
      BY FreshFollows, PTL
    <3> QED
      BY <2>1, <3>1
  <2>3. ItemFollows(device, Item, open)
    <3>1. OpenWidth * Len(open) <= MaxValues
      <4>1. OpenWidth * Len(open) \in Nat
        BY <1>r, ResultsConstants DEF OpenWidth, WidthOf
      <4> QED
        BY <1>c, <1>r, <4>1
    <3> QED
      BY <1>c, <1>m, <3>1, ItemFollowsCurrent
  <2>4. ASSUME NEW i \in 1..Len(items') PROVE ItemFollows(kinds'[i], items'[i], parts'[i])
    <3>1. /\ Len(items) \in Nat /\ Len(items') = Len(items) + 1
          /\ Len(parts) = Len(items) /\ Len(kinds) = Len(items)
      BY <2>1 DEF TypeOK
    <3>2. CASE i = Len(items) + 1
      <4>1. items'[i] = Item /\ parts'[i] = open /\ kinds'[i] = device
        BY <2>1, <3>1, <3>2 DEF TypeOK
      <4> QED
        BY <2>3, <4>1
    <3>3. CASE i # Len(items) + 1
      <4>1. i \in 1..Len(items)
        BY <3>1, <3>3
      <4>2. items'[i] = items[i] /\ parts'[i] = parts[i] /\ kinds'[i] = kinds[i]
        BY <2>1, <3>1, <4>1 DEF TypeOK
      <4> QED
        BY <1>m, <4>1, <4>2
    <3> QED
      BY <3>2, <3>3
  <2> QED
    BY <2>2, <2>4 DEF MomentsInv
<1>5. CASE UNCHANGED <<device, kinds, open, current, parts, items>>
  BY <1>5, <1>m DEF MomentsInv
<1> QED
  BY <1>1, <1>2, <1>3, <1>4, <1>5
     DEF Next, vars, Return, StartMerge, MergeStep, MergeEnd, Classify

----------------------------------------------------------------------------
(* The result                                                              *)

\* The lanes L[i] of the items i in I.
Chosen(I, L) == {id \in Ids : id[1] \in I /\ id[2] \in L[id[1]]}

ItemSums(i, L) == Gather(PartSums(kinds[i], parts[i]), L[i], Width(i))

ItemData(i, L) == UnionOf(PartData(kinds[i], parts[i]), L[i])

\* The sums of the lanes L[i] of the items in I are those of a set of lanes.
LEMMA ChosenSums ==
    ASSUME TypeOK, NEW I \in SUBSET (1..Len(items)),
           NEW L, \A i \in 1..Len(items) : L[i] \in SUBSET (1..Width(i))
    PROVE  /\ [i \in 1..Len(items) |-> ItemSums(i, L)] \in [1..Len(items) -> Sums]
           /\ SumsOf(Chosen(I, L))
                = Gather([i \in 1..Len(items) |-> ItemSums(i, L)], I, Len(items))
           /\ Data(Chosen(I, L)) = UnionOf([i \in 1..Len(items) |-> ItemData(i, L)], I)
<1> DEFINE n == Len(items)
           P == Chosen(I, L)
           g == [i \in 1..n |-> ItemSums(i, L)]
           S == [i \in 1..n |-> ItemData(i, L)]
<1>0. n \in Nat /\ \A i \in 1..n : Width(i) \in Nat /\ 1..Width(i) \subseteq 1..Lanes
  BY ResultsConstants DEF TypeOK, Width, WidthOf
<1>p. ASSUME NEW i \in 1..n
      PROVE  /\ PartSums(kinds[i], parts[i]) = [lane \in 1..Width(i) |-> LaneSums(Lane(i, lane))]
             /\ PartData(kinds[i], parts[i]) = [lane \in 1..Width(i) |-> LaneData(Lane(i, lane))]
  BY DEF PartSums, PartData, Lane, Width
<1>1. ASSUME NEW i \in 1..n
      PROVE  /\ RowSums(i, P) = IF i \in I THEN ItemSums(i, L) ELSE NoSums
             /\ ItemSums(i, L) \in Sums
  <2> DEFINE h == PartSums(kinds[i], parts[i])
             J == {lane \in 1..Width(i) : <<i, lane>> \in P}
  <2>1. h \in [1..Width(i) -> Sums] /\ Width(i) \in Nat
    <3>1. h = [lane \in 1..Width(i) |-> LaneSums(Lane(i, lane))]
      BY <1>p
    <3> HIDE DEF h
    <3> QED
      BY <3>1, LaneSumsType
  <2>2. RowSums(i, P) = Gather(h, J, Width(i)) /\ ItemSums(i, L) = Gather(h, L[i], Width(i))
    <3>1. h = [lane \in 1..Width(i) |-> LaneSums(Lane(i, lane))]
      BY <1>p
    <3> HIDE DEF P
    <3> QED
      BY <3>1 DEF RowSums, ItemSums
  <2>3. J = IF i \in I THEN L[i] ELSE {}
    <3>1. L[i] \in SUBSET (1..Width(i))
      OBVIOUS
    <3>2. \A lane \in 1..Width(i) : <<i, lane>> \in Ids
      BY <1>0 DEF Ids
    <3> QED
      BY <3>1, <3>2 DEF Chosen
  <2> HIDE DEF h, J
  <2> QED
    BY <2>1, <2>2, <2>3, GatherFacts
<1>2. g \in [1..n -> Sums]
  BY <1>1
<1>3. SumsOf(P) = Gather(g, I, n)
  <2>1. SumsOf(P) = TotalSums([i \in 1..n |-> RowSums(i, P)], n)
    BY DEF SumsOf
  <2>2. Gather(g, I, n) = TotalSums([i \in 1..n |-> IF i \in I THEN g[i] ELSE NoSums], n)
    BY DEF Gather
  <2>3. \A i \in 1..n : RowSums(i, P) = IF i \in I THEN g[i] ELSE NoSums
    BY <1>1
  <2> HIDE DEF P, g, n
  <2> QED
    BY <2>1, <2>2, <2>3
<1>4. Data(P) = UnionOf(S, I)
  <2>1. Data(P) = UNION {LaneData(Lane(id[1], id[2])) : id \in P}
    BY DEF Data, LaneData, Normal
  <2>2. \A i \in I : S[i] = UNION {LaneData(Lane(i, lane)) : lane \in L[i]}
    <3>1. ASSUME NEW i \in I PROVE S[i] = UNION {LaneData(Lane(i, lane)) : lane \in L[i]}
      <4>1. i \in 1..n /\ L[i] \in SUBSET (1..Width(i))
        OBVIOUS
      <4>2. S[i] = UNION {PartData(kinds[i], parts[i])[lane] : lane \in L[i]}
        BY <4>1 DEF ItemData, UnionOf
      <4>3. \A lane \in L[i] : PartData(kinds[i], parts[i])[lane] = LaneData(Lane(i, lane))
        BY <1>p, <4>1
      <4> HIDE DEF S
      <4> QED
        BY <4>2, <4>3
    <3> QED
      BY <3>1
  <2>3. \A id \in P : id[1] \in I /\ id[2] \in L[id[1]]
    BY DEF Chosen
  <2>4. \A i \in I : \A lane \in L[i] : <<i, lane>> \in P
    <3>1. ASSUME NEW i \in I, NEW lane \in L[i] PROVE <<i, lane>> \in Ids
      <4>1. i \in 1..n /\ lane \in 1..Width(i)
        OBVIOUS
      <4> QED
        BY <1>0, <4>1 DEF Ids
    <3> QED
      BY <3>1 DEF Chosen
  <2> HIDE DEF P, S
  <2>5. ASSUME NEW y \in Data(P) PROVE y \in UnionOf(S, I)
    <3>1. PICK id \in P : y \in LaneData(Lane(id[1], id[2]))
      BY <2>1, <2>5
    <3> DEFINE i == id[1]
               lane == id[2]
    <3>2. i \in I /\ lane \in L[i] /\ y \in LaneData(Lane(i, lane))
      BY <2>3, <3>1
    <3> HIDE DEF i, lane
    <3>3. y \in S[i]
      BY <2>2, <3>2
    <3> QED
      BY <3>2, <3>3 DEF UnionOf
  <2>6. ASSUME NEW y \in UnionOf(S, I) PROVE y \in Data(P)
    <3>1. PICK i \in I : y \in S[i]
      BY <2>6 DEF UnionOf
    <3>2. PICK lane \in L[i] : y \in LaneData(Lane(i, lane))
      BY <2>2, <3>1
    <3>3. <<i, lane>> \in P /\ <<i, lane>>[1] = i /\ <<i, lane>>[2] = lane
      BY <2>4
    <3> QED
      BY <2>1, <3>2, <3>3
  <2> QED
    BY <2>5, <2>6
<1> QED
  BY <1>2, <1>3, <1>4

LEMMA LaneCount ==
    ASSUME TypeOK, NEW i \in 1..Len(items), NEW lane \in 1..Width(i)
    PROVE  Count({<<i, lane>>}) = PartSums(kinds[i], parts[i])[lane][0]
<1> DEFINE n == Len(items)
           L == [k \in 1..n |-> IF k = i THEN {lane} ELSE {}]
           g == [k \in 1..n |-> ItemSums(k, L)]
           h == PartSums(kinds[i], parts[i])
<1>1. /\ \A k \in 1..n : L[k] \in SUBSET (1..Width(k))
      /\ {i} \in SUBSET (1..n) /\ n \in Nat
  BY DEF TypeOK
<1>2. Chosen({i}, L) = {<<i, lane>>}
  <2>1. Width(i) \in Nat /\ 1..Width(i) \subseteq 1..Lanes
    BY ResultsConstants DEF Width, WidthOf
  <2>2. <<i, lane>> \in Ids
    BY <2>1 DEF Ids
  <2>3. \A id \in Ids : id = <<id[1], id[2]>>
    BY DEF Ids
  <2> QED
    BY <2>2, <2>3 DEF Chosen
<1>3. h \in [1..Width(i) -> Sums] /\ Width(i) \in Nat
  <2>1. Width(i) = WidthOf(kinds[i]) /\ kinds[i] \in Kinds /\ parts[i] \in Seq(DatumOf(kinds[i]))
    BY DEF TypeOK, Width
  <2> QED
    BY <2>1, PartSumsType, PartLanes
<1>4. ItemSums(i, L) = h[lane]
  <2>1. ItemSums(i, L) = Gather(h, {lane}, Width(i))
    BY DEF ItemSums
  <2> HIDE DEF h
  <2> QED
    BY <1>3, <2>1, GatherOne
<1>5. g[i] = ItemSums(i, L)
  OBVIOUS
<1>6. g \in [1..n -> Sums] /\ SumsOf(Chosen({i}, L)) = Gather(g, {i}, n)
  BY <1>1, ChosenSums
<1> HIDE DEF g, h, L, n
<1>7. Gather(g, {i}, n) = g[i]
  <2>1. i \in 1..n
    BY DEF n
  <2> QED
    BY <1>1, <1>6, <2>1, GatherOne
<1>8. SumsOf({<<i, lane>>}) = h[lane]
  BY <1>2, <1>4, <1>5, <1>6, <1>7
<1> QED
  BY <1>8, CentralSums DEF Count, h

LEMMA ResultDescribed ==
    ASSUME TypeOK, MergeInv, CountInv, MomentsInv, Balanced, Merged, valid(result),
           Fits(MaxValues)
    PROVE  \E P \in SUBSET Usable :
             Describes(result, P, 3) /\ (CubeFits => Describes(result, P, 4))
<1> DEFINE N == Len(items)
           v == ValidItems
           n == Len(ValidItems)
<1>1. /\ N \in Nat \ {0} /\ items \in Seq(Accumulator) /\ items[1] \in Accumulator
      /\ \A i \in 1..N : Width(i) = WidthOf(kinds[i])
      /\ OpenWidth \in Nat
      /\ result \in Accumulator /\ MaxValues \in Nat
  <2>1. items \in Seq(Accumulator) /\ items # <<>>
    BY DEF TypeOK, Merged
  <2>2. OpenWidth \in Nat
    BY ResultsConstants DEF OpenWidth, WidthOf
  <2> QED
    BY <2>1, <2>2, ResultsConstants DEF TypeOK, Width
<1>2. PICK t : Counts(t, items) /\ t[N] + OpenWidth * Len(open) <= read
  BY DEF CountInv
<1>3. t[N] \in Nat /\ t[N] <= MaxValues
  <2>1. N \in 0..N /\ t \in [0..N -> Nat] /\ Len(open) \in Nat /\ read \in Nat /\ read <= MaxValues
    BY <1>1, <1>2 DEF Counts, TypeOK
  <2>2. OpenWidth * Len(open) \in Nat /\ t[N] \in Nat
    BY <1>1, <2>1
  <2> HIDE DEF N
  <2> QED
    BY <1>1, <1>2, <2>1, <2>2
<1>4. /\ v \in Seq(Accumulator)
      /\ \A k \in 1..N : valid(items[k]) => \E j \in 1..n : v[j] = items[k]
  BY <1>1, <1>2, ValidItemsContents
<1>5. PICK t2 : Counts(t2, v) /\ t2[n] <= t[N]
  BY <1>1, <1>2, ValidItemsContents
<1>6. v # <<>> /\ n \in Nat \ {0} /\ result = MergeSums(v, n)[n]
  <2>1. result = Expected
    BY DEF MergeInv, Merged
  <2>2. v # <<>>
    <3>1. SUFFICES ASSUME v = <<>> PROVE FALSE
      OBVIOUS
    <3>2. result = items[1] /\ 1 \in 1..N /\ n = 0
      BY <1>1, <2>1, <3>1 DEF Expected
    <3> HIDE DEF v, n, N
    <3> QED
      BY <1>4, <3>2
  <2> QED
    BY <1>4, <2>1, <2>2 DEF Expected
<1>7. PICK f \in [1..n -> 1..N] :
        /\ \A i, j \in 1..n : i < j => f[i] < f[j]
        /\ \A j \in 1..n : valid(items[f[j]]) /\ v[j] = items[f[j]]
  BY <1>1, CopiedOrder
<1> DEFINE Selects(i, l) == Follows(items[i], Gather(PartSums(kinds[i], parts[i]), l, Width(i)),
                                    UnionOf(PartData(kinds[i], parts[i]), l))
           L == [i \in 1..N |-> CHOOSE l \in SUBSET (1..Width(i)) : Selects(i, l)]
           g == [i \in 1..N |-> ItemSums(i, L)]
           S == [i \in 1..N |-> ItemData(i, L)]
<1>8. ASSUME NEW i \in 1..N PROVE \E l \in SUBSET (1..Width(i)) : Selects(i, l)
  <2> DEFINE h == PartSums(kinds[i], parts[i])
  <2>1. NonIncreasing([lane \in 1..Width(i) |-> Count({<<i, lane>>})], Width(i))
    BY DEF Balanced
  <2>2. \A lane \in 1..Width(i) : Count({<<i, lane>>}) = h[lane][0]
    BY LaneCount
  <2>3. InOrder(h, Width(i))
    <3> HIDE DEF h
    <3> QED
      BY <2>1, <2>2 DEF NonIncreasing, InOrder
  <2>4. ItemFollows(kinds[i], items[i], parts[i])
    BY DEF MomentsInv
  <2> QED
    BY <1>1, <2>3, <2>4 DEF ItemFollows
<1>9. \A i \in 1..N : L[i] \in SUBSET (1..Width(i)) /\ Selects(i, L[i])
  <2> HIDE DEF Selects, N
  <2>1. \A i \in 1..N : L[i] \in SUBSET (1..Width(i)) /\ Selects(i, L[i])
    BY <1>8
  <2> QED
    BY <2>1
<1> HIDE DEF L
<1>10. \A i \in 1..N : Follows(items[i], g[i], S[i])
  BY <1>9 DEF ItemSums, ItemData
<1>11. g \in [1..N -> Sums]
  BY <1>9, ChosenSums
<1> HIDE DEF g, S, Selects
<1>12. InOrder(g, N)
  <2>1. \A i \in 1..N : items[i].n = g[i][0]
    BY <1>10 DEF Follows, Tracked
  <2>2. NonIncreasing([i \in 1..N |-> items[i].n], N)
    BY DEF Balanced
  <2> HIDE DEF N
  <2>3. \A i, j \in 1..N : i < j /\ items[j].n > 0 => items[i].n = 0 \/ items[i].n >= items[j].n
    BY <2>2 DEF NonIncreasing
  <2> QED
    BY <2>1, <2>3 DEF InOrder
<1> DEFINE u == [i \in 1..n |-> t2[i]]
<1>13. Gathered(result, FirstPicks(f, n), g, S, N)
  <2>1. Picks(v, n, f, g, S, N)
    BY <1>7, <1>10 DEF Picks
  <2>2. v \in [1..n -> Accumulator] /\ \A i \in 1..n : v[i] \in Accumulator /\ v[i].n \in Nat
    BY <1>4, AccumulatorFields
  <2>3. t2 \in [0..n -> Nat] /\ t2[0] = 0 /\ \A i \in 1..n : t2[i] = t2[i - 1] + v[i].n
    BY <1>5 DEF Counts
  <2>4. \A i \in 0..n : t2[i] <= t2[n]
    BY <1>4, <1>5, CountsGrow
  <2> HIDE DEF v, n, N
  <2>5. \A i \in 1..n : u[i] = t2[i] /\ i \in 0..n
    BY <1>6
  <2>6. u \in [1..n -> Nat] /\ \A i \in 1..n : u[i] <= MaxValues
    <3>1. ASSUME NEW i \in 1..n PROVE u[i] \in Nat /\ u[i] <= MaxValues
      <4>1. t2[i] \in Nat /\ t2[n] \in Nat /\ t2[i] <= t2[n] /\ u[i] = t2[i]
        BY <1>6, <2>3, <2>4, <2>5
      <4> QED
        BY <1>1, <1>3, <1>5, <4>1
    <3> QED
      BY <3>1
  <2>7. v[1].n <= u[1] /\ \A i \in 2..n : u[i - 1] + v[i].n <= u[i]
    <3>1. 1 \in 1..n /\ u[1] = t2[1] /\ t2[1] = t2[1 - 1] + v[1].n /\ v[1].n \in Nat
      BY <1>6, <2>2, <2>3, <2>5
    <3>2. v[1].n <= u[1]
      BY <2>3, <3>1
    <3>3. ASSUME NEW i \in 2..n PROVE u[i - 1] + v[i].n <= u[i]
      <4>1. i \in 1..n /\ i - 1 \in 1..n
        BY <1>6
      <4>2. u[i] = t2[i] /\ u[i - 1] = t2[i - 1] /\ t2[i] = t2[i - 1] + v[i].n /\ u[i] \in Nat
        BY <2>3, <2>5, <2>6, <4>1
      <4> QED
        BY <4>2
    <3> QED
      BY <3>2, <3>3
  <2> HIDE DEF u
  <2>8. \A i \in 1..n : Gathered(MergeSums(v, n)[i], FirstPicks(f, i), g, S, N)
    BY <1>1, <1>6, <1>11, <1>12, <2>1, <2>2, <2>6, <2>7, SumGathered
  <2> QED
    BY <1>6, <2>8
<1>14. PICK I \in SUBSET FirstPicks(f, n) : Follows(result, Gather(g, I, N), UnionOf(S, I))
  BY <1>13 DEF Gathered, GatheredFrom
<1>15. I \in SUBSET (1..N) /\ \A i \in I : valid(items[i])
  BY <1>7 DEF FirstPicks
<1>16. SumsOf(Chosen(I, L)) = Gather(g, I, N) /\ Data(Chosen(I, L)) = UnionOf(S, I)
  BY <1>9, <1>15, ChosenSums DEF g, S
<1>17. Chosen(I, L) \in SUBSET Usable
  BY <1>15 DEF Chosen, Usable
<1>18. Describes(result, Chosen(I, L), 3) /\ (CubeFits => Describes(result, Chosen(I, L), 4))
  <2>1. Follows(result, SumsOf(Chosen(I, L)), Data(Chosen(I, L)))
    BY <1>14, <1>16
  <2> QED
    BY <1>1, <2>1, FollowsDescribes
<1> QED
  BY <1>17, <1>18

LEMMA MomentsInvariance ==
    ASSUME Fits(MaxValues)
    PROVE  Spec => [](TypeOK /\ MergeInv /\ CountInv /\ MomentsInv)
<1>1. Init => TypeOK /\ MergeInv /\ CountInv /\ MomentsInv
  BY TypeInit, MergeInit, CountInit, MomentsInit
<1>2. TypeOK /\ MergeInv /\ CountInv /\ MomentsInv /\ [Next]_vars
        => (TypeOK /\ MergeInv /\ CountInv /\ MomentsInv)'
  BY TypeNext, MergeNext, CountNext, MomentsNext
<1> QED
  BY <1>1, <1>2, PTL DEF Spec

\* Whatever operands an overflow makes operator+ drop, the result has the exact
\* count, mean and central moments to the third of some of the data, each value
\* once, as long as the square of a count fits into size_t and no accumulator is
\* added to a smaller one.
THEOREM LowerMomentsKept ==
    ASSUME MaxValues * MaxValues < WordModulus
    PROVE  Spec => []LowerMomentsExact
<1>1. CubeFits => MaxValues * MaxValues * MaxValues < WordModulus
  BY DEF CubeFits
<1>2. Fits(MaxValues)
  BY <1>1 DEF Fits
<1>3. TypeOK /\ MergeInv /\ CountInv /\ MomentsInv => LowerMomentsExact
  BY <1>2, ResultDescribed DEF LowerMomentsExact, Described
<1> QED
  BY <1>2, <1>3, MomentsInvariance, PTL

\* If the cube of a count fits its square does.
LEMMA CubesFit ==
    ASSUME MaxValues * MaxValues * MaxValues < WordModulus
    PROVE  Fits(MaxValues)
<1>1. MaxValues \in Nat \ {0} /\ WordModulus \in Nat
  BY ResultsConstants
<1>2. 1 <= MaxValues /\ MaxValues * MaxValues \in Nat
  BY <1>1
<1>3. 1 * (MaxValues * MaxValues) <= MaxValues * (MaxValues * MaxValues)
  BY <1>1, <1>2, ProductMonotone
<1>4. MaxValues * MaxValues < WordModulus
  BY <1>1, <1>2, <1>3
<1> QED
  BY <1>4 DEF Fits

\* And the fourth one, as long as the cube of a count fits.
THEOREM MomentsKept ==
    ASSUME MaxValues * MaxValues * MaxValues < WordModulus
    PROVE  Spec => []MomentsExact
<1>1. CubeFits
  BY DEF CubeFits
<1>2. Fits(MaxValues)
  BY CubesFit
<1>3. TypeOK /\ MergeInv /\ CountInv /\ MomentsInv => MomentsExact
  BY <1>1, <1>2, ResultDescribed DEF MomentsExact, Described
<1> QED
  BY <1>2, <1>3, MomentsInvariance, PTL

----------------------------------------------------------------------------
(* How large a double is                                                   *)

\* What is not too large is not rounded to an infinity.
LEMMA RoundedFits ==
    ASSUME NEW n \in Int, NEW d \in Nat \ {0}, Abs(n) <= MaxDouble * d
    PROVE  Rounded(n, d) = Fraction(n, d)
<1>1. MaxDouble \in Nat \ {0} /\ Abs(n) \in Nat
  BY DoublesAssumption, Absolute
<1>2. CASE Abs(n) = 0
  <2>1. (-1) \div d = -1
    OBVIOUS
  <2>2. ~((Abs(n) - 1) \div d >= MaxDouble)
    BY <1>1, <1>2, <2>1
  <2> QED
    BY <2>2 DEF Rounded
<1>3. CASE Abs(n) # 0
  <2> DEFINE p == Abs(n) - 1  q == p \div d
  <2>1. p \in Nat
    BY <1>1, <1>3
  <2> HIDE DEF p
  <2>2. q \in Nat /\ q * d <= p
    <3>1. q \in Nat /\ p % d \in 0..(d - 1) /\ p = q * d + (p % d)
      BY <2>1, Division
    <3> QED
      BY <3>1
  <2> HIDE DEF q
  <2>3. p < MaxDouble * d
    BY <1>1 DEF p
  <2>4. MaxDouble <= q => MaxDouble * d <= q * d
    BY <1>1, <2>2, ProductMonotone
  <2>5. MaxDouble * d \in Nat /\ q * d \in Nat
    BY <1>1, <2>2
  <2>6. ~(q >= MaxDouble)
    BY <1>1, <2>1, <2>2, <2>3, <2>4, <2>5
  <2> QED
    BY <2>6 DEF Rounded, p, q
<1> QED
  BY <1>2, <1>3

\* A sum and a product that are not too large are numbers.
LEMMA PlusFits ==
    ASSUME NEW x, NEW p, NEW q, Ratio(x, p, q), NEW y, NEW r, NEW t, Ratio(y, r, t),
           Abs(p * t + r * q) <= MaxDouble * (q * t)
    PROVE  x ++ y \in Number
<1> DEFINE x1 == x[1]  x2 == x[2]  y1 == y[1]  y2 == y[2]
           g == Gcd(x2, y2)
           v == y2 \div g
           u == x2 \div g
           M == MaxDouble
<1>0. /\ x \in Number /\ y \in Number /\ x1 * q = p * x2 /\ y1 * t = r * y2
      /\ p \in Int /\ r \in Int /\ q \in Nat \ {0} /\ t \in Nat \ {0} /\ M \in Nat
  BY EqualsNumber, DoublesAssumption DEF Ratio
<1>1. /\ x1 \in Int /\ x2 \in Nat \ {0} /\ y1 \in Int /\ y2 \in Nat \ {0}
      /\ Finite(x) /\ Finite(y)
  BY <1>0, DoubleCases, SomeDoubles
<1>2. g \in 1..y2 /\ Divides(g, x2) /\ Divides(g, y2)
  BY <1>1, GcdBounds
<1>3. x ++ y = Rounded(x1 * v + y1 * u, x2 * v)
  BY <1>1 DEF ++
<1> HIDE DEF x1, x2, y1, y2, g, M
<1>4. g \in Nat \ {0}
  BY <1>1, <1>2
<1>5. u \in Nat /\ v \in Nat /\ x2 = u * g /\ y2 = v * g
  BY <1>2, <1>4, QuotientInt DEF Divides
<1> HIDE DEF u, v
<1>6. v # 0
  BY <1>1, <1>4, <1>5
<1> DEFINE e == x1 * v + y1 * u  f == x2 * v  c == q * t * g  w == p * t + r * q
<1>7. e \in Int /\ f \in Nat \ {0} /\ w \in Int
  BY <1>0, <1>1, <1>5, <1>6
<1>8. c \in Nat \ {0}
  BY <1>0, <1>4
<1>9. e * c = w * (x2 * y2)
  <2>1. e * c = (x1 * q) * (v * g) * t + (y1 * t) * (u * g) * q
    BY <1>0, <1>1, <1>4, <1>5
  <2>2. (p * x2) * y2 * t + (r * y2) * x2 * q = w * (x2 * y2)
    BY <1>0, <1>1, <1>4, <1>5
  <2> HIDE DEF e, c, w
  <2> QED
    BY <1>0, <1>5, <2>1, <2>2
<1>10. (M * f) * c = (M * (q * t)) * (x2 * y2)
  <2>1. (M * f) * c = (M * (q * t)) * (x2 * (v * g))
    BY <1>0, <1>1, <1>4, <1>5
  <2> HIDE DEF f, c
  <2> QED
    BY <1>5, <2>1
<1>11. Abs(w) <= M * (q * t)
  BY DEF M
<1> HIDE DEF e, f, c, w
<1>12. x2 * y2 \in Nat \ {0} /\ M * (q * t) \in Nat
  BY <1>0, <1>1
<1>13. Abs(e) * c = Abs(w) * (x2 * y2)
  <2>1. Abs(e * c) = Abs(e) * c /\ Abs(w * (x2 * y2)) = Abs(w) * (x2 * y2)
    BY <1>7, <1>8, <1>12, AbsoluteMultiple
  <2> QED
    BY <1>9, <2>1
<1>14. Abs(w) * (x2 * y2) <= (M * (q * t)) * (x2 * y2)
  BY <1>7, <1>11, <1>12, Absolute, ProductMonotone
<1>15. Abs(e) <= M * f
  <2>1. Abs(e) * c <= (M * f) * c
    BY <1>10, <1>13, <1>14
  <2>2. Abs(e) \in Int /\ M * f \in Int
    BY <1>0, <1>7, Absolute
  <2> QED
    BY <1>8, <2>1, <2>2, CancelOrder
<1>16. Rounded(e, f) = Fraction(e, f)
  BY <1>7, <1>15, RoundedFits DEF M
<1> QED
  BY <1>3, <1>7, <1>16, FractionType DEF e, f

LEMMA TimesFits ==
    ASSUME NEW x \in Number, NEW y \in Number, Abs(x[1] * y[1]) <= MaxDouble * (x[2] * y[2])
    PROVE  x ** y \in Number
<1> DEFINE a == Fraction(x[1], y[2])
           b == Fraction(y[1], x[2])
           x1 == x[1]  x2 == x[2]  y1 == y[1]  y2 == y[2]  M == MaxDouble
<1>1. /\ x1 \in Int /\ x2 \in Nat \ {0} /\ y1 \in Int /\ y2 \in Nat \ {0}
      /\ Finite(x) /\ Finite(y) /\ M \in Nat
  BY DoubleCases, SomeDoubles, DoublesAssumption
<1>2. CASE x1 = 0 \/ y1 = 0
  BY <1>1, <1>2, SomeDoubles, TimesCases
<1>3. CASE x1 # 0 /\ y1 # 0
  <2>1. x ** y = Rounded(a[1] * b[1], a[2] * b[2])
    BY <1>1, <1>3, TimesCases
  <2>2. a \in Number /\ b \in Number /\ Equals(a, x1, y2) /\ Equals(b, y1, x2)
    BY <1>1, FractionType, FractionValue
  <2>s. Abs(x1 * y1) <= M * (x2 * y2)
    OBVIOUS
  <2> HIDE DEF a, b, x1, x2, y1, y2, M
  <2> DEFINE a1 == a[1]  a2 == a[2]  b1 == b[1]  b2 == b[2]
             e == a1 * b1  f == a2 * b2  c == x2 * y2  w == x1 * y1
  <2>3. /\ a1 \in Int /\ b1 \in Int /\ a2 \in Nat \ {0} /\ b2 \in Nat \ {0}
        /\ a1 * y2 = x1 * a2 /\ b1 * x2 = y1 * b2
    BY <2>2, EqualsNumber, DoubleCases, SomeDoubles
  <2> HIDE DEF a1, a2, b1, b2
  <2>4. e \in Int /\ f \in Nat \ {0} /\ c \in Nat \ {0} /\ w \in Int
    BY <1>1, <2>3
  <2>5. e * c = w * f
    <3>1. e * c = (a1 * y2) * (b1 * x2)
      BY <1>1, <2>3
    <3>2. (x1 * a2) * (y1 * b2) = w * f
      BY <1>1, <2>3
    <3> HIDE DEF e, f, c, w
    <3> QED
      BY <2>3, <3>1, <3>2
  <2>6. Abs(w) <= M * c
    BY <2>s
  <2> HIDE DEF e, f, c, w
  <2>7. Abs(e) * c = Abs(w) * f
    <3>1. Abs(e * c) = Abs(e) * c /\ Abs(w * f) = Abs(w) * f
      BY <2>4, AbsoluteMultiple
    <3> QED
      BY <2>5, <3>1
  <2>8. Abs(w) * f <= (M * c) * f
    <3>1. M * c \in Nat
      BY <1>1, <2>4
    <3> QED
      BY <2>4, <2>6, <3>1, Absolute, ProductMonotone
  <2>9. Abs(e) <= M * f
    <3>1. (M * c) * f = (M * f) * c
      BY <1>1, <2>4
    <3>2. Abs(e) \in Int /\ M * f \in Int
      BY <1>1, <2>4, Absolute
    <3> QED
      BY <2>4, <2>7, <2>8, <3>1, <3>2, CancelOrder
  <2>10. Rounded(e, f) = Fraction(e, f)
    BY <2>4, <2>9, RoundedFits DEF M
  <2> QED
    BY <2>1, <2>4, <2>10, FractionType DEF e, f, a1, a2, b1, b2
<1> QED
  BY <1>2, <1>3

----------------------------------------------------------------------------
(* Bounds of doubles                                                       *)

\* The double x is a number between -B/E and B/E.
Bounded(x, B, E) == x \in Number /\ B \in Nat /\ E \in Nat \ {0} /\ Abs(x[1]) * E <= B * x[2]

LEMMA BoundedFields ==
    ASSUME NEW x, NEW B, NEW E, Bounded(x, B, E)
    PROVE  /\ x \in Number /\ x \in Double /\ B \in Nat /\ E \in Nat \ {0}
           /\ x[1] \in Int /\ x[2] \in Nat \ {0} /\ Abs(x[1]) \in Nat
           /\ Abs(x[1]) * E <= B * x[2]
           /\ Ratio(x, x[1], x[2])
<1>1. x \in Number /\ x \in Double /\ x[1] \in Int /\ x[2] \in Nat \ {0}
  BY SomeDoubles, DoubleCases DEF Bounded
<1>2. Ratio(x, x[1], x[2])
  BY <1>1, EqualsNumber DEF Ratio
<1> QED
  BY <1>1, <1>2, Absolute DEF Bounded

\* A ratio is as large as its terms say.
LEMMA RatioBounded ==
    ASSUME NEW x, NEW p, NEW q, Ratio(x, p, q), NEW B \in Nat, NEW E \in Nat \ {0},
           Abs(p) * E <= B * q
    PROVE  Bounded(x, B, E)
<1> DEFINE x1 == x[1]  x2 == x[2]
<1>1. /\ x \in Number /\ x1 * q = p * x2 /\ p \in Int /\ q \in Nat \ {0}
      /\ x1 \in Int /\ x2 \in Nat \ {0}
  BY EqualsNumber, DoubleCases, SomeDoubles DEF Ratio
<1> HIDE DEF x1, x2
<1>2. Abs(x1) * q = Abs(p) * x2
  <2>1. Abs(x1 * q) = Abs(x1) * q /\ Abs(p * x2) = Abs(p) * x2
    BY <1>1, AbsoluteMultiple
  <2> QED
    BY <1>1, <2>1
<1> DEFINE a == Abs(x1)  b == Abs(p)
<1>3. a \in Nat /\ b \in Nat /\ a * q = b * x2 /\ b * E <= B * q
  BY <1>1, <1>2, Absolute
<1> HIDE DEF a, b
<1>4. (a * E) * q <= (B * x2) * q
  <2>1. (a * E) * q = (a * q) * E /\ (b * x2) * E = (b * E) * x2 /\ (B * x2) * q = (B * q) * x2
    BY <1>1, <1>3
  <2>2. (b * E) * x2 <= (B * q) * x2
    BY <1>1, <1>3, ProductMonotone
  <2> QED
    BY <1>3, <2>1, <2>2
<1>5. a * E <= B * x2
  BY <1>1, <1>3, <1>4, CancelOrder
<1> QED
  BY <1>1, <1>5 DEF Bounded, a, x1, x2

\* A bound may be enlarged; products, sums, differences and quotients have those
\* of their operands together, and they are numbers if that is not too large.
LEMMA BoundWeaken ==
    ASSUME NEW x, NEW B, NEW E, Bounded(x, B, E), NEW F \in Nat, B <= F
    PROVE  Bounded(x, F, E)
<1>1. B * x[2] <= F * x[2] /\ B * x[2] \in Nat /\ F * x[2] \in Nat
  BY BoundedFields, ProductMonotone
<1>2. Abs(x[1]) * E \in Nat
  BY BoundedFields
<1>3. Abs(x[1]) * E <= F * x[2]
  BY <1>1, <1>2, BoundedFields
<1> QED
  BY <1>3, BoundedFields DEF Bounded

LEMMA BoundTimes ==
    ASSUME NEW x, NEW B, NEW E, Bounded(x, B, E), NEW y, NEW F, NEW G, Bounded(y, F, G),
           B * F <= MaxDouble * (E * G)
    PROVE  Bounded(x ** y, B * F, E * G)
<1> DEFINE a == Abs(x[1])  c == x[2]  b == Abs(y[1])  d == y[2]  M == MaxDouble
           p == x[1] * y[1]
<1>1. /\ a \in Nat /\ b \in Nat /\ c \in Nat \ {0} /\ d \in Nat \ {0}
      /\ B \in Nat /\ E \in Nat \ {0} /\ F \in Nat /\ G \in Nat \ {0} /\ M \in Nat
      /\ a * E <= B * c /\ b * G <= F * d /\ B * F <= M * (E * G)
      /\ x \in Number /\ y \in Number
  BY BoundedFields, DoublesAssumption
<1>2. p \in Int /\ Abs(p) = a * b
  <2> DEFINE i == x[1]  j == y[1]
  <2>1. i \in Int /\ j \in Int
    BY BoundedFields
  <2> HIDE DEF i, j
  <2>2. i * j \in Int /\ Abs(i * j) = Abs(i) * Abs(j)
    BY <2>1, AbsoluteProduct
  <2> QED
    BY <2>2 DEF i, j
<1> HIDE DEF a, b, c, d, M, p
<1>3. (a * b) * (E * G) <= (B * F) * (c * d)
  <2>1. (a * E) * (b * G) <= (B * c) * (b * G) /\ (b * G) * (B * c) <= (F * d) * (B * c)
    <3>1. a * E \in Nat /\ b * G \in Nat /\ B * c \in Nat /\ F * d \in Nat
      BY <1>1
    <3> QED
      BY <1>1, <3>1, ProductMonotone
  <2>2. /\ (a * b) * (E * G) = (a * E) * (b * G) /\ (B * F) * (c * d) = (F * d) * (B * c)
        /\ (B * c) * (b * G) = (b * G) * (B * c)
    BY <1>1
  <2>3. (a * E) * (b * G) \in Nat /\ (B * c) * (b * G) \in Nat /\ (F * d) * (B * c) \in Nat
    BY <1>1
  <2> QED
    BY <2>1, <2>2, <2>3
<1>4. x ** y \in Number
  <2>1. (B * F) * (c * d) <= (M * (E * G)) * (c * d)
    <3>1. B * F \in Nat /\ M * (E * G) \in Nat /\ c * d \in Nat
      BY <1>1
    <3> QED
      BY <1>1, <3>1, ProductMonotone
  <2>2. (M * (E * G)) * (c * d) = (M * (c * d)) * (E * G)
    BY <1>1
  <2>3. /\ (a * b) * (E * G) \in Nat /\ (B * F) * (c * d) \in Nat /\ E * G \in Nat \ {0}
        /\ a * b \in Nat /\ M * (c * d) \in Nat
    BY <1>1
  <2>4. a * b <= M * (c * d)
    BY <1>3, <2>1, <2>2, <2>3, CancelOrder
  <2> QED
    BY <1>1, <1>2, <2>4, TimesFits DEF p, c, d, M
<1>5. Ratio(x ** y, p, c * d)
  BY <1>4, BoundedFields, RatioTimes DEF p, c, d
<1>6. Abs(p) * (E * G) <= (B * F) * (c * d) /\ B * F \in Nat /\ E * G \in Nat \ {0}
  BY <1>1, <1>2, <1>3
<1> QED
  BY <1>5, <1>6, RatioBounded

LEMMA BoundSum ==
    ASSUME NEW x, NEW B, NEW E, Bounded(x, B, E), NEW y, NEW F, Bounded(y, F, E),
           NEW p \in Int, Abs(p) <= Abs(x[1] * y[2]) + Abs(y[1] * x[2])
    PROVE  Abs(p) * E <= (B + F) * (x[2] * y[2])
<1> DEFINE a == Abs(x[1])  c == x[2]  b == Abs(y[1])  d == y[2]
<1>1. /\ a \in Nat /\ b \in Nat /\ c \in Nat \ {0} /\ d \in Nat \ {0}
      /\ B \in Nat /\ E \in Nat \ {0} /\ F \in Nat
      /\ a * E <= B * c /\ b * E <= F * d
  BY BoundedFields
<1>2. Abs(x[1] * y[2]) = a * d /\ Abs(y[1] * x[2]) = b * c
  BY BoundedFields, AbsoluteMultiple
<1>3. Abs(p) \in Nat /\ Abs(p) <= a * d + b * c
  BY <1>2, Absolute
<1> HIDE DEF a, b, c, d
<1>4. Abs(p) * E <= (a * d + b * c) * E
  <2>1. a * d + b * c \in Nat
    BY <1>1
  <2> QED
    BY <1>1, <1>3, <2>1, ProductMonotone
<1>5. (a * E) * d <= (B * c) * d /\ (b * E) * c <= (F * d) * c
  <2>1. a * E \in Nat /\ b * E \in Nat /\ B * c \in Nat /\ F * d \in Nat
    BY <1>1
  <2> QED
    BY <1>1, <2>1, ProductMonotone
<1>6. (a * d + b * c) * E = (a * E) * d + (b * E) * c
  BY <1>1
<1>7. (B + F) * (c * d) = (B * c) * d + (F * d) * c
  BY <1>1
<1>8. /\ Abs(p) * E \in Nat /\ (a * E) * d \in Nat /\ (b * E) * c \in Nat
      /\ (B * c) * d \in Nat /\ (F * d) * c \in Nat
  BY <1>1, <1>3
<1>9. Abs(p) * E <= (B + F) * (c * d)
  BY <1>4, <1>5, <1>6, <1>7, <1>8
<1> QED
  BY <1>9 DEF c, d

\* Zero and integers, as ratios.
LEMMA MinusRatio ==
    ASSUME NEW x, NEW p, NEW q, Ratio(x, p, q)
    PROVE  Ratio(Minus(x), -p, q)
BY MinusEquals DEF Ratio

\* Sums and differences, whose exact value may be smaller than the operands are.
LEMMA RatioSumBounded ==
    ASSUME NEW x, NEW p, NEW q, Ratio(x, p, q), NEW y, NEW r, NEW t, Ratio(y, r, t),
           NEW B \in Nat, NEW E \in Nat \ {0}, B <= MaxDouble * E
    PROVE  /\ Abs(p * t + r * q) * E <= B * (q * t) => Bounded(x ++ y, B, E)
           /\ Abs(p * t - r * q) * E <= B * (q * t) => Bounded(x -- y, B, E)
<1>1. ASSUME NEW z, NEW w, Ratio(z, w, t), NEW v, v = p * t + w * q, Abs(v) * E <= B * (q * t)
      PROVE  Bounded(x ++ z, B, E)
  <2> DEFINE M == MaxDouble  f == q * t
  <2>1. /\ M \in Nat /\ f \in Nat \ {0} /\ v \in Int /\ Abs(v) \in Nat
    BY <1>1, DoublesAssumption, Absolute DEF Ratio
  <2>2. Abs(v) * E <= B * f /\ B <= M * E
    BY <1>1
  <2> HIDE DEF M, f
  <2>3. Abs(v) <= M * f
    <3>1. B * f <= (M * E) * f
      BY <2>1, <2>2, ProductMonotone
    <3>2. (M * E) * f = (M * f) * E
      BY <2>1
    <3>3. Abs(v) * E \in Nat /\ B * f \in Nat /\ M * f \in Nat
      BY <2>1
    <3> QED
      BY <2>1, <2>2, <3>1, <3>2, <3>3, CancelOrder
  <2>4. x ++ z \in Number
    BY <1>1, <2>3, PlusFits DEF M, f
  <2>5. Ratio(x ++ z, v, f)
    BY <1>1, <2>4, RatioPlus DEF f
  <2> QED
    BY <2>2, <2>5, RatioBounded
<1>2. Ratio(Minus(y), -r, t)
  BY MinusRatio
<1>3. p * t - r * q = p * t + (-r) * q
  BY DEF Ratio
<1>4. x -- y = x ++ Minus(y)
  BY DEF --
<1> QED
  BY <1>1, <1>2, <1>3, <1>4

LEMMA BoundPlus ==
    ASSUME NEW x, NEW B, NEW E, Bounded(x, B, E), NEW y, NEW F, Bounded(y, F, E),
           B + F <= MaxDouble * E
    PROVE  Bounded(x ++ y, B + F, E) /\ Bounded(x -- y, B + F, E)
<1> DEFINE a == x[1] * y[2]  b == y[1] * x[2]
<1>1. /\ a \in Int /\ b \in Int /\ B + F \in Nat /\ E \in Nat \ {0}
      /\ Ratio(x, x[1], x[2]) /\ Ratio(y, y[1], y[2])
  BY BoundedFields
<1>2. a + b \in Int /\ Abs(a + b) <= Abs(a) + Abs(b) /\ a - b \in Int /\ Abs(a - b) <= Abs(a) + Abs(b)
  <2>1. a \in Int /\ b \in Int
    BY <1>1
  <2> HIDE DEF a, b
  <2>2. a + b \in Int /\ a - b \in Int
    BY <2>1
  <2>3. Abs(a + b) <= Abs(a) + Abs(b) /\ Abs(a - b) <= Abs(a) + Abs(b)
    BY <2>1, Absolute
  <2> QED
    BY <2>2, <2>3
<1>3. /\ Abs(a + b) * E <= (B + F) * (x[2] * y[2])
      /\ Abs(a - b) * E <= (B + F) * (x[2] * y[2])
  BY <1>2, BoundSum
<1> QED
  BY <1>1, <1>3, RatioSumBounded

\* Counts are exact.
LEMMA BoundReal ==
    ASSUME NEW i \in Int, NEW I \in Nat, Abs(i) <= I
    PROVE  Bounded(Real(i), I, 1)
<1>1. Ratio(Real(i), i, 1)
  BY RatioReal
<1>2. Abs(i) * 1 <= I * 1 /\ 1 \in Nat \ {0}
  BY Absolute
<1> QED
  BY <1>1, <1>2, RatioBounded

LEMMA BoundDivide ==
    ASSUME NEW x, NEW B \in Nat, NEW E, NEW k \in Nat \ {0}, Bounded(x, B * k, E),
           B <= MaxDouble * E
    PROVE  Bounded(x // Real(k), B, E)
<1>1. Reciprocal(Real(k)) = <<1, k>>
  <2>1. Real(k) # NaN /\ ~Infinite(Real(k)) /\ Real(k)[1] # 0
    BY DEF Real, NaN, Infinite, Infinity, MinusInfinity
  <2> QED
    BY <2>1 DEF Reciprocal, Real, Sign, Abs
<1>2. Bounded(<<1, k>>, 1, k)
  <2>1. <<1, k>> \in Number /\ <<1, k>>[1] = 1 /\ <<1, k>>[2] = k
    BY DoubleCases
  <2>2. Abs(1) = 1
    BY DEF Abs
  <2> QED
    BY <2>1, <2>2 DEF Bounded
<1>3. E \in Nat \ {0} /\ MaxDouble \in Nat
  BY BoundedFields, DoublesAssumption
<1>4. (B * k) * 1 <= MaxDouble * (E * k)
  <2>1. B * k <= (MaxDouble * E) * k
    BY <1>3, ProductMonotone
  <2>2. (MaxDouble * E) * k = MaxDouble * (E * k) /\ (B * k) * 1 = B * k
    BY <1>3
  <2> QED
    BY <2>1, <2>2
<1>5. Bounded(x // Real(k), (B * k) * 1, E * k)
  BY <1>1, <1>2, <1>4, BoundTimes DEF //
<1> DEFINE z == x // Real(k)  a == Abs(z[1])  c == z[2]
<1>6. z \in Number /\ a \in Nat /\ c \in Nat /\ a * (E * k) <= ((B * k) * 1) * c
  BY <1>5, BoundedFields
<1> HIDE DEF z, a, c
<1>7. a * (E * k) = (a * E) * k /\ ((B * k) * 1) * c = (B * c) * k /\ a * E \in Int /\ B * c \in Int
  BY <1>3, <1>6
<1>8. a * E <= B * c
  BY <1>6, <1>7, CancelOrder
<1> QED
  BY <1>3, <1>6, <1>8 DEF Bounded, z, a, c

----------------------------------------------------------------------------
(* push and operator+ do not overflow                                      *)

\* The same with the bounds that are wanted.
LEMMA BoundProduct ==
    ASSUME NEW x, NEW B, NEW E, Bounded(x, B, E), NEW y, NEW F, NEW G, Bounded(y, F, G),
           NEW I \in Nat, NEW H, B * F <= I, H = E * G, I <= MaxDouble * H
    PROVE  Bounded(x ** y, I, H)
<1>1. B * F \in Nat /\ MaxDouble * (E * G) \in Nat
  BY BoundedFields, DoublesAssumption
<1>2. B * F <= MaxDouble * (E * G)
  BY <1>1
<1> QED
  BY <1>2, BoundTimes, BoundWeaken

\* The factors, sums and quotients of which the moments are made.
LEMMA BoundFactor ==
    ASSUME NEW x, NEW B, NEW E, Bounded(x, B, E), NEW y, NEW F, Bounded(y, F, 1),
           NEW I \in Nat, B * F <= I, I <= MaxDouble * E
    PROVE  Bounded(x ** y, I, E) /\ Bounded(y ** x, I, E)
<1>1. E = E * 1 /\ E = 1 * E /\ F * B = B * F
  BY BoundedFields
<1> QED
  BY <1>1, BoundProduct

LEMMA BoundAdded ==
    ASSUME NEW x, NEW B, NEW E, Bounded(x, B, E), NEW y, NEW F, Bounded(y, F, E),
           NEW I \in Nat, B + F <= I, I <= MaxDouble * E
    PROVE  Bounded(x ++ y, I, E) /\ Bounded(x -- y, I, E)
<1>1. B + F \in Nat /\ MaxDouble * E \in Nat
  BY BoundedFields, DoublesAssumption
<1>2. B + F <= MaxDouble * E
  BY <1>1
<1> QED
  BY <1>2, BoundPlus, BoundWeaken

LEMMA BoundQuotient ==
    ASSUME NEW x, NEW B, NEW E, Bounded(x, B, E), NEW k \in Nat \ {0},
           NEW I \in Nat, B <= I * k, I <= MaxDouble * E
    PROVE  Bounded(x // Real(k), I, E)
<1>1. I * k \in Nat
  OBVIOUS
<1> QED
  BY <1>1, BoundWeaken, BoundDivide

LEMMA BoundCount ==
    ASSUME NEW n \in Nat, NEW N \in Nat, n <= N
    PROVE  Bounded(Real(n), N, 1)
BY Absolute, BoundReal

\* The factors of push_avx2, which are computed in doubles.
LEMMA FactorBounds ==
    ASSUME NEW N \in Nat \ {0}, 3 * (N * N) <= MaxDouble,
           NEW k, k = Three ++ ((Real(N) ** Real(N)) -- (Three ** Real(N)))
    PROVE  Bounded(k, N * N, 1) /\ Bounded(Real(N) -- Real(2), N, 1)
<1> DEFINE M == MaxDouble  x == Real(N) ** Real(N)  y == Three ** Real(N)
<1>1. /\ M \in Nat /\ N * N \in Nat /\ N <= N * N /\ 3 * N <= 3 * (N * N) /\ M * 1 = M /\ 3 * (N * N) <= M
  BY DoublesAssumption
<1>2. Bounded(Real(N), N, 1) /\ Bounded(Three, 3, 1)
  BY BoundCount DEF Three
<1> HIDE DEF M
<1>3. Ratio(x, N * N, 1)
  <2>1. Bounded(x, N * N, 1)
    BY <1>1, <1>2, BoundFactor DEF M
  <2>2. x \in Number
    BY <2>1, BoundedFields
  <2> QED
    BY <2>2, RatioReal, RatioScaled
<1>4. Ratio(y, 3 * N, 1)
  <2>1. Bounded(y, 3 * N, 1)
    BY <1>1, <1>2, BoundFactor DEF M
  <2>2. y \in Number
    BY <2>1, BoundedFields
  <2> QED
    BY <2>2, RatioReal, RatioScaled DEF Three
<1> HIDE DEF x, y
<1> DEFINE p == (N * N) * 1 - (3 * N) * 1
<1>5. Ratio(x -- y, p, 1)
  <2>1. Abs(p) * 1 <= (3 * (N * N)) * (1 * 1)
    BY <1>1 DEF Abs
  <2>2. Bounded(x -- y, 3 * (N * N), 1)
    BY <1>1, <1>3, <1>4, <2>1, RatioSumBounded DEF M
  <2>3. Ratio(x -- y, p, 1 * 1)
    BY <1>3, <1>4, <2>2, BoundedFields, RatioMinus
  <2> QED
    BY <2>3
<1>6. Bounded(k, N * N, 1)
  <2>1. Ratio(Three, 3, 1)
    BY RatioReal DEF Three
  <2>2. 0 <= 3 * 1 + p * 1 /\ 3 * 1 + p * 1 <= N * N
    <3>1. 0 <= 3 + N * N - 3 * N
      <4>1. CASE N <= 2
        <5>1. N = 1 \/ N = 2
          BY <4>1
        <5> QED
          BY <5>1
      <4>2. CASE N > 2
        <5>1. 3 * N <= N * N
          BY <4>2
        <5> QED
          BY <1>1, <5>1
      <4> QED
        BY <4>1, <4>2
    <3> QED
      BY <3>1
  <2>3. Abs(3 * 1 + p * 1) * 1 <= (N * N) * (1 * 1)
    BY <1>1, <2>2 DEF Abs
  <2>4. N * N <= MaxDouble * 1
    BY <1>1 DEF M
  <2>5. N * N \in Nat /\ 1 \in Nat \ {0}
    BY <1>1
  <2>6. k = Three ++ (x -- y)
    BY DEF x, y
  <2> HIDE DEF p
  <2> QED
    BY <1>5, <2>1, <2>3, <2>4, <2>5, <2>6, RatioSumBounded
<1>7. Bounded(Real(N) -- Real(2), N, 1)
  <2>1. Ratio(Real(N), N, 1) /\ Ratio(Real(2), 2, 1)
    BY RatioReal
  <2>2. Abs(N * 1 - 2 * 1) * 1 <= N * (1 * 1)
    BY DEF Abs
  <2>3. N <= MaxDouble * 1
    BY <1>1 DEF M
  <2> QED
    BY <2>1, <2>2, <2>3, RatioSumBounded
<1> QED
  BY <1>6, <1>7

\* The four moments of n data, within a distance of D of each other.
MomentsBounded(a, n, D) ==
    LET C == Scale
    IN  /\ Bounded(a.m2, n * (D * D), C * C)
        /\ Bounded(a.m3, 3 * (n * (D * D * D)), C * C * C)
        /\ Bounded(a.m4, 7 * (n * (D * D * D * D)), C * C * C * C)

\* A vector's lane does not overflow when a value is near to its mean, or when it
\* is the first one and its square is not too large.
LEMMA PushLaneFits ==
    ASSUME NEW a \in Accumulator, NEW n \in Nat, a.n = n, NEW N, N = n + 1,
           NEW x \in Double, valuesValid(x),
           NEW B, Bounded(a.m1, B, Scale), NEW e \in Nat, MomentsBounded(a, n, e),
           Bounded(x -- a.m1, e, Scale),
           3 * (N * N) <= MaxDouble,
           B + e <= MaxDouble * Scale, e * N <= MaxDouble * Scale,
           e * e <= MaxDouble * (Scale * Scale),
           2 * (n * (e * e)) <= MaxDouble * (Scale * Scale),
           n * (e * e * e) * N + 6 * (n * (e * e * e)) <= MaxDouble * (Scale * Scale * Scale),
           n * (e * e * e * e) * (N * N) + 25 * (n * (e * e * e * e))
             <= MaxDouble * (Scale * Scale * Scale * Scale)
    PROVE  Numbers(PushLane(a, x))
<1> DEFINE C == Scale  M == MaxDouble
           C2 == C * C  C3 == C * C * C  C4 == C * C * C * C
           e2 == e * e  U == n * (e * e)  V == n * (e * e * e)  X == n * (e * e * e * e)
           VN == n * (e * e * e) * N  XN == n * (e * e * e * e) * (N * N)
           nD      == Real(N)
           delta   == x -- a.m1
           deltaN  == delta // nD
           sq      == deltaN ** deltaN
           dn      == deltaN ** Real(n)
           term1   == delta ** dn
           t4      == term1 ** sq
           k       == Three ++ ((nD ** nD) -- (Three ** nD))
           m4a     == t4 ** k
           sm      == sq ** a.m2
           dm3     == deltaN ** a.m3
           m4b     == (Six ** sm) -- (Four ** dm3)
           dk      == deltaN ** (nD -- Real(2))
           m3a     == term1 ** dk
           dm2     == deltaN ** a.m2
           m3b     == Three ** dm2
<1>0. /\ C \in Nat \ {0} /\ M \in Nat /\ N \in Nat \ {0}
      /\ C2 \in Nat \ {0} /\ C3 \in Nat \ {0} /\ C4 \in Nat \ {0}
      /\ e2 \in Nat /\ U \in Nat /\ V \in Nat /\ X \in Nat /\ VN \in Nat /\ XN \in Nat
      /\ C2 = C * C /\ C3 = C2 * C /\ C4 = C2 * C2 /\ C4 = C * C3 /\ C3 = C * C2
  BY ResultsConstants, DoublesAssumption
<1>1. /\ e * e = e2 /\ e * (e * n) = U /\ U * e2 = X /\ e2 * U = X /\ e * (3 * V) = 3 * X
      /\ X * (N * N) = XN /\ U * (e * N) = VN /\ e * U = V /\ e * n <= e * N /\ e <= e * N
  BY <1>0
<1>2. /\ B + e <= M * C /\ e * N <= M * C /\ e2 <= M * C2 /\ 2 * U <= M * C2
      /\ VN + 6 * V <= M * C3 /\ XN + 25 * X <= M * C4
      /\ e * N \in Nat /\ e * n \in Nat /\ N * N \in Nat /\ B \in Nat
  BY <1>0, BoundedFields
<1>3. /\ Bounded(a.m1, B, C) /\ Bounded(a.m2, U, C2) /\ Bounded(a.m3, 3 * V, C3)
      /\ Bounded(a.m4, 7 * X, C4) /\ Bounded(delta, e, C)
  BY DEF MomentsBounded
<1>4. /\ Bounded(k, N * N, 1) /\ Bounded(nD -- Real(2), N, 1)
      /\ Bounded(Three, 3, 1) /\ Bounded(Six, 6, 1) /\ Bounded(Four, 4, 1) /\ Bounded(Real(n), n, 1)
  BY <1>0, FactorBounds, BoundCount DEF Three, Six, Four
<1>5. LET b == PushLane(a, x)
      IN  /\ b.m1 = a.m1 ++ deltaN /\ b.m2 = a.m2 ++ term1
          /\ b.m3 = a.m3 ++ (m3a -- m3b) /\ b.m4 = a.m4 ++ (m4a ++ m4b)
  BY DEF PushLane, Accumulator, maskDouble4
<1> HIDE DEF C, M, C2, C3, C4, e2, U, V, X, VN, XN, nD, delta
<1>6. Bounded(deltaN, e, C)
  BY <1>0, <1>1, <1>2, <1>3, BoundQuotient DEF nD, M
<1> HIDE DEF deltaN
<1>7. Bounded(sq, e2, C2)
  BY <1>0, <1>1, <1>2, <1>6, BoundProduct DEF M
<1>8. Bounded(dn, e * n, C)
  <2>1. e * n \in Nat /\ e * n <= e * n /\ e * n <= M * C
    BY <1>0, <1>1, <1>2
  <2> QED
    BY <1>4, <1>6, <2>1, BoundFactor DEF M
<1> HIDE DEF sq, dn
<1>9. Bounded(term1, U, C2)
  <2>1. U \in Nat /\ e * (e * n) <= U /\ C2 = C * C /\ U <= M * C2
    BY <1>0, <1>1, <1>2
  <2> QED
    BY <1>3, <1>8, <2>1, BoundProduct DEF M
<1> HIDE DEF term1
<1>10. Bounded(t4, X, C4)
  BY <1>0, <1>1, <1>2, <1>7, <1>9, BoundProduct DEF M
<1> HIDE DEF t4, k
<1>11. Bounded(m4a, XN, C4)
  <2>1. XN \in Nat /\ X * (N * N) <= XN /\ XN <= M * C4
    BY <1>0, <1>1, <1>2
  <2> QED
    BY <1>4, <1>10, <2>1, BoundFactor DEF M
<1>12. Bounded(sm, X, C4) /\ Bounded(dm3, 3 * X, C4)
  <2>1. Bounded(sm, X, C4)
    BY <1>0, <1>1, <1>2, <1>3, <1>7, BoundProduct DEF M
  <2>2. Bounded(dm3, 3 * X, C4)
    BY <1>0, <1>1, <1>2, <1>3, <1>6, BoundProduct DEF M
  <2> QED
    BY <2>1, <2>2
<1> HIDE DEF m4a, sm, dm3
<1>13. Bounded(m4b, 18 * X, C4)
  <2>1. Bounded(Six ** sm, 6 * X, C4) /\ Bounded(Four ** dm3, 12 * X, C4)
    <3>1. /\ 6 * X \in Nat /\ X * 6 <= 6 * X /\ 6 * X <= M * C4
          /\ 12 * X \in Nat /\ (3 * X) * 4 <= 12 * X /\ 12 * X <= M * C4
      BY <1>0, <1>2
    <3> QED
      BY <1>4, <1>12, <3>1, BoundFactor DEF M
  <2> QED
    BY <1>0, <1>2, <2>1, BoundAdded DEF M
<1> HIDE DEF m4b
<1>14. Bounded(a.m4 ++ (m4a ++ m4b), XN + 25 * X, C4)
  <2>1. Bounded(m4a ++ m4b, XN + 18 * X, C4)
    BY <1>0, <1>2, <1>11, <1>13, BoundAdded DEF M
  <2> QED
    BY <1>0, <1>2, <1>3, <2>1, BoundAdded DEF M
<1>15. Bounded(m3a, VN, C3)
  <2>1. Bounded(dk, e * N, C)
    BY <1>0, <1>1, <1>2, <1>4, <1>6, BoundFactor DEF M
  <2> HIDE DEF dk
  <2> QED
    BY <1>0, <1>1, <1>2, <1>9, <2>1, BoundProduct DEF M
<1>16. Bounded(m3b, 3 * V, C3)
  <2>1. Bounded(dm2, V, C3)
    BY <1>0, <1>1, <1>2, <1>3, <1>6, BoundProduct DEF M
  <2> HIDE DEF dm2
  <2>2. 3 * V \in Nat /\ V * 3 <= 3 * V /\ 3 * V <= M * C3
    BY <1>0, <1>2
  <2> QED
    BY <1>4, <2>1, <2>2, BoundFactor DEF M
<1> HIDE DEF m3a, m3b
<1>17. Bounded(a.m3 ++ (m3a -- m3b), VN + 6 * V, C3)
  <2>1. Bounded(m3a -- m3b, VN + 3 * V, C3)
    BY <1>0, <1>2, <1>15, <1>16, BoundAdded DEF M
  <2> QED
    BY <1>0, <1>2, <1>3, <2>1, BoundAdded DEF M
<1>18. Bounded(a.m2 ++ term1, 2 * U, C2)
  BY <1>0, <1>2, <1>3, <1>9, BoundAdded DEF M
<1>19. Bounded(a.m1 ++ deltaN, B + e, C)
  BY <1>0, <1>2, <1>3, <1>6, BoundAdded DEF M
<1> QED
  BY <1>5, <1>14, <1>17, <1>18, <1>19, BoundedFields DEF Numbers

\* operator+ does not overflow for operands whose data are near to each other.
LEMMA CombineFits ==
    ASSUME NEW a \in Accumulator, NEW n, a.n = n, NEW b \in Accumulator, NEW m, b.n = m,
           0 < m, m <= n, NEW N, N = n + m, Fits(N), CubeFits,
           NEW B \in Nat, NEW D \in Nat,
           Bounded(a.m1, B, Scale), Bounded(b.m1, B, Scale), Bounded(b.m1 -- a.m1, D, Scale),
           MomentsBounded(a, n, D), MomentsBounded(b, m, D),
           B * N <= MaxDouble * Scale, 6 * (D * N) <= MaxDouble * Scale,
           6 * (D * D * N * N * N) <= MaxDouble * (Scale * Scale),
           6 * (D * D * D * N * N * N) <= MaxDouble * (Scale * Scale * Scale),
           6 * (D * D * D * D * N * N * N * N) <= MaxDouble * (Scale * Scale * Scale * Scale)
    PROVE  Numbers(Combine(a, b))
<1> DEFINE C == Scale  M == MaxDouble
           C2 == C * C  C3 == C * C * C  C4 == C * C * C * C
           D2 == D * D  D3 == D * D * D  D4 == D * D * D * D
           R0 == D2  R1 == D2 * N  R2 == D2 * N * N  R3 == D2 * N * N * N
           S0 == D3  S1 == D3 * N  S2 == D3 * N * N  S3 == D3 * N * N * N
           T0 == D4  T1 == D4 * N  T2 == D4 * N * N  T3 == D4 * N * N * N  T4 == D4 * N * N * N * N
           na == Real(n)  nb == Real(m)
           w == Word(n + m)  nn == Real(Word(w * w))  nnn == Real(Word(Word(w * w) * w))
           f == Real(Word(n - m))  g == Real(Word(n * n - n * m + m * m))
           na2 == Real(Word(n * n))  nb2 == Real(Word(m * m))
           delta == b.m1 -- a.m1
           delta2 == delta ** delta
           delta3 == delta2 ** delta
           delta4 == delta2 ** delta2
           c1 == ((a.m1 ** na) ++ (b.m1 ** nb)) // Real(w)
           c2 == (a.m2 ++ b.m2) ++ (((delta2 ** na) ** nb) // Real(w))
           x3 == (((delta3 ** na) ** nb) ** f) // nn
           y3 == (na ** b.m2) -- (nb ** a.m2)
           z3 == ((Three ** delta) ** y3) // Real(w)
           c3 == ((a.m3 ++ b.m3) ++ x3) ++ z3
           x4 == (((delta4 ** na) ** nb) ** g) // nnn
           y4 == (na2 ** b.m2) ++ (nb2 ** a.m2)
           z4 == ((Six ** delta2) ** y4) // nn
           v4 == (na ** b.m3) -- (nb ** a.m3)
           w4 == ((Four ** delta) ** v4) // Real(w)
           c4 == (((a.m4 ++ b.m4) ++ x4) ++ z4) ++ w4
<1>c. LET c == Combine(a, b)
      IN  c.m1 = c1 /\ c.m2 = c2 /\ c.m3 = c3 /\ c.m4 = c4
  BY DEF Combine, NewAccumulator
<1>n. n \in Nat /\ m \in Nat
  BY AccumulatorFields
<1>w. /\ w = N /\ Word(w * w) = N * N /\ Word(Word(w * w) * w) = N * N * N
      /\ f = Real(n - m) /\ g = Real(n * n - n * m + m * m) /\ na2 = Real(n * n) /\ nb2 = Real(m * m)
  <2> HIDE DEF w
  <2>1. w = Word(n + m)
    BY DEF w
  <2> QED
    BY <1>n, <2>1, CombineWords
<1>0. /\ C \in Nat \ {0} /\ M \in Nat /\ N \in Nat /\ N >= 2 /\ n <= N /\ m <= N
      /\ C2 \in Nat \ {0} /\ C3 \in Nat \ {0} /\ C4 \in Nat \ {0}
      /\ C2 = C * C /\ C3 = C2 * C /\ C4 = C2 * C2 /\ C3 = C * C2 /\ C4 = C * C3
      /\ D2 \in Nat /\ D3 \in Nat /\ D4 \in Nat
      /\ D2 = D * D /\ D3 = D2 * D /\ D4 = D2 * D2
  BY <1>n, ResultsConstants, DoublesAssumption
<1>r. /\ R1 \in Nat /\ R2 \in Nat /\ R3 \in Nat /\ R1 = D2 * N /\ R2 = R1 * N /\ R3 = R2 * N
      /\ S1 \in Nat /\ S2 \in Nat /\ S3 \in Nat /\ S1 = D3 * N /\ S2 = S1 * N /\ S3 = S2 * N
      /\ T1 \in Nat /\ T2 \in Nat /\ T3 \in Nat /\ T4 \in Nat
      /\ T1 = D4 * N /\ T2 = T1 * N /\ T3 = T2 * N /\ T4 = T3 * N
  BY <1>0
<1>p. /\ D * R2 = S2 /\ D2 * R3 = T3 /\ D * S2 = T2 /\ R1 * (N * N) = R3
      /\ S1 * (N * N) = S3 /\ T2 * (N * N) = T4 /\ T1 * (N * N * N) = T4 /\ T1 * (N * N) = T3
  BY <1>0
<1>h. 6 * R3 <= M * C2 /\ 6 * S3 <= M * C3 /\ 6 * T4 <= M * C4 /\ B * N <= M * C /\ 6 * (D * N) <= M * C
  OBVIOUS
<1>k. /\ n * D2 \in Nat /\ m * D2 \in Nat /\ n * D2 + m * D2 <= R1
      /\ n * D3 \in Nat /\ m * D3 \in Nat /\ n * D3 + m * D3 <= S1
      /\ n * D4 \in Nat /\ m * D4 \in Nat /\ n * D4 + m * D4 <= T1
  BY <1>0, <1>n
<1>m. /\ Bounded(a.m1, B, C) /\ Bounded(b.m1, B, C) /\ Bounded(delta, D, C)
      /\ Bounded(a.m2, n * D2, C2) /\ Bounded(b.m2, m * D2, C2)
      /\ Bounded(a.m3, 3 * (n * D3), C3) /\ Bounded(b.m3, 3 * (m * D3), C3)
      /\ Bounded(a.m4, 7 * (n * D4), C4) /\ Bounded(b.m4, 7 * (m * D4), C4)
  BY DEF MomentsBounded
<1>v. /\ Bounded(na, n, 1) /\ Bounded(nb, m, 1) /\ Bounded(na, N, 1) /\ Bounded(nb, N, 1)
      /\ Bounded(Three, 3, 1) /\ Bounded(Six, 6, 1) /\ Bounded(Four, 4, 1)
  BY <1>0, <1>n, BoundCount DEF Three, Six, Four
<1>g. Bounded(f, N, 1) /\ Bounded(g, N * N, 1) /\ Bounded(na2, N * N, 1) /\ Bounded(nb2, N * N, 1)
  <2> DEFINE i == n - m  j == n * n - n * m + m * m
  <2>1. i \in Nat /\ i <= N /\ N * N \in Nat
    BY <1>n
  <2>2. n * n \in Nat /\ m * m \in Nat /\ n * n <= N * N /\ m * m <= N * N
    BY <1>0, <1>n, NotLess
  <2>3. j \in Nat /\ j <= N * N
    <3>1. j = n * i + m * m /\ n * i \in Nat /\ N * N - j = 3 * (n * m) /\ n * m \in Nat
      BY <1>n, <2>1
    <3> QED
      BY <2>1, <2>2, <3>1
  <2> HIDE DEF i, j
  <2>4. Bounded(Real(i), N, 1) /\ Bounded(Real(j), N * N, 1)
    BY <1>0, <2>1, <2>3, BoundCount
  <2>5. Bounded(Real(n * n), N * N, 1) /\ Bounded(Real(m * m), N * N, 1)
    BY <2>1, <2>2, BoundCount
  <2> QED
    BY <1>w, <2>4, <2>5 DEF i, j
<1>d. /\ Real(w) = Real(N) /\ nn = Real(N * N) /\ nnn = Real(N * N * N)
      /\ N \in Nat \ {0} /\ N * N \in Nat \ {0} /\ N * N * N \in Nat \ {0}
  BY <1>0, <1>w
<1> HIDE DEF C, M, C2, C3, C4, D2, D3, D4, R1, R2, R3, S1, S2, S3, T1, T2, T3, T4
<1> HIDE DEF na, nb, w, nn, nnn, f, g, na2, nb2, delta
<1>l. /\ 2 * D2 <= R1 /\ 2 * R1 <= R2 /\ 2 * R2 <= R3 /\ 2 * D3 <= S1 /\ 2 * S1 <= S2 /\ 2 * S2 <= S3
      /\ 2 * D4 <= T1 /\ 2 * T1 <= T2 /\ 2 * T2 <= T3 /\ 2 * T3 <= T4
  <2>1. \A i \in Nat : 2 * i <= i * N
    BY <1>0
  <2> QED
    BY <1>0, <1>r, <2>1
<1>b. /\ M * C \in Nat /\ M * C2 \in Nat /\ M * C3 \in Nat /\ M * C4 \in Nat
      /\ 6 * D <= M * C
  <2>1. 2 * D <= D * N /\ D * N \in Nat
    BY <1>0
  <2> QED
    BY <1>0, <1>h, <2>1
<1>z. /\ Bounded(a.m2, R1, C2) /\ Bounded(b.m2, R1, C2)
      /\ Bounded(a.m3, 3 * S1, C3) /\ Bounded(b.m3, 3 * S1, C3)
  <2>1. n * D2 <= R1 /\ m * D2 <= R1 /\ 3 * (n * D3) <= 3 * S1 /\ 3 * (m * D3) <= 3 * S1 /\ 3 * S1 \in Nat
    BY <1>k, <1>r
  <2> QED
    BY <1>m, <1>r, <2>1, BoundWeaken
<1>1. Bounded(c1, B, C)
  <2>1. /\ B * n \in Nat /\ B * m \in Nat /\ B * n + B * m = B * N /\ B * N \in Nat
        /\ B * n <= M * C /\ B * m <= M * C
    BY <1>0, <1>n, <1>h
  <2>2. Bounded(a.m1 ** na, B * n, C) /\ Bounded(b.m1 ** nb, B * m, C)
    BY <1>m, <1>v, <2>1, BoundFactor DEF M
  <2>3. Bounded((a.m1 ** na) ++ (b.m1 ** nb), B * N, C)
    BY <1>h, <2>1, <2>2, BoundAdded DEF M
  <2>4. B <= M * C
    <3>1. B <= B * N
      BY <1>0
    <3> QED
      BY <1>0, <1>h, <2>1, <3>1
  <2> QED
    BY <1>d, <2>1, <2>3, <2>4, BoundQuotient DEF M
<1>2. Bounded(delta2, D2, C2)
  <2>1. D2 \in Nat /\ (D) * (D) <= D2 /\ C2 = C * C /\ D2 <= M * C2
    BY <1>0, <1>r, <1>p, <1>h, <1>k, <1>l, <1>b
  <2> QED
    BY <1>m, <2>1, BoundProduct DEF M
<1> HIDE DEF delta2
<1>3. Bounded(delta3, D3, C3)
  <2>1. D3 \in Nat /\ (D2) * (D) <= D3 /\ C3 = C2 * C /\ D3 <= M * C3
    BY <1>0, <1>r, <1>p, <1>h, <1>k, <1>l, <1>b
  <2> QED
    BY <1>m, <1>2, <2>1, BoundProduct DEF M
<1>4. Bounded(delta4, D4, C4)
  <2>1. D4 \in Nat /\ (D2) * (D2) <= D4 /\ C4 = C2 * C2 /\ D4 <= M * C4
    BY <1>0, <1>r, <1>p, <1>h, <1>k, <1>l, <1>b
  <2> QED
    BY <1>2, <2>1, BoundProduct DEF M
<1> HIDE DEF delta3, delta4, c1
<1>5. Bounded(a.m2 ++ b.m2, R1, C2)
  <2>1. R1 \in Nat /\ n * D2 + m * D2 <= R1 /\ R1 <= M * C2
    BY <1>0, <1>r, <1>p, <1>h, <1>k, <1>l, <1>b
  <2> QED
    BY <1>m, <2>1, BoundAdded DEF M
<1>6. Bounded(delta2 ** na, R1, C2)
  <2>1. R1 \in Nat /\ (D2) * N <= R1 /\ R1 <= M * C2
    BY <1>0, <1>r, <1>p, <1>h, <1>k, <1>l, <1>b
  <2> QED
    BY <1>2, <1>v, <2>1, BoundFactor DEF M
<1>7. Bounded((delta2 ** na) ** nb, R2, C2)
  <2>1. R2 \in Nat /\ (R1) * N <= R2 /\ R2 <= M * C2
    BY <1>0, <1>r, <1>p, <1>h, <1>k, <1>l, <1>b
  <2> QED
    BY <1>6, <1>v, <2>1, BoundFactor DEF M
<1>8. Bounded(((delta2 ** na) ** nb) // Real(w), R1, C2)
  <2>1. R1 \in Nat /\ R2 <= (R1) * (N) /\ R1 <= M * C2
    BY <1>0, <1>r, <1>p, <1>h, <1>k, <1>l, <1>b
  <2> QED
    BY <1>7, <1>d, <2>1, BoundQuotient DEF M
<1>9. Bounded(c2, 2 * R1, C2)
  <2>1. 2 * R1 \in Nat /\ R1 + R1 <= 2 * R1 /\ 2 * R1 <= M * C2
    BY <1>0, <1>r, <1>p, <1>h, <1>k, <1>l, <1>b
  <2> QED
    BY <1>5, <1>8, <2>1, BoundAdded DEF M
<1> HIDE DEF c2
<1>10. Bounded(delta3 ** na, S1, C3)
  <2>1. S1 \in Nat /\ (D3) * N <= S1 /\ S1 <= M * C3
    BY <1>0, <1>r, <1>p, <1>h, <1>k, <1>l, <1>b
  <2> QED
    BY <1>3, <1>v, <2>1, BoundFactor DEF M
<1>11. Bounded((delta3 ** na) ** nb, S2, C3)
  <2>1. S2 \in Nat /\ (S1) * N <= S2 /\ S2 <= M * C3
    BY <1>0, <1>r, <1>p, <1>h, <1>k, <1>l, <1>b
  <2> QED
    BY <1>10, <1>v, <2>1, BoundFactor DEF M
<1>12. Bounded(((delta3 ** na) ** nb) ** f, S3, C3)
  <2>1. S3 \in Nat /\ (S2) * N <= S3 /\ S3 <= M * C3
    BY <1>0, <1>r, <1>p, <1>h, <1>k, <1>l, <1>b
  <2> QED
    BY <1>11, <1>g, <2>1, BoundFactor DEF M
<1>13. Bounded(x3, S1, C3)
  <2>1. S1 \in Nat /\ S3 <= (S1) * (N * N) /\ S1 <= M * C3
    BY <1>0, <1>r, <1>p, <1>h, <1>k, <1>l, <1>b
  <2> QED
    BY <1>12, <1>d, <2>1, BoundQuotient DEF M
<1> HIDE DEF x3
<1>14. Bounded(na ** b.m2, R2, C2)
  <2>1. R2 \in Nat /\ (R1) * N <= R2 /\ R2 <= M * C2
    BY <1>0, <1>r, <1>p, <1>h, <1>k, <1>l, <1>b
  <2> QED
    BY <1>z, <1>v, <2>1, BoundFactor DEF M
<1>15. Bounded(nb ** a.m2, R2, C2)
  <2>1. R2 \in Nat /\ (R1) * N <= R2 /\ R2 <= M * C2
    BY <1>0, <1>r, <1>p, <1>h, <1>k, <1>l, <1>b
  <2> QED
    BY <1>z, <1>v, <2>1, BoundFactor DEF M
<1>16. Bounded(y3, 2 * R2, C2)
  <2>1. 2 * R2 \in Nat /\ R2 + R2 <= 2 * R2 /\ 2 * R2 <= M * C2
    BY <1>0, <1>r, <1>p, <1>h, <1>k, <1>l, <1>b
  <2> QED
    BY <1>14, <1>15, <2>1, BoundAdded DEF M
<1> HIDE DEF y3
<1>17. Bounded(Three ** delta, 3 * D, C)
  <2>1. 3 * D \in Nat /\ (D) * 3 <= 3 * D /\ 3 * D <= M * C
    BY <1>0, <1>r, <1>p, <1>h, <1>k, <1>l, <1>b
  <2> QED
    BY <1>m, <1>v, <2>1, BoundFactor DEF M
<1>18. Bounded((Three ** delta) ** y3, 6 * S2, C3)
  <2>1. 6 * S2 \in Nat /\ (3 * D) * (2 * R2) <= 6 * S2 /\ C3 = C * C2 /\ 6 * S2 <= M * C3
    BY <1>0, <1>r, <1>p, <1>h, <1>k, <1>l, <1>b
  <2> QED
    BY <1>16, <1>17, <2>1, BoundProduct DEF M
<1>19. Bounded(z3, 6 * S1, C3)
  <2>1. 6 * S1 \in Nat /\ 6 * S2 <= (6 * S1) * (N) /\ 6 * S1 <= M * C3
    BY <1>0, <1>r, <1>p, <1>h, <1>k, <1>l, <1>b
  <2> QED
    BY <1>18, <1>d, <2>1, BoundQuotient DEF M
<1> HIDE DEF z3
<1>20. Bounded(a.m3 ++ b.m3, 3 * S1, C3)
  <2>1. 3 * S1 \in Nat /\ 3 * (n * D3) + 3 * (m * D3) <= 3 * S1 /\ 3 * S1 <= M * C3
    BY <1>0, <1>r, <1>p, <1>h, <1>k, <1>l, <1>b
  <2> QED
    BY <1>m, <2>1, BoundAdded DEF M
<1>21. Bounded((a.m3 ++ b.m3) ++ x3, 4 * S1, C3)
  <2>1. 4 * S1 \in Nat /\ 3 * S1 + S1 <= 4 * S1 /\ 4 * S1 <= M * C3
    BY <1>0, <1>r, <1>p, <1>h, <1>k, <1>l, <1>b
  <2> QED
    BY <1>13, <1>20, <2>1, BoundAdded DEF M
<1>22. Bounded(c3, 10 * S1, C3)
  <2>1. 10 * S1 \in Nat /\ 4 * S1 + 6 * S1 <= 10 * S1 /\ 10 * S1 <= M * C3
    BY <1>0, <1>r, <1>p, <1>h, <1>k, <1>l, <1>b
  <2> QED
    BY <1>19, <1>21, <2>1, BoundAdded DEF M
<1> HIDE DEF c3
<1>23. Bounded(delta4 ** na, T1, C4)
  <2>1. T1 \in Nat /\ (D4) * N <= T1 /\ T1 <= M * C4
    BY <1>0, <1>r, <1>p, <1>h, <1>k, <1>l, <1>b
  <2> QED
    BY <1>4, <1>v, <2>1, BoundFactor DEF M
<1>24. Bounded((delta4 ** na) ** nb, T2, C4)
  <2>1. T2 \in Nat /\ (T1) * N <= T2 /\ T2 <= M * C4
    BY <1>0, <1>r, <1>p, <1>h, <1>k, <1>l, <1>b
  <2> QED
    BY <1>23, <1>v, <2>1, BoundFactor DEF M
<1>25. Bounded(((delta4 ** na) ** nb) ** g, T4, C4)
  <2>1. T4 \in Nat /\ (T2) * (N * N) <= T4 /\ T4 <= M * C4
    BY <1>0, <1>r, <1>p, <1>h, <1>k, <1>l, <1>b
  <2> QED
    BY <1>24, <1>g, <2>1, BoundFactor DEF M
<1>26. Bounded(x4, T1, C4)
  <2>1. T1 \in Nat /\ T4 <= (T1) * (N * N * N) /\ T1 <= M * C4
    BY <1>0, <1>r, <1>p, <1>h, <1>k, <1>l, <1>b
  <2> QED
    BY <1>25, <1>d, <2>1, BoundQuotient DEF M
<1> HIDE DEF x4
<1>27. Bounded(na2 ** b.m2, R3, C2)
  <2>1. R3 \in Nat /\ (R1) * (N * N) <= R3 /\ R3 <= M * C2
    BY <1>0, <1>r, <1>p, <1>h, <1>k, <1>l, <1>b
  <2> QED
    BY <1>z, <1>g, <2>1, BoundFactor DEF M
<1>28. Bounded(nb2 ** a.m2, R3, C2)
  <2>1. R3 \in Nat /\ (R1) * (N * N) <= R3 /\ R3 <= M * C2
    BY <1>0, <1>r, <1>p, <1>h, <1>k, <1>l, <1>b
  <2> QED
    BY <1>z, <1>g, <2>1, BoundFactor DEF M
<1>29. Bounded(y4, 2 * R3, C2)
  <2>1. 2 * R3 \in Nat /\ R3 + R3 <= 2 * R3 /\ 2 * R3 <= M * C2
    BY <1>0, <1>r, <1>p, <1>h, <1>k, <1>l, <1>b
  <2> QED
    BY <1>27, <1>28, <2>1, BoundAdded DEF M
<1> HIDE DEF y4
<1>30. Bounded(Six ** delta2, 6 * D2, C2)
  <2>1. 6 * D2 \in Nat /\ (D2) * 6 <= 6 * D2 /\ 6 * D2 <= M * C2
    BY <1>0, <1>r, <1>p, <1>h, <1>k, <1>l, <1>b
  <2> QED
    BY <1>2, <1>v, <2>1, BoundFactor DEF M
<1>31. Bounded((Six ** delta2) ** y4, 12 * T3, C4)
  <2>1. 12 * T3 \in Nat /\ (6 * D2) * (2 * R3) <= 12 * T3 /\ C4 = C2 * C2 /\ 12 * T3 <= M * C4
    BY <1>0, <1>r, <1>p, <1>h, <1>k, <1>l, <1>b
  <2> QED
    BY <1>29, <1>30, <2>1, BoundProduct DEF M
<1>32. Bounded(z4, 12 * T1, C4)
  <2>1. 12 * T1 \in Nat /\ 12 * T3 <= (12 * T1) * (N * N) /\ 12 * T1 <= M * C4
    BY <1>0, <1>r, <1>p, <1>h, <1>k, <1>l, <1>b
  <2> QED
    BY <1>31, <1>d, <2>1, BoundQuotient DEF M
<1> HIDE DEF z4
<1>33. Bounded(na ** b.m3, 3 * S2, C3)
  <2>1. 3 * S2 \in Nat /\ (3 * S1) * N <= 3 * S2 /\ 3 * S2 <= M * C3
    BY <1>0, <1>r, <1>p, <1>h, <1>k, <1>l, <1>b
  <2> QED
    BY <1>z, <1>v, <2>1, BoundFactor DEF M
<1>34. Bounded(nb ** a.m3, 3 * S2, C3)
  <2>1. 3 * S2 \in Nat /\ (3 * S1) * N <= 3 * S2 /\ 3 * S2 <= M * C3
    BY <1>0, <1>r, <1>p, <1>h, <1>k, <1>l, <1>b
  <2> QED
    BY <1>z, <1>v, <2>1, BoundFactor DEF M
<1>35. Bounded(v4, 6 * S2, C3)
  <2>1. 6 * S2 \in Nat /\ 3 * S2 + 3 * S2 <= 6 * S2 /\ 6 * S2 <= M * C3
    BY <1>0, <1>r, <1>p, <1>h, <1>k, <1>l, <1>b
  <2> QED
    BY <1>33, <1>34, <2>1, BoundAdded DEF M
<1> HIDE DEF v4
<1>36. Bounded(Four ** delta, 4 * D, C)
  <2>1. 4 * D \in Nat /\ (D) * 4 <= 4 * D /\ 4 * D <= M * C
    BY <1>0, <1>r, <1>p, <1>h, <1>k, <1>l, <1>b
  <2> QED
    BY <1>m, <1>v, <2>1, BoundFactor DEF M
<1>37. Bounded((Four ** delta) ** v4, 24 * T2, C4)
  <2>1. 24 * T2 \in Nat /\ (4 * D) * (6 * S2) <= 24 * T2 /\ C4 = C * C3 /\ 24 * T2 <= M * C4
    BY <1>0, <1>r, <1>p, <1>h, <1>k, <1>l, <1>b
  <2> QED
    BY <1>35, <1>36, <2>1, BoundProduct DEF M
<1>38. Bounded(w4, 24 * T1, C4)
  <2>1. 24 * T1 \in Nat /\ 24 * T2 <= (24 * T1) * (N) /\ 24 * T1 <= M * C4
    BY <1>0, <1>r, <1>p, <1>h, <1>k, <1>l, <1>b
  <2> QED
    BY <1>37, <1>d, <2>1, BoundQuotient DEF M
<1> HIDE DEF w4
<1>39. Bounded(a.m4 ++ b.m4, 7 * T1, C4)
  <2>1. 7 * T1 \in Nat /\ 7 * (n * D4) + 7 * (m * D4) <= 7 * T1 /\ 7 * T1 <= M * C4
    BY <1>0, <1>r, <1>p, <1>h, <1>k, <1>l, <1>b
  <2> QED
    BY <1>m, <2>1, BoundAdded DEF M
<1>40. Bounded((a.m4 ++ b.m4) ++ x4, 8 * T1, C4)
  <2>1. 8 * T1 \in Nat /\ 7 * T1 + T1 <= 8 * T1 /\ 8 * T1 <= M * C4
    BY <1>0, <1>r, <1>p, <1>h, <1>k, <1>l, <1>b
  <2> QED
    BY <1>26, <1>39, <2>1, BoundAdded DEF M
<1>41. Bounded(((a.m4 ++ b.m4) ++ x4) ++ z4, 20 * T1, C4)
  <2>1. 20 * T1 \in Nat /\ 8 * T1 + 12 * T1 <= 20 * T1 /\ 20 * T1 <= M * C4
    BY <1>0, <1>r, <1>p, <1>h, <1>k, <1>l, <1>b
  <2> QED
    BY <1>32, <1>40, <2>1, BoundAdded DEF M
<1>42. Bounded(c4, 44 * T1, C4)
  <2>1. 44 * T1 \in Nat /\ 20 * T1 + 24 * T1 <= 44 * T1 /\ 44 * T1 <= M * C4
    BY <1>0, <1>r, <1>p, <1>h, <1>k, <1>l, <1>b
  <2> QED
    BY <1>38, <1>41, <2>1, BoundAdded DEF M
<1> HIDE DEF c4
<1> QED
  BY <1>c, <1>1, <1>9, <1>22, <1>42, BoundedFields DEF Numbers

\* Lower powers are not too large either.
LEMMA Room ==
    ASSUME NEW N \in Nat \ {0}, NEW B \in Nat, NEW D \in Nat, 6 * (N * N) <= MaxDouble,
           (B * N) * (B * N) <= MaxDouble * (Scale * Scale), NEW q, q = D * N,
           6 * (q * q * q * q) <= MaxDouble * (Scale * Scale * Scale * Scale)
    PROVE  /\ B * N <= MaxDouble * Scale /\ B * B <= MaxDouble * (Scale * Scale)
           /\ 6 * q <= MaxDouble * Scale /\ 6 * (q * q) <= MaxDouble * (Scale * Scale)
           /\ 6 * (q * q * q) <= MaxDouble * (Scale * Scale * Scale)
           /\ 6 * (q * q * N) <= MaxDouble * (Scale * Scale)
<1> DEFINE M == MaxDouble  C == Scale  C2 == C * C  C3 == C * C * C  C4 == C * C * C * C
           q2 == q * q  q3 == q * q * q  q4 == q * q * q * q
<1>1. /\ M \in Nat \ {0} /\ C \in Nat \ {0} /\ q \in Nat
      /\ C2 \in Nat \ {0} /\ C3 \in Nat \ {0} /\ C4 \in Nat \ {0}
      /\ C2 = C * C /\ C3 = C2 * C /\ C4 = C3 * C /\ C4 = C2 * C2
      /\ q2 \in Nat /\ q3 \in Nat /\ q4 \in Nat /\ q2 = q * q /\ q3 = q2 * q /\ q4 = q3 * q
      /\ q4 = q2 * q2
  BY ResultsConstants, DoublesAssumption
<1>2. 6 * q4 <= M * C4 /\ (B * N) * (B * N) <= M * C2 /\ 6 * (N * N) <= M
  OBVIOUS
<1> HIDE DEF M, C, C2, C3, C4, q2, q3, q4
<1>3. 6 <= M /\ N * N \in Nat
  <2>1. 1 <= N * N
    OBVIOUS
  <2> QED
    BY <1>1, <1>2, <2>1
<1>4. B * N <= M * C
  <2>1. M * C2 <= (M * C) * (M * C)
    <3>1. 1 * (M * C2) <= M * (M * C2)
      BY <1>1, <1>3, ProductMonotone
    <3> QED
      BY <1>1, <3>1
  <2>2. (B * N) * (B * N) <= (M * C) * (M * C) /\ B * N \in Nat /\ M * C \in Nat
    BY <1>1, <1>2, <2>1
  <2> QED
    BY <2>2, SquareOrder
<1>5. B * B <= M * C2
  <2>1. B <= B * N /\ B * N \in Nat
    OBVIOUS
  <2>2. B * B <= (B * N) * (B * N)
    BY <2>1, NotLess
  <2> QED
    BY <1>1, <1>2, <2>1, <2>2
<1>6. 6 * q <= M * C /\ 6 * q2 <= M * C2 /\ 6 * q3 <= M * C3
  <2>1. CASE q <= C
    <3>1. q2 <= C2
      BY <1>1, <2>1, NotLess
    <3>2. q3 <= C3
      BY <1>1, <2>1, <3>1, NotLess
    <3>3. \A i, j \in Nat : i <= j => 6 * i <= M * j
      BY <1>1, <1>3, NotLess
    <3> QED
      BY <1>1, <2>1, <3>1, <3>2, <3>3
  <2>2. CASE C <= q
    <3>1. ASSUME NEW i \in Nat, NEW j \in Nat, 6 * (i * q) <= M * (j * C) PROVE 6 * i <= M * j
      <4>1. C * (6 * i) <= q * (6 * i)
        BY <1>1, <2>2, ProductMonotone
      <4>2. (6 * i) * C <= (M * j) * C
        BY <1>1, <3>1, <4>1
      <4> QED
        BY <1>1, <4>2, CancelOrder
    <3>2. 6 * q3 <= M * C3
      BY <1>1, <1>2, <3>1
    <3>3. 6 * q2 <= M * C2
      BY <1>1, <3>1, <3>2
    <3>4. 6 * q <= M * C
      BY <1>1, <3>1, <3>3
    <3> QED
      BY <3>2, <3>3, <3>4
  <2> QED
    BY <1>1, <2>1, <2>2
<1>7. 6 * (q2 * N) <= M * C2
  <2>1. (6 * (N * N)) * (6 * q4) <= M * (M * C4)
    BY <1>1, <1>2, <1>3, NotLess
  <2>2. (6 * (q2 * N)) * (6 * (q2 * N)) = (6 * (N * N)) * (6 * q4)
    BY <1>1
  <2>3. M * (M * C4) = (M * C2) * (M * C2)
    BY <1>1
  <2>4. 6 * (q2 * N) \in Nat /\ M * C2 \in Nat
    BY <1>1
  <2> QED
    BY <2>1, <2>2, <2>3, <2>4, SquareOrder
<1> QED
  BY <1>4, <1>5, <1>6, <1>7 DEF M, C, C2, C3, q2, q3

\* Tame data have a smallest and a largest value.
LEMMA Span ==
    ASSUME NEW S, S \subseteq Int, NEW N \in Nat \ {0}, Tame(S, N)
    PROVE  \E A \in Int, D \in Nat, B \in Nat :
             /\ Within(S, A, D) /\ \A x \in S : -B <= x /\ x <= B
             /\ (B * N) * (B * N) <= MaxDouble * (Scale * Scale)
             /\ 6 * ((D * N) * (D * N) * (D * N) * (D * N))
                  <= MaxDouble * (Scale * Scale * Scale * Scale)
<1> DEFINE M == MaxDouble  C == Scale
<1>0. M \in Nat \ {0} /\ C \in Nat \ {0} /\ C * C \in Nat /\ C * C * C * C \in Nat
  BY ResultsConstants, DoublesAssumption
<1>1. ASSUME NEW x \in S, NEW y \in S
      PROVE  /\ (x * N) * (x * N) <= M * (C * C)
             /\ 6 * (((x - y) * N) * ((x - y) * N) * ((x - y) * N) * ((x - y) * N)) <= M * (C * C * C * C)
  BY DEF Tame, Power
<1> HIDE DEF M, C
<1>2. CASE S = {}
  <2>1. 0 * N = 0 /\ 0 <= M * (C * C) /\ 0 <= M * (C * C * C * C)
    BY <1>0
  <2> QED
    BY <1>2, <2>1 DEF Within, M, C
<1>3. CASE S # {}
  <2> DEFINE L == M * (C * C)
  <2>1. L \in Nat
    BY <1>0
  <2>2. ASSUME NEW x \in S PROVE -L <= x /\ x <= L
    <3>1. x * x <= L
      <4> DEFINE i == Abs(x)
      <4>1. i \in Nat /\ i * i = x * x /\ i <= i * N /\ (i * N) * (i * N) = (x * N) * (x * N) /\ i * N \in Nat
        BY DEF Abs
      <4> HIDE DEF i
      <4>2. i * i <= (i * N) * (i * N)
        BY <4>1, NotLess
      <4>3. (x * N) * (x * N) <= L /\ x * N \in Int /\ x * x \in Int
        BY <1>1
      <4> HIDE DEF L
      <4> QED
        BY <2>1, <4>1, <4>2, <4>3
    <3>2. x <= x * x /\ -x <= x * x /\ x \in Int /\ x * x \in Int
      <4>1. x \in Int
        OBVIOUS
      <4>2. x >= 1 => x * x >= x
        BY <4>1
      <4>3. x <= -1 => x * x >= -x
        BY <4>1
      <4>4. x * x >= 0
        BY <4>1
      <4> QED
        BY <4>1, <4>2, <4>3, <4>4
    <3> HIDE DEF L
    <3> QED
      BY <2>1, <3>1, <3>2
  <2> HIDE DEF L
  <2>3. PICK A \in S : \A x \in S : A <= x
    <3> DEFINE T == {x + L : x \in S}
    <3>0. \A x \in S : x \in Int /\ L - x \in Nat /\ x + L \in Nat
      BY <2>1, <2>2
    <3>1. T \subseteq Nat /\ T # {}
      BY <1>3, <3>0
    <3>2. PICK l \in T : \A k \in T : l <= k
      BY <3>1, LeastNumber
    <3>3. PICK x \in S : l = x + L
      BY <3>2
    <3>4. \A y \in S : x <= y
      BY <2>1, <3>2, <3>3
    <3> QED
      BY <3>4
  <2>4. PICK Z \in S : \A x \in S : x <= Z
    <3> DEFINE T == {L - x : x \in S}
    <3>0. \A x \in S : x \in Int /\ L - x \in Nat /\ x + L \in Nat
      BY <2>1, <2>2
    <3>1. T \subseteq Nat /\ T # {}
      BY <1>3, <3>0
    <3>2. PICK l \in T : \A k \in T : l <= k
      BY <3>1, LeastNumber
    <3>3. PICK x \in S : l = L - x
      BY <3>2
    <3>4. ASSUME NEW y \in S PROVE y <= x
      <4>1. L - y \in T
        OBVIOUS
      <4>2. L - x <= L - y
        BY <3>2, <3>3, <4>1
      <4>3. x \in Int /\ y \in Int /\ L - x \in Nat /\ L - y \in Nat /\ L \in Int
        BY <2>1, <3>0
      <4> QED
        BY <4>2, <4>3
    <3> QED
      BY <3>4
  <2> DEFINE D == Z - A  B == IF Abs(A) <= Abs(Z) THEN Abs(Z) ELSE Abs(A)
  <2>5. A \in Int /\ Z \in Int /\ D \in Nat /\ B \in Nat
    BY <2>3, <2>4 DEF Abs
  <2>6. Within(S, A, D)
    BY <2>3, <2>4, <2>5 DEF Within
  <2>7. \A x \in S : -B <= x /\ x <= B
    BY <2>3, <2>4, <2>5 DEF Abs
  <2>8. (B * N) * (B * N) <= M * (C * C)
    <3>1. B = A \/ B = -A \/ B = Z \/ B = -Z
      BY DEF Abs
    <3>2. (A * N) * (A * N) <= M * (C * C) /\ (Z * N) * (Z * N) <= M * (C * C)
      BY <1>1
    <3>3. /\ ((-A) * N) * ((-A) * N) = (A * N) * (A * N)
          /\ ((-Z) * N) * ((-Z) * N) = (Z * N) * (Z * N)
      BY <2>5
    <3> HIDE DEF B
    <3> QED
      BY <3>1, <3>2, <3>3
  <2>9. 6 * ((D * N) * (D * N) * (D * N) * (D * N)) <= M * (C * C * C * C)
    BY <1>1
  <2> HIDE DEF D, B
  <2> QED
    BY <2>5, <2>6, <2>7, <2>8, <2>9 DEF M, C
<1> QED
  BY <1>2, <1>3

\* An accumulator that follows data near to each other.
LEMMA FollowsBounded ==
    ASSUME NEW a \in Accumulator, NEW s \in Sums, Tracked(a, s), Numbers(a), CubeFits,
           NEW S, Made(s, S), NEW A \in Int, NEW D \in Nat, Within(S, A, D),
           NEW B \in Nat, \A x \in S : -B <= x /\ x <= B
    PROVE  /\ MomentsBounded(a, a.n, D) /\ Bounded(a.m1, B, Scale)
<1> DEFINE n == a.n  d == IF n = 0 THEN 1 ELSE n  C == Scale
           p1 == s[1]
           A2 == Second(n, s[1], s[2])
           A3 == Third(n, s[1], s[2], s[3])
           A4 == Fourth(n, s[1], s[2], s[3], s[4])
           D2 == D * D  D3 == D * D * D  D4 == D * D * D * D
<1>0. n \in Nat /\ n = s[0] /\ C \in Nat \ {0} /\ D2 \in Nat /\ D3 \in Nat /\ D4 \in Nat
  BY AccumulatorFields, ResultsConstants DEF Tracked
<1>1. /\ Ratio(a.m1, p1, d * C) /\ Ratio(a.m2, A2, d * C * C) /\ Ratio(a.m3, A3, d * d * C * C * C)
      /\ Ratio(a.m4, A4, d * d * d * C * C * C * C)
  BY <1>0 DEF Tracked, Moments
<1>2. /\ Abs(A2) <= (n * D2) * n /\ Abs(A3) <= (3 * n * D3) * (n * n)
      /\ Abs(A4) <= (7 * n * D4) * (n * n * n)
  BY <1>0, MomentBounds
<1>3. Abs(p1) <= B * n
  BY <1>0, MeanBounds
<1>4. A2 \in Int /\ A3 \in Int /\ A4 \in Int /\ p1 \in Int
  <2>1. s[0] \in Int /\ s[1] \in Int /\ s[2] \in Int /\ s[3] \in Int /\ s[4] \in Int
    BY SumsFacts
  <2> QED
    BY <1>0, <2>1, MomentTypes
<1>5. Abs(A2) \in Nat /\ Abs(A3) \in Nat /\ Abs(A4) \in Nat /\ Abs(p1) \in Nat
  BY <1>4, Absolute
<1>6. d \in Nat \ {0} /\ n <= d
  BY <1>0
<1> HIDE DEF n, d, C, A2, A3, A4, D2, D3, D4, p1
<1> DEFINE U == n * D2  V == n * D3  X == n * D4
<1>7. /\ U \in Nat /\ V \in Nat /\ X \in Nat
      /\ Abs(A2) <= U * n /\ Abs(A3) <= (3 * V) * (n * n) /\ Abs(A4) <= (7 * X) * (n * n * n)
  BY <1>0, <1>2
<1> HIDE DEF U, V, X
<1>8. n * n \in Nat /\ n * n * n \in Nat /\ n * n <= d * d /\ n * n * n <= d * d * d
      /\ d * d \in Nat \ {0} /\ d * d * d \in Nat \ {0}
  BY <1>0, <1>6, PowersBounded
<1>9. /\ Abs(p1) <= B * d /\ Abs(A2) <= U * d /\ Abs(A3) <= (3 * V) * (d * d)
      /\ Abs(A4) <= (7 * X) * (d * d * d)
  <2>1. /\ B * n <= B * d /\ U * n <= U * d /\ (3 * V) * (n * n) <= (3 * V) * (d * d)
        /\ (7 * X) * (n * n * n) <= (7 * X) * (d * d * d)
    <3>1. 3 * V \in Nat /\ 7 * X \in Nat
      BY <1>7
    <3> QED
      BY <1>0, <1>6, <1>7, <1>8, <3>1, NotLess
  <2>2. /\ B * n \in Nat /\ U * n \in Nat /\ (3 * V) * (n * n) \in Nat /\ (7 * X) * (n * n * n) \in Nat
        /\ B * d \in Nat /\ U * d \in Nat /\ (3 * V) * (d * d) \in Nat /\ (7 * X) * (d * d * d) \in Nat
    BY <1>0, <1>6, <1>7, <1>8
  <2> QED
    BY <1>3, <1>5, <1>7, <2>1, <2>2
<1>t. ASSUME NEW x, NEW p, NEW f \in Nat \ {0}, NEW E \in Nat \ {0}, NEW h, h = f * E, Ratio(x, p, h),
             NEW I \in Nat, Abs(p) <= I * f
      PROVE  Bounded(x, I, E)
  <2>1. p \in Int /\ Abs(p) \in Nat
    BY <1>t, Absolute DEF Ratio
  <2>2. Abs(p) * E <= (I * f) * E
    BY <1>t, <2>1, ProductMonotone
  <2>3. (I * f) * E = I * (f * E)
    BY <1>t
  <2> QED
    BY <1>t, <2>2, <2>3, RatioBounded
<1>10. /\ d * C * C = d * (C * C) /\ d * d * C * C * C = (d * d) * (C * C * C)
       /\ d * d * d * C * C * C * C = (d * d * d) * (C * C * C * C)
       /\ C * C \in Nat \ {0} /\ C * C * C \in Nat \ {0} /\ C * C * C * C \in Nat \ {0}
       /\ 3 * V \in Nat /\ 7 * X \in Nat
  BY <1>0, <1>6, <1>7
<1>11. Bounded(a.m1, B, C)
  BY <1>0, <1>1, <1>6, <1>9, <1>t
<1>12. Bounded(a.m2, U, C * C)
  BY <1>1, <1>6, <1>7, <1>9, <1>10, <1>t
<1>13. Bounded(a.m3, 3 * V, C * C * C)
  BY <1>1, <1>8, <1>9, <1>10, <1>t
<1>14. Bounded(a.m4, 7 * X, C * C * C * C)
  BY <1>1, <1>8, <1>9, <1>10, <1>t
<1> QED
  BY <1>11, <1>12, <1>13, <1>14 DEF MomentsBounded, n, C, D2, D3, D4, U, V, X

\* The difference of two means of data near to each other.
LEMMA DeltaBounded ==
    ASSUME NEW x, NEW y, NEW s \in Sums, NEW S, Made(s, S), NEW t \in Sums, NEW T, Made(t, T),
           NEW A \in Int, NEW D \in Nat, Within(S, A, D), Within(T, A, D),
           NEW n, n = s[0], NEW m, m = t[0], n # 0, m # 0,
           Ratio(x, s[1], n * Scale), Ratio(y, t[1], m * Scale), D <= MaxDouble * Scale
    PROVE  Bounded(y -- x, D, Scale)
<1> DEFINE C == Scale  p == s[1]  r == t[1]  w == n * r - m * p  v == r * (n * C) - p * (m * C)
<1>1. n \in Nat \ {0} /\ m \in Nat \ {0} /\ p \in Int /\ r \in Int /\ C \in Nat \ {0}
  BY SumsFacts, ResultsConstants
<1>2. Abs(w) <= D * (n * m)
  BY MeansNear
<1>3. v = w * C /\ w \in Int
  BY <1>1
<1> HIDE DEF w, v
<1>4. Abs(v) * C <= D * ((m * C) * (n * C))
  <2>1. Abs(v) = Abs(w) * C /\ Abs(w) \in Nat
    BY <1>1, <1>3, AbsoluteMultiple, Absolute
  <2> DEFINE e == D * (n * m)  f == C * C
  <2>2. e \in Nat /\ f \in Nat /\ Abs(w) <= e /\ D * ((m * C) * (n * C)) = e * f
    BY <1>1, <1>2
  <2>3. (Abs(w) * C) * C = Abs(w) * f
    BY <1>1, <2>1
  <2> HIDE DEF e, f
  <2>4. Abs(w) * f <= e * f
    BY <2>1, <2>2, ProductMonotone
  <2> QED
    BY <2>1, <2>2, <2>3, <2>4
<1> QED
  BY <1>1, <1>4, RatioSumBounded DEF v, C, p, r

LEMMA NumberFinite == \A x \in Number : Finite(x)
BY DoubleCases, SomeDoubles

\* Numbers that are results of operations are valid.
LEMMA CombineValid ==
    ASSUME NEW a \in Accumulator, NEW b \in Accumulator, Numbers(Combine(a, b))
    PROVE  valid(Combine(a, b))
BY CombineDoubles, NumberFinite DEF Numbers, valid, valueNormalOrZero

LEMMA PushLaneValid ==
    ASSUME NEW a \in Accumulator, NEW x \in Double, Numbers(PushLane(a, x))
    PROVE  valid(PushLane(a, x))
BY PushLaneDoubles, NumberFinite DEF Numbers, valid, valueNormalOrZero

\* A lane whose value is masked: zero is added to its moments.
LEMMA MaskedFits ==
    ASSUME NEW a \in Accumulator, NEW s \in Sums, Tracked(a, s), Numbers(a), CubeFits,
           NEW S, Made(s, S), NEW n, n = a.n, 6 * (n * n) <= MaxDouble, Tame(S, n),
           NEW x \in Double, ~valuesValid(x)
    PROVE  Numbers(PushLane(a, x))
<1> DEFINE b == PushLane(a, x)  C == Scale  M == MaxDouble
<1>1. b.m1 = a.m1 ++ Zero /\ b.m2 = a.m2 ++ Zero /\ b.m3 = a.m3 ++ Zero /\ b.m4 = a.m4 ++ Zero
  BY DEF PushLane, Accumulator, maskDouble4
<1>2. /\ n \in Nat /\ s[0] = n /\ C \in Nat \ {0} /\ M \in Nat
      /\ C * C \in Nat \ {0} /\ C * C * C \in Nat \ {0} /\ C * C * C * C \in Nat \ {0}
  BY AccumulatorFields, ResultsConstants, DoublesAssumption DEF Tracked
<1> HIDE DEF b
<1>3. \E A \in Int, D \in Nat, B \in Nat :
        /\ Within(S, A, D) /\ \A y \in S : -B <= y /\ y <= B
        /\ B <= M * C /\ n * (D * D) <= M * (C * C) /\ 3 * (n * (D * D * D)) <= M * (C * C * C)
        /\ 7 * (n * (D * D * D * D)) <= M * (C * C * C * C)
  <2>0. S \subseteq Int
    BY DEF Made
  <2>1. CASE n = 0
    <3>1. S = {}
      BY <1>2, <2>1 DEF Made
    <3>2. 0 <= M * C /\ 0 <= M * (C * C) /\ 0 <= M * (C * C * C) /\ 0 <= M * (C * C * C * C)
      BY <1>2
    <3> QED
      BY <2>1, <3>1, <3>2 DEF Within
  <2>2. CASE n = 1
    <3>n. n \in Nat \ {0}
      BY <1>2, <2>2
    <3>1. PICK A \in Int, D \in Nat, B \in Nat :
            /\ Within(S, A, D) /\ \A y \in S : -B <= y /\ y <= B
            /\ (B * n) * (B * n) <= MaxDouble * (Scale * Scale)
            /\ 6 * ((D * n) * (D * n) * (D * n) * (D * n))
                 <= MaxDouble * (Scale * Scale * Scale * Scale)
      BY <2>0, <3>n, Span
    <3>2. B <= M * C
      <4>1. B * n <= M * C
        <5> DEFINE q == D * n
        <5>1. 6 * (q * q * q * q) <= MaxDouble * (Scale * Scale * Scale * Scale)
          BY <3>1
        <5>2. (B * n) * (B * n) <= MaxDouble * (Scale * Scale)
          BY <3>1
        <5> HIDE DEF q
        <5> QED
          BY <3>n, <5>1, <5>2, Room DEF q
      <4> QED
        BY <2>2, <4>1
    <3>3. \E z \in Int : Within(S, z, 0)
      <4>1. \A y, z \in S : y = z
        BY <1>2, <2>2 DEF Made
      <4> QED
        BY <2>0, <4>1 DEF Within
    <3>4. 0 <= M * C /\ 0 <= M * (C * C) /\ 0 <= M * (C * C * C) /\ 0 <= M * (C * C * C * C)
      BY <1>2
    <3> QED
      BY <2>2, <3>1, <3>2, <3>3, <3>4
  <2>3. CASE n >= 2
    <3>n. n \in Nat \ {0}
      BY <1>2, <2>3
    <3>1. PICK A \in Int, D \in Nat, B \in Nat :
            /\ Within(S, A, D) /\ \A y \in S : -B <= y /\ y <= B
            /\ (B * n) * (B * n) <= MaxDouble * (Scale * Scale)
            /\ 6 * ((D * n) * (D * n) * (D * n) * (D * n))
                 <= MaxDouble * (Scale * Scale * Scale * Scale)
      BY <2>0, <3>n, Span
    <3> DEFINE q == D * n
    <3>2. /\ B * n <= M * C /\ 6 * (q * q) <= M * (C * C) /\ 6 * (q * q * q) <= M * (C * C * C)
          /\ 6 * (q * q * q * q) <= M * (C * C * C * C)
      <4>1. n \in Nat \ {0}
        BY <1>2, <2>3
      <4>2. 6 * (q * q * q * q) <= MaxDouble * (Scale * Scale * Scale * Scale)
        BY <3>1
      <4>3. (B * n) * (B * n) <= MaxDouble * (Scale * Scale)
        BY <3>1
      <4> HIDE DEF q
      <4> QED
        BY <4>1, <4>2, <4>3, Room DEF q
    <3>3. B <= B * n
      BY <1>2, <2>3
    <3> DEFINE d2 == D * D  d3 == D * D * D  d4 == D * D * D * D  n2 == n * n
    <3>4. d2 \in Nat /\ d3 \in Nat /\ d4 \in Nat /\ n2 \in Nat /\ 2 * n <= n2
      BY <1>2, <2>3
    <3>5. q * q = d2 * n2 /\ q * q * q = d3 * (n2 * n) /\ q * q * q * q = d4 * (n2 * n2)
      BY <1>2
    <3> HIDE DEF q, d2, d3, d4, n2
    <3>6. n * d2 <= 6 * (d2 * n2) /\ 3 * (n * d3) <= 6 * (d3 * (n2 * n))
          /\ 7 * (n * d4) <= 6 * (d4 * (n2 * n2))
      <4>1. /\ n <= n2 /\ n <= n2 * n /\ 4 * n <= n2 * n2 /\ n2 * n \in Nat /\ n2 * n2 \in Nat
        <5>1. (2 * n) * (2 * n) <= n2 * n2
          BY <1>2, <3>4, NotLess
        <5>2. (2 * n) * n <= n2 * n
          BY <1>2, <3>4, NotLess
        <5>3. 2 * n <= n * n /\ n * n \in Nat
          BY <1>2, <2>3
        <5> QED
          BY <1>2, <3>4, <5>1, <5>2, <5>3
      <4>2. d2 * n <= d2 * n2 /\ d3 * n <= d3 * (n2 * n) /\ d4 * (4 * n) <= d4 * (n2 * n2)
        BY <1>2, <3>4, <4>1, NotLess
      <4>3. d2 * n2 \in Nat /\ d3 * (n2 * n) \in Nat /\ d4 * (n2 * n2) \in Nat
        BY <1>2, <3>4, <4>1
      <4> QED
        BY <1>2, <3>4, <4>2, <4>3
    <3>7. n * d2 \in Nat /\ n * d3 \in Nat /\ n * d4 \in Nat /\ d2 * n2 \in Nat
          /\ d3 * (n2 * n) \in Nat /\ d4 * (n2 * n2) \in Nat
      BY <1>2, <3>4
    <3>8. /\ B <= M * C /\ n * d2 <= M * (C * C) /\ 3 * (n * d3) <= M * (C * C * C)
          /\ 7 * (n * d4) <= M * (C * C * C * C)
      <4>1. B * n \in Nat /\ M * C \in Nat /\ M * (C * C) \in Nat /\ M * (C * C * C) \in Nat
            /\ M * (C * C * C * C) \in Nat
        BY <1>2
      <4> QED
        BY <3>2, <3>3, <3>5, <3>6, <3>7, <4>1
    <3> QED
      BY <3>1, <3>8 DEF d2, d3, d4
  <2> QED
    BY <1>2, <2>1, <2>2, <2>3
<1>4. PICK A \in Int, D \in Nat, B \in Nat :
        /\ Within(S, A, D) /\ \A y \in S : -B <= y /\ y <= B
        /\ B <= M * C /\ n * (D * D) <= M * (C * C) /\ 3 * (n * (D * D * D)) <= M * (C * C * C)
        /\ 7 * (n * (D * D * D * D)) <= M * (C * C * C * C)
  BY <1>3
<1>5. MomentsBounded(a, n, D) /\ Bounded(a.m1, B, C)
  BY <1>4, FollowsBounded
<1>6. /\ Bounded(a.m2, n * (D * D), C * C) /\ Bounded(a.m3, 3 * (n * (D * D * D)), C * C * C)
      /\ Bounded(a.m4, 7 * (n * (D * D * D * D)), C * C * C * C)
  BY <1>5 DEF MomentsBounded
<1>7. ASSUME NEW y, NEW I \in Nat, NEW E \in Nat \ {0}, Bounded(y, I, E), I <= M * E
      PROVE  y ++ Zero \in Number
  <2>1. Bounded(Zero, 0, E)
    BY SomeDoubles DEF Bounded, Abs, Zero
  <2>2. Bounded(y ++ Zero, I + 0, E)
    BY <1>7, <2>1, BoundPlus
  <2> QED
    BY <2>2, BoundedFields
<1>8. n * (D * D) \in Nat /\ 3 * (n * (D * D * D)) \in Nat /\ 7 * (n * (D * D * D * D)) \in Nat
  BY <1>2
<1>9. /\ a.m1 ++ Zero \in Number /\ a.m2 ++ Zero \in Number /\ a.m3 ++ Zero \in Number
      /\ a.m4 ++ Zero \in Number
  <2> HIDE DEF C, M
  <2>1. a.m1 ++ Zero \in Number
    BY <1>2, <1>4, <1>5, <1>7
  <2>2. a.m2 ++ Zero \in Number
    BY <1>2, <1>4, <1>6, <1>7, <1>8
  <2>3. a.m3 ++ Zero \in Number
    BY <1>2, <1>4, <1>6, <1>7, <1>8
  <2>4. a.m4 ++ Zero \in Number
    BY <1>2, <1>4, <1>6, <1>7, <1>8
  <2> QED
    BY <2>1, <2>2, <2>3, <2>4
<1> QED
  BY <1>1, <1>9 DEF Numbers, b

\* A lane to which a value is pushed.
LEMMA PushedFits ==
    ASSUME NEW a \in Accumulator, NEW s \in Sums, Tracked(a, s), Numbers(a), CubeFits,
           NEW S, Made(s, S), NEW x \in Double, valuesValid(x),
           NEW X \in Int, Ratio(x, X, Scale),
           NEW N, N = a.n + 1, 6 * (N * N) <= MaxDouble, Tame(S \cup {X}, N)
    PROVE  Numbers(PushLane(a, x))
<1> DEFINE C == Scale  M == MaxDouble  n == a.n
           C2 == C * C  C3 == C * C * C  C4 == C * C * C * C
<1>1. /\ n \in Nat /\ s[0] = n /\ C \in Nat \ {0} /\ M \in Nat /\ N \in Nat \ {0} /\ N = n + 1
      /\ C2 \in Nat \ {0} /\ C3 \in Nat \ {0} /\ C4 \in Nat \ {0}
  BY AccumulatorFields, ResultsConstants, DoublesAssumption DEF Tracked
<1>2. S \cup {X} \subseteq Int
  BY DEF Made
<1>3. PICK A \in Int, D \in Nat, B \in Nat :
        /\ Within(S \cup {X}, A, D) /\ \A y \in S \cup {X} : -B <= y /\ y <= B
        /\ (B * N) * (B * N) <= MaxDouble * (Scale * Scale)
        /\ 6 * ((D * N) * (D * N) * (D * N) * (D * N)) <= MaxDouble * (Scale * Scale * Scale * Scale)
  BY <1>1, <1>2, Span
<1> DEFINE q == D * N
<1>4. /\ B * N <= M * C /\ B * B <= M * C2 /\ 6 * q <= M * C /\ 6 * (q * q) <= M * C2
      /\ 6 * (q * q * q) <= M * C3 /\ 6 * (q * q * q * q) <= M * C4
  <2>1. /\ 6 * (q * q * q * q) <= MaxDouble * (Scale * Scale * Scale * Scale)
        /\ (B * N) * (B * N) <= MaxDouble * (Scale * Scale)
    BY <1>3
  <2> HIDE DEF q
  <2> QED
    BY <1>1, <2>1, Room DEF q
<1>5. Within(S, A, D) /\ Within({X}, A, D)
  BY <1>3, WithinPart
<1>6. \E I \in Nat, e \in Nat :
        /\ Bounded(a.m1, I, C) /\ MomentsBounded(a, n, e) /\ Bounded(x -- a.m1, e, C)
        /\ I + e <= M * C /\ e * N <= M * C /\ e * e <= M * C2 /\ 2 * (n * (e * e)) <= M * C2
        /\ n * (e * e * e) * N + 6 * (n * (e * e * e)) <= M * C3
        /\ n * (e * e * e * e) * (N * N) + 25 * (n * (e * e * e * e)) <= M * C4
  <2>1. CASE n = 0
    <3>1. S = {}
      BY <1>1, <2>1 DEF Made
    <3>2. MomentsBounded(a, n, B) /\ Bounded(a.m1, 0, C)
      <4>1. Within(S, A, B) /\ \A y \in S : -0 <= y /\ y <= 0
        BY <3>1 DEF Within
      <4> QED
        BY <4>1, FollowsBounded
    <3>3. B <= M * C
      BY <1>1, <1>4, <2>1
    <3>4. Bounded(x, B, C)
      <4>1. Abs(X) <= B /\ Abs(X) \in Nat
        <5>1. -B <= X /\ X <= B
          BY <1>3
        <5>2. -X <= B
          BY <5>1
        <5> QED
          BY <5>1, <5>2, Absolute
      <4>2. Abs(X) * C <= B * C
        BY <1>1, <4>1, ProductMonotone
      <4> HIDE DEF C
      <4> QED
        BY <1>1, <4>2, RatioBounded DEF C
    <3>5. Bounded(x -- a.m1, B, C)
      <4>1. B + 0 = B
        OBVIOUS
      <4>2. Bounded(x -- a.m1, B + 0, C)
        BY <3>2, <3>3, <3>4, <4>1, BoundPlus
      <4> QED
        BY <4>1, <4>2
    <3>6. /\ 0 + B <= M * C /\ B * N <= M * C /\ B * B <= M * C2 /\ 2 * (n * (B * B)) <= M * C2
          /\ n * (B * B * B) * N + 6 * (n * (B * B * B)) <= M * C3
          /\ n * (B * B * B * B) * (N * N) + 25 * (n * (B * B * B * B)) <= M * C4
      <4> HIDE DEF M, C2, C3, C4, C
      <4>0. /\ B * B \in Nat /\ B * B * B \in Nat /\ B * B * B * B \in Nat
            /\ \A i \in Nat : 0 * i = 0 /\ 2 * 0 = 0 /\ 6 * 0 = 0 /\ 25 * 0 = 0
            /\ M * C2 \in Nat /\ M * C3 \in Nat /\ M * C4 \in Nat /\ N * N \in Nat
        BY <1>1
      <4> QED
        BY <1>1, <1>4, <2>1, <3>3, <4>0
    <3> QED
      BY <3>2, <3>5, <3>6
  <2>2. CASE n # 0
    <3>1. MomentsBounded(a, n, D) /\ Bounded(a.m1, B, C)
      BY <1>3, <1>5, FollowsBounded
    <3>2. n \in Nat \ {0} /\ N >= 2
      BY <1>1, <2>2
    <3>3. D <= M * C
      <4>1. D <= q /\ q \in Nat /\ q <= 6 * q
        BY <1>1
      <4> HIDE DEF q
      <4> QED
        BY <1>1, <1>4, <4>1
    <3>4. Bounded(x -- a.m1, D, C)
      <4>1. Powers(X) \in Sums /\ Powers(X)[0] = 1 /\ Powers(X)[1] = X
        BY PowersFacts
      <4>2. Made(Powers(X), {X})
        BY MadeOne
      <4>3. Ratio(a.m1, s[1], n * Scale)
        BY <1>1, <3>2 DEF Tracked, Moments
      <4>4. 1 * Scale = Scale
        BY <1>1
      <4>5. Ratio(x, Powers(X)[1], 1 * Scale) /\ 1 # 0
        BY <4>1, <4>4
      <4> QED
        BY <1>1, <1>5, <3>2, <3>3, <4>1, <4>2, <4>3, <4>5, DeltaBounded
    <3> DEFINE d2 == D * D  d3 == D * D * D  d4 == D * D * D * D  N2 == N * N  N3 == N2 * N  N4 == N2 * N2
    <3>5. /\ d2 \in Nat /\ d3 \in Nat /\ d4 \in Nat /\ N2 \in Nat /\ N3 \in Nat /\ N4 \in Nat
          /\ 2 * N <= N2 /\ 2 * N2 <= N3 /\ 2 * N3 <= N4
      <4>1. d2 \in Nat /\ d3 \in Nat /\ d4 \in Nat /\ N2 \in Nat /\ N3 \in Nat /\ N4 \in Nat
        BY <1>1
      <4>2. 2 * N <= N2
        BY <1>1, <3>2
      <4>3. N4 = N3 * N
        BY <1>1
      <4> HIDE DEF N2
      <4>4. 2 * N2 <= N3
        BY <1>1, <3>2, <4>1
      <4> HIDE DEF N3, N4
      <4>5. 2 * N3 <= N4
        BY <1>1, <3>2, <4>1, <4>3
      <4> QED
        BY <4>1, <4>2, <4>4, <4>5
    <3>6. q * q = d2 * N2 /\ q * q * q = d3 * N3 /\ q * q * q * q = d4 * N4
      BY <1>1
    <3>7. D * N = q /\ q \in Nat /\ 2 * D <= q /\ q \in Nat
      BY <1>1, <3>2
    <3>8. 2 * B <= B * N /\ B * N \in Nat
      BY <1>1, <3>2
    <3> HIDE DEF q, d2, d3, d4, N2, N3, N4, M, C, C2, C3, C4
    <3>9. M * C \in Nat /\ M * C2 \in Nat /\ M * C3 \in Nat /\ M * C4 \in Nat
      BY <1>1
    <3>10. B + D <= M * C /\ q <= M * C
      BY <1>4, <3>7, <3>8, <3>9
    <3>11. d2 <= M * C2 /\ 2 * (n * d2) <= M * C2
      <4>1. n <= N2 /\ 1 <= N2
        BY <1>1, <3>2, <3>5
      <4>2. d2 * 1 <= d2 * N2 /\ d2 * n <= d2 * N2
        BY <1>1, <3>5, <4>1, NotLess
      <4>3. d2 * N2 \in Nat /\ d2 * n = n * d2 /\ n * d2 \in Nat /\ d2 * 1 = d2
        BY <1>1, <3>5
      <4>4. 6 * (d2 * N2) <= M * C2
        BY <1>4, <3>6
      <4> QED
        BY <3>5, <3>9, <4>2, <4>3, <4>4
    <3>12. n * d3 * N + 6 * (n * d3) <= M * C3
      <4>1. n * N + 6 * n <= 6 * N3
        <5>1. n * N <= N2
          <6>1. n * N <= N * N
            BY <1>1, NotLess
          <6> QED
            BY <6>1 DEF N2
        <5>2. n * N \in Nat
          BY <1>1
        <5> QED
          BY <1>1, <3>2, <3>5, <5>1, <5>2
      <4>2. n * N + 6 * n \in Nat /\ 6 * N3 \in Nat
        BY <1>1, <3>5
      <4>3. d3 * (n * N + 6 * n) <= d3 * (6 * N3)
        BY <3>5, <4>1, <4>2, NotLess
      <4>4. d3 * (n * N + 6 * n) = n * d3 * N + 6 * (n * d3) /\ d3 * (6 * N3) = 6 * (d3 * N3)
        BY <1>1, <3>5
      <4>5. 6 * (d3 * N3) <= M * C3 /\ 6 * (d3 * N3) \in Nat /\ n * d3 * N + 6 * (n * d3) \in Nat
        BY <1>1, <1>4, <3>5, <3>6
      <4> QED
        BY <3>9, <4>3, <4>4, <4>5
    <3>13. n * d4 * (N * N) + 25 * (n * d4) <= M * C4
      <4>0. N * N = N2
        BY DEF N2
      <4>1. n * N2 + 25 * n <= 6 * N4
        <5>1. n * N2 <= N * N2
          BY <1>1, <3>5, NotLess
        <5>2. n * N2 \in Nat /\ N * N2 = N3
          BY <1>1, <3>5 DEF N3
        <5> QED
          BY <1>1, <3>2, <3>5, <5>1, <5>2
      <4>2. n * N2 + 25 * n \in Nat /\ 6 * N4 \in Nat
        BY <1>1, <3>5
      <4>3. d4 * (n * N2 + 25 * n) <= d4 * (6 * N4)
        BY <3>5, <4>1, <4>2, NotLess
      <4>4. d4 * (n * N2 + 25 * n) = n * d4 * N2 + 25 * (n * d4) /\ d4 * (6 * N4) = 6 * (d4 * N4)
        BY <1>1, <3>5
      <4>5. 6 * (d4 * N4) <= M * C4 /\ 6 * (d4 * N4) \in Nat /\ n * d4 * N2 + 25 * (n * d4) \in Nat
        BY <1>1, <1>4, <3>5, <3>6
      <4> QED
        BY <3>9, <4>0, <4>3, <4>4, <4>5
    <3> QED
      BY <3>1, <3>4, <3>7, <3>10, <3>11, <3>12, <3>13 DEF d2, d3, d4
  <2> QED
    BY <2>1, <2>2
<1>7. PICK I \in Nat, e \in Nat :
        /\ Bounded(a.m1, I, C) /\ MomentsBounded(a, n, e) /\ Bounded(x -- a.m1, e, C)
        /\ I + e <= M * C /\ e * N <= M * C /\ e * e <= M * C2 /\ 2 * (n * (e * e)) <= M * C2
        /\ n * (e * e * e) * N + 6 * (n * (e * e * e)) <= M * C3
        /\ n * (e * e * e * e) * (N * N) + 25 * (n * (e * e * e * e)) <= M * C4
  BY <1>6
<1>8. 3 * (N * N) <= M
  <2>1. N * N \in Nat
    BY <1>1
  <2> QED
    BY <1>1, <2>1
<1> QED
  BY <1>1, <1>7, <1>8, PushLaneFits

\* A lane stays valid when any value is pushed, as long as its data are tame.
LEMMA LanePushed ==
    ASSUME NEW a \in Accumulator, NEW s \in Sums, Tracked(a, s), valid(a), CubeFits,
           NEW S, Made(s, S), NEW x \in Values, NEW N, N = Added(s, Term(x))[0],
           6 * (N * N) <= MaxDouble, Tame(S \cup Addend(x), N)
    PROVE  valid(PushLane(a, x))
<1>0. x \in Double /\ (valuesValid(x) <=> valueNormalOrZero(x))
  BY ResultsConstants DEF valuesValid, valueNormalOrZero
<1>1. Numbers(a) /\ s[0] = a.n
  BY AccumulatorFields, NormalNumber DEF valid, Numbers, Tracked
<1>2. CASE valueNormalOrZero(x)
  <2> DEFINE X == Whole(x)
  <2>1. X \in Int /\ Ratio(x, X, Scale)
    BY <1>2, WholeFacts
  <2>2. Addend(x) = {X} /\ Added(s, Term(x)) = Added(s, Powers(X))
    BY <1>2 DEF Addend, Term
  <2> HIDE DEF X
  <2>3. N = a.n + 1
    <3>1. Added(s, Powers(X))[0] = s[0] + 1
      BY <2>1, CountAdded
    <3> QED
      BY <1>1, <2>2, <3>1
  <2>4. Numbers(PushLane(a, x))
    BY <1>0, <1>1, <1>2, <2>1, <2>2, <2>3, PushedFits
  <2> QED
    BY <1>0, <2>4, PushLaneValid
<1>3. CASE ~valueNormalOrZero(x)
  <2>1. N = a.n /\ S \cup Addend(x) = S
    BY <1>1, <1>3, Addition DEF Term, Addend
  <2>2. Numbers(PushLane(a, x))
    BY <1>0, <1>1, <1>3, <2>1, MaskedFits
  <2> QED
    BY <1>0, <2>2, PushLaneValid
<1> QED
  BY <1>2, <1>3

\* Two accumulators of data near to each other.
LEMMA CombineTame ==
    ASSUME NEW a \in Accumulator, NEW s \in Sums, Tracked(a, s), valid(a), NEW S, Made(s, S),
           NEW b \in Accumulator, NEW t \in Sums, Tracked(b, t), valid(b), NEW T, Made(t, T),
           0 < b.n, b.n <= a.n, CubeFits, NEW N, N = a.n + b.n, Fits(N),
           6 * (N * N) <= MaxDouble, Tame(S \cup T, N)
    PROVE  valid(Combine(a, b))
<1> DEFINE C == Scale  M == MaxDouble  n == a.n  m == b.n
<1>1. /\ n \in Nat \ {0} /\ m \in Nat \ {0} /\ s[0] = n /\ t[0] = m /\ N \in Nat \ {0}
      /\ C \in Nat \ {0} /\ M \in Nat
      /\ M * (C * C) \in Nat /\ M * (C * C * C) \in Nat /\ M * (C * C * C * C) \in Nat
  BY AccumulatorFields, ResultsConstants, DoublesAssumption DEF Tracked
<1>2. S \cup T \subseteq Int
  BY DEF Made
<1>3. PICK A \in Int, D \in Nat, B \in Nat :
        /\ Within(S \cup T, A, D) /\ \A y \in S \cup T : -B <= y /\ y <= B
        /\ (B * N) * (B * N) <= MaxDouble * (Scale * Scale)
        /\ 6 * ((D * N) * (D * N) * (D * N) * (D * N)) <= MaxDouble * (Scale * Scale * Scale * Scale)
  BY <1>1, <1>2, Span
<1> DEFINE q == D * N
<1>4. /\ B * N <= M * C /\ 6 * q <= M * C /\ 6 * (q * q * N) <= M * (C * C)
      /\ 6 * (q * q * q) <= M * (C * C * C) /\ 6 * (q * q * q * q) <= M * (C * C * C * C)
  <2>1. /\ 6 * (q * q * q * q) <= MaxDouble * (Scale * Scale * Scale * Scale)
        /\ (B * N) * (B * N) <= MaxDouble * (Scale * Scale)
    BY <1>3
  <2> HIDE DEF q
  <2> QED
    BY <1>1, <2>1, Room DEF q
<1>5. Within(S, A, D) /\ Within(T, A, D)
  BY <1>3, WithinPart
<1>6. Numbers(a) /\ Numbers(b)
  BY AccumulatorFields, NormalNumber DEF valid, Numbers
<1>7. MomentsBounded(a, n, D) /\ Bounded(a.m1, B, C)
  BY <1>3, <1>5, <1>6, FollowsBounded
<1>8. MomentsBounded(b, m, D) /\ Bounded(b.m1, B, C)
  BY <1>3, <1>5, <1>6, FollowsBounded
<1>9. Bounded(b.m1 -- a.m1, D, C)
  <2>1. D <= M * C
    <3>1. D <= q /\ q \in Nat /\ q <= 6 * q
      BY <1>1
    <3> HIDE DEF q
    <3> QED
      BY <1>1, <1>4, <3>1
  <2>2. Ratio(a.m1, s[1], n * Scale) /\ Ratio(b.m1, t[1], m * Scale)
    BY <1>1, <1>6 DEF Tracked, Moments
  <2> QED
    BY <1>1, <1>5, <2>1, <2>2, DeltaBounded
<1>10. /\ q * q * N = D * D * N * N * N /\ q * q * q = D * D * D * N * N * N
       /\ q * q * q * q = D * D * D * D * N * N * N * N
  BY <1>1
<1>11. Numbers(Combine(a, b))
  BY <1>1, <1>4, <1>7, <1>8, <1>9, <1>10, CombineFits
<1> QED
  BY <1>11, CombineValid

----------------------------------------------------------------------------
(* Tame data                                                               *)

\* Fewer data are tame, too.
LEMMA TamePart ==
    ASSUME NEW T \in SUBSET Int, NEW m \in Nat, Tame(T, m), NEW S \in SUBSET T, NEW k \in Nat, k <= m
    PROVE  Tame(S, k)
<1> DEFINE M == MaxDouble  C == Scale
<1>1. M * (C * C) \in Nat /\ M * (C * C * C * C) \in Nat
  BY ResultsConstants, DoublesAssumption
<1>2. ASSUME NEW i \in Int
      PROVE  /\ (i * k) * (i * k) <= (i * m) * (i * m)
             /\ (i * k) * (i * k) * (i * k) * (i * k) <= (i * m) * (i * m) * (i * m) * (i * m)
             /\ (i * k) * (i * k) \in Int /\ (i * m) * (i * m) \in Int
             /\ (i * k) * (i * k) * (i * k) * (i * k) \in Int
             /\ (i * m) * (i * m) * (i * m) * (i * m) \in Int
  <2> DEFINE u == (i * k) * (i * k)  v == (i * m) * (i * m)  w == i * i
  <2>1. w \in Nat /\ k * k <= m * m /\ u = w * (k * k) /\ v = w * (m * m)
    <3>1. w \in Nat
      BY DEF w
    <3> QED
      BY <3>1, NotLess
  <2>2. u <= v /\ u \in Nat /\ v \in Nat
    <3> HIDE DEF u, v, w
    <3>1. k * k \in Nat /\ m * m \in Nat
      OBVIOUS
    <3> QED
      BY <2>1, <3>1, NotLess
  <2>3. u * u <= v * v
    <3> HIDE DEF u, v
    <3> QED
      BY <2>2, NotLess
  <2>4. /\ (i * k) * (i * k) * (i * k) * (i * k) = u * u
        /\ (i * m) * (i * m) * (i * m) * (i * m) = v * v
    OBVIOUS
  <2>5. u * u \in Int /\ v * v \in Int
    OBVIOUS
  <2> QED
    BY <2>2, <2>3, <2>4, <2>5
<1>3. ASSUME NEW x \in S, NEW y \in S
      PROVE  /\ (x * k) * (x * k) <= M * (C * C)
             /\ 6 * (((x - y) * k) * ((x - y) * k) * ((x - y) * k) * ((x - y) * k)) <= M * (C * C * C * C)
  <2>1. /\ (x * m) * (x * m) <= M * (C * C)
        /\ 6 * (((x - y) * m) * ((x - y) * m) * ((x - y) * m) * ((x - y) * m)) <= M * (C * C * C * C)
    BY DEF Tame, Power
  <2> DEFINE z == x - y
  <2>2. z \in Int /\ x \in Int
    OBVIOUS
  <2> DEFINE f == (z * k) * (z * k) * (z * k) * (z * k)  g == (z * m) * (z * m) * (z * m) * (z * m)
             h == (x * k) * (x * k)  j == (x * m) * (x * m)
  <2>3. f <= g /\ h <= j /\ f \in Int /\ g \in Int /\ h \in Int /\ j \in Int
    <3> HIDE DEF z
    <3> QED
      BY <1>2, <2>2
  <2>4. j <= M * (C * C) /\ 6 * g <= M * (C * C * C * C)
    BY <2>1
  <2>5. h <= M * (C * C) /\ 6 * f <= M * (C * C * C * C)
    <3> HIDE DEF f, g, h, j, M, C
    <3> QED
      BY <1>1, <2>3, <2>4
  <2> QED
    BY <2>5
<1> QED
  BY <1>3 DEF Tame, Power

\* One more is merged and nothing is dropped.
LEMMA MergeWhole ==
    ASSUME NEW n \in Nat, NEW g \in [1..n -> Sums], NEW S, \A j \in 1..n : Made(g[j], S[j]),
           NEW J \in SUBSET (1..n), NEW i \in 1..n, i \notin J,
           NEW a \in Accumulator, valid(a), GatheredFrom(a, J, g, S, n),
           NEW b \in Accumulator, valid(b), Follows(b, g[i], S[i]),
           \A j \in J : g[i][0] > 0 => g[j][0] = 0 \/ g[j][0] >= g[i][0],
           CubeFits, NEW K, K = J \cup {i}, NEW N, N = Gather(g, K, n)[0],
           Fits(N), 6 * (N * N) <= MaxDouble, Tame(UnionOf(S, K), N)
    PROVE  valid(Merge(a, b)) /\ GatheredFrom(Merge(a, b), K, g, S, n)
<1> DEFINE s == Gather(g, J, n)  t == g[i]  U == UnionOf(S, J)  T == S[i]
<1>1. /\ Follows(a, s, U) /\ Follows(b, t, T) /\ s \in Sums /\ t \in Sums
      /\ Made(s, U) /\ Made(t, T)
      /\ a.n > 0 => \E j \in J : 0 < g[j][0] /\ g[j][0] <= a.n
  BY GatherFacts, GatherMade DEF GatheredFrom
<1>2. Gather(g, K, n) = Added(s, t) /\ UnionOf(S, K) = U \cup T
  <2>1. Gather(g, J \cup {i}, n) = Added(Gather(g, J, n), g[i])
    BY GatherFacts
  <2>2. UnionOf(S, J \cup {i}) = UnionOf(S, J) \cup S[i]
    BY DEF UnionOf
  <2> QED
    BY <2>1, <2>2
<1>t. t = g[i] /\ T = S[i]
  OBVIOUS
<1> HIDE DEF s, t, U, T
<1>3. a.n = s[0] /\ b.n = t[0] /\ a.n \in Nat /\ b.n \in Nat /\ N = a.n + b.n
  BY <1>1, <1>2, AccumulatorFields, AddedFacts DEF Follows, Tracked
<1>4. ASSUME NEW c, NEW d, valid(c), Follows(c, Added(s, t), U \cup T),
             c.n > 0 => \E j \in K : 0 < g[j][0] /\ g[j][0] <= c.n,
             d.n = c.n, d.m1 = c.m1, d.m2 = c.m2, d.m3 = c.m3, d.m4 = c.m4,
             d.isIntegerDistribution = c.isIntegerDistribution
      PROVE  valid(d) /\ GatheredFrom(d, K, g, S, n)
  BY <1>2, <1>4 DEF GatheredFrom, Follows, Tracked, Numbers, valid
<1>5. CASE b.n = 0
  <2>1. t = NoSums /\ T = {}
    BY <1>1, <1>3, <1>5, EmptyData
  <2>2. Added(s, t) = s /\ U \cup T = U
    BY <1>1, <2>1, Addition
  <2>3. Merge(a, b) = [a EXCEPT !.numericalErrorWhileMerging = TRUE]
    BY <1>5, MergeCases DEF Empty
  <2> QED
    BY <1>1, <1>4, <2>2, <2>3 DEF Accumulator
<1>6. CASE b.n # 0 /\ a.n = 0
  <2>1. s = NoSums /\ U = {}
    BY <1>1, <1>3, <1>6, EmptyData
  <2>2. Added(s, t) = t /\ U \cup T = T
    BY <1>1, <2>1, Addition
  <2>3. Merge(a, b) = [b EXCEPT !.numericalErrorWhileMerging = TRUE]
    BY <1>6, MergeCases DEF Empty
  <2>4. 0 < g[i][0] /\ g[i][0] <= b.n
    BY <1>3, <1>6, <1>t
  <2> QED
    BY <1>1, <1>4, <2>2, <2>3, <2>4 DEF Accumulator
<1>7. CASE b.n # 0 /\ a.n # 0
  <2>1. PICK j \in J : 0 < g[j][0] /\ g[j][0] <= a.n
    BY <1>1, <1>3, <1>7
  <2>2. 0 < b.n /\ b.n <= a.n
    <3>1. g[j] \in Sums /\ g[j][0] \in Nat
      BY SumsFacts
    <3> QED
      BY <1>3, <1>7, <1>t, <2>1, <3>1
  <2>3. Follows(Combine(a, b), Added(s, t), U \cup T)
    BY <1>1, <1>3, <2>2, CombineFollows
  <2>4. valid(Combine(a, b))
    <3>1. Tracked(a, s) /\ Tracked(b, t) /\ Tame(U \cup T, N)
      BY <1>1, <1>2 DEF Follows
    <3> QED
      BY <1>1, <1>3, <2>2, <3>1, CombineTame
  <2>5. Merge(a, b) = Combine(a, b)
    BY <1>7, <2>4, MergeCases DEF Empty
  <2>6. j \in K /\ g[j][0] <= Combine(a, b).n
    <3>1. Combine(a, b).n = N
      BY <1>1, <1>3, <2>3, AddedFacts DEF Follows, Tracked
    <3>2. g[j] \in Sums /\ g[j][0] \in Nat
      BY SumsFacts
    <3> QED
      BY <1>3, <2>1, <3>1, <3>2
  <2> QED
    BY <1>4, <2>1, <2>3, <2>4, <2>5, <2>6
<1> QED
  BY <1>5, <1>6, <1>7

\* A merge from left to right of accumulators of tame data follows all of it.
LEMMA SumWhole ==
    ASSUME NEW n \in Nat \ {0}, NEW v \in [1..n -> Accumulator],
           NEW N \in Nat, NEW g \in [1..N -> Sums], NEW S, NEW f, Picks(v, n, f, g, S, N),
           InOrder(g, N), \A j \in 1..N : Made(g[j], S[j]), \A i \in 1..n : valid(v[i]),
           CubeFits, NEW k, k = Gather(g, FirstPicks(f, n), N)[0], Fits(k),
           6 * (k * k) <= MaxDouble, Tame(UnionOf(S, FirstPicks(f, n)), k)
    PROVE  /\ valid(MergeSums(v, n)[n])
           /\ GatheredFrom(MergeSums(v, n)[n], FirstPicks(f, n), g, S, N)
<1> DEFINE sum == MergeSums(v, n)
           P(i) == FirstPicks(f, i)
           G == {i \in 1..n : valid(sum[i]) /\ GatheredFrom(sum[i], P(i), g, S, N)}
<1>1. /\ sum \in [1..n -> Accumulator] /\ sum[1] = v[1]
      /\ \A i \in 2..n : sum[i] = Merge(sum[i - 1], v[i])
  BY MergeSumsFacts
<1>2. /\ f \in [1..n -> 1..N]
      /\ \A i, j \in 1..n : i < j => f[i] < f[j]
      /\ \A i \in 1..n : Follows(v[i], g[f[i]], S[f[i]])
  BY DEF Picks
<1>3. \A i \in 1..n : P(i) \in SUBSET P(n) /\ P(n) \in SUBSET (1..N)
  <2>1. ASSUME NEW i \in 1..n PROVE P(i) \subseteq P(n)
    <3>1. \A j \in 1..i : j \in 1..n
      OBVIOUS
    <3> QED
      BY <3>1 DEF FirstPicks
  <2>2. P(n) \subseteq 1..N
    BY <1>2 DEF FirstPicks
  <2> QED
    BY <2>1, <2>2
<1> HIDE DEF sum
<1>4. 1 \in G
  <2>1. 1 \in 1..n /\ P(1) = {f[1]} /\ f[1] \in 1..N /\ Follows(v[1], g[f[1]], S[f[1]])
    <3>1. 1 \in 1..n
      OBVIOUS
    <3>2. P(1) = {f[1]}
      BY DEF FirstPicks
    <3> QED
      BY <1>2, <3>1, <3>2
  <2> DEFINE j == f[1]
  <2>2. j \in 1..N /\ Follows(v[1], g[j], S[j]) /\ g[j] \in Sums
    BY <2>1
  <2> HIDE DEF j
  <2>3. Gather(g, {j}, N) = g[j] /\ UnionOf(S, {j}) = S[j]
    BY <2>2, GatherOne DEF UnionOf
  <2>4. v[1].n = g[j][0] /\ g[j][0] \in Nat
    BY <2>2, SumsFacts DEF Follows, Tracked
  <2>5. GatheredFrom(v[1], {j}, g, S, N)
    BY <2>2, <2>3, <2>4 DEF GatheredFrom
  <2>6. P(1) = {j}
    BY <2>1 DEF j
  <2> QED
    BY <1>1, <2>1, <2>5, <2>6
<1>5. ASSUME NEW i \in 2..n, i - 1 \in G PROVE i \in G
  <2> DEFINE J == P(i - 1)  a == sum[i - 1]  b == v[i]  h == f[i]  K == P(i)
             m == Gather(g, K, N)[0]  U == UnionOf(S, K)
  <2>1. i \in 1..n /\ i - 1 \in 1..n /\ valid(a) /\ GatheredFrom(a, J, g, S, N) /\ sum[i] = Merge(a, b)
    BY <1>1, <1>5
  <2>2. a \in Accumulator /\ b \in Accumulator /\ valid(b) /\ h \in 1..N /\ Follows(b, g[h], S[h])
    BY <1>1, <1>2, <2>1
  <2>3. K = J \cup {h}
    <3>1. 1..i = (1..(i - 1)) \cup {i}
      OBVIOUS
    <3> QED
      BY <3>1 DEF FirstPicks
  <2>4. J \in SUBSET (1..N) /\ \A j \in J : j < h
    <3>1. ASSUME NEW j \in 1..(i - 1) PROVE f[j] \in 1..N /\ f[j] < h
      <4>1. j \in 1..n /\ i \in 1..n /\ j < i
        BY <2>1
      <4> QED
        BY <1>2, <4>1
    <3> QED
      BY <3>1 DEF FirstPicks
  <2>5. h \notin J
    BY <2>2, <2>4
  <2>6. \A j \in J : g[h][0] > 0 => g[j][0] = 0 \/ g[j][0] >= g[h][0]
    BY <2>2, <2>4 DEF InOrder
  <2>7. K \in SUBSET P(n) /\ P(n) \in SUBSET (1..N)
    BY <1>3, <2>1
  <2>8. m \in Nat /\ k \in Nat /\ m <= k
    <3> DEFINE W == P(n)
    <3>0. K \in SUBSET W /\ W \in SUBSET (1..N) /\ k = Gather(g, W, N)[0]
      BY <2>7
    <3> HIDE DEF K, P, W
    <3>1. \A L : Gather(g, L, N) \in Sums
      BY GatherFacts
    <3>2. m <= k
      BY <3>0, GatherGrows
    <3> QED
      BY <3>0, <3>1, <3>2, SumsFacts
  <2>9. Fits(m)
    <3> HIDE DEF m
    <3> QED
      BY <2>8, FitsBelow
  <2>10. 6 * (m * m) <= MaxDouble
    <3> HIDE DEF m
    <3>1. m \in Nat /\ k \in Nat /\ m <= k
      BY <2>8
    <3>2. m * m <= k * k
      BY <3>1, PowersBounded
    <3>3. m * m \in Nat /\ k * k \in Nat /\ 6 * (k * k) <= MaxDouble /\ MaxDouble \in Nat
      BY <3>1, DoublesAssumption
    <3> QED
      BY <3>2, <3>3
  <2>11. Tame(U, m)
    <3> DEFINE W == P(n)  V == UnionOf(S, W)
    <3>1. V \in SUBSET Int
      <4>1. Made(Gather(g, W, N), V)
        BY <2>7, GatherMade
      <4> QED
        BY <4>1 DEF Made
    <3>2. U \in SUBSET V
      BY <2>7 DEF UnionOf
    <3>3. Tame(V, k)
      OBVIOUS
    <3> HIDE DEF U, V, W, m
    <3> QED
      BY <2>8, <3>1, <3>2, <3>3, TamePart
  <2> HIDE DEF J, a, b, h, K, P
  <2>12. valid(Merge(a, b)) /\ GatheredFrom(Merge(a, b), K, g, S, N)
    BY <2>1, <2>2, <2>3, <2>4, <2>5, <2>6, <2>9, <2>10, <2>11, MergeWhole
  <2> QED
    BY <2>1, <2>12 DEF K
<1> HIDE DEF G, P
<1>6. 1..n \subseteq G
  BY <1>4, <1>5, InductionFromOne
<1>7. n \in G
  BY <1>6
<1> QED
  BY <1>7 DEF G, P, sum

\* A value, a lane and a part have the sums of their data.
LEMMA MadeTerm ==
    ASSUME NEW x \in Double
    PROVE  Made(Term(x), Addend(x)) /\ Term(x) \in Sums
<1>1. CASE valueNormalOrZero(x)
  <2>1. Whole(x) \in Int
    BY <1>1, TermType
  <2> QED
    BY <1>1, <2>1, MadeOne, PowersFacts DEF Term, Addend
<1>2. CASE ~valueNormalOrZero(x)
  BY <1>2, MadeNone, Addition DEF Term, Addend
<1> QED
  BY <1>1, <1>2

LEMMA LaneMade ==
    ASSUME NEW data \in Seq(Double)
    PROVE  Made(LaneSums(data), LaneData(data))
<1> DEFINE n == Len(data)
           Seen(i) == {data[j] : j \in 1..i}
           T(i) == {Whole(x) : x \in Normal(Seen(i))}
           G == {i \in 0..n : Made(SumsTo(data, i), T(i))}
<1>0. n \in Nat /\ \A i \in 1..n : data[i] \in Double
  OBVIOUS
<1>1. \A i \in 0..n : SumsTo(data, i) \in Sums
  <2>1. ASSUME NEW i \in 0..n PROVE SumsTo(data, i) \in Sums
    <3>1. i \in Nat /\ \A j \in 1..i : data[j] \in Double
      BY <1>0
    <3> QED
      BY <3>1, SumsToFacts
  <2> QED
    BY <2>1
<1>2. /\ SumsTo(data, 0) = NoSums
      /\ \A i \in 0..(n - 1) : SumsTo(data, i + 1) = Added(SumsTo(data, i), Term(data[i + 1]))
  BY <1>0, SumsToFacts
<1>3. LaneSums(data) = SumsTo(data, n) /\ LaneData(data) = T(n)
  <2>1. ToSet(data) = Seen(n)
    BY DEF ToSet
  <2> QED
    BY <2>1 DEF LaneSums, LaneData
<1> HIDE DEF n
<1>4. 0 \in G
  <2>1. T(0) = {} /\ 0 \in 0..n
    BY <1>0 DEF Normal
  <2> QED
    BY <1>2, <2>1, MadeNone
<1>5. ASSUME NEW i \in 1..n, i - 1 \in G PROVE i \in G
  <2> DEFINE s == SumsTo(data, i - 1)  x == data[i]
  <2>1. i \in 0..n /\ i - 1 \in 0..(n - 1) /\ i - 1 \in 0..n /\ (i - 1) + 1 = i
    BY <1>0
  <2>2. SumsTo(data, i) = Added(s, Term(x)) /\ s \in Sums /\ Made(s, T(i - 1)) /\ x \in Double
    BY <1>0, <1>1, <1>2, <1>5, <2>1
  <2>3. T(i) = T(i - 1) \cup Addend(x)
    <3>1. Seen(i) = Seen(i - 1) \cup {x}
      <4>1. 1..i = (1..(i - 1)) \cup {i}
        BY <2>1
      <4> QED
        BY <4>1
    <3> HIDE DEF Seen
    <3>2. Normal(Seen(i)) = Normal(Seen(i - 1)) \cup (IF valueNormalOrZero(x) THEN {x} ELSE {})
      BY <3>1 DEF Normal
    <3> QED
      BY <3>2 DEF Addend
  <2> HIDE DEF s, x, T
  <2>4. Made(Term(x), Addend(x)) /\ Term(x) \in Sums
    BY <2>2, MadeTerm
  <2>5. Made(Added(s, Term(x)), T(i - 1) \cup Addend(x))
    <3> DEFINE t == Term(x)  U == T(i - 1)  V == Addend(x)
    <3>1. t \in Sums /\ Made(s, U) /\ Made(t, V)
      BY <2>2, <2>4
    <3> HIDE DEF t, U, V
    <3>2. Made(Added(s, t), U \cup V)
      BY <2>2, <3>1, MadeBoth
    <3> QED
      BY <3>2 DEF t, U, V
  <2> QED
    BY <2>1, <2>2, <2>3, <2>5
<1> HIDE DEF G, T
<1>6. 0..n \subseteq G
  BY <1>0, <1>4, <1>5, Induction
<1>7. n \in G
  BY <1>0, <1>6
<1> QED
  BY <1>3, <1>7 DEF G

LEMMA PartMade ==
    ASSUME NEW d, NEW part \in Seq(DatumOf(d))
    PROVE  /\ PartSums(d, part) \in [1..WidthOf(d) -> Sums]
           /\ \A lane \in 1..WidthOf(d) : Made(PartSums(d, part)[lane], PartData(d, part)[lane])
<1>1. ASSUME NEW lane \in 1..WidthOf(d) PROVE Made(PartSums(d, part)[lane], PartData(d, part)[lane])
  <2> DEFINE data == LaneOf(d, part, lane)
  <2>1. data \in Seq(Double)
    BY LaneType
  <2> HIDE DEF data
  <2>2. Made(LaneSums(data), LaneData(data))
    BY <2>1, LaneMade
  <2> QED
    BY <2>2 DEF data, PartSums, PartData
<1> QED
  BY <1>1, PartSumsType

\* What is not too large in all of the data of I is not in a part of it.
LEMMA TameOne ==
    ASSUME NEW n \in Nat, NEW g \in [1..n -> Sums], NEW S, \A j \in 1..n : Made(g[j], S[j]),
           NEW I \in SUBSET (1..n), NEW i \in I, Tame(UnionOf(S, I), Gather(g, I, n)[0])
    PROVE  Tame(S[i], g[i][0])
<1> DEFINE T == UnionOf(S, I)  m == Gather(g, I, n)[0]  U == S[i]  k == g[i][0]
<1>1. T \in SUBSET Int
  <2>1. Made(Gather(g, I, n), T)
    BY GatherMade
  <2> QED
    BY <2>1 DEF Made
<1>2. m \in Nat /\ k \in Nat
  <2>1. Gather(g, I, n) \in Sums /\ g[i] \in Sums
    BY GatherFacts
  <2> QED
    BY <2>1, SumsFacts
<1>3. k <= m
  <2>1. {i} \in SUBSET I /\ i \in 1..n
    OBVIOUS
  <2>2. Gather(g, {i}, n) = g[i]
    BY <2>1, GatherOne
  <2> DEFINE J == {i}
  <2>3. J \in SUBSET I
    BY <2>1
  <2> HIDE DEF J
  <2>4. Gather(g, J, n)[0] <= Gather(g, I, n)[0]
    BY <2>3, GatherGrows
  <2> QED
    BY <2>2, <2>4 DEF J
<1>4. U \in SUBSET T
  BY DEF UnionOf
<1>5. Tame(T, m)
  OBVIOUS
<1> HIDE DEF T, m, U, k
<1>6. Tame(U, k)
  BY <1>1, <1>2, <1>3, <1>4, <1>5, TamePart
<1> QED
  BY <1>6 DEF U, k

----------------------------------------------------------------------------
(* Nothing is dropped of tame data                                         *)

\* A lane of a vector accumulator is valid if its own data is tame.
LanesWhole(d, c, part) ==
    \A lane \in 1..Lanes :
      Tame(PartData(d, part)[lane], PartSums(d, part)[lane][0]) => valid(c[lane])

\* An item of tame data has that of all of its lanes.
ItemWhole(d, a, part) ==
    LET g == PartSums(d, part)
        T == UnionOf(PartData(d, part), 1..WidthOf(d))
        s == Gather(g, 1..WidthOf(d), WidthOf(d))
    IN  InOrder(g, WidthOf(d)) /\ Tame(T, s[0]) => Follows(a, s, T)

WholeInv ==
    /\ device = "avx2" => LanesWhole(device, current, open)
    /\ \A i \in 1..Len(items) : ItemWhole(kinds[i], items[i], parts[i])

\* Products of two counts, of values in the file, are far from infinite.
SquareFits == 6 * (MaxValues * MaxValues) <= MaxDouble

\* So are those of fewer values.
LEMMA SquareBelow ==
    ASSUME SquareFits, NEW n \in Nat, n <= MaxValues
    PROVE  6 * (n * n) <= MaxDouble
<1>1. n * n <= MaxValues * MaxValues /\ MaxValues \in Nat
  BY PowersBounded, ResultsConstants
<1>2. n * n \in Nat /\ MaxValues * MaxValues \in Nat /\ MaxDouble \in Nat
  BY <1>1, DoublesAssumption
<1> QED
  BY <1>1, <1>2 DEF SquareFits

\* A job stores an item of all the data that was pushed to its accumulator.
LEMMA ItemWholeCurrent ==
    ASSUME TypeOK, CurrentCount, CurrentFollows(device, current, open), OpenWidth * Len(open) <= MaxValues,
           Fits(MaxValues), CubeFits, SquareFits,
           device = "avx2" => LanesWhole(device, current, open)
    PROVE  ItemWhole(device, Item, open)
<1> DEFINE g == PartSums(device, open)
           S == PartData(device, open)
           w == WidthOf(device)
           I == 1..w
<1>0. device \in Kinds /\ Len(open) \in Nat /\ open \in Seq(DatumOf(device))
  BY DEF TypeOK, Datum
<1>1. g \in [1..w -> Sums] /\ w \in Nat \ {0} /\ \A j \in 1..w : Made(g[j], S[j])
  BY <1>0, PartMade, PartLanes
<1>2. SUFFICES ASSUME InOrder(g, w), Tame(UnionOf(S, I), Gather(g, I, w)[0])
               PROVE  Follows(Item, Gather(g, I, w), UnionOf(S, I))
  BY DEF ItemWhole
<1>3. CASE device # "avx2"
  <2>1. Item = CurrentLane(device, current, 1)
    BY <1>0, <1>3 DEF Item, CurrentLane, Kinds
  <2>2. 1 \in 1..w /\ I = {1}
    BY <1>0, <1>3, PartLanes
  <2>3. Follows(Item, g[1], S[1])
    BY <2>1, <2>2 DEF CurrentFollows
  <2> HIDE DEF g, S, w, I
  <2>4. Gather(g, {1}, w) = g[1]
    BY <1>1, <2>2, GatherOne
  <2>5. UnionOf(S, {1}) = S[1]
    BY DEF UnionOf
  <2> QED
    BY <2>2, <2>3, <2>4, <2>5
<1>4. CASE device = "avx2"
  <2> DEFINE l == Len(open)
             u == [i \in 0..Lanes |-> i * l]
             f == [i \in 1..Lanes |-> i]
             k == Gather(g, I, w)[0]
  <2>1. /\ current \in [1..Lanes -> Accumulator] /\ Item = MergeSums(current, Lanes)[Lanes]
        /\ \A i \in 1..Lanes : current[i].n <= l
        /\ Lanes \in Nat \ {0} /\ l \in Nat /\ w = Lanes /\ Lanes * l <= MaxValues
        /\ LanesWhole(device, current, open)
    BY <1>0, <1>4, LanesAssumption, asScalarSum
       DEF TypeOK, CurrentOK, CurrentCount, Item, OpenWidth, WidthOf
  <2>2. \A i \in 1..Lanes : Follows(current[i], g[i], S[i])
    BY <1>4 DEF CurrentFollows, CurrentLane, WidthOf
  <2>3. \A i \in 1..Lanes : Tame(S[i], g[i][0]) => valid(current[i])
    BY <2>1 DEF LanesWhole
  <2>i. I = 1..Lanes
    BY <2>1
  <2> HIDE DEF l, g, S, w, I
  <2>4. g \in [1..Lanes -> Sums] /\ (\A j \in 1..Lanes : Made(g[j], S[j])) /\ InOrder(g, Lanes)
        /\ k = Gather(g, I, Lanes)[0] /\ Tame(UnionOf(S, I), k) /\ I \in SUBSET (1..Lanes)
    BY <1>1, <1>2, <2>1, <2>i
  <2>5. u \in [0..Lanes -> Nat] /\ \A i \in 0..Lanes : u[i] = i * l
    BY <2>1
  <2>6. f \in [1..Lanes -> 1..Lanes] /\ \A i \in 1..Lanes : f[i] = i
    OBVIOUS
  <2>7. FirstPicks(f, Lanes) = I
    <3>1. \A i \in I : f[i] = i
      BY <2>i, <2>6
    <3> HIDE DEF f
    <3> QED
      BY <2>i, <3>1 DEF FirstPicks
  <2> HIDE DEF u, f
  <2>8. ASSUME NEW i \in 1..Lanes PROVE u[i - 1] + g[i][0] <= u[i]
    <3>1. i \in 0..Lanes /\ i - 1 \in 0..Lanes /\ i - 1 \in Nat
      BY <2>1
    <3>2. ((i - 1) + 1) * l = (i - 1) * l + l /\ (i - 1) * l \in Nat
      BY <2>1, <3>1, Product
    <3>3. (i - 1) + 1 = i
      OBVIOUS
    <3>4. u[i] = u[i - 1] + l /\ u[i - 1] \in Nat
      BY <2>5, <3>1, <3>2, <3>3
    <3>5. g[i][0] = current[i].n
      BY <2>2 DEF Follows, Tracked
    <3>6. current[i].n <= l /\ current[i].n \in Nat
      BY <2>1, AccumulatorFields
    <3> QED
      BY <2>1, <3>4, <3>5, <3>6
  <2>9. k \in Nat /\ k <= MaxValues
    <3>1. Gather(g, I, Lanes)[0] \in Nat /\ Gather(g, I, Lanes)[0] <= u[Lanes]
      BY <2>1, <2>4, <2>5, <2>8, GatherBelow
    <3>2. u[Lanes] = Lanes * l /\ Lanes * l \in Nat
      BY <2>1, <2>5
    <3> HIDE DEF k
    <3> QED
      BY <2>1, <2>4, <3>1, <3>2, ResultsConstants
  <2> HIDE DEF k
  <2>10. Fits(k) /\ 6 * (k * k) <= MaxDouble
    BY <2>9, SquareBelow, FitsBelow, ResultsConstants
  <2>11. \A i \in 1..Lanes : valid(current[i])
    <3>1. ASSUME NEW i \in 1..Lanes PROVE Tame(S[i], g[i][0])
      <4>1. Lanes \in Nat /\ i \in I
        BY <2>1, <2>i
      <4> QED
        BY <2>4, <4>1, TameOne
    <3> QED
      BY <2>3, <3>1
  <2>12. Picks(current, Lanes, f, g, S, Lanes)
    BY <2>2, <2>6 DEF Picks
  <2>13. GatheredFrom(MergeSums(current, Lanes)[Lanes], FirstPicks(f, Lanes), g, S, Lanes)
    <3>1. Lanes \in Nat /\ k = Gather(g, FirstPicks(f, Lanes), Lanes)[0]
          /\ Tame(UnionOf(S, FirstPicks(f, Lanes)), k)
      BY <2>1, <2>4, <2>7
    <3> QED
      BY <2>1, <2>4, <2>10, <2>11, <2>12, <3>1, SumWhole
  <2> QED
    BY <2>1, <2>7, <2>13 DEF GatheredFrom
<1> QED
  BY <1>3, <1>4

LEMMA NewValid == valid(NewAccumulator)
BY DEF valid, NewAccumulator, Zero, valueNormalOrZero, Finite, Denormal, Infinity, NaN

LEMMA WholeInit == Init => WholeInv
<1> SUFFICES ASSUME Init PROVE WholeInv
  OBVIOUS
<1>1. ASSUME device = "avx2" PROVE LanesWhole(device, current, open)
  <2>1. \A lane \in 1..Lanes : current[lane] = NewAccumulator
    BY <1>1 DEF Init, Fresh, NewVectorAccumulator
  <2> QED
    BY <2>1, NewValid DEF LanesWhole
<1>2. \A i \in 1..Len(items) : ItemWhole(kinds[i], items[i], parts[i])
  BY DEF Init
<1> QED
  BY <1>1, <1>2 DEF WholeInv

LEMMA WholeNext ==
    ASSUME Fits(MaxValues), CubeFits, SquareFits
    PROVE  TypeOK /\ TypeOK' /\ CountInv /\ CountInv' /\ MomentsInv /\ MomentsInv' /\ WholeInv /\ [Next]_vars
             => WholeInv'
<1> SUFFICES ASSUME TypeOK, TypeOK', CountInv, CountInv', MomentsInv, MomentsInv', WholeInv, [Next]_vars
             PROVE  WholeInv'
  OBVIOUS
<1>m. /\ device = "avx2" => LanesWhole(device, current, open)
      /\ \A i \in 1..Len(items) : ItemWhole(kinds[i], items[i], parts[i])
  BY DEF WholeInv
<1>c. CurrentCount /\ OpenWidth * Len(open) <= read
  BY OpenCount
<1>c1. (CurrentCount /\ OpenWidth * Len(open) <= read)'
  <2>1. (TypeOK /\ CountInv => CurrentCount /\ OpenWidth * Len(open) <= read)'
    BY OpenCount, PTL
  <2> QED
    BY <2>1
<1>r. Len(open) \in Nat /\ read \in Nat /\ MaxValues \in Nat /\ read <= MaxValues
  BY ResultsConstants DEF TypeOK
<1>1. CASE PushVector
  <2>1. PICK x \in [1..Lanes -> Values] :
          open' = Append(open, x) /\ current' = pushWithFiltering(current, x)
    BY <1>1 DEF PushVector
  <2>2. /\ device = "avx2" /\ open \in Seq([1..Lanes -> Double]) /\ x \in [1..Lanes -> Double]
        /\ device' = device /\ kinds' = kinds /\ items' = items /\ parts' = parts
        /\ current \in [1..Lanes -> Accumulator]
        /\ current' \in [1..Lanes -> Accumulator]
    BY <1>1, <2>1, ResultsConstants DEF PushVector, TypeOK, CurrentOK, Datum, DatumOf
  <2>3. \A lane \in 1..Lanes : current'[lane].n <= Len(open')
    BY <1>c1, <2>2 DEF CurrentCount
  <2>4. Len(open') \in Nat /\ Len(open') <= MaxValues
    <3>1. Len(open') \in Nat /\ read' \in Nat /\ read' <= MaxValues /\ OpenWidth' = Lanes
          /\ Lanes * Len(open') <= read'
      BY <1>c1, <2>2, ResultsConstants DEF TypeOK, OpenWidth, WidthOf
    <3> DEFINE l == Len(open')
    <3>2. 1 * l <= Lanes * l /\ 1 * l = l /\ Lanes * l \in Nat
      <4>1. l \in Nat /\ Lanes \in Nat \ {0}
        BY <3>1, ResultsConstants
      <4> HIDE DEF l
      <4>2. 1 <= Lanes
        BY <4>1
      <4> QED
        BY <4>1, <4>2, ProductMonotone
    <3> HIDE DEF l
    <3> QED
      BY <1>r, <3>1, <3>2 DEF l
  <2>5. ASSUME NEW lane \in 1..Lanes, Tame(PartData(device, open')[lane], PartSums(device, open')[lane][0])
        PROVE  valid(current'[lane])
    <3> DEFINE data == LaneOf(device, open, lane)
               more == LaneOf(device, open', lane)
               a == current[lane]
               y == x[lane]
               s == LaneSums(data)
               S == LaneData(data)
               N == Added(s, Term(y))[0]
    <3>1. /\ PartSums(device, open)[lane] = s /\ PartData(device, open)[lane] = S
          /\ PartSums(device, open')[lane] = LaneSums(more) /\ PartData(device, open')[lane] = LaneData(more)
          /\ lane \in 1..WidthOf(device)
      BY <2>2 DEF PartSums, PartData, WidthOf
    <3>2. data \in Seq(Double) /\ more = Append(data, y)
      BY <2>1, <2>2, LaneAppend
    <3>3. a \in Accumulator /\ y \in Values /\ y \in Double
      BY <2>1, <2>2
    <3>4. current'[lane] = PushLane(a, y) /\ current'[lane] \in Accumulator
      BY <2>1, <2>2 DEF pushWithFiltering
    <3>5. Follows(a, s, S)
      <4>1. CurrentLane(device, current, lane) = a
        BY <2>2 DEF CurrentLane
      <4> QED
        BY <3>1, <4>1 DEF MomentsInv, CurrentFollows
    <3>6. Made(s, S) /\ s \in Sums
      <4>1. open \in Seq(DatumOf(device))
        BY DEF TypeOK, Datum
      <4>2. /\ PartSums(device, open) \in [1..WidthOf(device) -> Sums]
            /\ Made(PartSums(device, open)[lane], PartData(device, open)[lane])
        BY <3>1, <4>1, PartMade
      <4> QED
        BY <3>1, <4>2
    <3>7. LaneSums(more) = Added(s, Term(y)) /\ LaneData(more) = S \cup Addend(y)
      BY <3>2, <3>3, AppendSums
    <3>v. Tame(S, s[0]) => valid(a)
      BY <1>m, <2>2, <3>1 DEF LanesWhole
    <3>l. current'[lane].n <= Len(open')
      BY <2>3
    <3>t. Tame(LaneData(more), LaneSums(more)[0])
      BY <2>5, <3>1
    <3> HIDE DEF data, more, a, y, s, S
    <3>8. Tame(S \cup Addend(y), N)
      BY <3>7, <3>t
    <3>9. Made(Term(y), Addend(y)) /\ Term(y) \in Sums /\ Made(Added(s, Term(y)), S \cup Addend(y))
      <4>1. Made(Term(y), Addend(y)) /\ Term(y) \in Sums
        BY <3>3, MadeTerm
      <4> DEFINE q == Term(y)  Q == Addend(y)
      <4>2. q \in Sums /\ Made(q, Q)
        BY <4>1
      <4> HIDE DEF q, Q
      <4>3. Made(Added(s, q), S \cup Q)
        BY <3>6, <4>2, MadeBoth
      <4> QED
        BY <4>1, <4>3 DEF q, Q
    <3>10. N = s[0] + Term(y)[0] /\ s[0] \in Nat /\ Term(y)[0] \in Nat
      BY <3>6, <3>9, AddedFacts, SumsFacts
    <3>11. N \in Nat /\ N <= MaxValues
      <4>1. Follows(PushLane(a, y), Added(s, Term(y)), S \cup Addend(y))
        BY <3>3, <3>5, <3>6, FollowsPushLane
      <4>2. PushLane(a, y).n = N
        BY <4>1 DEF Follows, Tracked
      <4>3. N <= Len(open')
        BY <3>4, <3>l, <4>2
      <4>4. N \in Nat
        BY <3>10
      <4> HIDE DEF N
      <4> QED
        BY <1>r, <2>4, <4>3, <4>4
    <3>12. Tame(S, s[0])
      <4> DEFINE T == S \cup Addend(y)  k == s[0]
      <4>1. T \in SUBSET Int
        BY <3>9 DEF Made
      <4>2. k \in Nat /\ k <= N /\ S \in SUBSET T
        BY <3>10
      <4>3. Tame(T, N)
        BY <3>8
      <4> HIDE DEF T, N, k
      <4>4. Tame(S, k)
        BY <3>11, <4>1, <4>2, <4>3, TamePart
      <4> QED
        BY <4>4 DEF k
    <3>13. valid(a)
      BY <3>v, <3>12
    <3>14. 6 * (N * N) <= MaxDouble
      <4> HIDE DEF N
      <4> QED
        BY <3>11, SquareBelow
    <3>15. valid(PushLane(a, y))
      <4>1. Tracked(a, s)
        BY <3>5 DEF Follows
      <4> QED
        BY <3>3, <3>6, <3>8, <3>13, <3>14, <4>1, LanePushed
    <3> QED
      BY <3>4, <3>15
  <2>6. LanesWhole(device', current', open')
    BY <2>2, <2>5 DEF LanesWhole
  <2> QED
    BY <1>m, <2>2, <2>6 DEF WholeInv
<1>2. CASE Push \/ RunKernel
  <2>1. device' # "avx2" /\ kinds' = kinds /\ items' = items /\ parts' = parts
    BY <1>2 DEF Push, RunKernel
  <2> QED
    BY <1>m, <2>1 DEF WholeInv
<1>3. CASE Close
  <2>1. items' = Append(items, Item) /\ parts' = Append(parts, open) /\ open' = <<>>
        /\ kinds' = Append(kinds, device) /\ current' = Fresh'
    BY <1>3 DEF Close
  <2>2. ASSUME device' = "avx2" PROVE LanesWhole(device', current', open')
    <3>1. \A lane \in 1..Lanes : current'[lane] = NewAccumulator
      BY <2>1, <2>2 DEF Fresh, NewVectorAccumulator
    <3> QED
      BY <3>1, NewValid DEF LanesWhole
  <2>3. ItemWhole(device, Item, open)
    <3>1. OpenWidth * Len(open) <= MaxValues
      <4>1. OpenWidth * Len(open) \in Nat
        BY <1>r, ResultsConstants DEF OpenWidth, WidthOf
      <4> QED
        BY <1>c, <1>r, <4>1
    <3>2. CurrentFollows(device, current, open)
      BY DEF MomentsInv
    <3> QED
      BY <1>c, <1>m, <3>1, <3>2, ItemWholeCurrent
  <2>4. ASSUME NEW i \in 1..Len(items') PROVE ItemWhole(kinds'[i], items'[i], parts'[i])
    <3>1. /\ Len(items) \in Nat /\ Len(items') = Len(items) + 1
          /\ Len(parts) = Len(items) /\ Len(kinds) = Len(items)
      BY <2>1 DEF TypeOK
    <3>2. CASE i = Len(items) + 1
      <4>1. items'[i] = Item /\ parts'[i] = open /\ kinds'[i] = device
        BY <2>1, <3>1, <3>2 DEF TypeOK
      <4> QED
        BY <2>3, <4>1
    <3>3. CASE i # Len(items) + 1
      <4>1. i \in 1..Len(items)
        BY <3>1, <3>3
      <4>2. items'[i] = items[i] /\ parts'[i] = parts[i] /\ kinds'[i] = kinds[i]
        BY <2>1, <3>1, <4>1 DEF TypeOK
      <4> QED
        BY <1>m, <4>1, <4>2
    <3> QED
      BY <3>2, <3>3
  <2> QED
    BY <2>2, <2>4 DEF WholeInv
<1>4. CASE UNCHANGED <<device, kinds, open, current, parts, items>>
  BY <1>4, <1>m DEF WholeInv
<1> QED
  BY <1>1, <1>2, <1>3, <1>4
     DEF Next, vars, Return, StartMerge, MergeStep, MergeEnd, Classify

\* Nothing is dropped by the merge, either.
LEMMA ResultWhole ==
    ASSUME TypeOK, MergeInv, CountInv, MomentsInv, WholeInv, Balanced, Merged, valid(result),
           Mild(Usable), Fits(MaxValues), CubeFits, SquareFits
    PROVE  Describes(result, Usable, 4)
<1> DEFINE N == Len(items)
           v == ValidItems
           n == Len(ValidItems)
           I == {i \in 1..N : valid(items[i])}
           L == [i \in 1..N |-> IF valid(items[i]) THEN 1..Width(i) ELSE {}]
           g == [i \in 1..N |-> ItemSums(i, L)]
           S == [i \in 1..N |-> ItemData(i, L)]
           h(i) == PartSums(kinds[i], parts[i])
           H(i) == PartData(kinds[i], parts[i])
<1>1. /\ N \in Nat \ {0} /\ items \in Seq(Accumulator) /\ items[1] \in Accumulator
      /\ \A i \in 1..N : Width(i) = WidthOf(kinds[i]) /\ Width(i) \in Nat /\ 1..Width(i) \subseteq 1..Lanes
      /\ OpenWidth \in Nat
      /\ result \in Accumulator /\ MaxValues \in Nat
      /\ \A i \in 1..N : items[i] \in Accumulator /\ parts[i] \in Seq(DatumOf(kinds[i]))
  <2>1. items \in Seq(Accumulator) /\ items # <<>>
    BY DEF TypeOK, Merged
  <2>2. OpenWidth \in Nat
    BY ResultsConstants DEF OpenWidth, WidthOf
  <2>3. \A i \in 1..N : Width(i) = WidthOf(kinds[i]) /\ Width(i) \in Nat /\ 1..Width(i) \subseteq 1..Lanes
    BY ResultsConstants DEF Width, WidthOf
  <2> QED
    BY <2>1, <2>2, <2>3, ResultsConstants DEF TypeOK
<1>2. PICK t : Counts(t, items) /\ t[N] + OpenWidth * Len(open) <= read
  BY DEF CountInv
<1>3. t[N] \in Nat /\ t[N] <= MaxValues
  <2>1. N \in 0..N /\ t \in [0..N -> Nat] /\ Len(open) \in Nat /\ read \in Nat /\ read <= MaxValues
    BY <1>1, <1>2 DEF Counts, TypeOK
  <2>2. OpenWidth * Len(open) \in Nat /\ t[N] \in Nat
    BY <1>1, <2>1
  <2> HIDE DEF N
  <2> QED
    BY <1>2, <2>1, <2>2, ResultsConstants
<1>4. /\ v \in Seq(Accumulator)
      /\ \A k \in 1..N : valid(items[k]) => \E j \in 1..n : v[j] = items[k]
  BY <1>1, <1>2, ValidItemsContents
<1>5. v # <<>> /\ n \in Nat \ {0} /\ result = MergeSums(v, n)[n]
  <2>1. result = Expected
    BY DEF MergeInv, Merged
  <2>2. v # <<>>
    <3>1. SUFFICES ASSUME v = <<>> PROVE FALSE
      OBVIOUS
    <3>2. result = items[1] /\ 1 \in 1..N /\ n = 0
      BY <1>1, <2>1, <3>1 DEF Expected
    <3> HIDE DEF v, n, N
    <3> QED
      BY <1>4, <3>2
  <2> QED
    BY <1>4, <2>1, <2>2 DEF Expected
<1>6. PICK f \in [1..n -> 1..N] :
        /\ \A i, j \in 1..n : i < j => f[i] < f[j]
        /\ \A j \in 1..n : valid(items[f[j]]) /\ v[j] = items[f[j]]
        /\ \A k \in 1..N : valid(items[k]) => \E j \in 1..n : f[j] = k
  BY <1>1, CopiedOrder
<1>7. FirstPicks(f, n) = I
  <2> HIDE DEF N, n
  <2>1. ASSUME NEW k \in FirstPicks(f, n) PROVE k \in I
    <3>1. PICK j \in 1..n : k = f[j]
      BY <2>1 DEF FirstPicks
    <3> QED
      BY <1>6, <3>1
  <2>2. ASSUME NEW k \in I PROVE k \in FirstPicks(f, n)
    BY <1>6 DEF FirstPicks
  <2> HIDE DEF I
  <2> QED
    BY <2>1, <2>2
<1>8. I \in SUBSET (1..N)
      /\ \A i \in 1..N : L[i] \in SUBSET (1..Width(i)) /\ L[i] = IF valid(items[i]) THEN 1..Width(i) ELSE {}
  OBVIOUS
<1> HIDE DEF L
<1>9. Chosen(I, L) = Usable
  <2>1. \A id \in Ids : id[1] \in 1..N /\ id[2] \in 1..Width(id[1])
    BY <1>1 DEF Ids
  <2>2. ASSUME NEW id \in Ids PROVE id[1] \in I /\ id[2] \in L[id[1]] <=> valid(items[id[1]])
    <3>1. id[1] \in I <=> valid(items[id[1]])
      BY <2>1
    <3>2. valid(items[id[1]]) => L[id[1]] = 1..Width(id[1])
      BY <1>8, <2>1
    <3> QED
      BY <2>1, <3>1, <3>2
  <2> QED
    BY <2>2 DEF Chosen, Usable
<1>10. g \in [1..N -> Sums] /\ SumsOf(Usable) = Gather(g, I, N) /\ Data(Usable) = UnionOf(S, I)
  BY <1>8, <1>9, ChosenSums
<1>11. ASSUME NEW i \in 1..N
       PROVE  /\ h(i) \in [1..Width(i) -> Sums]
              /\ \A lane \in 1..Width(i) : Made(h(i)[lane], H(i)[lane])
  BY <1>1, PartMade
<1>12. \A i \in 1..N : g[i] = Gather(h(i), L[i], Width(i)) /\ S[i] = UnionOf(H(i), L[i])
  BY DEF ItemSums, ItemData
<1> HIDE DEF g, S
<1>13. \A i \in 1..N : Made(g[i], S[i])
  <2>1. ASSUME NEW i \in 1..N PROVE Made(g[i], S[i])
    <3> DEFINE G == h(i)  D == H(i)  K == L[i]
    <3>1. Width(i) \in Nat /\ G \in [1..Width(i) -> Sums] /\ (\A lane \in 1..Width(i) : Made(G[lane], D[lane]))
          /\ K \in SUBSET (1..Width(i))
      BY <1>1, <1>8, <1>11
    <3>2. g[i] = Gather(G, K, Width(i)) /\ S[i] = UnionOf(D, K)
      BY <1>12
    <3> HIDE DEF G, D, K, N
    <3>3. Made(Gather(G, K, Width(i)), UnionOf(D, K))
      BY <3>1, GatherMade
    <3> QED
      BY <3>2, <3>3
  <2> QED
    BY <2>1
<1> DEFINE k == Gather(g, I, N)[0]
<1>14. Tame(UnionOf(S, I), k)
  <2>1. Count(Usable) = SumsOf(Usable)[0]
    BY CentralSums DEF Count
  <2> QED
    BY <1>10, <2>1 DEF Mild
<1>15. ASSUME NEW i \in I PROVE Follows(items[i], g[i], S[i])
  <2>1. i \in 1..N /\ valid(items[i]) /\ L[i] = 1..Width(i)
    BY <1>8
  <2>2. g[i] = Gather(h(i), 1..Width(i), Width(i)) /\ S[i] = UnionOf(H(i), 1..Width(i))
    BY <1>12, <2>1
  <2>3. InOrder(h(i), Width(i))
    <3> DEFINE G == h(i)
    <3>1. NonIncreasing([lane \in 1..Width(i) |-> Count({<<i, lane>>})], Width(i))
      BY <2>1 DEF Balanced
    <3>2. \A lane \in 1..Width(i) : Count({<<i, lane>>}) = G[lane][0]
      BY <2>1, LaneCount
    <3> HIDE DEF G
    <3>3. InOrder(G, Width(i))
      BY <3>1, <3>2 DEF NonIncreasing, InOrder
    <3> QED
      BY <3>3 DEF G
  <2>4. Tame(S[i], g[i][0])
    <3> HIDE DEF I, N
    <3>1. N \in Nat /\ i \in I /\ I \in SUBSET (1..N)
      BY <1>1, <1>8
    <3> QED
      BY <1>10, <1>13, <1>14, <3>1, TameOne
  <2>5. ItemWhole(kinds[i], items[i], parts[i])
    BY <2>1 DEF WholeInv
  <2> QED
    BY <1>1, <2>2, <2>3, <2>4, <2>5 DEF ItemWhole
<1>16. \A i \in 1..N : i \notin I => g[i] = NoSums
  <2>1. ASSUME NEW i \in 1..N, i \notin I PROVE g[i] = NoSums
    <3> DEFINE G == h(i)
    <3>1. L[i] = {} /\ Width(i) \in Nat /\ G \in [1..Width(i) -> Sums] /\ g[i] = Gather(G, L[i], Width(i))
      BY <1>1, <1>8, <1>11, <1>12, <2>1
    <3> HIDE DEF G
    <3> QED
      BY <3>1, GatherFacts
  <2> QED
    BY <2>1
<1>17. \A i \in 1..N : g[i][0] \in Nat /\ items[i].n \in Nat
                       /\ (g[i][0] = 0 \/ g[i][0] = items[i].n)
  <2>1. ASSUME NEW i \in 1..N PROVE g[i][0] = 0 \/ g[i][0] = items[i].n
    <3>1. CASE i \in I
      BY <1>15, <3>1 DEF Follows, Tracked
    <3>2. CASE i \notin I
      BY <1>16, <3>2 DEF NoSums
    <3> QED
      BY <3>1, <3>2
  <2>2. ASSUME NEW i \in 1..N PROVE g[i][0] \in Nat /\ items[i].n \in Nat
    <3>1. g[i] \in Sums
      BY <1>10
    <3> QED
      BY <1>1, <3>1, SumsFacts, AccumulatorFields
  <2> QED
    BY <2>1, <2>2
<1>18. InOrder(g, N)
  <2>1. NonIncreasing([i \in 1..N |-> items[i].n], N)
    BY DEF Balanced
  <2> HIDE DEF N, I
  <2>2. \A i, j \in 1..N : i < j /\ items[j].n > 0 => items[i].n = 0 \/ items[i].n >= items[j].n
    BY <2>1 DEF NonIncreasing
  <2> QED
    BY <1>17, <2>2 DEF InOrder
<1>19. k \in Nat /\ k <= MaxValues
  <2>1. t \in [0..N -> Nat] /\ \A i \in 1..N : t[i] = t[i - 1] + items[i].n
    BY <1>2 DEF Counts
  <2> HIDE DEF N, I
  <2>2. \A i \in 1..N : t[i - 1] + g[i][0] <= t[i]
    <3>1. ASSUME NEW i \in 1..N PROVE t[i - 1] + g[i][0] <= t[i]
      <4>1. i - 1 \in 0..N /\ i \in 0..N
        BY <1>1
      <4> QED
        BY <1>17, <2>1, <4>1
    <3> QED
      BY <3>1
  <2>3. Gather(g, I, N)[0] \in Nat /\ Gather(g, I, N)[0] <= t[N]
    <3>1. N \in Nat /\ I \in SUBSET (1..N)
      BY <1>1, <1>8
    <3> QED
      BY <1>10, <2>1, <2>2, <3>1, GatherBelow
  <2> HIDE DEF k
  <2>4. k \in Nat /\ k <= t[N]
    BY <2>3 DEF k
  <2> QED
    BY <1>1, <1>3, <2>4
<1>20. GatheredFrom(result, I, g, S, N)
  <2>1. Picks(v, n, f, g, S, N)
    <3>1. ASSUME NEW j \in 1..n PROVE Follows(v[j], g[f[j]], S[f[j]])
      <4>1. f[j] \in I /\ v[j] = items[f[j]]
        BY <1>6
      <4> QED
        BY <1>15, <4>1
    <3> QED
      BY <1>6, <3>1 DEF Picks
  <2>2. v \in [1..n -> Accumulator] /\ \A j \in 1..n : valid(v[j])
    <3>1. \A j \in 1..n : valid(v[j])
      BY <1>6
    <3> QED
      BY <1>4, <3>1
  <2>3. N \in Nat /\ k = Gather(g, FirstPicks(f, n), N)[0] /\ Tame(UnionOf(S, FirstPicks(f, n)), k)
    BY <1>1, <1>7, <1>14
  <2> HIDE DEF v, n, N, k, I
  <2>4. Fits(k) /\ 6 * (k * k) <= MaxDouble
    BY <1>1, <1>19, FitsBelow, SquareBelow
  <2>5. GatheredFrom(MergeSums(v, n)[n], FirstPicks(f, n), g, S, N)
    BY <1>5, <1>10, <1>13, <1>18, <2>1, <2>2, <2>3, <2>4, SumWhole
  <2> QED
    BY <1>5, <1>7, <2>5
<1>21. Follows(result, SumsOf(Usable), Data(Usable))
  BY <1>10, <1>20 DEF GatheredFrom
<1> QED
  BY <1>1, <1>21, FollowsDescribes

\* And if no term of the sums is large, the result is that of all of the data
\* of all usable accumulators: none of it is dropped.  Then the square of a
\* count is far from the largest double, too.
THEOREM AllMergedKept ==
    ASSUME MaxValues * MaxValues * MaxValues < WordModulus,
           6 * (MaxValues * MaxValues) <= MaxDouble
    PROVE  Spec => []AllMerged
<1> DEFINE Base == TypeOK /\ MergeInv /\ CountInv /\ MomentsInv
<1>1. CubeFits /\ SquareFits
  BY DEF CubeFits, SquareFits
<1>2. Fits(MaxValues)
  BY CubesFit
<1>3. Spec => []Base
  BY <1>2, MomentsInvariance
<1>4. Base /\ Base' /\ WholeInv /\ [Next]_vars => WholeInv'
  BY <1>1, <1>2, WholeNext
<1>5. Base /\ WholeInv => AllMerged
  BY <1>1, <1>2, ResultWhole DEF AllMerged
<1> HIDE DEF Base
<1> QED
  BY <1>3, <1>4, <1>5, WholeInit, PTL DEF Spec
=============================================================================
