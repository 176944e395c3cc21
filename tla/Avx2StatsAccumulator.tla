------------------------ MODULE Avx2StatsAccumulator ------------------------
(***************************************************************************)
(* Avx2StatsAccumulator.cpp: an accumulator with one lane for each double   *)
(* of a vector.  An invalid double is not branched on, it is masked: every  *)
(* lane computes the new moments and adds zero in place of them.            *)
(***************************************************************************)
EXTENDS StatsAccumulator

CONSTANT Lanes          \* doubles in a vector: 4

ASSUME LanesAssumption == Lanes \in Nat \ {0}

\* Lanes of the vector registers, each as a record of its values in them.
NewVectorAccumulator == [i \in 1..Lanes |-> NewAccumulator]

\* VectorizationUtils::maskDouble4
maskDouble4(value, mask) == IF mask THEN value ELSE Zero

\* _mm256_min_pd returns its second argument unless the first is less.
MinPd(x, y) == IF Less(x, y) THEN x ELSE y

\* VectorizationUtils::valuesValid: neither exponent 0 with a mantissa, nor
\* exponent 0x7ff.
valuesValid(x) == x # Denormal /\ Finite(x)

\* An infinity or NaN has no fraction that equals zero.
valuesInteger(x) == valueNormalOrZero(x) /\ isValueInteger(x)

PushLane(a, x) ==
    LET validMask == valuesValid(x)
        n      == a.n + IF validMask THEN 1 ELSE 0
        nD     == Real(n)
        delta  == x -- a.m1
        deltaN == delta // nD
        sq     == deltaN ** deltaN
        term1  == delta ** (deltaN ** Real(a.n))
        m4a    == (term1 ** sq) ** (Three ++ ((nD ** nD) -- (Three ** nD)))
        m4b    == (Six ** (sq ** a.m2)) -- (Four ** (deltaN ** a.m3))
        m3a    == term1 ** (deltaN ** (nD -- Real(2)))
        m3b    == Three ** (deltaN ** a.m2)
    IN  [a EXCEPT
          !.isIntegerDistribution = @ /\ (~validMask \/ valuesInteger(x)),
          !.minVal = MinPd(@, x ++ maskDouble4(Infinity, ~validMask)),
          !.n  = n,
          !.m1 = @ ++ maskDouble4(deltaN, validMask),
          !.m2 = @ ++ maskDouble4(term1, validMask),
          !.m3 = @ ++ maskDouble4(m3a -- m3b, validMask),
          !.m4 = @ ++ maskDouble4(m4a ++ m4b, validMask)]

pushWithFiltering(v, x) == [i \in 1..Lanes |-> PushLane(v[i], x[i])]

\* asVectorOfScalars and the sum of its items, from left to right.
asScalar(v) ==
    LET sum[i \in 1..Lanes] == IF i = 1 THEN v[1] ELSE Merge(sum[i - 1], v[i])
    IN  sum[Lanes]
=============================================================================
