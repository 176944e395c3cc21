--------------------- MODULE DistributionClassification ---------------------
(***************************************************************************)
(* DistributionClassification.h: the distribution whose point in the plane  *)
(* of skewness and kurtosis is nearest to that of the accumulator.  Points  *)
(* are rounded down to a grid and distances are compared by their squares;  *)
(* infinities and NaN stay what they are.                                   *)
(***************************************************************************)
EXTENDS StatsAccumulator

Grid == 12      \* grid lines to a unit: every point below is on the grid

EXPONENTIAL_IDX == 1
UNIFORM_IDX     == 2
POISSON_IDX     == 3
Distributions   == 0..3

SquareRoot(i) == CHOOSE r \in 0..i : r * r <= i /\ i < (r + 1) * (r + 1)

\* The grid coordinate of x, and of the root of x.
OnGrid(x) == IF Finite(x) THEN Real((Grid * x[1]) \div x[2]) ELSE x

RootOnGrid(x) ==
    IF ~Finite(x) THEN x
    ELSE IF x[1] < 0 THEN NaN
    ELSE Real(SquareRoot((Grid * Grid * x[1]) \div x[2]))

\* sqrt(n) * m3 / m2^1.5
SkewnessOnGrid(a) ==
    LET ratio == a.m3 // a.m2
        root  == RootOnGrid(Real(a.n) // a.m2)
    IN  IF Finite(ratio) /\ Finite(root) THEN Real((ratio[1] * root[1]) \div ratio[2])
                                         ELSE ratio ** root

EstimatedPoint(a) == <<SkewnessOnGrid(a), OnGrid(getKurtosis(a))>>

\* A mean less than 1e-5 away from zero is taken for zero.
PoissonPoint(mean) ==
    IF mean = Zero THEN <<Zero, Zero>>
    ELSE <<RootOnGrid(Real(1) // mean), OnGrid(Real(1) // mean)>>

Point(i, a) ==
    CASE i = EXPONENTIAL_IDX -> <<Real(2 * Grid), Real(6 * Grid)>>
      [] i = UNIFORM_IDX     -> <<Zero, Real((-5 * Grid) \div 6)>>
      [] i = POISSON_IDX     -> PoissonPoint(a.m1)
      [] OTHER               -> <<Zero, Zero>>

FinitePoint(p) == Finite(p[1]) /\ Finite(p[2])

\* std::hypot: an infinity wins over NaN.
euclideanDistance2d(p, q) ==
    LET x == IF Finite(p[1]) /\ Finite(q[1]) THEN Real(p[1][1] - q[1][1]) ELSE p[1] -- q[1]
        y == IF Finite(p[2]) /\ Finite(q[2]) THEN Real(p[2][1] - q[2][1]) ELSE p[2] -- q[2]
    IN  IF Infinite(x) \/ Infinite(y) THEN Infinity
        ELSE IF x = NaN \/ y = NaN THEN NaN
        ELSE Real(x[1] * x[1] + y[1] * y[1])

Considered(i, integersOnly) ==
    IF integersOnly THEN i \in {POISSON_IDX, UNIFORM_IDX} ELSE i # POISSON_IDX

\* A distribution that is discarded stays at the distance it starts with.
Distances(a) ==
    [i \in Distributions |->
        IF Considered(i, a.isIntegerDistribution)
          THEN euclideanDistance2d(Point(i, a), EstimatedPoint(a)) ELSE Infinity]

\* Mutant: a comparison the other way round, which NaN passes.
MinElementNotGreater(distances) ==
    LET smallest[i \in Distributions] ==
          IF i = 0 THEN 0
          ELSE IF ~Less(distances[smallest[i - 1]], distances[i]) THEN i ELSE smallest[i - 1]
    IN  smallest[3]

\* std::min_element: the first entry that no later one is less than.
MinElement(distances) ==
    LET smallest[i \in Distributions] ==
          IF i = 0 THEN 0
          ELSE IF Less(distances[i], distances[smallest[i - 1]]) THEN i ELSE smallest[i - 1]
    IN  smallest[3]

classifyStatsAccumulator(a) ==
    LET closest == MinElement(Distances(a))
    IN  [DistributionIdx |-> closest, Distance |-> Distances(a)[closest], Valid |-> valid(a),
         discarded |-> {i \in Distributions : ~Considered(i, a.isIntegerDistribution)}]

\* prettyPrintStatsNumber: what is not finite is reported as overflown.
Printed(x) == IF Finite(x) THEN x ELSE NaN

\* What classifyDistribution writes to its stream.
classifyDistribution(a) ==
    LET result == classifyStatsAccumulator(a)
    IN  [result |-> result,
         min |-> Printed(a.minVal), mean |-> Printed(a.m1), variance |-> Printed(getVariance(a)),
         skewness |-> Printed(SkewnessOnGrid(a)), kurtosis |-> Printed(getKurtosis(a)),
         integerOnly |-> a.isIntegerDistribution, distance |-> Printed(result.Distance)]
=============================================================================
