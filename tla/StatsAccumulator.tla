-------------------------- MODULE StatsAccumulator --------------------------
(***************************************************************************)
(* StatsAccumulator.cpp: running count, moments and minimum of a data set,  *)
(* and the addition of two accumulators.  Every operation on doubles is     *)
(* made in the code's order, so that one that overflows is noticed; the     *)
(* arithmetic on counts is that of size_t and wraps.                        *)
(***************************************************************************)
EXTENDS Doubles

CONSTANT WordModulus    \* 2 to the width of size_t

ASSUME WordAssumption == WordModulus \in Nat \ {0}

Word(i) == i % WordModulus

NewAccumulator ==
    [n |-> 0, m1 |-> Zero, m2 |-> Zero, m3 |-> Zero, m4 |-> Zero,
     isIntegerDistribution |-> TRUE, minVal |-> Infinity,
     numericalErrorWhileMerging |-> FALSE]

\* std::min returns its first argument unless the second is less.
StdMin(x, y) == IF Less(y, x) THEN y ELSE x

Six == Real(6)  Four == Real(4)  Three == Real(3)

push(a, x) ==
    IF ~valueNormalOrZero(x) THEN a
    ELSE
    LET n      == Word(a.n + 1)
        delta  == x -- a.m1
        deltaN == delta // Real(n)
        sq     == deltaN ** deltaN
        term1  == (delta ** deltaN) ** Real(a.n)
    IN  [a EXCEPT
          !.isIntegerDistribution = @ /\ isValueInteger(x),
          !.n = n,
          !.m1 = @ ++ deltaN,
          !.m2 = @ ++ term1,
          !.m3 = @ ++ (((term1 ** deltaN) ** Real(Word(n - 2)))
                         -- ((Three ** deltaN) ** a.m2)),
          !.m4 = @ ++ ((((term1 ** sq) ** Real(Word(n * n - 3 * n + 3)))
                          ++ ((Six ** sq) ** a.m2))
                         -- ((Four ** deltaN) ** a.m3)),
          !.minVal = StdMin(@, x)]

getVariance(a) == a.m2 // (Real(a.n) -- Real(1))

getKurtosis(a) == ((Real(a.n) ** a.m4) // (a.m2 ** a.m2)) -- Three

valid(a) == \A m \in {a.m1, a.m2, a.m3, a.m4} : valueNormalOrZero(m)

----------------------------------------------------------------------------
(* operator+                                                               *)

\* The result before it is checked.
Combine(a, b) ==
    LET n   == Word(a.n + b.n)
        nn  == Real(Word(n * n))
        nnn == Real(Word(Word(n * n) * n))
        na  == Real(a.n)
        nb  == Real(b.n)
        delta  == b.m1 -- a.m1
        delta2 == delta ** delta
        delta3 == delta2 ** delta
        delta4 == delta2 ** delta2
    IN  [NewAccumulator EXCEPT
          !.n  = n,
          !.m1 = ((a.m1 ** na) ++ (b.m1 ** nb)) // Real(n),
          !.m2 = (a.m2 ++ b.m2) ++ (((delta2 ** na) ** nb) // Real(n)),
          !.m3 = ((a.m3 ++ b.m3)
                   ++ ((((delta3 ** na) ** nb) ** Real(Word(a.n - b.n))) // nn))
                   ++ (((Three ** delta) ** ((na ** b.m2) -- (nb ** a.m2))) // Real(n)),
          !.m4 = (((a.m4 ++ b.m4)
                   ++ ((((delta4 ** na) ** nb)
                         ** Real(Word(a.n * a.n - a.n * b.n + b.n * b.n))) // nnn))
                   ++ (((Six ** delta2) ** ((Real(Word(a.n * a.n)) ** b.m2)
                                              ++ (Real(Word(b.n * b.n)) ** a.m2))) // nn))
                   ++ (((Four ** delta) ** ((na ** b.m3) -- (nb ** a.m3))) // Real(n)),
          !.isIntegerDistribution = a.isIntegerDistribution /\ b.isIntegerDistribution,
          !.minVal = StdMin(a.minVal, b.minVal)]

Empty(a) == a.n = 0 \/ ~valid(a)

\* Mutant: an overflow goes unnoticed.
MergeUnchecked(a, b) ==
    IF Empty(b) THEN a ELSE IF Empty(a) THEN b ELSE Combine(a, b)

\* Mutant: the operand that is kept keeps its own minimum.
MergeOwnMinimum(a, b) ==
    IF Empty(b) THEN a ELSE IF Empty(a) THEN b
    ELSE IF valid(Combine(a, b)) THEN Combine(a, b) ELSE a

\* What operator+ returns.  Both operands are valid when the result is
\* checked, so one that overflowed leaves the left operand.  The flag and the
\* minimum of an operand that is not returned change too: nothing reads them.
Merge(a, b) ==
    CASE Empty(b) -> [a EXCEPT !.numericalErrorWhileMerging = TRUE]
      [] ~Empty(b) /\ Empty(a) -> [b EXCEPT !.numericalErrorWhileMerging = TRUE]
      [] OTHER ->
           LET result == Combine(a, b)
           IN  IF valid(result) THEN result
               ELSE [a EXCEPT !.numericalErrorWhileMerging = TRUE, !.minVal = result.minVal]
=============================================================================
