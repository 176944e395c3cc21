------------------------- MODULE ClStatsAccumulator -------------------------
(***************************************************************************)
(* The accumulator of an OpenCL work item: seven doubles in the device's    *)
(* memory, which a run of the kernel (ClSources.h) loads, pushes to and     *)
(* stores again, pass after pass.                                          *)
(***************************************************************************)
EXTENDS StatsAccumulator, SequencesExt

\* What performJobSetup writes before the first pass.
NewStats == <<Zero, Zero, Zero, Zero, Zero, Real(1), Infinity>>

\* fmin prefers a number to NaN.
Fmin(x, y) == IF x = NaN \/ Less(y, x) THEN y ELSE x

\* The variables of the kernel; those of StatsAccumulator have the same roles.
Load(stats) ==
    [NewAccumulator EXCEPT
        !.n  = stats[1][1],
        !.m1 = stats[2], !.m2 = stats[3], !.m3 = stats[4], !.m4 = stats[5],
        !.isIntegerDistribution = stats[6] # Zero,
        !.minVal = stats[7]]

Store(a) ==
    <<Real(a.n), a.m1, a.m2, a.m3, a.m4, Real(IF a.isIntegerDistribution THEN 1 ELSE 0), a.minVal>>

\* The kernel's own valueNormalOrZero: neither exponent 0 with a mantissa, nor
\* exponent 0x7ff.
KernelNormalOrZero(x) == x # Denormal /\ Finite(x)

\* The body of the kernel's loop: the formulas are those of push.
KernelPush(a, x) ==
    IF KernelNormalOrZero(x) THEN [push(a, x) EXCEPT !.minVal = Fmin(a.minVal, x)] ELSE a

\* The accumulators from stats on, one push after the other.
KernelLoop(stats, data) ==
    LET a[i \in 0..Len(data)] == IF i = 0 THEN Load(stats) ELSE KernelPush(a[i - 1], data[i])
    IN  a[Len(data)]

\* Mutant: a pass begins with the flag and the minimum of an empty accumulator.
computeStatsAfresh(stats, data) ==
    Store(KernelLoop([stats EXCEPT ![6] = Real(1), ![7] = Infinity], data))

computeStats(stats, data) == Store(KernelLoop(stats, data))
=============================================================================
