------------------------------- MODULE Results -------------------------------
(***************************************************************************)
(* What becomes of the data: the accumulators of all jobs, filled one value *)
(* (CpuDeviceCoordinator), one vector (its AVX2 override) or one pass       *)
(* (ClDeviceCoordinator) at a time, the merge of main.cpp and its           *)
(* classification, which is made once for the console and once more for     *)
(* the output file.                                                        *)
(***************************************************************************)
EXTENDS Avx2StatsAccumulator, ClStatsAccumulator, DistributionClassification

CONSTANTS
    Values,         \* doubles in the file
    Scale,          \* an integer that makes integers of the finite ones
    MaxValues,      \* bound: doubles in the file
    MaxItems        \* bound: accumulators

ASSUME ResultsAssumption ==
    /\ {Scale, MaxValues, MaxItems} \subseteq Nat \ {0}
    /\ MaxValues < WordModulus
    /\ Values \subseteq Double
    /\ \A x \in Values : valueNormalOrZero(x) => Scale % x[2] = 0

VARIABLES
    device,     \* the code that fills the accumulator: scalar, avx2 or opencl
    kinds,      \* the code that filled each of items
    read,       \* how many doubles of the file have been read
    pc,         \* fill, start, merge, classify, done
    open,       \* what has been pushed to the accumulator being filled
    current,    \* that accumulator, of one type or the other
    parts,      \* what had been pushed to each of items
    items,      \* the accumulators of all jobs
    filtered,   \* mergeLeftToRight's copy of the valid ones
    next,       \* its loop counter
    result,     \* what it returns
    reports     \* what has been written, to the console and to the file

merging == <<filtered, next, result>>
vars == <<device, kinds, read, pc, open, current, parts, items, merging, reports>>

Kinds == {"scalar", "avx2", "opencl"}

Fresh ==
    CASE device = "scalar" -> NewAccumulator
      [] device = "avx2"   -> NewVectorAccumulator
      [] device = "opencl" -> NewStats

Init ==
    /\ device \in Kinds
    /\ kinds = <<>>
    /\ read = 0
    /\ pc = "fill"
    /\ open = <<>>
    /\ current = Fresh
    /\ parts = <<>>
    /\ items = <<>>
    /\ filtered = <<>>
    /\ next = 0
    /\ result = NewAccumulator
    /\ reports = <<>>

\* The next k doubles of the file.  Bounds: its size and the accumulators.
Read(k) ==
    /\ Len(items) < MaxItems
    /\ read + k <= MaxValues
    /\ read' = read + k

Push ==
    /\ pc = "fill"
    /\ device = "scalar"
    /\ Read(1)
    /\ \E x \in Values :
         /\ open' = Append(open, x)
         /\ current' = push(current, x)
    /\ UNCHANGED <<device, kinds, pc, parts, items, merging, reports>>

PushVector ==
    /\ pc = "fill"
    /\ device = "avx2"
    /\ Read(Lanes)
    /\ \E x \in [1..Lanes -> Values] :
         /\ open' = Append(open, x)
         /\ current' = pushWithFiltering(current, x)
    /\ UNCHANGED <<device, kinds, pc, parts, items, merging, reports>>

\* A run of the kernel.
RunKernel ==
    /\ pc = "fill"
    /\ device = "opencl"
    /\ \E k \in 1..MaxValues :
         /\ Read(k)
         /\ \E x \in [1..k -> Values] :
              /\ open' = open \o x
              /\ current' = computeStats(current, x)
    /\ UNCHANGED <<device, kinds, pc, parts, items, merging, reports>>

\* What a job stores in Items.
Item ==
    CASE device = "scalar" -> current
      [] device = "avx2"   -> asScalar(current)
      [] device = "opencl" -> Load(current)

\* The accumulator becomes one of its job's items, and they are appended to
\* those of the jobs before.  It may be empty: a job of just one block leaves
\* the accumulator of its vector unused.  The next one may be that of another
\* device; the CPU has either the scalar code or its AVX2 override.
Close ==
    /\ pc = "fill"
    /\ Len(items) < MaxItems
    /\ items' = Append(items, Item)
    /\ parts' = Append(parts, open)
    /\ open' = <<>>
    /\ kinds' = Append(kinds, device)
    /\ device' \in IF Len(items') < MaxItems THEN Kinds ELSE {device}
    /\ ~({"scalar", "avx2"} \subseteq ToSet(kinds') \cup {device'})
    /\ current' = Fresh'
    /\ UNCHANGED <<read, pc, merging, reports>>

\* run() has returned, with at least one item.
Return ==
    /\ pc = "fill"
    /\ open = <<>>
    /\ items # <<>>
    /\ pc' = "start"
    /\ UNCHANGED <<device, kinds, read, open, current, parts, items, merging, reports>>

\* std::copy_if with the predicate valid.
ValidItems ==
    LET copied[i \in 0..Len(items)] ==
          IF i = 0 THEN <<>>
          ELSE IF valid(items[i]) THEN Append(copied[i - 1], items[i]) ELSE copied[i - 1]
    IN  copied[Len(items)]

\* Mutant: the loop starts with the first item.
StartAtFirst ==
    /\ pc = "start"
    /\ filtered' = ValidItems
    /\ next' = 1
    /\ IF filtered' = <<>>
         THEN result' = items[1] /\ pc' = "classify"
         ELSE UNCHANGED result /\ pc' = "merge"
    /\ UNCHANGED <<device, kinds, read, open, current, parts, items, reports>>

\* Mutant: the loop starts with the third item.
SkipSecond ==
    /\ pc = "start"
    /\ filtered' = ValidItems
    /\ next' = 3
    /\ IF filtered' = <<>>
         THEN result' = items[1] /\ pc' = "classify"
         ELSE UNCHANGED result /\ pc' = "merge"
    /\ UNCHANGED <<device, kinds, read, open, current, parts, items, reports>>

\* mergeLeftToRight: without a valid item it returns the first one.
StartMerge ==
    /\ pc = "start"
    /\ filtered' = ValidItems
    /\ next' = 2
    /\ IF filtered' = <<>>
         THEN result' = items[1] /\ pc' = "classify"
         ELSE UNCHANGED result /\ pc' = "merge"
    /\ UNCHANGED <<device, kinds, read, open, current, parts, items, reports>>

\* Mutant: the items themselves are merged, not a copy of them.
MergeInPlace ==
    /\ pc = "merge"
    /\ next <= Len(filtered)
    /\ filtered' = [filtered EXCEPT ![1] = Merge(@, filtered[next])]
    /\ items' = filtered'
    /\ next' = next + 1
    /\ UNCHANGED <<device, kinds, read, pc, open, current, parts, result, reports>>

\* result += filtered[i], where result is a reference to the first.
MergeStep ==
    /\ pc = "merge"
    /\ next <= Len(filtered)
    /\ filtered' = [filtered EXCEPT ![1] = Merge(@, filtered[next])]
    /\ next' = next + 1
    /\ UNCHANGED <<device, kinds, read, pc, open, current, parts, items, result, reports>>

MergeEnd ==
    /\ pc = "merge"
    /\ next > Len(filtered)
    /\ result' = filtered[1]
    /\ pc' = "classify"
    /\ UNCHANGED <<device, kinds, read, open, current, parts, items, filtered, next, reports>>

Classify ==
    /\ pc = "classify"
    /\ reports' = Append(reports, classifyDistribution(result))
    /\ pc' = IF Len(reports') = 2 THEN "done" ELSE "start"
    /\ UNCHANGED <<device, kinds, read, open, current, parts, items, merging>>

Next ==
    \/ Push \/ PushVector \/ RunKernel \/ Close \/ Return
    \/ StartMerge \/ MergeStep \/ MergeEnd \/ Classify
    \/ pc = "done" /\ UNCHANGED vars

Spec == Init /\ [][Next]_vars

----------------------------------------------------------------------------
(* Reference definitions, over integers: Scale times each valid value.      *)

Whole(x) == (x[1] * Scale) \div x[2]

WidthOf(d) == IF d = "avx2" THEN Lanes ELSE 1

\* What was pushed to a lane of an accumulator.
LaneOf(d, part, lane) == IF d = "avx2" THEN [j \in DOMAIN part |-> part[j][lane]] ELSE part

Width(i) == WidthOf(kinds[i])

Lane(i, lane) == LaneOf(kinds[i], parts[i], lane)

Ids == {id \in (1..Len(items)) \X (1..Lanes) : id[2] <= Width(id[1])}

\* The lanes of items that can be used at all.
Usable == {id \in Ids : valid(items[id[1]])}

\* The sum of (factor * x - shift)^k over the valid data x of a lane.
LaneSum(data, factor, shift, k) ==
    Total([j \in 1..Len(data) |->
             IF valueNormalOrZero(data[j]) THEN Power(factor * Whole(data[j]) - shift, k) ELSE 0],
          Len(data))

\* The same sum over the lanes P.
Sum(P, factor, shift, k) ==
    Total([i \in 1..Len(items) |->
             Total([lane \in 1..Width(i) |->
                      IF <<i, lane>> \in P THEN LaneSum(Lane(i, lane), factor, shift, k) ELSE 0],
                   Width(i))],
          Len(items))

Count(P) == Sum(P, 1, 0, 0)

\* The valid data of the lanes P.
Data(P) ==
    UNION {{Whole(x) : x \in {y \in ToSet(Lane(id[1], id[2])) : valueNormalOrZero(y)}} : id \in P}

\* The double x is the number n/d.
Equals(x, n, d) == Finite(x) /\ x[1] * d = n * x[2]

\* Count, mean and central moments (times the count), to the third or to the
\* fourth, of the data of P.
Describes(a, P, last) ==
    /\ a.n = Count(P)
    /\ a.n > 0 =>
         LET total == Sum(P, 1, 0, 1)
             IsMoment(x, k) == Equals(x, Sum(P, a.n, total, k), Power(a.n * Scale, k))
         IN  /\ Equals(a.m1, total, a.n * Scale)
             /\ IsMoment(a.m2, 2) /\ IsMoment(a.m3, 3)
             /\ last = 4 => IsMoment(a.m4, 4)
    /\ a.isIntegerDistribution <=> \A x \in Data(P) : x % Scale = 0

\* No term of the sums in push and Combine overflows for k data this close to
\* zero and to each other.  The first value of an accumulator is squared, and the
\* square then multiplied by zero, which is NaN if it has become infinite.
Tame(S, k) ==
    \A x, y \in S :
      /\ Power(x * k, 2) <= MaxDouble * Power(Scale, 2)
      /\ 6 * Power((x - y) * k, 4) <= MaxDouble * Power(Scale, 4)

Mild(P) == Tame(Data(P), Count(P))

NonIncreasing(counts, n) ==
    \A i, j \in 1..n : i < j /\ counts[j] > 0 => counts[i] = 0 \/ counts[i] >= counts[j]

\* No accumulator holds more values than one that it is added to.
Balanced ==
    /\ NonIncreasing([i \in 1..Len(items) |-> items[i].n], Len(items))
    /\ \A i \in 1..Len(items) :
         NonIncreasing([lane \in 1..Width(i) |-> Count({<<i, lane>>})], Width(i))

Merged == pc = "classify"

Described(last) ==
    Merged /\ valid(result) => \E P \in SUBSET Usable : Describes(result, P, last)

\* The moments of the result are those of the data, up to the choice that an
\* overflow leaves to operator+: it describes all of the data of some of the
\* accumulators, each once.
MomentsExact == Balanced => Described(4)

\* Up to the third moment the counts are multiplied at most in pairs: this holds
\* for larger files, too.
LowerMomentsExact == Balanced => Described(3)

\* And of all of them if no term of the sums is large.
AllMerged ==
    Balanced /\ Merged /\ valid(result) /\ Mild(Usable) => Describes(result, Usable, 4)

\* StatsAccumulator.h on operator+: "Adds another accumulator to this one",
\* in whatever order of size they come.
MomentsExactUnbalanced == Described(4)

\* StatsAccumulator.h on n: "Number of processed (valid) items".
NoneDropped == Merged /\ valid(result) => result.n = Count(Usable)

\* The valid values that the i-th item was made of, if it can be used.
Used(i) ==
    {x \in UNION {ToSet(Lane(i, lane)) : lane \in 1..Width(i)} :
        valueNormalOrZero(x) /\ valid(items[i])}

\* x is the smallest of the numbers in S, or what the minimum of none is.
IsMinimum(x, S) ==
    /\ IF S = {} THEN x = Infinity ELSE x \in S
    /\ \A y \in S : ~Less(y, x)

AllUsed == UNION {Used(i) : i \in DOMAIN items}

\* The minimum survives what the moments do not: when a merge overflows and
\* drops a side, the smallest of all values is still reported.
ScalarMinimum ==
    Merged /\ valid(result) /\ "avx2" \notin ToSet(kinds) => IsMinimum(result.minVal, AllUsed)

\* Avx2StatsAccumulator.cpp on the minimum: "if the value is invalid we set
\* the value of xi to INFINITY", so that it does not count.
VectorMinimum ==
    Merged /\ valid(result) /\ ToSet(kinds) = {"avx2"} /\ AllUsed # {}
        => IsMinimum(result.minVal, AllUsed)

\* One accumulator with data is enough for a result that is valid and not
\* empty, whatever the others are.
ValidWhenAny ==
    Merged /\ (\E i \in DOMAIN items : items[i].n > 0 /\ valid(items[i]))
        => valid(result) /\ result.n > 0

\* The console and the output file show the same results, though merging
\* changes its operands and is done once for each.
SameReportTwice == pc = "done" => reports[1] = reports[2]

\* Of the distributions that were not discarded the nearest is reported, also
\* when the distance of one of them is NaN: negative integers have no Poisson
\* distribution.
NearestConsidered ==
    Merged /\ FinitePoint(EstimatedPoint(result)) =>
        LET chosen == classifyStatsAccumulator(result).DistributionIdx
        IN  /\ Considered(chosen, result.isIntegerDistribution)
            /\ Finite(Distances(result)[chosen])
            /\ \A i \in Distributions :
                 Considered(i, result.isIntegerDistribution)
                     => ~Less(Distances(result)[i], Distances(result)[chosen])
=============================================================================
