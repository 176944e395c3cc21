# Formal model of the distribution estimator

The program (`src/src/`) reads a binary file of doubles, computes the statistical
moments of its values on the CPU and on OpenCL devices at once, and names the
distribution they most likely come from. This directory holds TLA+ modules of
that program, the TLC configurations that check them on small instances, and
proofs that TLAPS checks for every value of the constants.

## 1. The system

| Component | State | Operations |
|---|---|---|
| Option parser (`include/cxxopts.h`, as `ArgParser.cpp` uses it) | cursor over the arguments, values of the options, next positional option | `parse`, `parse_option`, `checked_parse_arg`, `consume_positional`, `count`, `as` |
| Argument parser (`ArgParser.cpp`) | the `ProcessingConfig` | `processArgs`, `validateArgs`, `queryClDevices` |
| `JobScheduler` | `coordinatorAvailability`, `processedJobs`, `lastErr`, `currentJobId`, `coordinatorMutex`, `jobFinishedSemaphore` | constructor, `run`, `assignJob`, `checkForErrors`, `terminateCoordinators`, the callbacks `jobFinishedCallback`, `notifyErrOccurred`, `notifyWatchdogCallback`, destructor |
| `FileChunkHandler` | `nextChunkIdx` | `getNextNChunks`, `allChunksProcessed` |
| `DeviceCoordinator` (one per device, one for the CPU) | `currentJob`, `semaphore`, `keepRunning`, a thread | `assignJob`, `terminate`, `join`, `threadMain` |
| `CpuDeviceCoordinator`, its AVX2 variant | accumulators of the job | `onProcessJob`, over TBB threads |
| `ClDeviceCoordinator`, the kernel, `DataLoader` | device buffers, `bytesRemaining`, position in the file | `setup`, `onProcessJob`, `loadChunksIntoDeviceBuffer` |
| `Semaphore` (`ConcurrencyUtils.h`) | `count`, a mutex, a condition variable | `acquire`, `release` |
| `Watchdog` | `counter`, `keepRunning`, `startSemaphore`, a thread | `start`, `updateCounter`, `terminate`, `join` |
| `MemoryAllocation` | none | `buildMemoryConfig` |
| Statistics (`StatsAccumulator`, `Avx2StatsAccumulator`, `StatUtils`) | count, moments, minimum, flags | `push`, `pushWithFiltering`, `operator+`, `asScalar`, `mergeLeftToRight` |
| Classification (`DistributionClassification.h`) | none | `classifyStatsAccumulator`, `classifyDistribution` |
| Program flow (`main.cpp`, `Benchmark.h`, `FilesystemUtils.h`) | number of runs, output file | `main`, `run`, `runBenchmark` |
| `Logging.h` | the log's mutex | `log` |

How they interact: `main` parses the arguments and builds a scheduler (a new one
for each run of a benchmark), whose constructor creates the
watchdog's thread and one thread per coordinator. The main thread, in `run`,
leaves a job in a free coordinator's `currentJob` and releases that
coordinator's semaphore; the coordinator's thread takes the semaphore, processes
the job, tells the watchdog of its progress, and calls the scheduler back with
the job or with an error; the callback takes `coordinatorMutex` and releases
`jobFinishedSemaphore`, on which the main thread waits. At the end, or when an
error has been recorded, the main thread clears every `keepRunning` flag and
releases every semaphore once more, and the destructor joins all threads. `run`
returns the accumulators of all jobs, which `main` merges and classifies, for the
console and again for the output file.

What is hard about it:

- `currentJob` is shared by two threads and no lock protects it (`jobMutex` is
  declared and never taken); only the semaphores order the accesses.
- `run` decides to wait from what it read under a mutex it no longer holds.
- `notifyErrOccurred` and `jobFinishedCallback` wake the main thread while they
  still hold `coordinatorMutex`, before their last assignments.
- A job that fails stays in `currentJob`; the same semaphore carries "there is a
  job" and "stop", so the failed coordinator processes its job again when it is
  told to stop. Another coordinator may meanwhile finish, or fail too.
- The watchdog's `notify_one` is sent without its mutex and its `wait_for` has no
  predicate.
- Chunks, accumulators, host buffers, vectors of four and kernel indices are
  computed apart, in bytes, chunks and doubles, with divisions that must agree.
- Accumulators are merged in the order of the jobs with formulas whose terms may
  overflow; what then happens is decided by tests for infinities and NaN. Counts
  are multiplied in `size_t` and wrap. Vector code masks invalid values by
  arithmetic instead of branches.
- The same options come as flags, as positional arguments, or in a container that
  takes all that follows, with one cursor over them.

What makes each part correct, in short: the semaphore never strands a sleeper;
the watchdog accounts for every byte, reports a stall and can be joined; the
scheduler processes every chunk once and ends; a job's data reach exactly one
accumulator; the moments of the merge are those of the data and the nearest
distribution is reported; no argument is lost; set-up builds a scheduler that can
work within its memory limit; the program ends with a code that tells the truth.
`PROJECT.json` lists each hazard at its line with the properties about it.

## 2. Modules

    Semaphore             abstract semaphore
      ^ implemented by
    CondVarSemaphore      ConcurrencyUtils.h, step by step
    FileChunkHandler      cursor over the file
      ^ EXTENDS
    DeviceCoordinator     coordinator threads        Watchdog   watchdog thread
      ^ EXTENDS                                        ^ EXTENDS      ^ EXTENDS
    JobScheduler  ------------------------------------+        WatchdogClients
      | implements            ^ EXTENDS
    ChunkedComputation        JobSchedulerInvariant   the inductive invariant

    ClJob                 one OpenCL job: passes, buffers, kernel indices
    CpuJob                one CPU job: blocks pushed in any interleaving

    Arithmetic --> Doubles --> StatsAccumulator --> Avx2StatsAccumulator --------+
                                     |------------> ClStatsAccumulator ----------+
                                     +------------> DistributionClassification --+--> Results

    OptionParser ------+
    MemoryAllocation --+--> Setup --> Program    command line to exit code

`*_proofs` modules and `NaturalNumbers` hold theorems and lemmas, `MC*` modules the
values of constants. An arrow `A --> B` says that B EXTENDS A.

**JobScheduler, DeviceCoordinator, FileChunkHandler.** `schedPc` and `workerPc[c]`
are the program counters of the main thread and of coordinator `c`; the other
variables have the names they have in the code (`target` is a local, `outcome`
whether `run` returned or threw). An action is the code between two accesses to
something another thread can see: a critical section is one action unless
another thread can look inside it. So `assignJob` is `AssignJob` (under the
mutex, `currentJob` is set) and `AssignRelease`; `notifyErrOccurred` is
`NotifyErr` and `StoreErr`, because `jobFinishedSemaphore` is released before
`lastErr` is set; `terminate` is `TerminateFlag` and
`TerminateRelease` per coordinator.
Coordinators are numbered as in the constructor, devices first, CPU last; in
mode `opencl_devices` the CPU's coordinator exists with no thread. A device may
fail at any point of a job (`WorkerFails`); the CPU throws nothing that
`threadMain` catches. Work inside a job is a count of finished chunks; the
doubles that CpuJob and ClJob show to be dropped at the end of a file do not
appear here.

**CondVarSemaphore.** `mutex`, `count`, and per thread where it is in `acquire` or
`release`. `wait` gives the mutex back and sleeps; `notify_one` wakes any one
sleeper; a sleeper may wake without notification. JobScheduler and Watchdog use
semaphores as counters with an atomic `acquire`; the refinement of `Semaphore`
justifies it.

**Watchdog, WatchdogClients.** One action per atomic access of `watchdogMain`. The
wait has a timeout, so that it may end at any moment whether or not a
notification came, which covers the lost notification. WatchdogClients adds the
other threads, and history variables for what was reported and logged.

**ClJob.** A double is its position in the file. `Setup` is `performJobSetup`,
each pass is `BeginPass`, `LoadPass`, `RunKernel`; `HostBuffer` is what the
pieces read from the file leave in the buffer, and the kernel reads
`Slot(thread)` from it, so that the code's two ways to compute an index are
compared. A small file is a job in chunks of one byte, whose vector on the host may
be shorter than the read (`Overrun`: what such a read does is undefined, so that
the program may end there or go on). OpenCL calls may fail (`Fail`).

**CpuJob.** Every block is a loop of its own and TBB runs the loops in any
interleaving. The scalar and the AVX2 code are one module with `Unit` doubles per
step.

**Arithmetic, Doubles, StatsAccumulator, Avx2StatsAccumulator, ClStatsAccumulator.** A
double is a fraction in lowest
terms, an infinity, NaN, or a denormal number; what exceeds `MaxDouble` is an
infinity. The formulas of `push` and `operator+` are evaluated in the code's order
of operations, so that an intermediate result overflows where the code's does,
and products of counts wrap at `WordModulus`. `Merge(a, b)` is `operator+` with the
side it keeps when one operand is empty or invalid or their sum overflows. A
vector accumulator has one record per lane; `PushLane` masks an invalid value as
the intrinsics do (an addition of infinity, a minimum that returns its second
operand for NaN), and `asScalar` merges the lanes. The accumulator of an OpenCL
work item is seven doubles, which the kernel loads (`Load`), pushes to and stores
(`Store`) in each pass.

**DistributionClassification.** Points in the plane of skewness and kurtosis on a
grid of twelfths, on which the fixed points lie; squared distances, `std::hypot` and
`std::min_element` with their rules for infinities and NaN.

**Results.** The actions `Push`, `PushVector`, `RunKernel` and `Close` fill
accumulators with any values, each with the code of any kind of device (`kinds`; scalar
and AVX2 jobs exclude each other, those of OpenCL devices are mixed with either, as in
mode `all`), `Return` is the end of `run`, `StartMerge`, `MergeStep` and `MergeEnd` are
`mergeLeftToRight`, `Classify` writes a report; the merge and the report are made
twice. `parts` remembers the data, and the properties compare the result with
central moments that are computed from all of them at once, in integers.

**OptionParser.** The loop of `OptionParser::parse` over kinds of arguments: what the
text of an argument is split into is given (`Argument`), what the parser does with
it is modelled: which argument an option takes as its value, implicit and default
values, positional options that were given before, `--`, lists with commas,
values that cannot be converted.

**MemoryAllocation, Setup.** `buildMemoryConfig` as operators with percentages;
`Setup` has one action per argument parsed, then the steps of `processArgs` and
`validateArgs`, the loop of `queryClDevices` and the constructors, with every error
path: `exit` is `exit(1)`, `terminated` is an exception that meets the watchdog's
joinable thread, `crashed` the first item of an empty vector. `FileRemoved` is the
environment. What `Setup` ends with are the constants of JobScheduler
(`MaxChunks`, `Enabled`, `ChunkCount`), and `WorkersCanWork` says that they
satisfy its assumptions.

**Program.** `Setup` between the steps of `main`, `run` and `runBenchmark`: the number
of runs, a scheduler constructed and destroyed for each, directories and the
output file, every handler of an exception. The run of the scheduler is one step
that throws or returns: JobScheduler says what it does, Results what is made of
what it returns.

## 3. What is checked

| Run | Instance | Shows |
|---|---|---|
| `scheduler` | 1 OpenCL device (2 chunks a job), CPU (1 chunk), 4 chunks | the inductive invariant (types are part of it), chunk partition, complete and ordered result, no race on `currentJob`, no lost wake-up, no stranded thread, retry only at shutdown, refinement of ChunkedComputation with its fairness; the program ends and an error makes `run` throw |
| `semaphore` | 4 threads, count up to 3 | mutual exclusion, enough threads awake, refinement of the abstract semaphore with its liveness |
| `watchdog` | updates of 1 and 2 bytes, at most `MaxBytes` | bytes accounted for, a stall is warned about, `join` returns |
| `cl_job` | chunk 4, accumulator 8, double 2; up to 3 accumulators, five sizes of host buffer; small files of 1 to 7 bytes in chunks of 1 | passes that divide evenly give each accumulator its own share once, only a small file is read beyond the host buffer, the loop ends |
| `cpu_job` | vectors of 2, accumulator 8, two buffers, chunk 1 and 4 | no double is pushed twice, only the end of the file is lost: less than a block, and of a small file less than a vector |
| `program` | the code's sizes in kilobytes; all command lines of up to two of 26 arguments and some of up to five; up to 2 of 3 kinds of device, limits at and beyond both bounds, files from none to larger than small | no argument is lost, threads that can work, ids that match the availability vector, buffers within the limit and the device; the average has runs, only an empty file leaves the merge without an item, code 0 tells the truth, and the program ends |
| `results` | up to 4 values (of two signs, integer or not, NaN, denormal) in up to 3 accumulators, each of scalar code, vectors of 2 or OpenCL passes of any length, sums that overflow at 100 | moments are those of data that are each counted once, and of all the data if these are small, the minimum survives an overflow, a valid part gives a valid result, both reports agree, the nearest distribution considered is chosen |

Runs that end in a violation, each a disagreement of the code with its own
documentation (`findings` in `PROJECT.json` quotes the lines):

- `cl_job_uneven`: when a pass does not divide into whole doubles per accumulator,
  doubles are skipped and others are read from the middle of two.
- `results_dropped`: the cube of the merged count is a product of `size_t`. For
  2^22 values it wraps to zero, the fourth moment is not finite, and an
  accumulator is dropped as if the doubles had overflowed (in the instance the
  width is scaled down to 6 bits and the doubles are wide).
- `results_unbalanced`: `n - other.n` is unsigned and wraps when the right operand
  of a merge holds more values than the left one.
- `results_minimum`: adding infinity masks neither NaN nor minus infinity; the
  minimum of a lane becomes NaN and the next vector replaces it.
- `program_output`: the directories of the output file are derived from the path of
  the input file; the program ends with code 0 and without the file.

Two more comments are contradicted by what the passing runs show. `JobScheduler.cpp:8`
says of the chunk size of a small file that "this way all bytes are processed":
no chunk is incomplete then, but the AVX2 code leaves out what is no whole vector
of four doubles (`Avx2CpuDeviceCoordinator.cpp:45`), so up to three doubles and part of
one, and all of a file of 24 bytes. `FileChunkHandler.h:24-25` says that what is thrown
away of the last chunk is too little to matter; the last job of a file
also loses what does not fill a block on the CPU (`CpuDeviceCoordinator.cpp:41`), or the
chunks of an incomplete accumulator on an OpenCL device (`ClDeviceCoordinator.cpp:122-125`),
when it has a whole one: up to almost 4 MB. `OnlyTailLost` states both losses of
the CPU, and where they stop: a full job loses nothing, a large last job less than a
block, a small one less than a step of the loop. Those of OpenCL are in ClJob's `TotalBytes`,
which is what `SharesComplete` takes for the whole.

`MomentsExact` holds for accumulators that are merged in order of falling
size (`Balanced`), which `results_unbalanced` shows to be needed, and below the
wrapping of the cube, which `results_dropped` covers. It says that the result
describes all of the data of some of the accumulators (or lanes of a vector), each
once: an overflow in `operator+` makes it keep only one of its operands.
`AllMerged` says that it describes all of them if the data are so near to zero and
to each other that no term of the sums exceeds the largest double (`Mild`). Both are
theorems, too.

**Bounds.** Nothing in the scheduler compares more than two coordinators or two
jobs: with one device and the CPU, of different speed and job size, and four
chunks, a coordinator gets a second job while the other still has its first, the
last range is clamped, jobs finish out of order, and the error arrives in each
state of the rest. Two devices add the case of two errors; the proofs remove the
bound for safety. A count up to 3 and 4 threads allow two sleepers and two
wakers at once. Three accumulators are the fewest that do not
divide a pass of two doubles a chunk. Small files of odd and even size, in one
pass or two, are those with and without an incomplete double. `MaxBytes` bounds only the updates, so that
a stall follows. A scheduler
with two devices, the CPU and two chunks (1.6 million states) passes too; it is
not among the runs, because the proofs say more. In `program` the numbers keep the
code's proportions (a chunk is 1/1024 of an accumulator, the limit 1 to 4 "GB"),
and `WordSize` is the width of `size_t` scaled down so that a limit can wrap back
into the accepted range. Two arguments are enough for an option with its value, a
group that ends in one, a positional argument given twice; the command lines that
start with a file and a mode reach the later positional options and the
benchmark. In `results`, `MaxDouble` is small enough for the sums of some pairs of
accumulators to overflow and large enough for most not to; one value is lost in a
sum and one is not; three accumulators allow a merge after one that overflowed, and
two kinds of device in any order among them.

**Fairness.** `JobScheduler!Fairness` is weak fairness of each thread: the operating
system runs every thread that can run, and a job that does not fail ends (a
device that hangs for ever is not excluded by the code, only reported by the
watchdog, hence an assumption). The main thread needs only weak fairness:
what it waits for stays enabled, as nobody else acquires `jobFinishedSemaphore`,
and mutexes are held for finitely many steps of a fair thread. In
CondVarSemaphore locking the mutex is strongly fair (a thread that competes for
the mutex again and again gets it: operating system mutexes do not starve a
waiter for ever), and nothing obliges a client to call or a sleeper to wake
unasked. In WatchdogClients only the watchdog's thread (its timeout expires) and
the joining thread are fair. In ClJob the coordinator's own steps are. In Program
the main thread is, and that `run` ends is what `Termination` of JobScheduler says; the
removal of the file is not.

Every property of a passing run has a mutant, a plausible bug in the code that
TLC finds with that property (definitions under `\* Mutant:`).

## 4. What is proved

For every number of devices, chunks and threads, from the named assumptions in
the modules that declare the constants:

- `CondVarSemaphore_proofs`: `TypeCorrect`, `MutualExclusion`, `AwakeCorrect`,
  `WakeupCorrect`, and `SemaphoreRefinement` (safety). The invariant is `TypeOK /\
  MutexOwned /\ EnoughAwake`. `EnoughAwake` is the reason why one `notify_one` per
  `release` suffices: the units of the count never outnumber the threads awake
  while one sleeps. `NoLostWakeup` alone is not inductive.
- `JobScheduler_proofs`: `Invariance` proves `IInv` of JobSchedulerInvariant, and from
  it follow `TypeCorrect`, `PartitionCorrect`, `ResultCorrect`, `AssignCorrect`,
  `RaceFree`, `NoWakeupLost`, `NoWorkerStranded`, `RetryCorrect` and `Refinement`
  (every step is a step of ChunkedComputation or a stutter).
- `WatchdogClients_proofs`: `TypeCorrect` and `AccountCorrect`, for any updates.
- `CpuJob_proofs`: `PushedOnce` and `TailCorrect` for any sizes and any interleaving.
  The invariant ties `pushed` to `steps` (`PushedTaken`: a double has been pushed to
  an accumulator once if the steps of its loop have passed it, and otherwise
  not), and a reported block to the end of its loop (`ReportedComplete`). That
  blocks of different accumulators have no double in common is then arithmetic:
  the lemma `InRow` of `NaturalNumbers`.
- `ClJob_proofs`: `SharesKept` and `SharesDone` for any sizes, those of a small file in
  chunks of one byte among them, and `VectorKept`: whether or not passes divide evenly,
  the pieces of whole chunks stay within the host buffer, for the rounded place of
  a piece and its length never exceed it. The invariant `Even`
  says, as long as passes divide evenly, how far every share has been read
  (`EvenPass`), what the device buffer holds before the kernel runs (`Loaded`), and
  that exactly the doubles that were passed are counted (`Counted`). The key step
  is that the buffer's index of the kernel and the piece's place in the buffer are
  the same address (`KernelReads`).
- `Program_proofs`: `TypeCorrect`, `ParserTakesAll`, `WorkersAble`, `AvailabilityCorrect`,
  `BuffersFit`, `ExitCodeTrue`, `AverageCorrect`, `CrashOnlyEmpty`, for
  command lines of any length, any devices and any files. The invariant has one
  part per group of variables: `ArgsInv` (what is behind the parser's cursor has
  found a place: the last positional option is a container), `OptionsInv` (what
  `validateArgs` let pass), `MachineInv`, `ChunkInv` (chunks are those of the file
  that was measured), `CoordinatorInv` (ids are positions), `PlanInv` (each coordinator
  has the sizes that `buildMemoryConfig` returns for the mode, the limit and the
  number of devices there still are) and `CountInv` (how many results are printed
  where the program is). `BuffersWithinShare` is the arithmetic of the percentages.
- `Results_proofs`: `TypeCorrect`, `SameReports`, `ValidResult`, `MinimumKept`,
  `NearestReported`, `LowerMomentsKept`, `MomentsKept`, `AllMergedKept`, for files and accumulators without a bound and the
  double's arithmetic as `Doubles` has it. See below.
- `NaturalNumbers`: lemmas on quotients and remainders that these proofs share,
  such as that quotients of a product are exact and that blocks in a row are
  disjoint; induction over an interval of numbers, from the least number that
  would not do; and, from it, that a function defined by recursion exists and
  satisfies its equation (`Recursion`, `RecursionFromOne`, `Summation`).
  For Results it also has the facts about integers: greatest common divisors, sums of
  powers, the central moments as polynomials of these and their bounds.

The scheduler's `IInv` has four groups. `ThreadsInv`: who holds the mutex, which thread has a job,
how far the terminate loop is. `TokensInv`: a coordinator that is available has
no job and no token; one that is not has its job and one token, taken or not,
unless its job failed; the coordinator of the recorded error is parked; a
terminated sleeper has a token left. `MainInv`: what `run` saw when it decided
still holds up to coordinators about to wake it, and an error always leaves a
release behind. `DataInv`: jobs are in the order of their ids, every chunk handed
out is in a job, the result is sorted. No property of interest is inductive by
itself: that the result is complete needs that nothing is left when `run` shuts
down, which needs the availability vector to say who has a job, which needs the
tokens. Each proof step is one action against one part of the invariant.

The invariant of Results is built in layers. `TypeOK` needs that the arithmetic is
closed: that `Gcd` ends between 1 and its argument, so that a fraction has a
denominator, and that every branch of `++`, `**` and `Reciprocal` is a double again.
`MergeInv` says what the merge has done: the copy of the valid items has, in its
first place, the running sum (`MergeSums`) of those before `next`, and what it
returns is a function of the items alone, `Expected`. As nothing writes the items,
the second merge returns the same, whatever overflowed (`SameReports`); a merge in
place would break this. `CountInv` bounds the sum of the counts of all items by
the doubles read; there are fewer of those than a word can count, so that the sum
of two counts never wraps to zero and `operator+` never takes an accumulator with
data for an empty one. With it, a sum of valid accumulators of which one has data
is valid and has data (`SumUsable`), which is `ValidResult`. `MinInv` says that each
accumulator holds the minimum of its data that count (`Summarises`); that this
survives `operator+` when it keeps only one side of an overflowing sum is
`SumMinimum`, and gives `MinimumKept`, of jobs of scalar code and OpenCL devices: what AVX2
code does to a minimum is `results_minimum`. `NearestReported` is about the loop of
`std::min_element`: of the points that are compared at least one is fixed, so at a
finite distance (`DistanceType`); only Poisson's distance may be NaN, which is not
less than what has been found and so replaces nothing.

`MomentsKept`, `LowerMomentsKept` and `AllMergedKept` are about the program's purpose: whatever the
device and the grouping of the data, the moments are exact, all of them
(`MomentsExact`) or those to the third (`LowerMomentsExact`). The argument for the
first two has four steps.

1. Arithmetic. A fraction in lowest terms stands for one number: an operation on
   doubles returns that number exactly unless it overflows (`RatioPlus` and its
   neighbours), and what has become infinite or NaN never becomes a number again.
   So it suffices to look at accumulators whose four moments are numbers.
2. Formulas. Let `Second`, `Third`, `Fourth` be the central moments as polynomials of
   the count and of the sums of the first four powers of the data. Adding one value
   (`PushExact`) and merging two sets of them (`MergePolynomials`) are identities,
   proved once over integers; `pushExact`, `PushLaneExact` and `CombineExact` show that
   `push` and the kernel, the AVX2 code with its own order of operations, and
   `operator+` compute their two sides. The counters in these formulas are of type
   `size_t`: that `n - other.n` and the products are what they seem needs that the left
   operand is no smaller (`Balanced`) and that the products do not wrap (`Fits`).
3. Invariant. `MomentsInv` says that every accumulator `Follows` what was pushed to it:
   the lanes being filled follow all of their valid data, an item of AVX2 code
   follows the sums of a set of its lanes, whatever code fills the accumulators beside it
   (`Width` and `Lane` are those of the item's own device). `SumGathered` carries this through the
   merge: the running sum follows the sums (`Gather`) of a set of the items merged
   so far. That sums over a set of items, of lanes and of data may be split and
   joined is proved from the equations of `Total`.
4. Reference. The properties compute central moments from the data, as sums of
   powers of differences. `CentralSums` shows by the binomial theorem, with
   coefficients in `Weights`, that these are the polynomials of step 2; `FollowsDescribes`
   concludes.

`AllMergedKept` adds that nothing is dropped when the data are `Mild`, so that the
set in step 3 is that of all usable accumulators.

5. Bounds. `Bounded(x, B, E)` says that a double is a number between -B/E and B/E.
   Data are `Made` of integers when no polynomial that is nonnegative on them has a
   negative sum; this survives a push and a merge, and with the right polynomials
   bounds the central moments by the largest distance between two of the data
   (`MomentBounds`). From there `PushLaneFits` and `CombineFits` bound each term of the
   formulas, in the order in which the code computes them: none exceeds `MaxDouble`.
6. Invariant. Data of a part of the accumulators are as tame as all the data (`Tame`). The
   invariant `WholeInv` says that a lane of tame data is valid, and that an item follows
   the sums of all of its lanes, not only of a set of them, if those are tame and in
   order. It is inductive given `MomentsInv`; TLC checked it in the instance of
   `results` first. `SumWhole` carries it through the merge, and in `ResultWhole` the
   set of operands that the result follows becomes that of all of them.

The hypotheses are about the size of the file. `LowerMomentsKept` needs that the square
of the number of values fits into a `size_t`: with 64 bits, fewer than 2^32 values or
32 GB. `MomentsKept` needs the same of the cube, hence fewer than 2^21.3 values, about 20 MB.
It cannot be dropped: the divisor of the fourth moment in `operator+` is that cube. When
it wraps to zero an operand is dropped (`results_dropped`); otherwise the moment is wrong,
as TLC shows for `MomentsExact` when `WordModulus` is 20 in `MCResults.cfg`, where
`LowerMomentsExact` still holds. `AllMergedKept` needs in addition that six times the square
of the number of values is not beyond the largest double, which is about 10^308:
products of two counts are terms of the formulas, whatever the data.

The recursive functions of the model (running sums, the kernel's loop, `std::copy_if`,
`std::min_element`, Euclid's algorithm) are defined with CHOOSE underneath; that
their equations hold is proved for each with the lemmas of `NaturalNumbers`, and
what they compute by induction from `LeastNumber`.

The assumptions are what set-up establishes: `DeviceAssumption` (in mode
`opencl_devices` there is a device; `validateArgs` and `queryClDevices` refuse the mode
otherwise), `MaxChunksAssumption` (an enabled coordinator takes at least a chunk)
and distinct constants for null pointers and threads. `CpuJobAssumption` and
`ClJobAssumption` are relations of sizes that the constants of the code satisfy: a chunk
of 4096 bytes is whole doubles, an accumulator of 4 MB whole chunks and whole vectors,
a small file (below 1 MB) no larger than an accumulator, a buffer no smaller than a
chunk. The chunk size of 1 that small files get is not among the constants but a value of
the variable `chunkSizeBytes`, about which nothing is assumed;
`PassesEven`, under which ClJob's theorems speak, is not one that the code
guarantees, as `cl_job_uneven` shows. `SetupAssumption` says what a command line and
a device are. `SizesAssumption` is the proportion of three constants of the code,
without which a device could get no memory for a chunk: a chunk (4096 bytes) is
no larger than an accumulator's share (4 MB), and 12 percent of the default limit
(1 GB), the least that goes to the buffers of a mode, holds twice an accumulator
and four chunks for each device there can be. `ResultsAssumption` says that the
values of a file are doubles and that it has fewer of them than a `size_t` can
count, which holds for any file that has a size.

Only model-checked:

- liveness (`Termination`, `ErrorSurfaces`, `ImplementsComputation`,
  `ImplementsSemaphore`, `StallWarned`, `JoinReturns`, `JobEnds`, `ProgramEnds`), which needs
  fairness and ENABLED;
- What is violated by design of the runs in the second list of section 3.

## 5. What is not modelled

- Rounding and underflow of results in the statistics: sums and products are
  exact until they overflow. What rounding does to the moments is outside the
  reach of a model checker. Underflow has one consequence beyond rounding: a moment
  that becomes denormal makes `valid()` false (`StatsAccumulator.cpp:72-75`), and the
  accumulator is dropped in the merge like one that overflowed. `AllMerged` and its
  theorem say that nothing is dropped for data without large terms, and hold for
  data without tiny ones: central moments (times the count) are zero or above 10^-308.
- Code that is never called: `Avx2StatsAccumulator`'s `push`, `operator+` and
  `operator+=`, `mergePairwise`, the non-fatal branch of an error (`CoordinatorErr` is
  always fatal), `jobMutex`.
- The OpenCL runtime, apart from its errors.
- What a small file whose size is no multiple of eight does to the loader of CPU jobs: with
  a chunk size of 1 (`JobScheduler.cpp:8`) a job need not be whole doubles, which
  `DataLoader.h:29` and `DataLoader.cpp:16` take for granted; the read is then
  up to seven bytes longer than the vector (`DataLoader.cpp:26`). CpuJob goes on without
  the incomplete double. ClJob has the same of `DataLoader.cpp:60` as `Overrun`.
  `OnlyEmptyFileCrashes` is about the merge's first item only.
- `std::bad_alloc`, and a file that shrinks while it is read.
- The watchdog destroyed before it was started appears only in Setup, as
  `terminated`: the exception ends the program before any join.
- Of cxxopts: how a text is recognised as an option or a number (paths with spaces
  and overflows of numbers included), help texts, iteration over results, and
  features this program does not use.
- The timer, the text of the log, the OpenCL sandbox, generators and validator.

Facts met while reading that no property is about:

- `log` is called with `coordinatorMutex` held (`JobScheduler.cpp:155`, 217-225), which
  `Logging.h:40` forbids. No deadlock follows: nothing takes that mutex under the
  log's.
- The AVX2 code reports a quarter of the bytes to the watchdog
  (`Avx2CpuDeviceCoordinator.cpp:78`).
- No device is skipped for lack of double precision: `std::string::find`'s position is tested
  as a Boolean (`ArgParser.cpp:55-57`; modelled by `TakenForMissing`).
- The first value of an accumulator is squared (`deltaNSquared`) before the square is
  multiplied by moments and a count of zero. The square of a value beyond 10^154 is
  infinite, its product with zero is NaN, and the accumulator (or lane) is dropped with
  all it receives later. `Mild` therefore bounds the square of each value.
- `numericalErrorWhileMerging` is lost in the next merge that succeeds, and nothing
  reads it.
- Constant data have a second moment of zero, hence NaN for a point: with
  integers every distance is NaN or infinite and the first distribution,
  Gaussian, is reported though it was discarded. `NearestConsidered` is about
  finite points.
- The branch that discards the exponential distribution for a negative minimum
  (`DistributionClassification.h:118-122`) is never reached.

## 6. Plan

The components that carry the program's logic are modelled. What could still be
added is the composition of JobScheduler with Results, so that the order of the jobs,
and not only the order of the items, decides about `Balanced`.
