------------------------------- MODULE CpuJob -------------------------------
(***************************************************************************)
(* CpuDeviceCoordinator::onProcessJob and its AVX2 override: one job on the *)
(* CPU.  The doubles of the job are cut into blocks, one per accumulator,   *)
(* and TBB's threads push the blocks in any interleaving; a job with less   *)
(* than two blocks goes into a single accumulator.  The AVX2 code pushes    *)
(* Lanes doubles at a time and counts in units of Lanes doubles.            *)
(*                                                                         *)
(* A double is abstracted to its index in the job's buffer.                 *)
(***************************************************************************)
EXTENDS Naturals, FiniteSets

CONSTANTS
    DoubleBytes,        \* sizeof(double)
    Lanes,              \* doubles in a vector
    AccumulatorBytes,   \* bytesPerAccumulator
    ChunkSizes,         \* chunk sizes: the default, and 1 for small files
    BufferSizes         \* memory the CPU may use for a job

ASSUME CpuJobAssumption ==
    /\ {DoubleBytes, Lanes} \subseteq Nat \ {0}
    /\ AccumulatorBytes \in Nat \ {0}
    /\ AccumulatorBytes % (Lanes * DoubleBytes) = 0
    /\ ChunkSizes \subseteq {n \in 1..AccumulatorBytes : AccumulatorBytes % n = 0}
    /\ BufferSizes \subseteq {n \in Nat : n >= AccumulatorBytes}

VARIABLES
    chunkSizeBytes, cpuBufferSizeBytes, avx2,   \* fixed by the constructors
    nChunks,    \* of currentJob
    pc,         \* control state of the coordinator thread
    steps,      \* accumulator -> steps of its loop that have been made
    reported,   \* accumulators whose block has been reported
    pushed,     \* accumulator -> double -> times pushed
    notified    \* bytes reported to the watchdog

config == <<chunkSizeBytes, cpuBufferSizeBytes, avx2, nChunks>>
vars == <<config, pc, steps, reported, pushed, notified>>

\* Mutant: the buffer is filled without regard to accumulators.
ChunksInBuffer(buffer, chunk) == buffer \div chunk

\* Whole accumulators that fit the buffer, in chunks.
MaxNumberOfChunksPerJob(buffer, chunk) ==
    ((buffer \div AccumulatorBytes) * AccumulatorBytes) \div chunk

JobBytes == nChunks * chunkSizeBytes

\* Size of the vector that loadJobDataIntoVector returns.
BufferSize == JobBytes \div DoubleBytes

DoublesPerAccumulator == AccumulatorBytes \div DoubleBytes

NAccumulators == BufferSize \div DoublesPerAccumulator

InParallel == NAccumulators > 1

\* In a small job the accumulator pushed is appended to those of the vector.
Accumulators == IF InParallel THEN 0..(NAccumulators - 1) ELSE {NAccumulators}

Unit == IF avx2 THEN Lanes ELSE 1

\* Loop bounds of an accumulator, in units.
JobStart(a) == IF InParallel THEN (a * DoublesPerAccumulator) \div Unit ELSE 0

\* Mutant: the end of a block is not scaled to vectors.
JobEndInDoubles(a) ==
    IF InParallel THEN (a + 1) * DoublesPerAccumulator ELSE BufferSize \div Unit

JobEnd(a) ==
    IF InParallel
      THEN IF avx2 THEN JobStart(a) + DoublesPerAccumulator \div Lanes
                   ELSE (a + 1) * DoublesPerAccumulator
      ELSE BufferSize \div Unit

Doubles == 0..(BufferSize - 1)

Init ==
    /\ chunkSizeBytes \in ChunkSizes
    /\ cpuBufferSizeBytes \in BufferSizes
    /\ avx2 \in BOOLEAN
    /\ nChunks \in 1..MaxNumberOfChunksPerJob(cpuBufferSizeBytes, chunkSizeBytes)
    /\ pc = "compute"
    /\ steps = [a \in Accumulators |-> 0]
    /\ reported = {}
    /\ pushed = [a \in Accumulators |-> [d \in Doubles |-> 0]]
    /\ notified = 0

\* One iteration of the loop of accumulator a, by the thread that has it.
Push(a) ==
    /\ pc = "compute"
    /\ JobStart(a) + steps[a] < JobEnd(a)
    /\ LET i == JobStart(a) + steps[a]
       IN  pushed' = [pushed EXCEPT ![a] =
                        [d \in Doubles |->
                            @[d] + IF d \in (i * Unit)..((i + 1) * Unit - 1) THEN 1 ELSE 0]]
    /\ steps' = [steps EXCEPT ![a] = @ + 1]
    /\ UNCHANGED <<config, pc, reported, notified>>

\* What notifyWatchdogCallback is told after a block.
ReportedBytes(a) ==
    IF InParallel THEN (JobEnd(a) - JobStart(a)) * DoubleBytes
                  ELSE BufferSize * DoubleBytes

Report(a) ==
    /\ pc = "compute"
    /\ JobStart(a) + steps[a] = JobEnd(a)
    /\ a \notin reported
    /\ reported' = reported \cup {a}
    /\ notified' = notified + ReportedBytes(a)
    /\ UNCHANGED <<config, pc, steps, pushed>>

\* parallel_for has returned: the accumulators become the job's Items.
Finish ==
    /\ pc = "compute"
    /\ reported = Accumulators
    /\ pc' = "done"
    /\ UNCHANGED <<config, steps, reported, pushed, notified>>

Next ==
    \/ \E a \in Accumulators : Push(a) \/ Report(a)
    \/ Finish
    \/ pc = "done" /\ UNCHANGED vars

Spec == Init /\ [][Next]_vars

----------------------------------------------------------------------------
TypeOK ==
    /\ pc \in {"compute", "done"}
    /\ steps \in [Accumulators -> 0..BufferSize]
    /\ reported \subseteq Accumulators
    /\ pushed \in [Accumulators -> [Doubles -> Nat]]
    /\ notified \in Nat

Pushed == {d \in Doubles : \E a \in Accumulators : pushed[a][d] > 0}

\* Whatever the interleaving, and though scalar and vector code count in
\* different units, no double of the job is pushed twice.
NothingTwice ==
    \A d \in Doubles : \A a, b \in Accumulators :
        pushed[a][d] <= 1 /\ (a # b /\ pushed[a][d] > 0 => pushed[b][d] = 0)

\* The size of a job that getMaxNumberOfChunks promises is one onProcessJob
\* processes to the last double, so only the last job of a file can lose any,
\* and it loses less than a block.  A job that is too small for two blocks, as
\* every small file is, loses less bytes than one step of the loop takes: part
\* of a double, or of a vector of four.  So a chunk size of one byte does not
\* mean that "all bytes are processed" (JobScheduler.cpp).
OnlyTailLost ==
    pc = "done" =>
        /\ nChunks = MaxNumberOfChunksPerJob(cpuBufferSizeBytes, chunkSizeBytes)
              => Pushed = Doubles
        /\ Cardinality(Doubles \ Pushed) < DoublesPerAccumulator
        /\ JobBytes < 2 * AccumulatorBytes
              => JobBytes - Cardinality(Pushed) * DoubleBytes < Unit * DoubleBytes
        /\ \A d \in Doubles \ Pushed : \A p \in Pushed : p < d
=============================================================================
