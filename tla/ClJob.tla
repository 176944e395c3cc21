------------------------------- MODULE ClJob --------------------------------
(***************************************************************************)
(* ClDeviceCoordinator::onProcessJob: one job on an OpenCL device.          *)
(*                                                                         *)
(* The job is cut into accumulators, one work item each.  When it does not  *)
(* fit the host buffer it is processed in several passes: a pass loads the  *)
(* next piece of every accumulator's share of the file, side by side, into  *)
(* the device buffer and runs the kernel over it.                           *)
(*                                                                         *)
(* The file is abstracted to the addresses of its bytes: a buffer maps each *)
(* of its bytes to the file address it was read from.  A double the kernel  *)
(* reads is intact when its bytes are those of one double of the file.      *)
(***************************************************************************)
EXTENDS Integers, FiniteSets

CONSTANTS
    DoubleBytes,        \* sizeof(double)
    DefaultChunkSize,   \* chunkSizeBytes, unless the file is small
    SmallSizeLimit,     \* below it a file is read in chunks of one byte
    AccumulatorBytes,   \* bytesPerAccumulator
    MaxWorkGroupSize,   \* maxWorkGroupSize
    HostBytes,          \* sizes of the host buffer, no larger than the device's
    FirstChunks         \* bound: where a job may start in the file

ASSUME ClJobAssumption ==
    /\ {DoubleBytes, DefaultChunkSize, AccumulatorBytes, MaxWorkGroupSize} \subseteq Nat \ {0}
    /\ DefaultChunkSize % DoubleBytes = 0
    /\ AccumulatorBytes % DefaultChunkSize = 0   \* "(ideally) divisible without remainder"
    /\ SmallSizeLimit \in 1..AccumulatorBytes
    /\ HostBytes \subseteq {h \in Nat : h >= DefaultChunkSize}
    /\ FirstChunks \subseteq Nat

VARIABLES
    chunkSizeBytes,    \* DefaultChunkSize, or 1 for a small file
    job,               \* ChunkIdxRange of currentJob
    maxHostChunks,     \* chunks the host buffer and the device buffer hold
    pc,                \* control state of onProcessJob
    bytesRemaining,
    bytesProcessedPerAccumulator,
    chunksToLoad,      \* of the current pass
    deviceBuffer,      \* file address of each byte, or Stale
    counted,           \* accumulator -> file address of a double -> times pushed
    garbage,           \* doubles pushed that are none of the file's
    notified           \* bytes reported to the watchdog

config == <<chunkSizeBytes, job, maxHostChunks>>
vars == <<config, pc, bytesRemaining, bytesProcessedPerAccumulator, chunksToLoad, deviceBuffer,
          counted, garbage, notified>>

Stale == -1   \* a byte of the zero-initialised host buffer

ChunksPerAccumulator == AccumulatorBytes \div chunkSizeBytes

MaxChunksPerJob == MaxWorkGroupSize * ChunksPerAccumulator

NChunks == job.last - job.first

JobBytes == NChunks * chunkSizeBytes

----------------------------------------------------------------------------
(* performJobSetup: a job smaller than an accumulator gets one of its own   *)
(* size; otherwise the chunks of an incomplete accumulator are left out.    *)

TooSmall == NChunks \div ChunksPerAccumulator = 0

NAccumulators == IF TooSmall THEN 1 ELSE NChunks \div ChunksPerAccumulator

TotalBytes == IF TooSmall THEN JobBytes ELSE NAccumulators * AccumulatorBytes

Accumulators == 0..(NAccumulators - 1)

\* File addresses of the doubles of accumulator a's share of the job.
ShareStart(a) == job.first * chunkSizeBytes + a * AccumulatorBytes

Share(a) ==
    {ShareStart(a) + i * DoubleBytes :
        i \in 0..((TotalBytes \div NAccumulators) \div DoubleBytes - 1)}

JobDoubles == UNION {Share(a) : a \in Accumulators}

LargeFileJobs ==
    {[first |-> f, last |-> f + n] : f \in FirstChunks, n \in 1..MaxChunksPerJob}

\* A small file is one job.
SmallFileJobs == {[first |-> 0, last |-> n] : n \in 1..(SmallSizeLimit - 1)}

Init ==
    /\ \/ chunkSizeBytes = DefaultChunkSize /\ job \in LargeFileJobs
       \/ chunkSizeBytes = 1 /\ job \in SmallFileJobs
    /\ maxHostChunks \in {h \div chunkSizeBytes : h \in HostBytes}
    /\ pc = "setup"
    /\ bytesRemaining = 0
    /\ bytesProcessedPerAccumulator = 0
    /\ chunksToLoad = 0
    /\ deviceBuffer = << >>
    /\ counted = [a \in Accumulators |-> [d \in JobDoubles |-> 0]]
    /\ garbage = 0
    /\ notified = 0

Setup ==
    /\ pc = "setup"
    /\ bytesRemaining' = TotalBytes
    /\ pc' = "loop"
    /\ UNCHANGED <<config, bytesProcessedPerAccumulator, chunksToLoad, deviceBuffer,
                   counted, garbage, notified>>

\* Mutant: whole chunks for every accumulator, though there may be none.
AlignedChunksToLoad ==
    LET n == IF bytesRemaining > maxHostChunks * chunkSizeBytes
               THEN maxHostChunks
               ELSE bytesRemaining \div chunkSizeBytes
    IN  (n \div NAccumulators) * NAccumulators

NextChunksToLoad ==
    IF bytesRemaining > maxHostChunks * chunkSizeBytes
      THEN maxHostChunks
      ELSE bytesRemaining \div chunkSizeBytes

BeginPass ==
    /\ pc = "loop"
    /\ bytesRemaining > 0
    /\ chunksToLoad' = NextChunksToLoad
    /\ pc' = "load"
    /\ UNCHANGED <<config, bytesRemaining, bytesProcessedPerAccumulator, deviceBuffer,
                   counted, garbage, notified>>

----------------------------------------------------------------------------
(* loadChunksIntoDeviceBuffer: accumulator after accumulator, so that where *)
(* two pieces overlap in the buffer the later one stays.                    *)

PassBytes == chunksToLoad * chunkSizeBytes

PieceBytes == PassBytes \div NAccumulators

\* Pointer arithmetic on double*: a piece starts at a whole double.
PieceStart(a) == ((a * PieceBytes) \div DoubleBytes) * DoubleBytes

\* Mutant: the share of an accumulator is confused with its piece.
PieceAddressByPiece(a) ==
    job.first * chunkSizeBytes + a * PieceBytes + bytesProcessedPerAccumulator

\* Mutant: every pass starts at the beginning of the share.
PieceAddressRestarted(a) == ShareStart(a)

PieceAddress(a) == ShareStart(a) + bytesProcessedPerAccumulator

InPiece(a, b) == b \in PieceStart(a) .. (PieceStart(a) + PieceBytes - 1)

HostBuffer ==
    [b \in 0..(PassBytes - 1) |->
        LET writers == {a \in Accumulators : InPiece(a, b)}
            last    == CHOOSE a \in writers : \A o \in writers : o <= a
        IN  IF writers = {} THEN Stale
                            ELSE PieceAddress(last) + (b - PieceStart(last))]

\* Mutant: the vector has what the kernel will read.
VectorOfItems == NAccumulators * (PieceBytes \div DoubleBytes) * DoubleBytes

\* The vector that is the host buffer has whole doubles only.
VectorBytes == (PassBytes \div DoubleBytes) * DoubleBytes

ReadsOverEnd == \E a \in Accumulators : PieceStart(a) + PieceBytes > VectorBytes

\* Undefined behaviour of a read beyond the vector: it ends the program, or
\* the bytes end up behind the vector and the pass goes on.
Overrun ==
    /\ pc = "load"
    /\ ReadsOverEnd
    /\ pc' = "crashed"
    /\ UNCHANGED <<config, bytesRemaining, bytesProcessedPerAccumulator, chunksToLoad,
                   deviceBuffer, counted, garbage, notified>>

LoadPass ==
    /\ pc = "load"
    /\ deviceBuffer' = HostBuffer
    /\ pc' = "kernel"
    /\ UNCHANGED <<config, bytesRemaining, bytesProcessedPerAccumulator, chunksToLoad,
                   counted, garbage, notified>>

----------------------------------------------------------------------------
(* computeStats in ClSources.h, all its work items                          *)

ItemsToProcess == (PassBytes \div NAccumulators) \div DoubleBytes

\* Offset in the buffer of the i-th double that work item a reads.
Slot(a, i) == (a * ItemsToProcess + i) * DoubleBytes

Intact(s) ==
    /\ deviceBuffer[s] \in JobDoubles
    /\ \A k \in 0..(DoubleBytes - 1) : deviceBuffer[s + k] = deviceBuffer[s] + k

RunKernel ==
    /\ pc = "kernel"
    /\ LET items == 0..(ItemsToProcess - 1)
           reads(a, d) == {i \in items : Intact(Slot(a, i)) /\ deviceBuffer[Slot(a, i)] = d}
       IN  /\ counted' = [a \in Accumulators |->
                            [d \in JobDoubles |-> counted[a][d] + Cardinality(reads(a, d))]]
           /\ garbage' = garbage + Cardinality(
                  {x \in Accumulators \X items : ~Intact(Slot(x[1], x[2]))})
    /\ bytesRemaining' = bytesRemaining - PassBytes
    /\ bytesProcessedPerAccumulator' = bytesProcessedPerAccumulator + PieceBytes
    /\ notified' = notified + PassBytes
    /\ pc' = "loop"
    /\ UNCHANGED <<config, chunksToLoad, deviceBuffer>>

ReadResults ==
    /\ pc = "loop"
    /\ bytesRemaining = 0
    /\ pc' = "done"
    /\ UNCHANGED <<config, bytesRemaining, bytesProcessedPerAccumulator, chunksToLoad,
                   deviceBuffer, counted, garbage, notified>>

\* An OpenCL call returns an error: std::runtime_error leaves onProcessJob.
Fail ==
    /\ pc \in {"setup", "load", "kernel", "loop"}
    /\ pc' = "failed"
    /\ UNCHANGED <<config, bytesRemaining, bytesProcessedPerAccumulator, chunksToLoad,
                   deviceBuffer, counted, garbage, notified>>

Next ==
    \/ Setup
    \/ BeginPass
    \/ LoadPass
    \/ Overrun
    \/ RunKernel
    \/ ReadResults
    \/ Fail
    \/ pc \in {"done", "failed", "crashed"} /\ UNCHANGED vars

Spec == Init /\ [][Next]_vars

\* The coordinator thread runs and OpenCL calls return.
FairSpec == Spec /\ WF_vars(Setup \/ BeginPass \/ LoadPass \/ RunKernel \/ ReadResults)

----------------------------------------------------------------------------
TypeOK ==
    /\ pc \in {"setup", "loop", "load", "kernel", "done", "failed", "crashed"}
    /\ bytesRemaining \in 0..TotalBytes
    /\ bytesProcessedPerAccumulator \in 0..AccumulatorBytes
    /\ chunksToLoad \in 0..maxHostChunks
    /\ counted \in [Accumulators -> [JobDoubles -> Nat]]
    /\ garbage \in Nat
    /\ notified \in 0..TotalBytes

\* The job fits the host buffer, or every full pass gives each accumulator
\* the same number of whole doubles.
PassesEven ==
    \/ TotalBytes <= maxHostChunks * chunkSizeBytes
    \/ (maxHostChunks * chunkSizeBytes) % (NAccumulators * DoubleBytes) = 0

\* However many passes it takes, an accumulator is pushed only doubles of its
\* own share of the file, each once, and never half of one double and half
\* of another: the addresses in the file, in the host buffer and in the
\* kernel agree.  When the passes are uneven they do not, see ShareProcessed.
OwnShareOnce ==
    PassesEven =>
        /\ garbage = 0
        /\ \A a \in Accumulators : \A d \in JobDoubles :
              counted[a][d] <= IF d \in Share(a) THEN 1 ELSE 0

\* The passes together leave nothing out, and what they report to the
\* watchdog adds up to what they did.
SharesComplete ==
    pc = "done" /\ PassesEven =>
        /\ \A a \in Accumulators : \A d \in Share(a) : counted[a][d] = 1
        /\ notified = TotalBytes

\* DataLoader.cpp: "we assume that chunkSizeBytes is a multiple of
\* sizeof(double)".  It is not for a small file, and only then can a read go
\* beyond the host buffer: however the pieces of a pass divide it, each ends
\* before the end of the vector.
OnlySmallFileOverruns == pc = "crashed" => chunkSizeBytes = 1

\* DeviceCoordinator.h: bytesPerAccumulator is the "number of bytes processed
\* by each StatsAccumulator".
ShareProcessed ==
    pc = "done" => \A a \in Accumulators : \A d \in Share(a) : counted[a][d] = 1

\* Every pass loads something, so the loop over bytesRemaining ends.
JobEnds == <>(pc \in {"done", "failed", "crashed"})
=============================================================================
