---------------------------- MODULE ClJob_proofs ----------------------------
(***************************************************************************)
(* The passes of an OpenCL job for any sizes of double, chunk, accumulator  *)
(* and host buffer that make them even, and for a small file of any number  *)
(* of bytes: what the addresses in the file, in the host buffer and in the  *)
(* kernel have in common.                                                  *)
(***************************************************************************)
EXTENDS ClJob, NaturalNumbers, FiniteSetTheorems

\* What the constructor and the scheduler fix.
ConfigOK ==
    /\ \/ chunkSizeBytes = DefaultChunkSize /\ job \in LargeFileJobs
       \/ chunkSizeBytes = 1 /\ job \in SmallFileJobs
    /\ maxHostChunks \in {h \div chunkSizeBytes : h \in HostBytes}

ShareBytes == TotalBytes \div NAccumulators

\* Doubles of every share that the passes so far have been through.
Passed == bytesProcessedPerAccumulator \div DoubleBytes

\* A pass that gives every accumulator q doubles, in pieces of P bytes.  Only
\* the end of a small file may leave bytes that are no double.
EvenPass(q, P) ==
    /\ PassBytes = NAccumulators * P
    /\ P \in (q * DoubleBytes)..(q * DoubleBytes + DoubleBytes - 1)
    /\ bytesProcessedPerAccumulator = Passed * DoubleBytes
    /\ bytesProcessedPerAccumulator + P <= ShareBytes
    /\ \/ P = q * DoubleBytes
       \/ NAccumulators = 1 /\ bytesProcessedPerAccumulator + P = ShareBytes

\* The pieces lie in the buffer in the order of the accumulators.
Loaded(P) ==
    \A a \in Accumulators : \A x \in 0..(P - 1) :
        deviceBuffer[a * P + x] = ShareStart(a) + bytesProcessedPerAccumulator + x

\* The doubles that the passes so far have been through are counted once.
Counted(a, d) ==
    IF \E i \in 0..(Passed - 1) : d = ShareStart(a) + i * DoubleBytes THEN 1 ELSE 0

Even ==
    /\ bytesProcessedPerAccumulator \in Nat
    /\ bytesProcessedPerAccumulator <= ShareBytes
    /\ \/ bytesProcessedPerAccumulator = Passed * DoubleBytes
       \/ bytesProcessedPerAccumulator = ShareBytes
    /\ chunksToLoad \in Nat
    /\ pc \in {"setup", "loop", "load", "kernel", "done", "failed", "crashed"}
    /\ pc = "setup" => bytesProcessedPerAccumulator = 0
    /\ pc \in {"loop", "load", "kernel", "done"} =>
         /\ bytesRemaining = NAccumulators * (ShareBytes - bytesProcessedPerAccumulator)
         /\ \E t \in Nat : bytesRemaining = t * chunkSizeBytes
    /\ pc = "done" => bytesRemaining = 0
    /\ pc = "load" => \E q, P \in Nat : EvenPass(q, P)
    /\ pc = "kernel" => \E q, P \in Nat : EvenPass(q, P) /\ Loaded(P)
    /\ notified = NAccumulators * bytesProcessedPerAccumulator
    /\ garbage = 0
    /\ counted \in [Accumulators -> [JobDoubles -> {0, 1}]]
    /\ \A a \in Accumulators : \A d \in JobDoubles : counted[a][d] = Counted(a, d)

Inv == ConfigOK /\ (PassesEven => Even)

----------------------------------------------------------------------------
LEMMA Exact ==
    ASSUME NEW x \in Nat \ {0}, NEW y \in Nat \ {0}, x % y = 0
    PROVE  x \div y \in Nat \ {0} /\ x = (x \div y) * y
<1>1. /\ x \div y \in Nat
      /\ x = (x \div y) * y + (x % y)
  BY Division
<1>2. (x \div y) * y \in Nat
  BY <1>1
<1>3. x = (x \div y) * y
  BY ONLY x % y = 0, <1>1, <1>2
<1>4. x \div y # 0
  <2>1. 0 * y = 0
    OBVIOUS
  <2> QED
    BY ONLY <1>3, <2>1, x \in Nat \ {0}
<1> QED
  BY <1>1, <1>3, <1>4

\* Whole parts of a number that is not a multiple.
LEMMA WholePart ==
    ASSUME NEW x \in Nat, NEW m \in Nat \ {0}
    PROVE  /\ x \div m \in Nat /\ (x \div m) * m \in Nat /\ (x \div m) * m <= x
           /\ x \in ((x \div m) * m)..((x \div m) * m + m - 1)
<1>1. /\ x \div m \in Nat /\ x % m \in 0..(m - 1)
      /\ x = (x \div m) * m + (x % m)
  BY Division
<1>2. (x \div m) * m \in Nat
  BY <1>1
<1> QED
  BY <1>1, <1>2

LEMMA InQuotient ==
    ASSUME NEW q \in Nat, NEW m \in Nat \ {0}, NEW x \in Nat,
           x \in (q * m)..(q * m + m - 1)
    PROVE  /\ x \div m = q
           /\ \A a \in Nat : a * m <= x => a <= q
<1>1. q * m \in Nat /\ (q + 1) * m = q * m + m
  BY Product
<1>2. ASSUME NEW a \in Nat, a * m <= x PROVE a <= q
  <2>1. q + 1 <= a => (q + 1) * m <= a * m
    BY ProductMonotone
  <2>2. a * m \in Nat
    BY Product
  <2> QED
    BY <1>1, <1>2, <2>1, <2>2
<1>3. q <= x \div m
  BY <1>1, DivAtLeast
<1>4. x \div m \in Nat /\ (x \div m) * m <= x
  BY <1>1, WholePart
<1> QED
  BY <1>2, <1>3, <1>4

LEMMA NoRemainder ==
    ASSUME NEW q \in Nat, NEW m \in Nat \ {0}
    PROVE  (q * m) % m = 0
<1> DEFINE n == q * m
<1>1. n \in Nat /\ n \div m = q /\ n = q * m
  BY Quotient
<1> HIDE DEF n
<1>2. n % m \in 0..(m - 1) /\ n = (n \div m) * m + (n % m)
  BY <1>1, Division
<1>3. n % m = 0
  BY <1>1, <1>2
<1> QED
  BY <1>3 DEF n

LEMMA Constants ==
    /\ DoubleBytes \in Nat \ {0} /\ DefaultChunkSize \in Nat \ {0}
    /\ AccumulatorBytes \in Nat \ {0} /\ MaxWorkGroupSize \in Nat \ {0}
    /\ \E c \in Nat \ {0} : DefaultChunkSize = c * DoubleBytes
    /\ \E k \in Nat \ {0} : AccumulatorBytes = k * DefaultChunkSize
<1>1. /\ DoubleBytes \in Nat \ {0} /\ DefaultChunkSize \in Nat \ {0}
      /\ AccumulatorBytes \in Nat \ {0} /\ MaxWorkGroupSize \in Nat \ {0}
      /\ DefaultChunkSize % DoubleBytes = 0 /\ AccumulatorBytes % DefaultChunkSize = 0
  BY ClJobAssumption
<1> QED
  BY <1>1, Exact

\* Every accumulator has the same number of bytes, together they are whole
\* chunks, and only a single accumulator can have an incomplete double.
LEMMA Sizes ==
    ASSUME ConfigOK
    PROVE  /\ job.first \in Nat /\ chunkSizeBytes \in Nat \ {0}
           /\ NAccumulators \in Nat \ {0}
           /\ ShareBytes \in Nat
           /\ TotalBytes = NAccumulators * ShareBytes
           /\ ShareBytes % DoubleBytes = 0 \/ NAccumulators = 1
           /\ \E t \in Nat : TotalBytes = t * chunkSizeBytes
           /\ maxHostChunks \in Nat \ {0}
<1>1. PICK k \in Nat \ {0} : AccumulatorBytes = k * DefaultChunkSize
  BY Constants
<1>2. maxHostChunks \in Nat \ {0} /\ chunkSizeBytes \in Nat \ {0}
  <2>1. PICK h \in HostBytes : maxHostChunks = h \div chunkSizeBytes
    BY DEF ConfigOK
  <2>2. h \in Nat /\ 1 * chunkSizeBytes <= h /\ chunkSizeBytes \in Nat \ {0}
    BY Constants, ClJobAssumption DEF ConfigOK
  <2>3. 1 <= h \div chunkSizeBytes /\ h \div chunkSizeBytes \in Nat
    BY <2>2, DivAtLeast, Division
  <2> QED
    BY <2>1, <2>2, <2>3
<1>3. CASE chunkSizeBytes = 1 /\ job \in SmallFileJobs
  <2>1. PICK n \in 1..(SmallSizeLimit - 1) : job = [first |-> 0, last |-> n]
    BY <1>3 DEF SmallFileJobs
  <2>2. n \in Nat /\ n < AccumulatorBytes
    BY ClJobAssumption
  <2>3. job.first = 0 /\ NChunks = n /\ JobBytes = n
    BY <1>3, <2>1, <2>2 DEF NChunks, JobBytes
  <2>4. TooSmall
    <3>1. ChunksPerAccumulator = AccumulatorBytes
      BY <1>3, Constants DEF ChunksPerAccumulator
    <3>2. n \div AccumulatorBytes = 0
      <4>1. n \in (0 * AccumulatorBytes)..(0 * AccumulatorBytes + AccumulatorBytes - 1)
        BY <2>2, Constants
      <4> QED
        BY <4>1, Constants, InQuotient
    <3> QED
      BY <2>3, <3>1, <3>2 DEF TooSmall
  <2>5. NAccumulators = 1 /\ TotalBytes = n
    BY <2>3, <2>4 DEF NAccumulators, TotalBytes
  <2>6. ShareBytes = n
    BY <2>2, <2>5 DEF ShareBytes
  <2>7. n = n * chunkSizeBytes
    BY <1>3, <2>2
  <2> QED
    BY <1>2, <2>2, <2>3, <2>5, <2>6, <2>7
<1>4. CASE chunkSizeBytes = DefaultChunkSize /\ job \in LargeFileJobs
  <2>1. PICK f \in FirstChunks, n \in 1..MaxChunksPerJob : job = [first |-> f, last |-> f + n]
    BY <1>4 DEF LargeFileJobs
  <2>2. ChunksPerAccumulator = k
    BY <1>1, <1>4, Constants, Quotient DEF ChunksPerAccumulator
  <2>3. f \in Nat /\ n \in Nat \ {0}
    BY <2>1, <2>2, ClJobAssumption, Constants DEF MaxChunksPerJob
  <2>4. job.first \in Nat /\ NChunks = n
    BY <2>1, <2>3 DEF NChunks
  <2>5. PICK c \in Nat \ {0} : DefaultChunkSize = c * DoubleBytes
    BY Constants
  <2>6. CASE TooSmall
    <3>1. NAccumulators = 1 /\ TotalBytes = n * chunkSizeBytes
      BY <2>4, <2>6 DEF NAccumulators, TotalBytes, JobBytes
    <3>2. n * chunkSizeBytes \in Nat
      BY <1>2, <2>3
    <3>3. ShareBytes = n * chunkSizeBytes
      BY <3>1, <3>2 DEF ShareBytes
    <3> QED
      BY <1>2, <2>3, <2>4, <3>1, <3>2, <3>3
  <2>7. CASE ~TooSmall
    <3>1. /\ NAccumulators = n \div k
          /\ TotalBytes = NAccumulators * AccumulatorBytes
          /\ n \div k # 0
      BY <2>2, <2>4, <2>7 DEF NAccumulators, TotalBytes, TooSmall
    <3>2. NAccumulators \in Nat \ {0}
      BY <1>1, <2>3, <3>1, Division
    <3>3. TotalBytes = AccumulatorBytes * NAccumulators
      BY <3>1, <3>2, Constants
    <3>4. ShareBytes = AccumulatorBytes
      BY <3>2, <3>3, Constants, Quotient DEF ShareBytes
    <3>5. AccumulatorBytes = (k * c) * DoubleBytes /\ k * c \in Nat
      BY <1>1, <2>5, Constants, Product
    <3>6. AccumulatorBytes % DoubleBytes = 0
      BY <3>5, Constants, NoRemainder
    <3>7. /\ TotalBytes = (NAccumulators * k) * chunkSizeBytes
          /\ NAccumulators * k \in Nat
      BY <1>1, <1>4, <3>1, <3>2, Constants, Product
    <3> QED
      BY <1>2, <2>4, <3>1, <3>2, <3>4, <3>6, <3>7, Constants
  <2> QED
    BY <2>6, <2>7
<1> QED
  BY <1>3, <1>4 DEF ConfigOK

\* Nothing derived from the job and the buffer's size changes.
LEMMA Frozen ==
    ASSUME UNCHANGED config
    PROVE  /\ ConfigOK' <=> ConfigOK
           /\ NAccumulators' = NAccumulators /\ TotalBytes' = TotalBytes
           /\ ShareBytes' = ShareBytes
           /\ Accumulators' = Accumulators
           /\ \A a : ShareStart(a)' = ShareStart(a)
           /\ \A a : Share(a)' = Share(a)
           /\ JobDoubles' = JobDoubles
           /\ PassesEven' <=> PassesEven
           /\ chunkSizeBytes' = chunkSizeBytes
<1>1. ConfigOK' <=> ConfigOK
  BY DEF ConfigOK, LargeFileJobs, SmallFileJobs, MaxChunksPerJob, ChunksPerAccumulator, config
<1>2. NChunks' = NChunks
  BY DEF NChunks, config
<1>3. TooSmall' <=> TooSmall
  BY <1>2 DEF TooSmall, ChunksPerAccumulator, config
<1>4. NAccumulators' = NAccumulators
  BY <1>2, <1>3 DEF NAccumulators, ChunksPerAccumulator, config
<1>5. TotalBytes' = TotalBytes
  BY <1>2, <1>3, <1>4 DEF TotalBytes, JobBytes, config
<1>6. ShareBytes' = ShareBytes /\ Accumulators' = Accumulators
  BY <1>4, <1>5 DEF ShareBytes, Accumulators
<1>7. \A a : ShareStart(a)' = ShareStart(a)
  BY DEF ShareStart, config
<1>8. \A a : Share(a)' = Share(a)
  BY <1>4, <1>5, <1>7 DEF Share
<1>9. JobDoubles' = JobDoubles
  BY <1>6, <1>8 DEF JobDoubles
<1>10. PassesEven' <=> PassesEven
  BY <1>4, <1>5 DEF PassesEven, config
<1> QED
  BY <1>1, <1>4, <1>5, <1>6, <1>7, <1>8, <1>9, <1>10 DEF config

\* The doubles of a share, by their number in it.
LEMMA ShareMembers ==
    ASSUME ConfigOK, NEW a \in Accumulators
    PROVE  /\ ShareStart(a) \in Nat
           /\ Share(a) = {ShareStart(a) + i * DoubleBytes :
                            i \in 0..(ShareBytes \div DoubleBytes - 1)}
<1>1. job.first \in Nat /\ chunkSizeBytes \in Nat \ {0} /\ a \in Nat
  BY Sizes DEF Accumulators
<1>2. ShareStart(a) \in Nat
  <2>1. job.first * chunkSizeBytes \in Nat /\ a * AccumulatorBytes \in Nat
    BY <1>1, Constants
  <2> QED
    BY <2>1 DEF ShareStart
<1> QED
  BY <1>2 DEF Share, ShareBytes

----------------------------------------------------------------------------
(* One pass                                                                *)

\* What is left is loaded evenly.
LEMMA NextPassEven ==
    ASSUME ConfigOK, PassesEven,
           NEW p \in Nat, p <= ShareBytes, NEW j \in Nat, p = j * DoubleBytes,
           NEW rest \in Nat, rest = NAccumulators * (ShareBytes - p),
           NEW t \in Nat, rest = t * chunkSizeBytes,
           NEW chunks,
           chunks = IF rest > maxHostChunks * chunkSizeBytes THEN maxHostChunks
                                                         ELSE rest \div chunkSizeBytes
    PROVE  /\ chunks \in Nat
           /\ \E q, P \in Nat :
                /\ chunks * chunkSizeBytes = NAccumulators * P
                /\ P \in (q * DoubleBytes)..(q * DoubleBytes + DoubleBytes - 1)
                /\ p + P <= ShareBytes
                /\ P = q * DoubleBytes \/ (NAccumulators = 1 /\ p + P = ShareBytes)
<1> DEFINE host == maxHostChunks * chunkSizeBytes
           N == NAccumulators
<1>1. /\ N \in Nat \ {0} /\ ShareBytes \in Nat /\ maxHostChunks \in Nat \ {0}
      /\ TotalBytes = N * ShareBytes
  BY Sizes
<1>2. /\ DoubleBytes \in Nat \ {0} /\ chunkSizeBytes \in Nat \ {0}
  BY Sizes, Constants
<1>3. host \in Nat
  BY <1>1, <1>2
<1>4. CASE rest > host
  <2>1. chunks = maxHostChunks /\ chunks * chunkSizeBytes = host
    BY <1>4
  <2>2. rest <= TotalBytes
    <3>1. (ShareBytes - p) * N <= ShareBytes * N
      <4>1. ShareBytes - p \in Nat /\ ShareBytes - p <= ShareBytes
        BY <1>1
      <4> QED
        BY <1>1, <4>1, ProductMonotone
    <3>2. rest = (ShareBytes - p) * N /\ TotalBytes = ShareBytes * N
      BY <1>1
    <3> QED
      BY <3>1, <3>2
  <2>3. host % (N * DoubleBytes) = 0
    <3>1. TotalBytes \in Nat
      BY <1>1
    <3>2. ~(TotalBytes <= host)
      BY <1>3, <1>4, <2>2, <3>1
    <3> QED
      BY <3>2 DEF PassesEven
  <2> DEFINE q == host \div (N * DoubleBytes)
  <2>4. N * DoubleBytes \in Nat \ {0}
    BY <1>1, <1>2
  <2>5. q \in Nat /\ host = q * (N * DoubleBytes) + (host % (N * DoubleBytes))
    BY <1>3, <2>4, Division
  <2> HIDE DEF q
  <2>6. host = q * (N * DoubleBytes)
    <3>1. q * (N * DoubleBytes) \in Nat
      BY <2>4, <2>5
    <3> QED
      BY ONLY <2>3, <2>5, <3>1
  <2>7. q * (N * DoubleBytes) = N * (q * DoubleBytes)
    BY <1>1, <1>2, <2>5
  <2>8. q * DoubleBytes <= ShareBytes - p
    <3>1. q * DoubleBytes \in Nat /\ ShareBytes - p \in Nat
      BY <1>1, <1>2, <2>5
    <3>2. (q * DoubleBytes) * N <= (ShareBytes - p) * N
      <4>1. N * (q * DoubleBytes) <= N * (ShareBytes - p)
        BY <1>3, <1>4, <2>6, <2>7
      <4> QED
        BY <1>1, <3>1, <4>1
    <3> QED
      BY <1>1, <3>1, <3>2, Cancel
  <2>9. p + q * DoubleBytes <= ShareBytes /\ q * DoubleBytes \in Nat
    BY <1>1, <1>2, <2>5, <2>8
  <2>10. q * DoubleBytes \in (q * DoubleBytes)..(q * DoubleBytes + DoubleBytes - 1)
    BY <1>2, <2>9
  <2> QED
    BY <1>1, <2>1, <2>5, <2>6, <2>7, <2>9, <2>10
<1>5. CASE ~(rest > host)
  <2>1. chunks = t /\ chunks * chunkSizeBytes = rest
    BY <1>2, <1>5, Quotient
  <2> DEFINE s == ShareBytes \div DoubleBytes
             r == ShareBytes % DoubleBytes
             P == ShareBytes - p
  <2>2. /\ s \in Nat /\ r \in 0..(DoubleBytes - 1) /\ s * DoubleBytes \in Nat
        /\ ShareBytes = s * DoubleBytes + r
    <3>1. /\ s \in Nat /\ r \in 0..(DoubleBytes - 1)
          /\ ShareBytes = s * DoubleBytes + r
      BY <1>1, <1>2, Division
    <3> HIDE DEF s, r
    <3> QED
      BY <1>2, <3>1
  <2>3. r = 0 \/ N = 1
    BY Sizes
  <2> HIDE DEF s, r
  <2>4. j <= s
    <3>1. ShareBytes \in (s * DoubleBytes)..(s * DoubleBytes + DoubleBytes - 1)
      BY <1>1, <1>2, <2>2
    <3> QED
      BY <1>1, <1>2, <2>2, <3>1, InQuotient
  <2>5. s - j \in Nat /\ (s - j) * DoubleBytes = s * DoubleBytes - p
    BY <1>2, <2>2, <2>4
  <2>6. P \in Nat /\ P = (s - j) * DoubleBytes + r /\ p + P = ShareBytes
    BY <1>1, <2>2, <2>5
  <2>7. P \in ((s - j) * DoubleBytes)..((s - j) * DoubleBytes + DoubleBytes - 1)
    BY <1>2, <2>2, <2>5, <2>6
  <2>8. P = (s - j) * DoubleBytes \/ N = 1
    BY <2>2, <2>3, <2>5, <2>6
  <2>9. chunks * chunkSizeBytes = N * P
    BY <2>1
  <2> HIDE DEF P
  <2> QED
    BY <1>1, <2>1, <2>5, <2>6, <2>7, <2>8, <2>9
<1> QED
  BY <1>4, <1>5

\* A byte of a piece has one writer.
LEMMA HostByte ==
    ASSUME ConfigOK, NEW q \in Nat, NEW P \in Nat, PassBytes = NAccumulators * P,
           P = q * DoubleBytes \/ NAccumulators = 1,
           NEW a \in Accumulators, NEW x \in 0..(P - 1)
    PROVE  HostBuffer[a * P + x] = ShareStart(a) + bytesProcessedPerAccumulator + x
<1> DEFINE b == a * P + x
           writers == {o \in Accumulators : InPiece(o, b)}
           last    == CHOOSE w \in writers : \A o \in writers : o <= w
<1>1. NAccumulators \in Nat \ {0} /\ DoubleBytes \in Nat \ {0} /\ a \in Nat
  BY Sizes, Constants DEF Accumulators
<1>2. PieceBytes = P
  <2>1. PassBytes = P * NAccumulators
    BY <1>1
  <2> QED
    BY <1>1, <2>1, Quotient DEF PieceBytes
<1>3. ASSUME NEW o \in Accumulators PROVE PieceStart(o) = o * P
  <2>1. o \in Nat
    BY <1>1 DEF Accumulators
  <2>2. CASE P = q * DoubleBytes
    <3>1. o * P = (o * q) * DoubleBytes /\ o * q \in Nat
      BY <1>1, <2>1, <2>2, Product
    <3> QED
      BY <1>1, <1>2, <3>1, Quotient DEF PieceStart
  <2>3. CASE NAccumulators = 1
    <3>1. o = 0 /\ 0 * P = 0
      BY <2>1, <2>3 DEF Accumulators
    <3>2. 0 \div DoubleBytes = 0 /\ 0 * DoubleBytes = 0
      BY <1>1
    <3> QED
      BY <1>2, <3>1, <3>2 DEF PieceStart
  <2> QED
    BY <2>2, <2>3
<1>4. b \in 0..(PassBytes - 1)
  <2>1. a \in 0..(NAccumulators - 1) /\ x \in 0..(P - 1)
    BY DEF Accumulators
  <2>2. b \in 0..(NAccumulators * P - 1)
    BY <1>1, <2>1, InRow
  <2> QED
    BY <2>2
<1>5. x \in 0..(P - 1) /\ x \in Nat /\ a * P \in Nat /\ b \in Nat
  BY <1>1
<1>6. writers = {a}
  <2>1. InPiece(a, b)
    BY <1>1, <1>2, <1>3, <1>5 DEF InPiece
  <2>2. ASSUME NEW o \in Accumulators, InPiece(o, b) PROVE o = a
    <3>1. b \in (o * P)..(o * P + P - 1)
      BY <1>2, <1>3, <2>2 DEF InPiece
    <3>2. o \in Nat
      BY <1>1 DEF Accumulators
    <3> QED
      BY <1>1, <1>5, <3>1, <3>2, OneBlock
  <2> HIDE DEF b
  <2> QED
    BY <2>1, <2>2
<1>7. last = a
  <2> HIDE DEF writers
  <2>1. \A w \in writers : (\A o \in writers : o <= w) <=> w = a
    BY <1>1, <1>6
  <2> QED
    BY <1>1, <1>6, <2>1
<1>8. HostBuffer[b] = PieceAddress(a) + (b - PieceStart(a))
  <2>1. HostBuffer[b] = IF writers = {} THEN Stale
                                        ELSE PieceAddress(last) + (b - PieceStart(last))
    BY <1>4 DEF HostBuffer
  <2> HIDE DEF writers, last, b
  <2> QED
    BY <1>6, <1>7, <2>1
<1>9. b - PieceStart(a) = x
  BY <1>3, <1>5
<1> QED
  BY <1>8, <1>9 DEF PieceAddress

\* What work item a reads is the next doubles of its own share.
LEMMA KernelReads ==
    ASSUME ConfigOK, Even, NEW q \in Nat, NEW P \in Nat, EvenPass(q, P), Loaded(P),
           NEW a \in Accumulators, NEW i \in 0..(q - 1)
    PROVE  /\ deviceBuffer[Slot(a, i)] = ShareStart(a) + (Passed + i) * DoubleBytes
           /\ Intact(Slot(a, i))
<1> DEFINE p == bytesProcessedPerAccumulator
<1>1. /\ NAccumulators \in Nat \ {0} /\ DoubleBytes \in Nat \ {0}
      /\ a \in Nat /\ i \in Nat /\ ShareStart(a) \in Nat /\ p \in Nat
      /\ Passed \in Nat /\ p = Passed * DoubleBytes
  <2>1. p \in Nat /\ p = Passed * DoubleBytes
    BY DEF Even, EvenPass
  <2>2. Passed \in Nat
    BY <2>1, Constants, Division DEF Passed
  <2> QED
    BY <2>1, <2>2, Sizes, Constants, ShareMembers DEF Accumulators
<1>2. ItemsToProcess = q
  <2>1. PassBytes = P * NAccumulators
    BY <1>1 DEF EvenPass
  <2>2. PassBytes \div NAccumulators = P
    BY <1>1, <2>1, Quotient
  <2> QED
    BY <1>1, <2>2, InQuotient DEF ItemsToProcess, EvenPass
<1>3. Slot(a, i) = a * P + i * DoubleBytes
  <2>1. (a * q + i) * DoubleBytes = (a * q) * DoubleBytes + i * DoubleBytes
    BY <1>1
  <2>2. (a * q) * DoubleBytes = a * P
    <3>1. CASE P = q * DoubleBytes
      BY <1>1, <3>1, Product
    <3>2. CASE NAccumulators = 1
      <4>1. a = 0
        BY <3>2 DEF Accumulators
      <4> QED
        BY <1>1, <4>1
    <3> QED
      BY <3>1, <3>2 DEF EvenPass
  <2> QED
    BY <1>2, <2>1, <2>2 DEF Slot
<1>4. ASSUME NEW k \in 0..(DoubleBytes - 1)
      PROVE  deviceBuffer[Slot(a, i) + k] = ShareStart(a) + p + (i * DoubleBytes + k)
  <2>1. i * DoubleBytes + k \in 0..(P - 1)
    <3>1. i * DoubleBytes + k \in 0..(q * DoubleBytes - 1)
      BY <1>1, InRow
    <3>2. q * DoubleBytes \in Nat /\ q * DoubleBytes <= P
      BY <1>1 DEF EvenPass
    <3> QED
      BY <3>1, <3>2
  <2>2. deviceBuffer[a * P + (i * DoubleBytes + k)]
           = ShareStart(a) + p + (i * DoubleBytes + k)
    BY <2>1 DEF Loaded
  <2>3. a * P \in Nat /\ i * DoubleBytes \in Nat
    BY <1>1
  <2>4. Slot(a, i) + k = a * P + (i * DoubleBytes + k)
    BY <1>3, <2>3
  <2> QED
    BY <2>2, <2>4
<1>5. Slot(a, i) \in Nat /\ i * DoubleBytes \in Nat /\ a * P \in Nat
  <2>1. i * DoubleBytes \in Nat /\ a * P \in Nat
    BY <1>1
  <2> QED
    BY <1>3, <2>1
<1> HIDE DEF p
<1>6. deviceBuffer[Slot(a, i)] = ShareStart(a) + p + i * DoubleBytes
  <2>1. deviceBuffer[Slot(a, i) + 0] = ShareStart(a) + p + (i * DoubleBytes + 0)
    BY <1>1, <1>4
  <2>2. Slot(a, i) + 0 = Slot(a, i) /\ i * DoubleBytes + 0 = i * DoubleBytes
    BY <1>5
  <2> QED
    BY <2>1, <2>2
<1>7. deviceBuffer[Slot(a, i)] = ShareStart(a) + (Passed + i) * DoubleBytes
  <2>1. (Passed + i) * DoubleBytes = p + i * DoubleBytes
    BY <1>1
  <2> QED
    BY <1>1, <1>5, <1>6, <2>1
<1>8. deviceBuffer[Slot(a, i)] \in Share(a)
  <2> DEFINE s == ShareBytes \div DoubleBytes
  <2>1. /\ s \in Nat /\ ShareBytes % DoubleBytes \in 0..(DoubleBytes - 1)
        /\ ShareBytes = s * DoubleBytes + (ShareBytes % DoubleBytes)
    BY <1>1, Sizes, Division
  <2>2. Share(a) = {ShareStart(a) + m * DoubleBytes : m \in 0..(s - 1)}
    BY ShareMembers
  <2> HIDE DEF s
  <2>3. Passed + q <= s
    <3>1. (Passed + q) * DoubleBytes = p + q * DoubleBytes /\ q * DoubleBytes \in Nat
      BY <1>1
    <3>2. p + P <= ShareBytes /\ q * DoubleBytes <= P
      BY <1>1 DEF EvenPass, p
    <3>3. ShareBytes \in (s * DoubleBytes)..(s * DoubleBytes + DoubleBytes - 1)
      <4>1. s * DoubleBytes \in Nat
        BY <1>1, <2>1
      <4> QED
        BY <1>1, <2>1, <4>1
    <3>4. (Passed + q) * DoubleBytes <= ShareBytes
      BY <1>1, <3>1, <3>2, Sizes
    <3>5. \A n \in Nat : n * DoubleBytes <= ShareBytes => n <= s
      BY <1>1, <2>1, <3>3, InQuotient, Sizes
    <3>6. Passed + q \in Nat
      BY <1>1
    <3> QED
      BY ONLY <3>4, <3>5, <3>6, Zenon
  <2>4. Passed + i \in 0..(s - 1)
    BY <1>1, <2>1, <2>3
  <2> QED
    BY ONLY <1>7, <2>2, <2>4
<1>9. \A k \in 0..(DoubleBytes - 1) :
        deviceBuffer[Slot(a, i) + k] = deviceBuffer[Slot(a, i)] + k
  BY <1>1, <1>4, <1>5, <1>6
<1>10. deviceBuffer[Slot(a, i)] \in JobDoubles
  BY <1>8 DEF JobDoubles
<1> QED
  BY <1>7, <1>9, <1>10 DEF Intact

----------------------------------------------------------------------------
(* The inductive invariant                                                 *)

LEMMA InitInv == Init => Inv
<1> SUFFICES ASSUME Init PROVE Inv
  OBVIOUS
<1>1. ConfigOK
  BY DEF Init, ConfigOK
<1>2. ShareBytes \in Nat /\ NAccumulators \in Nat \ {0} /\ DoubleBytes \in Nat \ {0}
  BY <1>1, Sizes, Constants
<1>3. bytesProcessedPerAccumulator = 0 /\ Passed = 0 /\ 0 * DoubleBytes = 0
  <2>1. 0 \div DoubleBytes = 0
    BY <1>2
  <2> QED
    BY <1>2, <2>1 DEF Init, Passed
<1>4. NAccumulators * 0 = 0
  BY <1>2
<1>5. \A a \in Accumulators : \A d \in JobDoubles : counted[a][d] = 0 /\ Counted(a, d) = 0
  BY <1>3 DEF Init, Counted
<1>6. Even
  BY <1>2, <1>3, <1>4, <1>5 DEF Init, Even
<1> QED
  BY <1>1, <1>6 DEF Inv

\* A step that neither loads nor computes.
LEMMA ControlStep ==
    ASSUME Inv, UNCHANGED <<config, bytesProcessedPerAccumulator, deviceBuffer,
                            counted, garbage, notified>>
    PROVE  /\ ConfigOK' /\ (PassesEven' => PassesEven /\ Even)
           /\ PassesEven' =>
                /\ bytesProcessedPerAccumulator' \in Nat
                /\ bytesProcessedPerAccumulator' <= ShareBytes'
                /\ \/ bytesProcessedPerAccumulator' = Passed' * DoubleBytes
                   \/ bytesProcessedPerAccumulator' = ShareBytes'
                /\ notified' = NAccumulators' * bytesProcessedPerAccumulator'
                /\ garbage' = 0
                /\ counted' \in [Accumulators' -> [JobDoubles' -> {0, 1}]]
                /\ \A a \in Accumulators' : \A d \in JobDoubles' :
                      counted'[a][d] = Counted(a, d)'
<1>1. ConfigOK' /\ (PassesEven' => PassesEven /\ Even)
  BY Frozen DEF Inv
<1>2. Passed' = Passed
  BY DEF Passed
<1>3. \A a, d : Counted(a, d)' = Counted(a, d)
  BY <1>2, Frozen DEF Counted
<1> QED
  BY <1>1, <1>2, <1>3, Frozen DEF Even

LEMMA SetupInv == Inv /\ Setup => Inv'
<1> SUFFICES ASSUME Inv, Setup, PassesEven' PROVE Inv'
  BY ControlStep DEF Inv, Setup
<1>1. /\ pc = "setup" /\ pc' = "loop" /\ bytesRemaining' = TotalBytes
      /\ UNCHANGED <<config, bytesProcessedPerAccumulator, deviceBuffer, counted,
                     garbage, notified, chunksToLoad>>
  BY DEF Setup
<1>2. bytesProcessedPerAccumulator = 0 /\ chunksToLoad \in Nat
  BY <1>1, ControlStep DEF Even
<1>3. /\ ShareBytes \in Nat /\ TotalBytes = NAccumulators * ShareBytes
      /\ \E t \in Nat : TotalBytes = t * chunkSizeBytes
  BY Sizes DEF Inv
<1>4. ShareBytes - 0 = ShareBytes
  BY <1>3
<1>5. bytesRemaining' = NAccumulators' * (ShareBytes' - bytesProcessedPerAccumulator')
  BY <1>1, <1>2, <1>3, <1>4, Frozen
<1>6. chunkSizeBytes' = chunkSizeBytes
  BY <1>1, Frozen
<1> QED
  BY <1>1, <1>2, <1>3, <1>5, <1>6, ControlStep DEF Inv, Even

LEMMA BeginPassInv == Inv /\ BeginPass => Inv'
<1> SUFFICES ASSUME Inv, BeginPass, PassesEven' PROVE Inv'
  BY ControlStep DEF Inv, BeginPass
<1>1. /\ pc = "loop" /\ pc' = "load" /\ chunksToLoad' = NextChunksToLoad
      /\ UNCHANGED <<config, bytesProcessedPerAccumulator, deviceBuffer, counted,
                     garbage, notified, bytesRemaining>>
  BY DEF BeginPass
<1>2. ConfigOK /\ PassesEven /\ Even
  BY <1>1, ControlStep DEF Inv
<1> DEFINE p == bytesProcessedPerAccumulator
<1>3. /\ p \in Nat /\ p <= ShareBytes /\ p = Passed * DoubleBytes
      /\ bytesRemaining = NAccumulators * (ShareBytes - p)
  <2>1. /\ p \in Nat /\ p <= ShareBytes /\ (p = Passed * DoubleBytes \/ p = ShareBytes)
        /\ bytesRemaining = NAccumulators * (ShareBytes - p)
    BY <1>1, <1>2 DEF Even
  <2>2. p # ShareBytes
    <3>1. NAccumulators * 0 = 0 /\ ShareBytes - ShareBytes = 0
      BY <1>2, Sizes
    <3> HIDE DEF p
    <3> QED
      BY <2>1, <3>1, bytesRemaining > 0 DEF BeginPass
  <2> QED
    BY <2>1, <2>2
<1>4. PICK t \in Nat : bytesRemaining = t * chunkSizeBytes
  BY <1>1, <1>2 DEF Even
<1>5. Passed \in Nat /\ bytesRemaining \in Nat
  <2>1. Passed \in Nat
    BY <1>3, Constants, Division DEF Passed
  <2>2. t * chunkSizeBytes \in Nat
    BY <1>2, Sizes
  <2> QED
    BY <1>4, <2>1, <2>2
<1>6. /\ chunksToLoad' \in Nat
      /\ \E q, P \in Nat :
           /\ chunksToLoad' * chunkSizeBytes = NAccumulators * P
           /\ P \in (q * DoubleBytes)..(q * DoubleBytes + DoubleBytes - 1)
           /\ p + P <= ShareBytes
           /\ P = q * DoubleBytes \/ (NAccumulators = 1 /\ p + P = ShareBytes)
  <2>1. chunksToLoad' = IF bytesRemaining > maxHostChunks * chunkSizeBytes
                          THEN maxHostChunks ELSE bytesRemaining \div chunkSizeBytes
    BY <1>1 DEF NextChunksToLoad
  <2> HIDE DEF p
  <2> QED
    BY <1>2, <1>3, <1>4, <1>5, <2>1, NextPassEven
<1>7. \E q, P \in Nat : EvenPass(q, P)'
  <2>1. PassBytes' = chunksToLoad' * chunkSizeBytes /\ Passed' = Passed
    BY <1>1, Frozen DEF PassBytes, Passed
  <2> QED
    BY <1>1, <1>3, <1>6, <2>1, Frozen DEF EvenPass
<1>8. bytesRemaining' = NAccumulators' * (ShareBytes' - bytesProcessedPerAccumulator')
  BY <1>1, <1>3, Frozen
<1>9. chunkSizeBytes' = chunkSizeBytes
  BY <1>1, Frozen
<1> QED
  BY <1>1, <1>4, <1>6, <1>7, <1>8, <1>9, ControlStep DEF Inv, Even

LEMMA StopInv ==
    ASSUME Inv, UNCHANGED <<config, bytesRemaining, bytesProcessedPerAccumulator,
                            chunksToLoad, deviceBuffer, counted, garbage, notified>>,
           pc' \in {"failed", "crashed"} \/ pc' = pc \/ (pc = "loop" /\ pc' = "done" /\ bytesRemaining = 0)
    PROVE  Inv'
<1> SUFFICES ASSUME PassesEven' PROVE Inv'
  BY ControlStep DEF Inv
<1>1. ConfigOK /\ PassesEven /\ Even
  BY ControlStep DEF Inv
<1>2. \A q, P : EvenPass(q, P)' <=> EvenPass(q, P)
  BY Frozen DEF EvenPass, PassBytes, Passed
<1>3. \A P : Loaded(P)' <=> Loaded(P)
  BY Frozen DEF Loaded
<1>4. bytesRemaining = NAccumulators * (ShareBytes - bytesProcessedPerAccumulator)
        => bytesRemaining' = NAccumulators' * (ShareBytes' - bytesProcessedPerAccumulator')
  BY Frozen
<1>5. chunkSizeBytes' = chunkSizeBytes
  BY Frozen
<1> QED
  BY <1>1, <1>2, <1>3, <1>4, <1>5, ControlStep DEF Inv, Even

LEMMA LoadPassInv == Inv /\ LoadPass => Inv'
<1> SUFFICES ASSUME Inv, LoadPass PROVE Inv'
  OBVIOUS
<1>1. /\ pc = "load" /\ pc' = "kernel" /\ deviceBuffer' = HostBuffer
      /\ UNCHANGED <<config, bytesRemaining, bytesProcessedPerAccumulator,
                     chunksToLoad, counted, garbage, notified>>
  BY DEF LoadPass
<1>2. ConfigOK /\ ConfigOK'
  BY <1>1, Frozen DEF Inv
<1> SUFFICES ASSUME PassesEven' PROVE Even'
  BY <1>2 DEF Inv
<1>3. Even
  BY <1>1, Frozen DEF Inv
<1>4. PICK q \in Nat, P \in Nat : EvenPass(q, P)
  BY <1>1, <1>3 DEF Even
<1>5. EvenPass(q, P)'
  BY <1>1, <1>4, Frozen DEF EvenPass, PassBytes, Passed
<1>6. Loaded(P)'
  <2>1. \A a \in Accumulators : \A x \in 0..(P - 1) :
          HostBuffer[a * P + x] = ShareStart(a) + bytesProcessedPerAccumulator + x
    BY <1>2, <1>4, HostByte DEF EvenPass
  <2> QED
    BY <1>1, <2>1, Frozen DEF Loaded
<1>7. Passed' = Passed /\ \A a, d : Counted(a, d)' = Counted(a, d)
  BY <1>1, Frozen DEF Passed, Counted
<1>8. bytesRemaining' = NAccumulators' * (ShareBytes' - bytesProcessedPerAccumulator')
  BY <1>1, <1>3, Frozen DEF Even
<1> QED
  BY <1>1, <1>3, <1>5, <1>6, <1>7, <1>8, Frozen DEF Even

LEMMA RunKernelInv == Inv /\ RunKernel => Inv'
<1> SUFFICES ASSUME Inv, RunKernel PROVE Inv'
  OBVIOUS
<1>1. /\ pc = "kernel" /\ pc' = "loop"
      /\ bytesRemaining' = bytesRemaining - PassBytes
      /\ bytesProcessedPerAccumulator' = bytesProcessedPerAccumulator + PieceBytes
      /\ notified' = notified + PassBytes
      /\ UNCHANGED <<config, chunksToLoad, deviceBuffer>>
  BY DEF RunKernel
<1>2. ConfigOK /\ ConfigOK'
  BY <1>1, Frozen DEF Inv
<1> SUFFICES ASSUME PassesEven' PROVE Even'
  BY <1>2 DEF Inv
<1>3. Even
  BY <1>1, Frozen DEF Inv
<1>4. PICK q \in Nat, P \in Nat : EvenPass(q, P) /\ Loaded(P)
  BY <1>1, <1>3 DEF Even
<1> DEFINE N == NAccumulators
           D == DoubleBytes
           p == bytesProcessedPerAccumulator
           items == 0..(ItemsToProcess - 1)
           reads(a, d) == {i \in items : Intact(Slot(a, i)) /\ deviceBuffer[Slot(a, i)] = d}
<1>5. /\ N \in Nat \ {0} /\ ShareBytes \in Nat /\ D \in Nat \ {0}
      /\ p \in Nat /\ p = Passed * D /\ chunkSizeBytes \in Nat \ {0}
  BY <1>2, <1>3, <1>4, Sizes, Constants DEF Even, EvenPass
<1>6. Passed \in Nat
  BY <1>5, Division DEF Passed
<1>7. PassBytes = N * P /\ p + P <= ShareBytes
  BY <1>4 DEF EvenPass
<1>8. PieceBytes = P /\ ItemsToProcess = q
  <2>1. PassBytes = P * N
    BY <1>5, <1>7
  <2>2. PassBytes \div N = P
    BY <1>5, <2>1, Quotient
  <2> QED
    BY <1>4, <1>5, <2>2, InQuotient DEF PieceBytes, ItemsToProcess, EvenPass
<1>9. Passed' = Passed + q /\ (p' = Passed' * D \/ p' = ShareBytes')
  <2>1. p' = p + P
    BY <1>1, <1>8
  <2>2. (Passed + q) * D = p + q * D /\ q * D \in Nat /\ Passed + q \in Nat
    BY <1>5, <1>6
  <2>3. P \in (q * D)..(q * D + D - 1)
    BY <1>4 DEF EvenPass
  <2>4. p + P \in Nat /\ p + P \in ((Passed + q) * D)..((Passed + q) * D + D - 1)
    BY <1>5, <2>2, <2>3
  <2>5. Passed' = Passed + q
    <3>1. (p + P) \div D = Passed + q
      BY <1>5, <2>2, <2>4, InQuotient
    <3> QED
      BY <2>1, <3>1 DEF Passed
  <2>6. P = q * D \/ p + P = ShareBytes
    BY <1>4 DEF EvenPass
  <2>7. ShareBytes' = ShareBytes
    BY <1>1, Frozen
  <2> QED
    BY <2>1, <2>2, <2>5, <2>6, <2>7
<1>10. bytesRemaining' = N * (ShareBytes - (p + P))
  <2>1. bytesRemaining = N * (ShareBytes - p)
    BY <1>1, <1>3 DEF Even
  <2>2. N * (ShareBytes - (p + P)) = N * (ShareBytes - p) - N * P
    BY <1>5
  <2> HIDE DEF N, p
  <2> QED
    BY <1>1, <1>7, <2>1, <2>2
<1>11. \E t \in Nat : bytesRemaining' = t * chunkSizeBytes'
  <2>1. PICK t \in Nat : bytesRemaining = t * chunkSizeBytes
    BY <1>1, <1>3 DEF Even
  <2>2. PassBytes = chunksToLoad * chunkSizeBytes /\ chunksToLoad \in Nat
    BY <1>3 DEF Even, PassBytes
  <2>3. bytesRemaining' \in Nat
    <3>1. ShareBytes - (p + P) \in Nat
      BY <1>5, <1>7
    <3> HIDE DEF N, p
    <3> QED
      BY <1>5, <1>10, <3>1
  <2>4. chunksToLoad * chunkSizeBytes <= t * chunkSizeBytes
    <3>1. chunksToLoad * chunkSizeBytes \in Nat /\ t * chunkSizeBytes \in Nat
      BY <1>5, <2>2
    <3> QED
      BY <1>1, <2>1, <2>2, <2>3, <3>1
  <2>5. t - chunksToLoad \in Nat
    BY <1>5, <2>2, <2>4, Cancel
  <2>6. (t - chunksToLoad) * chunkSizeBytes = t * chunkSizeBytes - chunksToLoad * chunkSizeBytes
    BY <1>5, <2>2
  <2>7. chunkSizeBytes' = chunkSizeBytes
    BY <1>1, Frozen
  <2> QED
    BY <1>1, <2>1, <2>2, <2>5, <2>6, <2>7
<1>12. notified' = N * (p + P)
  <2>1. notified = N * p
    BY <1>3 DEF Even
  <2>2. N * (p + P) = N * p + N * P
    BY <1>5
  <2> HIDE DEF N, p
  <2> QED
    BY <1>1, <1>7, <2>1, <2>2
<1>13. ASSUME NEW a \in Accumulators, NEW i \in items
       PROVE  /\ Intact(Slot(a, i))
              /\ deviceBuffer[Slot(a, i)] = ShareStart(a) + (Passed + i) * D
  BY <1>2, <1>3, <1>4, <1>8, KernelReads
<1>14. garbage' = 0
  <2> DEFINE torn == {x \in Accumulators \X items : ~Intact(Slot(x[1], x[2]))}
  <2>1. garbage' = garbage + Cardinality(torn)
    BY DEF RunKernel
  <2>2. torn = {}
    BY <1>13
  <2> HIDE DEF torn
  <2>3. Cardinality(torn) = 0
    BY <2>2, FS_EmptySet
  <2> QED
    BY <1>3, <2>1, <2>3 DEF Even
<1>15. ASSUME NEW a \in Accumulators, NEW d \in JobDoubles
       PROVE  counted[a][d] + Cardinality(reads(a, d))
                = IF \E i \in 0..(Passed + q - 1) : d = ShareStart(a) + i * D THEN 1 ELSE 0
  <2>1. counted[a][d] = IF \E i \in 0..(Passed - 1) : d = ShareStart(a) + i * D THEN 1 ELSE 0
    BY <1>3 DEF Even, Counted
  <2>2. ShareStart(a) \in Nat
    BY <1>2, ShareMembers
  <2>3. ASSUME NEW i \in Nat, NEW k \in Nat,
               ShareStart(a) + i * D = ShareStart(a) + k * D
        PROVE  i = k
    <3>1. i * D \in Nat /\ k * D \in Nat
      BY <1>5
    <3>2. i * D = k * D
      BY <2>2, <2>3, <3>1
    <3> QED
      BY <1>5, <3>1, <3>2, Cancel
  <2>4. \A i \in items : i \in reads(a, d) <=> d = ShareStart(a) + (Passed + i) * D
    BY <1>13
  <2>5. CASE \E i \in items : d = ShareStart(a) + (Passed + i) * D
    <3>1. PICK i \in items : d = ShareStart(a) + (Passed + i) * D
      BY <2>5
    <3>2. i \in Nat /\ i < q /\ Passed + i \in Nat /\ Passed + i \in 0..(Passed + q - 1)
      BY <1>6, <1>8
    <3>3. reads(a, d) = {i}
      <4>1. ASSUME NEW k \in reads(a, d) PROVE k = i
        <5>1. k \in items /\ d = ShareStart(a) + (Passed + k) * D
          BY <2>4
        <5>2. k \in Nat /\ Passed + k \in Nat
          BY <1>6, <1>8, <5>1
        <5>3. Passed + k = Passed + i
          BY <2>3, <3>1, <3>2, <5>1, <5>2
        <5> QED
          BY <1>6, <3>2, <5>2, <5>3
      <4>2. i \in reads(a, d)
        BY <2>4, <3>1
      <4> HIDE DEF reads
      <4> QED
        BY <4>1, <4>2
    <3>4. Cardinality(reads(a, d)) = 1
      BY <3>3, FS_Singleton
    <3>5. ~\E k \in 0..(Passed - 1) : d = ShareStart(a) + k * D
      <4>1. ASSUME NEW k \in 0..(Passed - 1), d = ShareStart(a) + k * D PROVE FALSE
        <5>1. k \in Nat /\ k = Passed + i
          BY <1>6, <2>3, <3>1, <3>2, <4>1
        <5> QED
          BY <1>6, <3>2, <5>1
      <4> QED
        BY <4>1
    <3> HIDE DEF reads
    <3> QED
      BY <2>1, <3>1, <3>2, <3>4, <3>5
  <2>6. CASE ~\E i \in items : d = ShareStart(a) + (Passed + i) * D
    <3>1. reads(a, d) = {}
      BY <2>4, <2>6
    <3>2. Cardinality(reads(a, d)) = 0
      BY <3>1, FS_EmptySet
    <3>3. ASSUME NEW k \in 0..(Passed + q - 1), d = ShareStart(a) + k * D
          PROVE  k \in 0..(Passed - 1)
      <4>1. CASE k < Passed
        BY <1>6, <4>1
      <4>2. CASE k >= Passed
        <5>1. k - Passed \in items /\ Passed + (k - Passed) = k
          BY <1>6, <1>8, <4>2
        <5> QED
          BY <2>6, <3>3, <5>1
      <4> QED
        BY <1>6, <4>1, <4>2
    <3>4. 0..(Passed - 1) \subseteq 0..(Passed + q - 1)
      BY <1>6
    <3>5. (\E k \in 0..(Passed - 1) : d = ShareStart(a) + k * D)
            <=> (\E k \in 0..(Passed + q - 1) : d = ShareStart(a) + k * D)
      BY <3>3, <3>4
    <3> HIDE DEF reads
    <3> QED
      BY <2>1, <3>2, <3>5
  <2> QED
    BY <2>5, <2>6
<1>16. counted' = [a \in Accumulators |-> [d \in JobDoubles |->
                     counted[a][d] + Cardinality(reads(a, d))]]
  BY DEF RunKernel
<1> HIDE DEF reads
<1>17. \A a \in Accumulators : \A d \in JobDoubles :
         counted'[a][d] =
           IF \E i \in 0..(Passed + q - 1) : d = ShareStart(a) + i * D THEN 1 ELSE 0
  BY <1>15, <1>16
<1>18. counted' \in [Accumulators' -> [JobDoubles' -> {0, 1}]]
  BY <1>1, <1>15, <1>16, Frozen
<1>19. \A a \in Accumulators' : \A d \in JobDoubles' : counted'[a][d] = Counted(a, d)'
  <2>1. ASSUME NEW a, NEW d
        PROVE  Counted(a, d)' = IF \E i \in 0..(Passed + q - 1) : d = ShareStart(a) + i * D
                                  THEN 1 ELSE 0
    <3>1. ShareStart(a)' = ShareStart(a) /\ Passed' = Passed + q
      BY <1>1, <1>9, Frozen
    <3>2. 0..(Passed' - 1) = 0..(Passed + q - 1)
      BY <1>6, <3>1
    <3>3. ASSUME NEW i
          PROVE  d = ShareStart(a)' + i * D <=> d = ShareStart(a) + i * D
      BY <3>1
    <3>4. (\E i \in 0..(Passed' - 1) : d = ShareStart(a)' + i * D)
            <=> (\E i \in 0..(Passed + q - 1) : d = ShareStart(a) + i * D)
      BY ONLY <3>2, <3>3, Zenon
    <3>5. Counted(a, d)' = IF \E i \in 0..(Passed' - 1) : d = ShareStart(a)' + i * D THEN 1 ELSE 0
      BY DEF Counted
    <3> QED
      BY ONLY <3>4, <3>5, SMT
  <2>2. Accumulators' = Accumulators /\ JobDoubles' = JobDoubles
    BY <1>1, Frozen
  <2> QED
    BY <1>17, <2>1, <2>2
<1>20. /\ bytesProcessedPerAccumulator' \in Nat
       /\ bytesProcessedPerAccumulator' <= ShareBytes'
       /\ \/ bytesProcessedPerAccumulator' = Passed' * DoubleBytes
          \/ bytesProcessedPerAccumulator' = ShareBytes'
       /\ bytesProcessedPerAccumulator' = p + P
  BY <1>1, <1>5, <1>7, <1>8, <1>9, Frozen
<1>21. /\ bytesRemaining' = NAccumulators' * (ShareBytes' - bytesProcessedPerAccumulator')
       /\ notified' = NAccumulators' * bytesProcessedPerAccumulator'
  BY <1>1, <1>10, <1>12, <1>20, Frozen
<1>22. chunksToLoad' \in Nat
  BY <1>1, <1>3 DEF Even
<1> QED
  BY <1>1, <1>11, <1>14, <1>18, <1>19, <1>20, <1>21, <1>22 DEF Even

LEMMA NextInv == Inv /\ [Next]_vars => Inv'
<1> SUFFICES ASSUME Inv, [Next]_vars PROVE Inv'
  OBVIOUS
<1>1. CASE Setup
  BY <1>1, SetupInv
<1>2. CASE BeginPass
  BY <1>2, BeginPassInv
<1>3. CASE LoadPass
  BY <1>3, LoadPassInv
<1>4. CASE RunKernel
  BY <1>4, RunKernelInv
<1>5. CASE ReadResults
  BY <1>5, StopInv DEF ReadResults
<1>6. CASE Fail
  BY <1>6, StopInv DEF Fail
<1>8. CASE Overrun
  BY <1>8, StopInv DEF Overrun
<1>7. CASE UNCHANGED vars
  BY <1>7, StopInv DEF vars, config
<1> QED
  BY <1>1, <1>2, <1>3, <1>4, <1>5, <1>6, <1>7, <1>8 DEF Next

LEMMA Invariance == Spec => []Inv
BY InitInv, NextInv, PTL DEF Spec

----------------------------------------------------------------------------
(* The host vector, however uneven the passes                               *)

Loadable ==
    /\ ConfigOK
    /\ chunksToLoad \in Nat /\ bytesRemaining \in Nat
    /\ pc \in {"load", "kernel"} => PassBytes <= bytesRemaining
    /\ pc = "crashed" => chunkSizeBytes = 1

\* The pieces of whole doubles end before the vector does.
LEMMA PiecesFit ==
    ASSUME ConfigOK, chunksToLoad \in Nat, chunkSizeBytes = DefaultChunkSize
    PROVE  ~ReadsOverEnd
<1>1. PICK c \in Nat \ {0} : DefaultChunkSize = c * DoubleBytes
  BY Constants
<1>2. DoubleBytes \in Nat \ {0} /\ NAccumulators \in Nat \ {0}
  BY Sizes, Constants
<1>3. PassBytes = (chunksToLoad * c) * DoubleBytes /\ chunksToLoad * c \in Nat
  BY <1>1, <1>2, Product DEF PassBytes
<1>4. PassBytes \in Nat /\ VectorBytes = PassBytes
  BY <1>2, <1>3, Quotient DEF VectorBytes
<1>5. PieceBytes \in Nat /\ PieceBytes * NAccumulators <= PassBytes
  BY <1>2, <1>4, WholePart DEF PieceBytes
<1>6. ASSUME NEW a \in Accumulators PROVE PieceStart(a) + PieceBytes <= VectorBytes
  <2>1. a \in Nat /\ a + 1 <= NAccumulators
    BY <1>2 DEF Accumulators
  <2>2. a * PieceBytes \in Nat /\ (a + 1) * PieceBytes = a * PieceBytes + PieceBytes
    BY <1>5, <2>1, Product
  <2>3. PieceStart(a) \in Nat /\ PieceStart(a) <= a * PieceBytes
    BY <1>2, <2>2, WholePart DEF PieceStart
  <2>4. (a + 1) * PieceBytes <= NAccumulators * PieceBytes
    BY <1>2, <1>5, <2>1, ProductMonotone
  <2>5. NAccumulators * PieceBytes = PieceBytes * NAccumulators
    BY <1>2, <1>5
  <2>6. PieceBytes * NAccumulators \in Nat
    BY <1>2, <1>5
  <2> QED
    BY <1>4, <1>5, <2>2, <2>3, <2>4, <2>5, <2>6
<1>7. \A a \in Accumulators : PieceStart(a) \in Nat
  <2> TAKE a \in Accumulators
  <2>1. a * PieceBytes \in Nat
    BY <1>2, <1>5 DEF Accumulators
  <2> QED
    BY <1>2, <2>1, WholePart DEF PieceStart
<1> QED
  BY <1>4, <1>5, <1>6, <1>7 DEF ReadsOverEnd

LEMMA LoadableNext == Loadable /\ [Next]_vars => Loadable'
<1> SUFFICES ASSUME Loadable, [Next]_vars PROVE Loadable'
  OBVIOUS
<1>1. /\ chunkSizeBytes \in Nat \ {0} /\ maxHostChunks \in Nat \ {0} /\ TotalBytes \in Nat
      /\ chunkSizeBytes \in {1, DefaultChunkSize}
  <2>1. NAccumulators \in Nat \ {0} /\ ShareBytes \in Nat /\ TotalBytes = NAccumulators * ShareBytes
    BY Sizes DEF Loadable
  <2>2. TotalBytes \in Nat
    BY <2>1
  <2> QED
    BY <2>2, Sizes DEF Loadable, ConfigOK
<1>2. ASSUME UNCHANGED <<config, chunksToLoad>>
      PROVE  ConfigOK' /\ PassBytes' = PassBytes /\ chunkSizeBytes' = chunkSizeBytes
  BY <1>2, Frozen DEF Loadable, PassBytes
<1>3. CASE Setup
  BY <1>1, <1>2, <1>3 DEF Setup, Loadable
<1>4. CASE BeginPass
  <2>1. /\ UNCHANGED <<config, bytesRemaining>> /\ pc' = "load"
        /\ chunksToLoad' = IF bytesRemaining > maxHostChunks * chunkSizeBytes
                             THEN maxHostChunks ELSE bytesRemaining \div chunkSizeBytes
    BY <1>4 DEF BeginPass, NextChunksToLoad
  <2>2. ConfigOK' /\ chunkSizeBytes' = chunkSizeBytes
    BY <2>1, Frozen DEF Loadable
  <2>3. bytesRemaining \in Nat /\ maxHostChunks * chunkSizeBytes \in Nat
    BY <1>1 DEF Loadable
  <2>4. /\ bytesRemaining \div chunkSizeBytes \in Nat
        /\ (bytesRemaining \div chunkSizeBytes) * chunkSizeBytes <= bytesRemaining
    BY <1>1, <2>3, WholePart
  <2>5. chunksToLoad' \in Nat /\ chunksToLoad' * chunkSizeBytes <= bytesRemaining
    BY <1>1, <2>1, <2>3, <2>4
  <2> QED
    BY <2>1, <2>2, <2>3, <2>5 DEF Loadable, PassBytes
<1>5. CASE LoadPass
  BY <1>2, <1>5 DEF LoadPass, Loadable
<1>6. CASE Overrun
  <2>1. chunkSizeBytes = 1
    BY <1>1, <1>6, PiecesFit DEF Overrun, Loadable
  <2> QED
    BY <1>2, <1>6, <2>1 DEF Overrun, Loadable
<1>7. CASE RunKernel
  <2>1. /\ UNCHANGED <<config, chunksToLoad>> /\ pc = "kernel" /\ pc' = "loop"
        /\ bytesRemaining' = bytesRemaining - PassBytes
    BY <1>7 DEF RunKernel
  <2>2. PassBytes \in Nat /\ PassBytes <= bytesRemaining /\ bytesRemaining \in Nat
    BY <1>1, <2>1 DEF Loadable, PassBytes
  <2> QED
    BY <1>2, <2>1, <2>2 DEF Loadable
<1>8. CASE ReadResults
  BY <1>2, <1>8 DEF ReadResults, Loadable
<1>9. CASE Fail
  BY <1>2, <1>9 DEF Fail, Loadable
<1>10. CASE UNCHANGED vars
  BY <1>2, <1>10 DEF vars, Loadable
<1> QED
  BY <1>3, <1>4, <1>5, <1>6, <1>7, <1>8, <1>9, <1>10 DEF Next

----------------------------------------------------------------------------
(* Theorems                                                                *)

\* When the passes are even, for any sizes and for a small file of any number
\* of bytes, an accumulator is pushed only doubles of its own share, each
\* once, and no double is put together from two (onProcessJob,
\* loadChunksIntoDeviceBuffer and the kernel).
THEOREM SharesKept == Spec => []OwnShareOnce
<1> SUFFICES ASSUME Inv, PassesEven
             PROVE  /\ garbage = 0
                    /\ \A a \in Accumulators : \A d \in JobDoubles :
                         counted[a][d] <= IF d \in Share(a) THEN 1 ELSE 0
  BY Invariance, PTL DEF OwnShareOnce
<1>1. ConfigOK /\ Even
  BY DEF Inv
<1>2. ASSUME NEW a \in Accumulators, NEW d \in JobDoubles, counted[a][d] = 1
      PROVE  d \in Share(a)
  <2>1. PICK i \in 0..(Passed - 1) : d = ShareStart(a) + i * DoubleBytes
    BY <1>1, <1>2 DEF Even, Counted
  <2> DEFINE s == ShareBytes \div DoubleBytes
  <2>2. /\ DoubleBytes \in Nat \ {0} /\ ShareBytes \in Nat /\ s \in Nat
        /\ ShareBytes \in (s * DoubleBytes)..(s * DoubleBytes + DoubleBytes - 1)
    BY <1>1, Sizes, Constants, WholePart
  <2>3. Share(a) = {ShareStart(a) + k * DoubleBytes : k \in 0..(s - 1)}
    BY <1>1, ShareMembers
  <2> HIDE DEF s
  <2>4. Passed \in Nat /\ Passed <= s
    <3>1. bytesProcessedPerAccumulator \in Nat /\ bytesProcessedPerAccumulator <= ShareBytes
      BY <1>1 DEF Even
    <3>2. Passed \in Nat /\ Passed * DoubleBytes <= bytesProcessedPerAccumulator
      BY <2>2, <3>1, WholePart DEF Passed
    <3>3. Passed * DoubleBytes <= ShareBytes
      BY <2>2, <3>1, <3>2
    <3> QED
      BY <2>2, <3>2, <3>3, InQuotient
  <2>5. i \in 0..(s - 1)
    BY <2>2, <2>4
  <2> QED
    BY <2>1, <2>3, <2>5
<1>3. \A a \in Accumulators : \A d \in JobDoubles : counted[a][d] \in {0, 1}
  BY <1>1 DEF Even
<1> QED
  BY <1>1, <1>2, <1>3 DEF Even

\* The even passes of a job that is done have been through all of every share,
\* and the watchdog was told of as many bytes as the job has.
THEOREM SharesDone == Spec => []SharesComplete
<1> SUFFICES ASSUME Inv, PassesEven, pc = "done"
             PROVE  /\ \A a \in Accumulators : \A d \in Share(a) : counted[a][d] = 1
                    /\ notified = TotalBytes
  BY Invariance, PTL DEF SharesComplete
<1>1. ConfigOK /\ Even
  BY DEF Inv
<1> DEFINE p == bytesProcessedPerAccumulator
<1>2. /\ NAccumulators \in Nat \ {0} /\ ShareBytes \in Nat /\ DoubleBytes \in Nat \ {0}
      /\ TotalBytes = NAccumulators * ShareBytes
  BY <1>1, Sizes, Constants
<1>3. p \in Nat /\ p <= ShareBytes
  BY <1>1 DEF Even
<1>4. NAccumulators * (ShareBytes - p) = 0
  BY <1>1 DEF Even
<1> HIDE DEF p
<1>5. p = ShareBytes
  <2>1. ShareBytes - p \in Nat
    BY <1>2, <1>3
  <2>2. ShareBytes - p <= 0
    <3>1. (ShareBytes - p) * NAccumulators = NAccumulators * (ShareBytes - p)
      BY <1>2, <2>1
    <3>2. 0 * NAccumulators = 0
      BY <1>2
    <3> QED
      BY <1>2, <1>4, <2>1, <3>1, <3>2, Cancel
  <2> QED
    BY <1>2, <1>3, <2>1, <2>2
<1>6. notified = TotalBytes
  BY <1>1, <1>2, <1>5 DEF Even, p
<1>7. ASSUME NEW a \in Accumulators, NEW d \in Share(a) PROVE counted[a][d] = 1
  <2>1. Passed = ShareBytes \div DoubleBytes
    BY <1>5 DEF Passed, p
  <2>2. PICK i \in 0..(Passed - 1) : d = ShareStart(a) + i * DoubleBytes
    BY <1>1, <2>1, ShareMembers
  <2>4. d \in JobDoubles
    BY DEF JobDoubles
  <2> QED
    BY <1>1, <2>2, <2>4 DEF Even, Counted
<1> QED
  BY <1>6, <1>7

\* Of all jobs only those of a file below SMALL_SIZE_LIMIT can read beyond the
\* vector that loadChunksIntoDeviceBuffer allocates, even or uneven passes.
THEOREM VectorKept == Spec => []OnlySmallFileOverruns
<1>1. Init => Loadable
  <2> SUFFICES ASSUME Init PROVE Loadable
    OBVIOUS
  <2> QED
    BY DEF Init, Loadable, ConfigOK
<1>2. Loadable => OnlySmallFileOverruns
  BY DEF Loadable, OnlySmallFileOverruns
<1> QED
  BY <1>1, <1>2, LoadableNext, PTL DEF Spec
=============================================================================
