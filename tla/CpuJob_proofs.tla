---------------------------- MODULE CpuJob_proofs ----------------------------
(***************************************************************************)
(* The blocks of a job on the CPU for any sizes of double, vector, chunk,   *)
(* accumulator and buffer: no double is pushed twice, and only the end of   *)
(* the file loses any.                                                     *)
(***************************************************************************)
EXTENDS CpuJob, NaturalNumbers, FiniteSetTheorems, TLAPS

\* What the constructors fix.
ConfigOK ==
    /\ chunkSizeBytes \in ChunkSizes
    /\ cpuBufferSizeBytes \in BufferSizes
    /\ avx2 \in BOOLEAN
    /\ nChunks \in 1..MaxNumberOfChunksPerJob(cpuBufferSizeBytes, chunkSizeBytes)

\* Doubles that the loop of accumulator a has passed.
Taken(a) == (JobStart(a) * Unit)..((JobStart(a) + steps[a]) * Unit - 1)

PushedTaken ==
    \A a \in Accumulators :
        /\ JobStart(a) + steps[a] <= JobEnd(a)
        /\ \A d \in Doubles : pushed[a][d] = IF d \in Taken(a) THEN 1 ELSE 0

ReportedComplete ==
    /\ \A a \in reported : JobStart(a) + steps[a] = JobEnd(a)
    /\ pc = "done" => reported = Accumulators

Inv == ConfigOK /\ TypeOK /\ PushedTaken /\ ReportedComplete

----------------------------------------------------------------------------
(* Sizes                                                                   *)

\* A block is whole vectors, and the blocks of a job fit its buffer.
LEMMA Blocks ==
    ASSUME ConfigOK
    PROVE  /\ Unit \in Nat \ {0} /\ BufferSize \in Nat /\ NAccumulators \in Nat
           /\ DoublesPerAccumulator \in Nat \ {0}
           /\ AccumulatorBytes = DoublesPerAccumulator * DoubleBytes
           /\ \E k \in Nat \ {0} : DoublesPerAccumulator = k * Unit
           /\ DoublesPerAccumulator = (DoublesPerAccumulator \div Lanes) * Lanes
           /\ NAccumulators * DoublesPerAccumulator <= BufferSize
           /\ BufferSize < NAccumulators * DoublesPerAccumulator + DoublesPerAccumulator
<1>1. /\ DoubleBytes \in Nat \ {0} /\ Lanes \in Nat \ {0} /\ AccumulatorBytes \in Nat \ {0}
      /\ Lanes * DoubleBytes \in Nat \ {0}
  BY CpuJobAssumption
<1> DEFINE k == AccumulatorBytes \div (Lanes * DoubleBytes)
<1>2. k \in Nat /\ AccumulatorBytes = k * (Lanes * DoubleBytes)
  <2>1. AccumulatorBytes % (Lanes * DoubleBytes) = 0
    BY CpuJobAssumption
  <2>2. /\ k \in Nat
        /\ AccumulatorBytes =
             k * (Lanes * DoubleBytes) + (AccumulatorBytes % (Lanes * DoubleBytes))
    BY <1>1, Division
  <2>3. k * (Lanes * DoubleBytes) \in Nat
    BY <1>1, <2>2
  <2> QED
    BY <2>1, <2>2, <2>3
<1>3. AccumulatorBytes = (k * Lanes) * DoubleBytes /\ k * Lanes \in Nat
  BY <1>1, <1>2, Product
<1>4. DoublesPerAccumulator = k * Lanes
  BY <1>1, <1>3, Quotient DEF DoublesPerAccumulator
<1>5. k # 0 /\ k * Lanes # 0
  BY <1>1, <1>2, <1>3
<1>6. Unit \in Nat \ {0}
  BY <1>1 DEF Unit
<1>7. \E j \in Nat \ {0} : DoublesPerAccumulator = j * Unit
  <2>1. CASE avx2
    BY <2>1, <1>2, <1>4, <1>5 DEF Unit
  <2>2. CASE ~avx2
    BY <2>2, <1>3, <1>4, <1>5 DEF Unit
  <2> QED
    BY <2>1, <2>2
<1>8. (DoublesPerAccumulator \div Lanes) * Lanes = DoublesPerAccumulator
  BY <1>1, <1>2, <1>4, Quotient
<1>9. BufferSize \in Nat
  <2>1. chunkSizeBytes \in Nat /\ cpuBufferSizeBytes \in Nat /\ chunkSizeBytes # 0
    BY CpuJobAssumption DEF ConfigOK
  <2>2. nChunks \in Nat
    BY DEF ConfigOK
  <2>3. nChunks * chunkSizeBytes \in Nat
    BY <2>1, <2>2
  <2> QED
    BY <2>3, <1>1, Division DEF BufferSize, JobBytes
<1>10. DoublesPerAccumulator \in Nat \ {0}
  BY <1>3, <1>4, <1>5
<1>11. /\ NAccumulators \in Nat
       /\ BufferSize = NAccumulators * DoublesPerAccumulator + (BufferSize % DoublesPerAccumulator)
       /\ BufferSize % DoublesPerAccumulator \in 0..(DoublesPerAccumulator - 1)
  BY <1>9, <1>10, Division DEF NAccumulators
<1>12. NAccumulators * DoublesPerAccumulator \in Nat
  BY <1>10, <1>11
<1> HIDE DEF k
<1>13. /\ NAccumulators * DoublesPerAccumulator <= BufferSize
       /\ BufferSize < NAccumulators * DoublesPerAccumulator + DoublesPerAccumulator
  BY <1>9, <1>10, <1>11, <1>12
<1>14. AccumulatorBytes = DoublesPerAccumulator * DoubleBytes
  BY <1>3, <1>4
<1>15. DoublesPerAccumulator = (DoublesPerAccumulator \div Lanes) * Lanes
  BY <1>8
<1>16. NAccumulators \in Nat
  BY <1>11
<1> QED
  BY ONLY <1>6, <1>7, <1>9, <1>10, <1>13, <1>14, <1>15, <1>16, Zenon

\* The loop of an accumulator covers exactly its block, in parallel, or all
\* whole vectors of the buffer.
LEMMA Bounds ==
    ASSUME ConfigOK, NEW a \in Accumulators
    PROVE  /\ a \in Nat /\ JobStart(a) \in Nat /\ JobEnd(a) \in Nat
           /\ JobStart(a) <= JobEnd(a)
           /\ InParallel => /\ a < NAccumulators
                            /\ JobStart(a) * Unit = a * DoublesPerAccumulator
                            /\ JobEnd(a) * Unit = (a + 1) * DoublesPerAccumulator
           /\ ~InParallel => /\ a = NAccumulators
                             /\ JobStart(a) = 0
                             /\ JobEnd(a) = BufferSize \div Unit
           /\ JobEnd(a) * Unit <= BufferSize
<1> DEFINE D == DoublesPerAccumulator
<1>1. PICK k \in Nat \ {0} : D = k * Unit
  BY Blocks
<1>2. Unit \in Nat \ {0} /\ D \in Nat \ {0} /\ BufferSize \in Nat /\ NAccumulators \in Nat
  BY Blocks
<1>3. a \in Nat /\ (InParallel => a < NAccumulators) /\ (~InParallel => a = NAccumulators)
  BY <1>2 DEF Accumulators
<1>4. CASE InParallel
  <2>1. a * D = (a * k) * Unit /\ a * k \in Nat
    BY <1>1, <1>2, <1>3, Product
  <2>2. JobStart(a) = a * k
    BY <1>4, <2>1, <1>2, Quotient DEF JobStart
  <2>3. (a + 1) * D = a * D + D
    BY <1>2, <1>3, Product
  <2>4. JobEnd(a) = JobStart(a) + k
    <3>1. CASE avx2
      <4>1. D \div Lanes = k
        BY <3>1, <1>1, <1>2, Quotient DEF Unit
      <4> QED
        BY <3>1, <1>4, <4>1 DEF JobEnd
    <3>2. CASE ~avx2
      <4>1. Unit = 1 /\ k = D
        BY <3>2, <1>1, <1>2 DEF Unit
      <4> QED
        BY <3>2, <1>4, <4>1, <2>2, <2>3 DEF JobEnd
    <3> QED
      BY <3>1, <3>2
  <2>5. JobEnd(a) * Unit = (a + 1) * D
    <3>1. (a * k + k) * Unit = (a * k) * Unit + k * Unit
      BY <2>1, <1>1, <1>2
    <3> QED
      BY <3>1, <2>1, <2>2, <2>3, <2>4, <1>1
  <2>6. (a + 1) * D <= NAccumulators * D
    <3>1. a + 1 \in Nat /\ a + 1 <= NAccumulators
      BY <1>2, <1>3, <1>4
    <3> QED
      BY <3>1, <1>2, ProductMonotone
  <2>7. NAccumulators * D <= BufferSize
    BY Blocks
  <2>8. (a + 1) * D \in Nat /\ NAccumulators * D \in Nat
    BY <1>2, <1>3
  <2>9. JobEnd(a) * Unit <= BufferSize
    BY <2>5, <2>6, <2>7, <2>8, <1>2
  <2> QED
    BY <1>1, <1>3, <1>4, <2>1, <2>2, <2>4, <2>5, <2>9
<1>5. CASE ~InParallel
  <2>1. JobStart(a) = 0 /\ JobEnd(a) = BufferSize \div Unit
    BY <1>5 DEF JobStart, JobEnd
  <2>2. /\ BufferSize \div Unit \in Nat
        /\ (BufferSize \div Unit) * Unit <= BufferSize
    BY <1>2, Division
  <2> QED
    BY <1>3, <1>5, <2>1, <2>2
<1> QED
  BY <1>4, <1>5

----------------------------------------------------------------------------
(* The inductive invariant                                                 *)

\* Nothing derived from the configuration changes.
LEMMA Frozen ==
    ASSUME UNCHANGED config
    PROVE  /\ ConfigOK' <=> ConfigOK
           /\ BufferSize' = BufferSize /\ Doubles' = Doubles
           /\ Accumulators' = Accumulators
           /\ Unit' = Unit
           /\ \A a : JobStart(a)' = JobStart(a)
           /\ \A a : JobEnd(a)' = JobEnd(a)
<1>1. /\ chunkSizeBytes' = chunkSizeBytes /\ cpuBufferSizeBytes' = cpuBufferSizeBytes
      /\ avx2' = avx2 /\ nChunks' = nChunks
  BY DEF config
<1>2. ConfigOK' <=> ConfigOK
  BY <1>1 DEF ConfigOK, MaxNumberOfChunksPerJob
<1>3. BufferSize' = BufferSize /\ Unit' = Unit
  BY <1>1 DEF BufferSize, JobBytes, Unit
<1>4. NAccumulators' = NAccumulators
  BY <1>3 DEF NAccumulators, DoublesPerAccumulator
<1>5. InParallel' <=> InParallel
  BY <1>4 DEF InParallel
<1>6. Doubles' = Doubles /\ Accumulators' = Accumulators
  BY <1>3, <1>4, <1>5 DEF Doubles, Accumulators
<1>7. \A a : JobStart(a)' = JobStart(a)
  BY <1>3, <1>5 DEF JobStart, DoublesPerAccumulator
<1>8. \A a : JobEnd(a)' = JobEnd(a)
  BY <1>1, <1>3, <1>5, <1>7 DEF JobEnd, DoublesPerAccumulator
<1> QED
  BY <1>2, <1>3, <1>6, <1>7, <1>8

LEMMA InitInv == Init => Inv
<1> SUFFICES ASSUME Init PROVE Inv
  OBVIOUS
<1>1. ConfigOK
  BY DEF Init, ConfigOK
<1>2. BufferSize \in Nat /\ Unit \in Nat \ {0}
  BY <1>1, Blocks
<1>3. TypeOK
  BY <1>2 DEF Init, TypeOK
<1>4. PushedTaken
  <2> SUFFICES ASSUME NEW a \in Accumulators
               PROVE  /\ JobStart(a) + steps[a] <= JobEnd(a)
                      /\ \A d \in Doubles : pushed[a][d] = 0 /\ d \notin Taken(a)
    BY DEF PushedTaken
  <2>1. steps[a] = 0 /\ \A d \in Doubles : pushed[a][d] = 0
    BY DEF Init
  <2>2. JobStart(a) \in Nat /\ JobStart(a) <= JobEnd(a)
    BY <1>1, Bounds
  <2>3. JobStart(a) * Unit \in Nat /\ JobStart(a) + steps[a] = JobStart(a)
    BY <1>2, <2>1, <2>2
  <2>4. Taken(a) = {}
    BY <2>3 DEF Taken
  <2> QED
    BY <2>1, <2>2, <2>3, <2>4
<1>5. ReportedComplete
  BY DEF Init, ReportedComplete
<1> QED
  BY <1>1, <1>3, <1>4, <1>5 DEF Inv

\* One more step takes one more unit.
LEMMA NextUnit ==
    ASSUME NEW s \in Nat, NEW k \in Nat, NEW u \in Nat \ {0}, NEW d \in Nat
    PROVE  /\ d \in (s * u)..((s + (k + 1)) * u - 1)
                <=> \/ d \in (s * u)..((s + k) * u - 1)
                    \/ d \in ((s + k) * u)..(((s + k) + 1) * u - 1)
           /\ ~(/\ d \in (s * u)..((s + k) * u - 1)
                /\ d \in ((s + k) * u)..(((s + k) + 1) * u - 1))
<1>1. (s + (k + 1)) * u = ((s + k) + 1) * u
  OBVIOUS
<1>2. ((s + k) + 1) * u = (s + k) * u + u
  BY Product
<1>3. s * u <= (s + k) * u
  BY ProductMonotone
<1>4. s * u \in Nat /\ (s + k) * u \in Nat
  OBVIOUS
<1> QED
  BY <1>1, <1>2, <1>3, <1>4

LEMMA PushInv ==
    ASSUME Inv, NEW a \in Accumulators, Push(a)
    PROVE  Inv'
<1> DEFINE i == JobStart(a) + steps[a]
           block == (i * Unit)..((i + 1) * Unit - 1)
<1>1. ConfigOK /\ TypeOK /\ PushedTaken /\ ReportedComplete
  BY DEF Inv
<1>2. UNCHANGED config /\ pc = "compute" /\ UNCHANGED <<pc, reported, notified>>
  BY DEF Push
<1>3. ConfigOK'
  BY <1>1, <1>2, Frozen
<1>4. /\ steps \in [Accumulators -> 0..BufferSize]
      /\ steps' = [steps EXCEPT ![a] = @ + 1]
  BY <1>1 DEF TypeOK, Push
<1>5. /\ pushed \in [Accumulators -> [Doubles -> Nat]]
      /\ pushed' = [pushed EXCEPT ![a] =
                      [d \in Doubles |-> @[d] + IF d \in block THEN 1 ELSE 0]]
  BY <1>1 DEF TypeOK, Push
<1>6. /\ JobStart(a) \in Nat /\ JobEnd(a) \in Nat /\ steps[a] \in Nat
      /\ BufferSize \in Nat /\ Unit \in Nat \ {0}
  BY <1>1, <1>4, Blocks, Bounds
<1>7. i < JobEnd(a)
  BY DEF Push
<1>8. TypeOK'
  <2>1. JobEnd(a) <= BufferSize
    <3>1. JobEnd(a) * Unit <= BufferSize
      BY <1>1, Bounds
    <3>2. JobEnd(a) * 1 <= JobEnd(a) * Unit
      BY <1>6
    <3>3. JobEnd(a) * Unit \in Nat
      BY <1>6
    <3> QED
      BY <1>6, <3>1, <3>2, <3>3
  <2>2. steps[a] + 1 \in 0..BufferSize
    BY <1>6, <1>7, <2>1
  <2>3. steps' \in [Accumulators -> 0..BufferSize]
    BY <1>4, <2>2
  <2>4. pushed' \in [Accumulators -> [Doubles -> Nat]]
    BY <1>5
  <2> QED
    BY <1>1, <1>2, <2>3, <2>4, Frozen DEF TypeOK
<1>9. ASSUME NEW b \in Accumulators
      PROVE  /\ JobStart(b) + steps'[b] <= JobEnd(b)
             /\ \A d \in Doubles :
                  pushed'[b][d] = IF d \in (JobStart(b) * Unit)
                                             ..((JobStart(b) + steps'[b]) * Unit - 1)
                                    THEN 1 ELSE 0
  <2>1. /\ JobStart(b) + steps[b] <= JobEnd(b)
        /\ \A d \in Doubles : pushed[b][d] = IF d \in Taken(b) THEN 1 ELSE 0
    BY <1>1 DEF PushedTaken
  <2>2. CASE b # a
    <3>1. steps'[b] = steps[b] /\ pushed'[b] = pushed[b]
      BY <1>4, <1>5, <2>2
    <3> QED
      BY <2>1, <3>1 DEF Taken
  <2>3. CASE b = a
    <3>1. steps'[a] = steps[a] + 1
      BY <1>4
    <3>2. JobStart(a) + steps'[a] <= JobEnd(a)
      BY <1>6, <1>7, <3>1
    <3>3. ASSUME NEW d \in Doubles
          PROVE  pushed'[a][d] = IF d \in (JobStart(a) * Unit)
                                             ..((JobStart(a) + steps'[a]) * Unit - 1)
                                    THEN 1 ELSE 0
      <4>1. d \in Nat
        BY <1>6 DEF Doubles
      <4>2. pushed'[a][d] = pushed[a][d] + IF d \in block THEN 1 ELSE 0
        BY <1>5
      <4>3. pushed[a][d] = IF d \in Taken(a) THEN 1 ELSE 0
        BY <2>1, <2>3
      <4>4. Taken(a) = (JobStart(a) * Unit)..((JobStart(a) + steps[a]) * Unit - 1)
        BY DEF Taken
      <4>5. /\ d \in (JobStart(a) * Unit)..((JobStart(a) + (steps[a] + 1)) * Unit - 1)
                 <=> d \in Taken(a) \/ d \in block
            /\ ~(d \in Taken(a) /\ d \in block)
        BY <1>6, <4>1, <4>4, NextUnit
      <4> HIDE DEF block
      <4> QED
        BY <3>1, <4>2, <4>3, <4>5
    <3> QED
      BY <2>3, <3>2, <3>3
  <2> QED
    BY <2>2, <2>3
<1>10. PushedTaken'
  BY <1>2, <1>9, Frozen DEF PushedTaken, Taken
<1>11. ReportedComplete'
  <2>1. a \notin reported
    BY <1>1, <1>6, <1>7 DEF ReportedComplete
  <2>2. \A b \in reported : b \in Accumulators /\ b # a
    BY <1>1, <2>1 DEF TypeOK
  <2>3. \A b \in reported : steps'[b] = steps[b]
    BY <1>4, <2>2
  <2> QED
    BY <1>1, <1>2, <2>3, Frozen DEF ReportedComplete
<1> QED
  BY <1>3, <1>8, <1>10, <1>11 DEF Inv

LEMMA ReportInv ==
    ASSUME Inv, NEW a \in Accumulators, Report(a)
    PROVE  Inv'
<1>1. ConfigOK /\ TypeOK /\ PushedTaken /\ ReportedComplete
  BY DEF Inv
<1>2. UNCHANGED config /\ pc = "compute" /\ UNCHANGED <<pc, steps, pushed>>
  BY DEF Report
<1>3. ConfigOK'
  BY <1>1, <1>2, Frozen
<1>4. ReportedBytes(a) \in Nat
  <2>1. /\ JobStart(a) \in Nat /\ JobEnd(a) \in Nat /\ JobStart(a) <= JobEnd(a)
        /\ BufferSize \in Nat
    BY <1>1, Blocks, Bounds
  <2>2. JobEnd(a) - JobStart(a) \in Nat
    BY <2>1
  <2>3. DoubleBytes \in Nat
    BY CpuJobAssumption
  <2>4. /\ (JobEnd(a) - JobStart(a)) * DoubleBytes \in Nat
        /\ BufferSize * DoubleBytes \in Nat
    BY <2>1, <2>2, <2>3
  <2> QED
    BY <2>4 DEF ReportedBytes
<1>5. TypeOK'
  BY <1>1, <1>2, <1>4, Frozen DEF TypeOK, Report
<1>6. PushedTaken'
  BY <1>1, <1>2, Frozen DEF PushedTaken, Taken
<1>7. ReportedComplete'
  BY <1>1, <1>2, Frozen DEF ReportedComplete, Report
<1> QED
  BY <1>3, <1>5, <1>6, <1>7 DEF Inv

LEMMA UnchangedInv ==
    ASSUME Inv, UNCHANGED <<config, steps, reported, pushed, notified>>,
           pc' \in {"compute", "done"}, pc' = "done" => reported = Accumulators
    PROVE  Inv'
<1>1. ConfigOK /\ TypeOK /\ PushedTaken /\ ReportedComplete
  BY DEF Inv
<1>2. ConfigOK'
  BY <1>1, Frozen
<1>3. TypeOK'
  BY <1>1, Frozen DEF TypeOK
<1>4. PushedTaken'
  BY <1>1, Frozen DEF PushedTaken, Taken
<1>5. ReportedComplete'
  BY <1>1, Frozen DEF ReportedComplete
<1> QED
  BY <1>2, <1>3, <1>4, <1>5 DEF Inv

LEMMA NextInv == Inv /\ [Next]_vars => Inv'
<1> SUFFICES ASSUME Inv, [Next]_vars PROVE Inv'
  OBVIOUS
<1>1. ASSUME NEW a \in Accumulators, Push(a) PROVE Inv'
  BY <1>1, PushInv
<1>2. ASSUME NEW a \in Accumulators, Report(a) PROVE Inv'
  BY <1>2, ReportInv
<1>3. CASE Finish
  BY <1>3, UnchangedInv DEF Finish
<1>4. CASE UNCHANGED vars
  <2>1. /\ pc \in {"compute", "done"}
        /\ pc = "done" => reported = Accumulators
    BY DEF Inv, TypeOK, ReportedComplete
  <2> QED
    BY <1>4, <2>1, UnchangedInv DEF vars
<1> QED
  BY <1>1, <1>2, <1>3, <1>4 DEF Next

LEMMA Invariance == Spec => []Inv
BY InitInv, NextInv, PTL DEF Spec

----------------------------------------------------------------------------
(* Theorems                                                                *)

\* The variables keep their types for any sizes: in particular no loop of an
\* accumulator makes more steps than the buffer has doubles
\* (CpuDeviceCoordinator::onProcessJob).
THEOREM TypeCorrect == Spec => []TypeOK
<1>1. Inv => TypeOK
  BY DEF Inv
<1> QED
  BY <1>1, Invariance, PTL

\* A double pushed into an accumulator is in its block.
LEMMA InBlock ==
    ASSUME Inv, NEW a \in Accumulators, NEW d \in Doubles, pushed[a][d] > 0
    PROVE  d \in (JobStart(a) * Unit)..(JobEnd(a) * Unit - 1)
<1>1. d \in Taken(a)
  BY DEF Inv, PushedTaken
<1>2. /\ JobStart(a) + steps[a] <= JobEnd(a) /\ steps[a] \in Nat
      /\ JobStart(a) \in Nat /\ JobEnd(a) \in Nat /\ Unit \in Nat \ {0}
  BY Blocks, Bounds DEF Inv, PushedTaken, TypeOK
<1>3. (JobStart(a) + steps[a]) * Unit <= JobEnd(a) * Unit
  BY <1>2, ProductMonotone
<1>4. /\ (JobStart(a) + steps[a]) * Unit \in Nat /\ JobEnd(a) * Unit \in Nat
      /\ JobStart(a) * Unit \in Nat
  BY <1>2
<1> QED
  BY <1>1, <1>3, <1>4 DEF Taken

\* The scalar and the vector loops of onProcessJob give every double to at
\* most one accumulator, once, whatever sizes and interleaving.
THEOREM PushedOnce == Spec => []NothingTwice
<1> SUFFICES Inv => NothingTwice
  BY Invariance, PTL
<1> SUFFICES ASSUME Inv, NEW d \in Doubles,
                    NEW a \in Accumulators, NEW b \in Accumulators
             PROVE  pushed[a][d] <= 1 /\ (a # b /\ pushed[a][d] > 0 => pushed[b][d] = 0)
  BY DEF NothingTwice
<1>1. ConfigOK /\ pushed[a][d] \in {0, 1} /\ pushed[b][d] \in {0, 1}
  BY DEF Inv, PushedTaken
<1>2. ASSUME a # b, pushed[a][d] > 0, pushed[b][d] > 0 PROVE FALSE
  <2> DEFINE D == DoublesPerAccumulator
  <2>1. /\ d \in (JobStart(a) * Unit)..(JobEnd(a) * Unit - 1)
        /\ d \in (JobStart(b) * Unit)..(JobEnd(b) * Unit - 1)
    BY <1>2, InBlock
  <2>2. CASE ~InParallel
    BY <1>2, <2>2 DEF Accumulators
  <2>3. CASE InParallel
    <3>1. D \in Nat \ {0} /\ a \in Nat /\ b \in Nat
      BY <1>1, Blocks, Bounds
    <3>2. d \in (a * D)..((a + 1) * D - 1) /\ d \in (b * D)..((b + 1) * D - 1)
      BY <1>1, <2>1, <2>3, Bounds
    <3>3. a + 1 <= b => (a + 1) * D <= b * D
      BY <3>1, ProductMonotone
    <3>4. b + 1 <= a => (b + 1) * D <= a * D
      BY <3>1, ProductMonotone
    <3>5. a * D \in Nat /\ b * D \in Nat /\ (a + 1) * D \in Nat /\ (b + 1) * D \in Nat
      BY <3>1
    <3>6. a + 1 <= b \/ b + 1 <= a
      BY <1>2, <3>1
    <3> HIDE DEF D
    <3> QED
      BY <3>2, <3>3, <3>4, <3>5, <3>6
  <2> QED
    BY <2>2, <2>3
<1> QED
  BY <1>1, <1>2

\* Where the doubles that a finished job has pushed end.
Pushable == IF InParallel THEN NAccumulators * DoublesPerAccumulator
                          ELSE (BufferSize \div Unit) * Unit

LEMMA PushableBounds ==
    ASSUME ConfigOK
    PROVE  /\ Pushable \in Nat /\ Pushable <= BufferSize
           /\ BufferSize < Pushable + DoublesPerAccumulator
<1>1. /\ Unit \in Nat \ {0} /\ BufferSize \in Nat /\ NAccumulators \in Nat
      /\ DoublesPerAccumulator \in Nat \ {0}
      /\ NAccumulators * DoublesPerAccumulator <= BufferSize
      /\ BufferSize < NAccumulators * DoublesPerAccumulator + DoublesPerAccumulator
  BY Blocks
<1>2. CASE InParallel
  <2>1. NAccumulators * DoublesPerAccumulator \in Nat
    BY <1>1
  <2> QED
    BY <1>1, <1>2, <2>1 DEF Pushable
<1>3. CASE ~InParallel
  <2>1. Pushable = (BufferSize \div Unit) * Unit
    BY <1>3 DEF Pushable
  <2>2. /\ BufferSize \div Unit \in Nat
        /\ BufferSize % Unit \in 0..(Unit - 1)
        /\ BufferSize = Pushable + (BufferSize % Unit)
    BY <1>1, <2>1, Division
  <2>3. Pushable \in Nat
    BY <1>1, <2>1, <2>2
  <2>4. Unit <= DoublesPerAccumulator
    <3>1. PICK k \in Nat \ {0} : DoublesPerAccumulator = k * Unit
      BY Blocks
    <3>2. 1 * Unit <= k * Unit
      BY <1>1, ProductMonotone
    <3> QED
      BY <1>1, <3>1, <3>2
  <2> QED
    BY <1>1, <2>2, <2>3, <2>4
<1> QED
  BY <1>2, <1>3

\* When all loops are through, the doubles pushed are a prefix of the buffer.
LEMMA PushedPrefix ==
    ASSUME Inv, pc = "done"
    PROVE  Pushed = 0..(Pushable - 1)
<1> DEFINE D == DoublesPerAccumulator
<1>1. /\ ConfigOK /\ D \in Nat \ {0} /\ NAccumulators \in Nat
      /\ BufferSize \in Nat /\ Unit \in Nat \ {0}
  BY Blocks DEF Inv
<1>2. Pushable \in Nat /\ Pushable <= BufferSize
  BY <1>1, PushableBounds
<1>3. ASSUME NEW a \in Accumulators, NEW d \in Doubles
      PROVE  pushed[a][d] > 0 <=> d \in (JobStart(a) * Unit)..(JobEnd(a) * Unit - 1)
  <2>1. JobStart(a) + steps[a] = JobEnd(a)
    BY DEF Inv, ReportedComplete
  <2>2. pushed[a][d] = IF d \in Taken(a) THEN 1 ELSE 0
    BY DEF Inv, PushedTaken
  <2>3. Taken(a) = (JobStart(a) * Unit)..(JobEnd(a) * Unit - 1)
    BY <2>1 DEF Taken
  <2> QED
    BY <2>2, <2>3
<1>4. CASE InParallel
  <2>1. \A a \in Accumulators : /\ a \in Nat
                                /\ JobStart(a) * Unit = a * D
                                /\ JobEnd(a) * Unit = (a + 1) * D
    BY <1>1, <1>4, Bounds
  <2>2. Pushable = NAccumulators * D
    BY <1>4 DEF Pushable
  <2>3. ASSUME NEW d \in Pushed PROVE d \in 0..(Pushable - 1)
    <3>1. PICK a \in Accumulators : d \in Doubles /\ pushed[a][d] > 0
      BY DEF Pushed
    <3>2. d \in (a * D)..((a + 1) * D - 1)
      BY <1>3, <2>1, <3>1
    <3>3. a \in Nat /\ a + 1 <= NAccumulators
      BY <1>1, <1>4 DEF Accumulators
    <3>4. (a + 1) * D <= NAccumulators * D
      BY <1>1, <3>3, ProductMonotone
    <3>5. a * D \in Nat /\ (a + 1) * D \in Nat
      BY <1>1, <3>3
    <3> HIDE DEF D
    <3> QED
      BY <1>2, <2>2, <3>2, <3>4, <3>5
  <2>4. ASSUME NEW d \in 0..(Pushable - 1) PROVE d \in Pushed
    <3> DEFINE a == d \div D
    <3>1. d \in Nat /\ d < Pushable /\ d \in Doubles
      BY <1>1, <1>2 DEF Doubles
    <3>2. a \in Nat /\ d % D \in 0..(D - 1) /\ d = a * D + (d % D)
      BY <1>1, <3>1, Division
    <3> HIDE DEF a
    <3>3. a * D \in Nat /\ (a + 1) * D = a * D + D
      BY <1>1, <3>2, Product
    <3>4. d \in (a * D)..((a + 1) * D - 1)
      BY <1>1, <3>1, <3>2, <3>3
    <3>5. a < NAccumulators
      <4>1. NAccumulators <= a => NAccumulators * D <= a * D
        BY <1>1, <3>2, ProductMonotone
      <4>2. a * D <= d /\ d < NAccumulators * D /\ NAccumulators * D \in Nat
        BY <1>1, <2>2, <3>1, <3>3, <3>4
      <4> QED
        BY <1>1, <3>1, <3>2, <3>3, <4>1, <4>2
    <3>6. a \in Accumulators
      BY <1>1, <1>4, <3>2, <3>5 DEF Accumulators
    <3>7. pushed[a][d] > 0
      BY <1>3, <2>1, <3>1, <3>4, <3>6
    <3> QED
      BY <3>1, <3>6, <3>7 DEF Pushed
  <2> QED
    BY <2>3, <2>4
<1>5. CASE ~InParallel
  <2>1. /\ NAccumulators \in Accumulators
        /\ JobStart(NAccumulators) = 0
        /\ JobEnd(NAccumulators) = BufferSize \div Unit
        /\ \A a \in Accumulators : a = NAccumulators
    BY <1>1, <1>5, Bounds DEF Accumulators
  <2>2. 0 * Unit = 0 /\ Pushable = (BufferSize \div Unit) * Unit
    BY <1>1, <1>5 DEF Pushable
  <2>3. \A d \in Doubles : d \in Pushed <=> d \in 0..(Pushable - 1)
    BY <1>3, <2>1, <2>2 DEF Pushed
  <2>4. Pushed \subseteq Doubles /\ 0..(Pushable - 1) \subseteq Doubles
    BY <1>1, <1>2 DEF Pushed, Doubles
  <2> QED
    BY <2>3, <2>4
<1> QED
  BY <1>4, <1>5

\* A job as large as getMaxNumberOfChunks allows is pushed to its end.
LEMMA FullJob ==
    ASSUME ConfigOK, nChunks = MaxNumberOfChunksPerJob(cpuBufferSizeBytes, chunkSizeBytes)
    PROVE  Pushable = BufferSize
<1> DEFINE D == DoublesPerAccumulator
           q == cpuBufferSizeBytes \div AccumulatorBytes
<1>1. /\ D \in Nat \ {0} /\ BufferSize \in Nat /\ NAccumulators \in Nat
      /\ Unit \in Nat \ {0} /\ AccumulatorBytes = D * DoubleBytes
  BY Blocks
<1>2. /\ AccumulatorBytes \in Nat \ {0} /\ DoubleBytes \in Nat \ {0}
      /\ chunkSizeBytes \in Nat \ {0} /\ AccumulatorBytes % chunkSizeBytes = 0
      /\ cpuBufferSizeBytes \in Nat
  BY CpuJobAssumption DEF ConfigOK
<1>3. q \in Nat
  BY <1>2, Division
<1>4. PICK c \in Nat : AccumulatorBytes = c * chunkSizeBytes
  <2>1. /\ AccumulatorBytes \div chunkSizeBytes \in Nat
        /\ AccumulatorBytes = (AccumulatorBytes \div chunkSizeBytes) * chunkSizeBytes
                                + (AccumulatorBytes % chunkSizeBytes)
    BY <1>2, Division
  <2>2. (AccumulatorBytes \div chunkSizeBytes) * chunkSizeBytes \in Nat
    BY <1>2, <2>1
  <2>3. AccumulatorBytes = (AccumulatorBytes \div chunkSizeBytes) * chunkSizeBytes
    BY ONLY <1>2, <2>1, <2>2
  <2> QED
    BY ONLY <2>1, <2>3
<1>5. nChunks = (q * AccumulatorBytes) \div chunkSizeBytes
  BY DEF MaxNumberOfChunksPerJob
<1> HIDE DEF q
<1>6. nChunks * chunkSizeBytes = q * AccumulatorBytes
  <2>1. q * AccumulatorBytes = (q * c) * chunkSizeBytes /\ q * c \in Nat
    BY <1>2, <1>3, <1>4, Product
  <2>2. ((q * c) * chunkSizeBytes) \div chunkSizeBytes = q * c
    BY <1>2, <2>1, Quotient
  <2>3. nChunks = q * c
    BY <1>5, <2>1, <2>2
  <2> QED
    BY <2>1, <2>3
<1>7. q * AccumulatorBytes = (q * D) * DoubleBytes /\ q * D \in Nat
  BY <1>1, <1>2, <1>3, Product
<1>8. BufferSize = q * D
  BY <1>2, <1>6, <1>7, Quotient DEF BufferSize, JobBytes
<1>9. NAccumulators = q
  BY <1>1, <1>3, <1>8, Quotient DEF NAccumulators
<1>10. CASE InParallel
  BY <1>8, <1>9, <1>10 DEF Pushable
<1>11. CASE ~InParallel
  <2>1. PICK k \in Nat \ {0} : D = k * Unit
    BY Blocks
  <2>2. q * D = (q * k) * Unit /\ q * k \in Nat
    BY <1>1, <1>3, <2>1, Product
  <2>3. BufferSize \div Unit = q * k
    BY <1>1, <1>8, <2>2, Quotient
  <2> QED
    BY <1>8, <1>11, <2>2, <2>3 DEF Pushable
<1> QED
  BY <1>10, <1>11

\* A job of less than two blocks is pushed but for less than a unit.
LEMMA SmallLoss ==
    ASSUME ConfigOK, JobBytes < 2 * AccumulatorBytes
    PROVE  JobBytes - Pushable * DoubleBytes < Unit * DoubleBytes
<1> DEFINE D == DoublesPerAccumulator
           u == BufferSize \div Unit
           r == BufferSize % Unit
           e == JobBytes % DoubleBytes
<1>1. /\ DoubleBytes \in Nat \ {0} /\ Unit \in Nat \ {0} /\ JobBytes \in Nat
      /\ D \in Nat \ {0} /\ BufferSize \in Nat /\ NAccumulators \in Nat
      /\ AccumulatorBytes = D * DoubleBytes /\ NAccumulators * D <= BufferSize
  <2>1. chunkSizeBytes \in Nat /\ DoubleBytes \in Nat \ {0} /\ nChunks \in Nat
    BY CpuJobAssumption DEF ConfigOK
  <2> QED
    BY <2>1, Blocks DEF JobBytes
<1>2. JobBytes = BufferSize * DoubleBytes + e /\ e \in 0..(DoubleBytes - 1)
  BY <1>1, Division DEF BufferSize
<1>3. u \in Nat /\ r \in 0..(Unit - 1) /\ BufferSize = u * Unit + r
  BY <1>1, Division
<1> HIDE DEF D, u, r, e
<1>4. ~InParallel
  <2>1. BufferSize * DoubleBytes < (2 * D) * DoubleBytes
    BY <1>1, <1>2
  <2>2. BufferSize < 2 * D
    <3>1. 2 * D <= BufferSize => (2 * D) * DoubleBytes <= BufferSize * DoubleBytes
      BY <1>1, ProductMonotone
    <3>2. (2 * D) * DoubleBytes \in Nat /\ BufferSize * DoubleBytes \in Nat
      BY <1>1
    <3> QED
      BY <1>1, <2>1, <3>1, <3>2
  <2>3. 2 <= NAccumulators => 2 * D <= NAccumulators * D
    BY <1>1, ProductMonotone
  <2>4. NAccumulators * D \in Nat
    BY <1>1
  <2> QED
    BY <1>1, <2>2, <2>3, <2>4 DEF InParallel
<1>5. Pushable = u * Unit /\ Pushable \in Nat
  BY <1>1, <1>3, <1>4 DEF Pushable, u
<1>6. JobBytes - Pushable * DoubleBytes = r * DoubleBytes + e
  <2>1. BufferSize * DoubleBytes = Pushable * DoubleBytes + r * DoubleBytes
    BY <1>1, <1>3, <1>5
  <2>2. Pushable * DoubleBytes \in Nat /\ r * DoubleBytes \in Nat
    BY <1>1, <1>3, <1>5
  <2> QED
    BY <1>1, <1>2, <2>1, <2>2
<1>7. r * DoubleBytes + DoubleBytes <= Unit * DoubleBytes
  <2>1. (r + 1) * DoubleBytes <= Unit * DoubleBytes
    BY <1>1, <1>3, ProductMonotone
  <2> QED
    BY <1>1, <1>3, <2>1
<1>8. r * DoubleBytes \in Nat /\ Unit * DoubleBytes \in Nat
  BY <1>1, <1>3
<1> QED
  BY <1>1, <1>2, <1>6, <1>7, <1>8

\* Whatever the sizes, a job of the size getMaxNumberOfChunks promises is
\* pushed to its last double; any other loses less than a block, at its end,
\* and a job of less than two blocks less than a double or a vector.
THEOREM TailCorrect == Spec => []OnlyTailLost
<1> SUFFICES ASSUME Inv, pc = "done" PROVE OnlyTailLost
  BY Invariance, PTL DEF OnlyTailLost
<1>1. /\ ConfigOK /\ BufferSize \in Nat /\ DoublesPerAccumulator \in Nat
      /\ Pushable \in Nat /\ Pushable <= BufferSize
      /\ BufferSize < Pushable + DoublesPerAccumulator
  BY Blocks, PushableBounds DEF Inv
<1>2. Pushed = 0..(Pushable - 1)
  BY PushedPrefix
<1>3. Doubles \ Pushed = Pushable..(BufferSize - 1)
  BY <1>1, <1>2 DEF Doubles
<1>4. nChunks = MaxNumberOfChunksPerJob(cpuBufferSizeBytes, chunkSizeBytes)
        => Pushed = Doubles
  BY <1>1, <1>2, FullJob DEF Doubles
<1>5. Cardinality(Doubles \ Pushed) < DoublesPerAccumulator
  <2>1. BufferSize - 1 \in Int
    BY <1>1
  <2>2. Cardinality(Pushable..(BufferSize - 1)) =
          IF Pushable > BufferSize - 1 THEN 0 ELSE (BufferSize - 1) - Pushable + 1
    BY <1>1, <2>1, FS_Interval
  <2>3. Cardinality(Pushable..(BufferSize - 1)) < DoublesPerAccumulator
    BY <1>1, <2>2
  <2> QED
    BY <1>3, <2>3
<1>6. \A d \in Doubles \ Pushed : \A p \in Pushed : p < d
  BY <1>1, <1>2, <1>3
<1>7. Cardinality(Pushed) = Pushable
  <2>1. Pushable - 1 \in Int
    BY <1>1
  <2>2. Cardinality(0..(Pushable - 1)) =
          IF 0 > Pushable - 1 THEN 0 ELSE (Pushable - 1) - 0 + 1
    BY <2>1, FS_Interval
  <2> QED
    BY <1>1, <1>2, <2>2
<1>8. JobBytes < 2 * AccumulatorBytes
        => JobBytes - Cardinality(Pushed) * DoubleBytes < Unit * DoubleBytes
  BY <1>1, <1>7, SmallLoss
<1> QED
  BY <1>4, <1>5, <1>6, <1>8 DEF OnlyTailLost
=============================================================================
