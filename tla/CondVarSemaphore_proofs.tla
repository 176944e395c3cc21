---------------------- MODULE CondVarSemaphore_proofs -----------------------
(***************************************************************************)
(* Proofs about the semaphore for any number of threads and any counts.     *)
(***************************************************************************)
EXTENDS CondVarSemaphore, FiniteSetTheorems, TLAPS

Inv == TypeOK /\ MutexOwned /\ EnoughAwake

LEMMA AwakeFinite == IsFiniteSet(Awake) /\ Cardinality(Awake) \in Nat
  BY FS_Subset, FS_CardinalityType, SemaphoreAssumption DEF Awake

LEMMA AwakeFiniteNext == IsFiniteSet(Awake') /\ Cardinality(Awake') \in Nat
<1>1. Awake' \subseteq Threads
  BY DEF Awake
<1> QED
  BY <1>1, FS_Subset, FS_CardinalityType, SemaphoreAssumption

LEMMA InitInv == Init => Inv
<1> SUFFICES ASSUME Init PROVE Inv
  OBVIOUS
<1>1. TypeOK
  BY SemaphoreAssumption DEF Init, TypeOK, Pcs
<1>2. MutexOwned
  BY SemaphoreAssumption DEF Init, MutexOwned, InCriticalSection
<1>3. EnoughAwake
  BY DEF Init, EnoughAwake, At
<1> QED
  BY <1>1, <1>2, <1>3 DEF Inv

LEMMA NextTypes == TypeOK /\ Next => TypeOK'
<1> SUFFICES ASSUME TypeOK, NEW t \in Threads,
                    \/ CallAcquire(t) \/ CallRelease(t) \/ AcquireLock(t) \/ AcquireSleep(t)
                    \/ AcquireTake(t) \/ SpuriousWake(t) \/ ReleaseAdd(t) \/ ReleaseNotify(t)
             PROVE  TypeOK'
  BY DEF Next
<1> USE DEF TypeOK, Goto, Pcs
<1>1. CASE CallAcquire(t) \/ CallRelease(t)
  BY <1>1 DEF CallAcquire, CallRelease
<1>2. CASE AcquireLock(t) \/ AcquireSleep(t) \/ AcquireTake(t) \/ SpuriousWake(t)
  BY <1>2 DEF AcquireLock, AcquireSleep, AcquireTake, SpuriousWake
<1>3. CASE ReleaseAdd(t)
  BY <1>3 DEF ReleaseAdd
<1>4. CASE ReleaseNotify(t)
  BY <1>4 DEF ReleaseNotify
<1> QED
  BY <1>1, <1>2, <1>3, <1>4

LEMMA NextMutex == TypeOK /\ MutexOwned /\ Next => MutexOwned'
<1> SUFFICES ASSUME TypeOK, MutexOwned, NEW t \in Threads,
                    \/ CallAcquire(t) \/ CallRelease(t) \/ AcquireLock(t) \/ AcquireSleep(t)
                    \/ AcquireTake(t) \/ SpuriousWake(t) \/ ReleaseAdd(t) \/ ReleaseNotify(t)
             PROVE  MutexOwned'
  BY DEF Next
<1> USE SemaphoreAssumption DEF TypeOK, MutexOwned, InCriticalSection, Goto
<1>1. CASE CallAcquire(t) \/ CallRelease(t)
  BY <1>1 DEF CallAcquire, CallRelease
<1>2. CASE AcquireLock(t) \/ AcquireSleep(t) \/ AcquireTake(t) \/ SpuriousWake(t)
  BY <1>2 DEF AcquireLock, AcquireSleep, AcquireTake, SpuriousWake
<1>3. CASE ReleaseAdd(t)
  BY <1>3 DEF ReleaseAdd
<1>4. CASE ReleaseNotify(t)
  BY <1>4 DEF ReleaseNotify, At
<1> QED
  BY <1>1, <1>2, <1>3, <1>4

\* The count and the number of awake threads move together.
LEMMA NextAwake == TypeOK /\ EnoughAwake /\ Next => EnoughAwake'
<1> SUFFICES ASSUME TypeOK, EnoughAwake, NEW t \in Threads,
                    \/ CallAcquire(t) \/ CallRelease(t) \/ AcquireLock(t) \/ AcquireSleep(t)
                    \/ AcquireTake(t) \/ SpuriousWake(t) \/ ReleaseAdd(t) \/ ReleaseNotify(t),
                    At("asleep")' # {}
             PROVE  count' <= Cardinality(Awake')
  BY DEF Next, EnoughAwake
<1> USE DEF TypeOK, At
<1>1. CASE CallAcquire(t) \/ CallRelease(t)
  <2>1. Awake' = Awake /\ At("asleep")' = At("asleep") /\ count' = count
    BY <1>1 DEF CallAcquire, CallRelease, Goto, Awake
  <2> QED
    BY <2>1 DEF EnoughAwake
<1>2. CASE AcquireLock(t)
  <2>1. Awake' = Awake \cup {t} /\ At("asleep")' = At("asleep") /\ count' = count
    BY <1>2 DEF AcquireLock, Goto, Awake
  <2>2. Cardinality(Awake) <= Cardinality(Awake')
    BY <2>1, AwakeFiniteNext, FS_Subset
  <2> QED
    BY <2>1, <2>2, AwakeFinite, AwakeFiniteNext DEF EnoughAwake
<1>3. CASE AcquireSleep(t)
  BY <1>3, AwakeFiniteNext DEF AcquireSleep
<1>4. CASE AcquireTake(t)
  <2>1. /\ t \in Awake /\ Awake' = Awake \ {t}
        /\ At("asleep")' = At("asleep") /\ count' = count - 1
    BY <1>4 DEF AcquireTake, Goto, Awake
  <2>2. Cardinality(Awake') = Cardinality(Awake) - 1
    BY <2>1, AwakeFinite, FS_RemoveElement
  <2> QED
    BY <2>1, <2>2, AwakeFinite DEF EnoughAwake
<1>5. CASE SpuriousWake(t)
  <2>1. Awake' = Awake \cup {t} /\ t \in At("asleep") /\ count' = count
    BY <1>5 DEF SpuriousWake, Goto, Awake
  <2>2. Cardinality(Awake) <= Cardinality(Awake')
    BY <2>1, AwakeFiniteNext, FS_Subset
  <2> QED
    BY <2>1, <2>2, AwakeFinite, AwakeFiniteNext DEF EnoughAwake
<1>6. CASE ReleaseAdd(t)
  <2>1. /\ t \notin Awake /\ Awake' = Awake \cup {t}
        /\ At("asleep")' = At("asleep") /\ count' = count + 1
    BY <1>6 DEF ReleaseAdd, Goto, Awake
  <2>2. Cardinality(Awake') = Cardinality(Awake) + 1
    BY <2>1, AwakeFinite, FS_AddElement
  <2> QED
    BY <2>1, <2>2, AwakeFinite DEF EnoughAwake
<1>7. CASE ReleaseNotify(t)
  <2>1. CASE At("asleep") = {}
    BY <1>7, <2>1 DEF ReleaseNotify, Goto
  <2>2. CASE At("asleep") # {}
    <3>1. PICK s \in At("asleep") : pc' = [pc EXCEPT ![t] = "idle", ![s] = "woken"]
      BY <1>7, <2>2 DEF ReleaseNotify
    <3>0. /\ pc[t] = "relNotify" /\ pc[s] = "asleep" /\ s # t
          /\ pc'[t] = "idle" /\ pc'[s] = "woken" /\ count' = count
          /\ \A u \in Threads \ {s, t} : pc'[u] = pc[u]
      BY <1>7, <3>1 DEF ReleaseNotify
    <3>2. /\ t \in Awake /\ s \notin Awake
          /\ Awake' = (Awake \ {t}) \cup {s} /\ count' = count
      <4>1. t \in Awake /\ s \notin Awake /\ t \notin Awake' /\ s \in Awake'
        BY <3>0 DEF Awake
      <4>2. \A u \in Threads \ {s, t} : u \in Awake' <=> u \in Awake
        BY <3>0 DEF Awake
      <4>3. Awake \subseteq Threads /\ Awake' \subseteq Threads
        BY DEF Awake
      <4>4. \A u \in Threads : u \in Awake' <=> u \in (Awake \ {t}) \cup {s}
        <5> TAKE u \in Threads
        <5>1. CASE u \in {s, t}
          BY <4>1, <5>1, <3>0
        <5>2. CASE u \notin {s, t}
          BY <4>2, <5>2
        <5> QED
          BY <5>1, <5>2
      <4>5. Awake' = (Awake \ {t}) \cup {s}
        BY <4>3, <4>4
      <4> QED
        BY <4>1, <4>5, <3>0
    <3>3. IsFiniteSet(Awake \ {t}) /\ Cardinality(Awake \ {t}) = Cardinality(Awake) - 1
      BY <3>2, AwakeFinite, FS_RemoveElement
    <3>4. Cardinality(Awake') = Cardinality(Awake)
      <4>1. s \notin Awake \ {t}
        BY <3>2
      <4>2. Cardinality((Awake \ {t}) \cup {s}) = Cardinality(Awake \ {t}) + 1
        BY <3>3, <4>1, FS_AddElement
      <4> QED
        BY <3>2, <3>3, <4>2, AwakeFinite
    <3> QED
      BY <2>2, <3>2, <3>4 DEF EnoughAwake
  <2> QED
    BY <2>1, <2>2
<1> QED
  BY <1>1, <1>2, <1>3, <1>4, <1>5, <1>6, <1>7

LEMMA NextInv == Inv /\ [Next]_vars => Inv'
<1>1. CASE Next
  BY <1>1, NextTypes, NextMutex, NextAwake DEF Inv
<1>2. CASE UNCHANGED vars
  BY <1>2 DEF vars, Inv, TypeOK, MutexOwned, InCriticalSection, EnoughAwake, At, Awake
<1> QED
  BY <1>1, <1>2

LEMMA Invariance == Spec => []Inv
  BY InitInv, NextInv, PTL DEF Spec

\* Every variable of the semaphore and its threads keeps its type.
THEOREM TypeCorrect == Spec => []TypeOK
<1>1. Inv => TypeOK
  BY DEF Inv
<1> QED
  BY <1>1, Invariance, PTL

\* Only the thread between lock and unlock of acquire or release holds the
\* mutex: the count is never read and changed by two threads at once.
THEOREM MutualExclusion == Spec => []MutexOwned
<1>1. Inv => MutexOwned
  BY DEF Inv
<1> QED
  BY <1>1, Invariance, PTL

\* notify_one in every release wakes enough threads for the count.
THEOREM AwakeCorrect == Spec => []EnoughAwake
<1>1. Inv => EnoughAwake
  BY DEF Inv
<1> QED
  BY <1>1, Invariance, PTL

\* No thread is left asleep in acquire over a positive count with nobody
\* awake to take it.
THEOREM WakeupCorrect == Spec => []NoLostWakeup
<1>1. Inv => NoLostWakeup
  <2> SUFFICES ASSUME Inv, count > 0, At("asleep") # {}, Awake = {} PROVE FALSE
    BY DEF NoLostWakeup
  <2>1. Cardinality(Awake) = 0
    BY FS_EmptySet
  <2> QED
    BY <2>1 DEF Inv, EnoughAwake, TypeOK
<1> QED
  BY <1>1, Invariance, PTL

----------------------------------------------------------------------------
(* Refinement: the call of a thread as its caller sees it.                 *)

\* A step that moves only thread t, and s if it is woken, shows as the one
\* change of the call of t.
LEMMA CallChanges ==
  ASSUME TypeOK, TypeOK', NEW t \in Threads,
         \A s \in Threads \ {t} :
            \/ pc'[s] = pc[s]
            \/ pc[s] = "asleep" /\ pc'[s] = "woken"
  PROVE  callBar' = [callBar EXCEPT ![t] = callBar'[t]]
<1>1. \A s \in Threads \ {t} : callBar'[s] = callBar[s]
  BY DEF callBar
<1>2. callBar = [s \in Threads |-> callBar[s]] /\ callBar' = [s \in Threads |-> callBar'[s]]
  BY DEF callBar
<1> QED
  BY <1>1, <1>2, Zenon

LEMMA InitRefines == Init => Abstract!Init
  BY DEF Init, Abstract!Init, callBar

LEMMA NextRefines == Inv /\ Inv' /\ [Next]_vars => [Abstract!Next]_(Abstract!absVars)
<1> SUFFICES ASSUME Inv, Inv', [Next]_vars
             PROVE  Abstract!Next \/ UNCHANGED Abstract!absVars
  OBVIOUS
<1>0. CASE UNCHANGED vars
  BY <1>0 DEF vars, Abstract!absVars, callBar
<1>1. ASSUME NEW t \in Threads, CallAcquire(t) PROVE Abstract!CallAcquire(t)
  <2>1. callBar' = [callBar EXCEPT ![t] = callBar'[t]]
    BY <1>1, CallChanges DEF Inv, TypeOK, CallAcquire, Goto
  <2>2. callBar[t] = "none" /\ callBar'[t] = "acquire" /\ count' = count
    BY <1>1 DEF Inv, TypeOK, CallAcquire, Goto, callBar
  <2> QED
    BY <2>1, <2>2 DEF Abstract!CallAcquire
<1>2. ASSUME NEW t \in Threads, CallRelease(t) PROVE Abstract!CallRelease(t)
  <2>1. callBar' = [callBar EXCEPT ![t] = callBar'[t]]
    BY <1>2, CallChanges DEF Inv, TypeOK, CallRelease, Goto
  <2>2. callBar[t] = "none" /\ callBar'[t] = "release" /\ count' = count
    BY <1>2 DEF Inv, TypeOK, CallRelease, Goto, callBar
  <2> QED
    BY <2>1, <2>2 DEF Abstract!CallRelease
<1>3. ASSUME NEW t \in Threads, AcquireLock(t) \/ AcquireSleep(t) \/ SpuriousWake(t)
      PROVE  UNCHANGED Abstract!absVars
  <2>1. callBar' = [callBar EXCEPT ![t] = callBar'[t]]
    BY <1>3, CallChanges DEF Inv, TypeOK, AcquireLock, AcquireSleep, SpuriousWake, Goto
  <2>2. callBar[t] = "acquire" /\ callBar'[t] = "acquire" /\ count' = count
    BY <1>3 DEF Inv, TypeOK, AcquireLock, AcquireSleep, SpuriousWake, Goto, callBar
  <2>3. callBar' = callBar
    BY <2>1, <2>2 DEF callBar
  <2> QED
    BY <2>2, <2>3 DEF Abstract!absVars
<1>4. ASSUME NEW t \in Threads, AcquireTake(t) PROVE Abstract!Acquire(t)
  <2>1. callBar' = [callBar EXCEPT ![t] = callBar'[t]]
    BY <1>4, CallChanges DEF Inv, TypeOK, AcquireTake, Goto
  <2>2. callBar[t] = "acquire" /\ callBar'[t] = "none"
    BY <1>4 DEF Inv, TypeOK, AcquireTake, Goto, callBar
  <2>3. count > 0 /\ count' = count - 1
    BY <1>4 DEF Inv, TypeOK, AcquireTake
  <2> QED
    BY <2>1, <2>2, <2>3 DEF Abstract!Acquire
<1>5. ASSUME NEW t \in Threads, ReleaseAdd(t) PROVE Abstract!Release(t)
  <2>1. callBar' = [callBar EXCEPT ![t] = callBar'[t]]
    BY <1>5, CallChanges DEF Inv, TypeOK, ReleaseAdd, Goto
  <2>2. callBar[t] = "release" /\ callBar'[t] = "released" /\ count' = count + 1
    BY <1>5 DEF Inv, TypeOK, ReleaseAdd, Goto, callBar
  <2> QED
    BY <2>1, <2>2 DEF Abstract!Release
<1>6. ASSUME NEW t \in Threads, ReleaseNotify(t) PROVE Abstract!ReturnRelease(t)
  <2>0. /\ pc[t] = "relNotify" /\ pc'[t] = "idle" /\ count' = count
        /\ \A s \in Threads \ {t} : \/ pc'[s] = pc[s]
                                    \/ pc[s] = "asleep" /\ pc'[s] = "woken"
    BY <1>6 DEF Inv, TypeOK, ReleaseNotify, Goto, At
  <2>1. callBar' = [callBar EXCEPT ![t] = callBar'[t]]
    BY <2>0, CallChanges DEF Inv
  <2>2. callBar[t] = "released" /\ callBar'[t] = "none"
    BY <2>0 DEF callBar
  <2> QED
    BY <2>0, <2>1, <2>2 DEF Abstract!ReturnRelease
<1> QED
  BY <1>0, <1>1, <1>2, <1>3, <1>4, <1>5, <1>6 DEF Next, Abstract!Next

\* The mutex and the condition variable implement a semaphore whose acquire
\* and release are atomic, for any number of threads: the scheduler's model
\* may use counters in place of ConcurrencyUtils.h.
THEOREM SemaphoreRefinement == Spec => RefinesSemaphore
  BY InitRefines, NextRefines, Invariance, PTL DEF Spec, RefinesSemaphore, Abstract!SafeSpec
=============================================================================
