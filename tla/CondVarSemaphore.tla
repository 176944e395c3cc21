-------------------------- MODULE CondVarSemaphore --------------------------
(***************************************************************************)
(* ConcurrencyUtils.h: the counting semaphore built from a mutex and a      *)
(* condition variable, one action per step that another thread can observe. *)
(* The condition variable may wake a sleeper for no reason, and a woken     *)
(* thread competes for the mutex with threads that have just called.        *)
(***************************************************************************)
EXTENDS Naturals, FiniteSets

CONSTANTS
    Threads,
    InitialCount,
    MaxCount,   \* bound: clients release only below it
    Nobody      \* owner of a free mutex

ASSUME SemaphoreAssumption ==
    /\ IsFiniteSet(Threads)
    /\ InitialCount \in Nat
    /\ MaxCount \in Nat
    /\ Nobody \notin Threads

VARIABLES
    count,
    mutex,   \* the thread that holds it, or Nobody
    pc       \* where each thread is in acquire or release

vars == <<count, mutex, pc>>

Pcs == {"idle", "acqLock", "acqTest", "asleep", "woken", "relLock", "relNotify"}

TypeOK ==
    /\ count \in Nat
    /\ mutex \in Threads \cup {Nobody}
    /\ pc \in [Threads -> Pcs]

At(label) == {t \in Threads : pc[t] = label}

Goto(t, label) == pc' = [pc EXCEPT ![t] = label]

Init ==
    /\ count = InitialCount
    /\ mutex = Nobody
    /\ pc = [t \in Threads |-> "idle"]

----------------------------------------------------------------------------
CallAcquire(t) ==
    /\ pc[t] = "idle"
    /\ Goto(t, "acqLock")
    /\ UNCHANGED <<count, mutex>>

CallRelease(t) ==
    /\ pc[t] = "idle"
    /\ count + Cardinality(At("relLock")) < MaxCount
    /\ Goto(t, "relLock")
    /\ UNCHANGED <<count, mutex>>

\* Mutant: wait returns without the mutex.
AcquireUnlocked(t) ==
    /\ pc[t] \in {"acqLock", "woken"}
    /\ mutex' = t
    /\ Goto(t, "acqTest")
    /\ UNCHANGED count

\* The constructor of the unique_lock, or the return of wait.
AcquireLock(t) ==
    /\ pc[t] \in {"acqLock", "woken"}
    /\ mutex = Nobody
    /\ mutex' = t
    /\ Goto(t, "acqTest")
    /\ UNCHANGED count

\* The loop condition holds: wait gives the mutex back and sleeps.
AcquireSleep(t) ==
    /\ pc[t] = "acqTest"
    /\ count = 0
    /\ mutex' = Nobody
    /\ Goto(t, "asleep")
    /\ UNCHANGED count

\* Mutant: an if in place of the while, so a woken thread does not look again.
AcquireTakeBlindly(t) ==
    /\ pc[t] = "acqTest"
    /\ count' = count - 1
    /\ mutex' = Nobody
    /\ Goto(t, "idle")

AcquireTake(t) ==
    /\ pc[t] = "acqTest"
    /\ count # 0
    /\ count' = count - 1
    /\ mutex' = Nobody
    /\ Goto(t, "idle")

SpuriousWake(t) ==
    /\ pc[t] = "asleep"
    /\ Goto(t, "woken")
    /\ UNCHANGED <<count, mutex>>

ReleaseAdd(t) ==
    /\ pc[t] = "relLock"
    /\ mutex = Nobody
    /\ mutex' = t
    /\ count' = count + 1
    /\ Goto(t, "relNotify")

\* Mutant: a notification only when the count leaves 0.
ReleaseNotifyFirst(t) ==
    /\ pc[t] = "relNotify"
    /\ IF At("asleep") = {} \/ count > 1
         THEN Goto(t, "idle")
         ELSE \E s \in At("asleep") :
                 pc' = [pc EXCEPT ![t] = "idle", ![s] = "woken"]
    /\ mutex' = Nobody
    /\ UNCHANGED count

\* notify_one wakes one of the sleepers if there is any; then the lock goes.
ReleaseNotify(t) ==
    /\ pc[t] = "relNotify"
    /\ IF At("asleep") = {}
         THEN Goto(t, "idle")
         ELSE \E s \in At("asleep") :
                 pc' = [pc EXCEPT ![t] = "idle", ![s] = "woken"]
    /\ mutex' = Nobody
    /\ UNCHANGED count

Next ==
    \E t \in Threads :
        \/ CallAcquire(t)
        \/ CallRelease(t)
        \/ AcquireLock(t)
        \/ AcquireSleep(t)
        \/ AcquireTake(t)
        \/ SpuriousWake(t)
        \/ ReleaseAdd(t)
        \/ ReleaseNotify(t)

Spec == Init /\ [][Next]_vars

\* A thread inside a call is scheduled, and one that finds the mutex free
\* again and again gets it.  Nothing obliges a thread to call, or a sleeper
\* to wake without a notification.
Fairness ==
    \A t \in Threads :
        /\ SF_vars(AcquireLock(t))
        /\ SF_vars(ReleaseAdd(t))
        /\ WF_vars(AcquireSleep(t) \/ AcquireTake(t) \/ ReleaseNotify(t))

FairSpec == Spec /\ Fairness

----------------------------------------------------------------------------
\* The mutex is held exactly by the thread between its lock and its unlock.
InCriticalSection(t) == pc[t] \in {"acqTest", "relNotify"}

MutexOwned == \A t \in Threads : InCriticalSection(t) <=> mutex = t

\* Threads awake in acquire, or about to notify one that sleeps.
Awake == {t \in Threads : pc[t] \in {"woken", "acqTest", "relNotify"}}

\* release notifies every time, and not only when the count leaves 0: while
\* a thread sleeps in wait, there are at least as many threads awake as the
\* count has units, although notified threads race with new callers and
\* sleepers wake for no reason.
EnoughAwake == At("asleep") # {} => count <= Cardinality(Awake)

\* So no thread is left asleep over a positive count.
NoLostWakeup == count > 0 /\ At("asleep") # {} => Awake # {}

----------------------------------------------------------------------------
(* The code implements the semaphore other modules take for granted.       *)

callBar ==
    [t \in Threads |->
        CASE pc[t] = "idle" -> "none"
          [] pc[t] = "relLock" -> "release"
          [] pc[t] = "relNotify" -> "released"
          [] OTHER -> "acquire"]

Abstract == INSTANCE Semaphore WITH call <- callBar

\* acquire and release take effect atomically, somewhere in the call.
RefinesSemaphore == Abstract!SafeSpec

\* And no wake-up is lost: a thread takes what there is to take.
ImplementsSemaphore == Abstract!Spec
=============================================================================
