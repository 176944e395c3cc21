----------------------------- MODULE Semaphore ------------------------------
(***************************************************************************)
(* What ConcurrencyUtils.h promises of its semaphore: acquire blocks while  *)
(* the count is 0 and takes one, release adds one and never blocks.  A call *)
(* takes effect at one moment between its invocation and its return.        *)
(***************************************************************************)
EXTENDS Naturals

CONSTANTS
    Threads,        \* the threads that use the semaphore
    InitialCount    \* argument of the constructor

VARIABLES
    count,
    call    \* the call each thread is in

absVars == <<count, call>>

Init ==
    /\ count = InitialCount
    /\ call = [t \in Threads |-> "none"]

CallAcquire(t) ==
    /\ call[t] = "none"
    /\ call' = [call EXCEPT ![t] = "acquire"]
    /\ UNCHANGED count

CallRelease(t) ==
    /\ call[t] = "none"
    /\ call' = [call EXCEPT ![t] = "release"]
    /\ UNCHANGED count

\* The call takes effect.  A release can add its one some time before it
\* returns, so its return is a step of its own.
Acquire(t) ==
    /\ call[t] = "acquire"
    /\ count > 0
    /\ count' = count - 1
    /\ call' = [call EXCEPT ![t] = "none"]

Release(t) ==
    /\ call[t] = "release"
    /\ count' = count + 1
    /\ call' = [call EXCEPT ![t] = "released"]

ReturnRelease(t) ==
    /\ call[t] = "released"
    /\ call' = [call EXCEPT ![t] = "none"]
    /\ UNCHANGED count

Next ==
    \E t \in Threads :
        \/ CallAcquire(t)
        \/ CallRelease(t)
        \/ Acquire(t)
        \/ Release(t)
        \/ ReturnRelease(t)

\* No wake-up is lost: while there is something to take and a thread in
\* acquire, some thread takes it.  A release always returns.
Fairness ==
    /\ WF_absVars(\E t \in Threads : Acquire(t))
    /\ \A t \in Threads : WF_absVars(Release(t) \/ ReturnRelease(t))

SafeSpec == Init /\ [][Next]_absVars

Spec == SafeSpec /\ Fairness
=============================================================================
