-------------------------- MODULE WatchdogClients ---------------------------
(***************************************************************************)
(* The watchdog among the threads that use it, apart from the scheduler:    *)
(* coordinator threads (and TBB's) report bytes at any time after run()     *)
(* has started it, and the main thread stops and joins it, through          *)
(* terminate() on success and in the destructor alone after an error.       *)
(***************************************************************************)
EXTENDS Watchdog

CONSTANTS
    Amounts,    \* sizes a part of a job may have
    MaxBytes    \* bound: bytes of the input, hence of all the updates

ASSUME WatchdogAssumption == Amounts \subseteq Nat \ {0} /\ MaxBytes \in Nat

VARIABLES
    ownerPc,    \* where the owner is: "new", "running", "terminated", "joining", "joined"
    notified,   \* history: all bytes passed to updateCounter
    logged      \* history: all bytes the thread has logged

vars == <<watchdogVars, ownerPc, notified, logged>>

TypeOK ==
    /\ WatchdogTypeOK
    /\ ownerPc \in {"new", "running", "terminated", "joining", "joined"}
    /\ notified \in 0..MaxBytes
    /\ logged \in Nat

Init ==
    /\ WatchdogInit
    /\ ownerPc = "new"
    /\ notified = 0
    /\ logged = 0

Start ==
    /\ ownerPc = "new"
    /\ StartWatchdog
    /\ ownerPc' = "running"
    /\ UNCHANGED <<counter, watchdogKeepRunning, watchdogPc, counterVal, notified, logged>>

Terminate ==
    /\ ownerPc = "running"
    /\ TerminateWatchdog
    /\ ownerPc' = "terminated"
    /\ UNCHANGED <<counter, startSemaphore, counterVal, notified, logged>>

Join ==
    /\ ownerPc \in {"running", "terminated"}
    /\ TerminateWatchdog
    /\ ownerPc' = "joining"
    /\ UNCHANGED <<counter, startSemaphore, counterVal, notified, logged>>

Joined ==
    /\ ownerPc = "joining"
    /\ WatchdogJoined
    /\ ownerPc' = "joined"
    /\ UNCHANGED <<watchdogVars, notified, logged>>

Update(x) ==
    /\ ownerPc # "new"
    /\ notified + x <= MaxBytes
    /\ UpdateCounter(x)
    /\ notified' = notified + x
    /\ UNCHANGED <<startSemaphore, watchdogKeepRunning, watchdogPc, counterVal,
                   ownerPc, logged>>

Thread ==
    /\ WatchdogStep
    /\ logged' = IF watchdogPc = "report" /\ LogsAmount
                   THEN logged + counterVal ELSE logged
    /\ UNCHANGED <<ownerPc, notified>>

Next ==
    \/ Start
    \/ Terminate
    \/ Join
    \/ Joined
    \/ \E x \in Amounts : Update(x)
    \/ Thread

\* The thread is scheduled and its timeout expires.  The owner need not stop
\* it, but waits only for the thread once it joins.
Spec == Init /\ [][Next]_vars /\ WF_vars(Thread) /\ WF_vars(Joined)

----------------------------------------------------------------------------
\* updateCounter runs in any thread between the exchange and the report:
\* while the watchdog is wanted, every byte reported to it is in the
\* counter, about to be logged, or logged, and none is logged twice.
BytesAccounted ==
    watchdogKeepRunning => notified = counter + counterVal + logged

\* A computation that stalls (its updates cease) is reported again and
\* again, whatever the thread was doing when the last update came.
StallWarned ==
    <>[](ownerPc = "running") => []<><<WatchdogReport /\ LogsWarning>>_vars

\* join() returns, though the notification of terminate() may come while
\* the thread is not yet asleep and be lost.
JoinReturns == (ownerPc = "joining") ~> (ownerPc = "joined")
=============================================================================
