------------------------------ MODULE Watchdog ------------------------------
(***************************************************************************)
(* Watchdog.h: a thread that every sleepMs takes the number of bytes        *)
(* processed since its last look and logs it, or a warning when it is 0.    *)
(*                                                                         *)
(* One action per step of watchdogMain, one operator per public method.     *)
(* The thread sleeps on a condition variable with no predicate, so a        *)
(* notification sent before it sleeps is lost and only the timeout wakes    *)
(* it; the timeout and a spurious wake-up are the same step.                *)
(***************************************************************************)
EXTENDS Naturals

VARIABLES
    counter,               \* atomic: bytes notified since the last exchange
    startSemaphore,        \* count of the start semaphore
    watchdogKeepRunning,   \* atomic flag keepRunning
    watchdogPc,            \* control state of the watchdog thread
    counterVal             \* its local: the value taken by the exchange

watchdogVars ==
    <<counter, startSemaphore, watchdogKeepRunning, watchdogPc, counterVal>>

WatchdogPcs == {"start", "loop", "enter", "sleep", "exchange", "report", "exited"}

WatchdogTypeOK ==
    /\ counter \in Nat
    /\ startSemaphore \in Nat
    /\ watchdogKeepRunning \in BOOLEAN
    /\ watchdogPc \in WatchdogPcs
    /\ counterVal \in Nat

WatchdogInit ==
    /\ counter = 0
    /\ startSemaphore = 0
    /\ watchdogKeepRunning = TRUE
    /\ watchdogPc = "start"
    /\ counterVal = 0

----------------------------------------------------------------------------
(* Public methods, called by other threads.                                *)

UpdateCounter(x) == counter' = counter + x

StartWatchdog == startSemaphore' = startSemaphore + 1

\* Mutant: only the notification, without the flag.
NotifyOnly ==
    /\ watchdogPc' = IF watchdogPc = "sleep" THEN "exchange" ELSE watchdogPc
    /\ UNCHANGED watchdogKeepRunning

\* terminate() and the first half of join(): the flag, then notify_one,
\* which wakes the thread only if it already sleeps.
TerminateWatchdog ==
    /\ watchdogKeepRunning' = FALSE
    /\ watchdogPc' = IF watchdogPc = "sleep" THEN "exchange" ELSE watchdogPc

WatchdogJoined == watchdogPc = "exited"

----------------------------------------------------------------------------
(* watchdogMain                                                            *)

\* Mutant: the thread does not wait for start().
WatchdogStartAtOnce ==
    /\ watchdogPc = "start"
    /\ startSemaphore' = startSemaphore - 1
    /\ watchdogPc' = "loop"
    /\ UNCHANGED <<counter, watchdogKeepRunning, counterVal>>

WatchdogStart ==
    /\ watchdogPc = "start"
    /\ startSemaphore > 0
    /\ startSemaphore' = startSemaphore - 1
    /\ watchdogPc' = "loop"
    /\ UNCHANGED <<counter, watchdogKeepRunning, counterVal>>

WatchdogLoop ==
    /\ watchdogPc = "loop"
    /\ watchdogPc' = IF watchdogKeepRunning THEN "enter" ELSE "exited"
    /\ UNCHANGED <<counter, startSemaphore, watchdogKeepRunning, counterVal>>

WatchdogEnterSleep ==
    /\ watchdogPc = "enter"
    /\ watchdogPc' = "sleep"
    /\ UNCHANGED <<counter, startSemaphore, watchdogKeepRunning, counterVal>>

\* Mutant: the sleep has no timeout, only the notification ends it.
WatchdogSleepsUntimed == FALSE

\* Mutant: the sleep lasts until there is progress to report or a stop.
WatchdogWakeOnProgress ==
    /\ watchdogPc = "sleep"
    /\ counter > 0 \/ ~watchdogKeepRunning
    /\ watchdogPc' = "exchange"
    /\ UNCHANGED <<counter, startSemaphore, watchdogKeepRunning, counterVal>>

WatchdogWake ==
    /\ watchdogPc = "sleep"
    /\ watchdogPc' = "exchange"
    /\ UNCHANGED <<counter, startSemaphore, watchdogKeepRunning, counterVal>>

\* Mutant: the counter is read but not reset.
WatchdogLoad ==
    /\ watchdogPc = "exchange"
    /\ counterVal' = counter
    /\ watchdogPc' = "report"
    /\ UNCHANGED <<counter, startSemaphore, watchdogKeepRunning>>

WatchdogExchange ==
    /\ watchdogPc = "exchange"
    /\ counterVal' = counter
    /\ counter' = 0
    /\ watchdogPc' = "report"
    /\ UNCHANGED <<startSemaphore, watchdogKeepRunning>>

\* Both branches end the iteration; what is logged depends on these.
LogsWarning == counterVal = 0 /\ watchdogKeepRunning
LogsAmount  == counterVal > 0 /\ watchdogKeepRunning

WatchdogReport ==
    /\ watchdogPc = "report"
    /\ counterVal' = 0
    /\ watchdogPc' = "loop"
    /\ UNCHANGED <<counter, startSemaphore, watchdogKeepRunning>>

WatchdogStep ==
    \/ WatchdogStart
    \/ WatchdogLoop
    \/ WatchdogEnterSleep
    \/ WatchdogWake
    \/ WatchdogExchange
    \/ WatchdogReport
=============================================================================
