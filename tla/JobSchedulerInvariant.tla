----------------------- MODULE JobSchedulerInvariant ------------------------
(***************************************************************************)
(* The inductive invariant of JobScheduler, in named parts.  Each part says *)
(* what one mechanism of the code (the mutex, the availability vector, the  *)
(* tokens in the semaphores, the terminate loop, the job counter) keeps     *)
(* true in every state, including those no test would stop in.              *)
(***************************************************************************)
EXTENDS JobScheduler

JobPcs == {"process", "finish", "fail", "errLocked"}

\* A thread inside onProcessJob or a callback that reads currentJob has one.
HasJob == \A c \in Coordinators : workerPc[c] \in JobPcs => currentJob[c] # NoJob

\* A coordinator without a thread is never given anything to do.
DisabledIdle ==
    \A c \in Coordinators :
        IF c \in Enabled
          THEN workerPc[c] # "noThread"
          ELSE workerPc[c] = "noThread" /\ currentJob[c] = NoJob

MutexOwned ==
    /\ \A c \in Coordinators :
          workerPc[c] \in {"log", "errLocked"} <=> coordinatorMutex = c
    /\ schedPc \in {"assignRelease", "logErr", "termFlag", "termRelease", "collect"}
          <=> coordinatorMutex = Main

\* How far the terminate loop has got.
Terminated(c) ==
    \/ schedPc = "termFlag" /\ c < target
    \/ schedPc = "termRelease" /\ c <= target
    \/ schedPc \in {"collect", "destroy", "joinWatchdog", "joinCoordinators", "exit"}

FlagsCleared == \A c \in Coordinators : ~keepRunning[c] <=> Terminated(c)

BeingAssigned(c) == schedPc = "assignRelease" /\ target = c

\* An available coordinator has no job, and a token only to stop with.
AvailableIdle ==
    \A c \in Enabled : coordinatorAvailability[c] =>
        /\ currentJob[c] = NoJob
        /\ ~BeingAssigned(c)
        /\ keepRunning[c] =>
              semaphore[c] = 0 /\ workerPc[c] \in {"loop", "acquire", "log"}

\* An unavailable one has its job, and while it is not being terminated one
\* token, which it has taken or will take, unless the job failed.
Busy(c) ==
    /\ currentJob[c] # NoJob
    /\ workerPc[c] # "log"
    /\ keepRunning[c] =>
          IF BeingAssigned(c)
            THEN semaphore[c] = 0 /\ workerPc[c] \in {"loop", "acquire"}
            ELSE \/ semaphore[c] = 1 /\ workerPc[c] \in {"loop", "acquire"}
                 \/ semaphore[c] = 0 /\ workerPc[c] \in JobPcs \cup {"dispatch"}
                 \/ semaphore[c] = 0 /\ workerPc[c] \in {"loop", "acquire"}
                                     /\ lastErr # NoErr

UnavailableBusy == \A c \in Enabled : ~coordinatorAvailability[c] => Busy(c)

\* The coordinator of the recorded error waits, with its job, to be stopped.
FailedParked ==
    lastErr # NoErr =>
        LET e == lastErr.coordinatorId
        IN  /\ e \in Enabled
            /\ keepRunning[e] =>
                  /\ ~coordinatorAvailability[e]
                  /\ semaphore[e] = 0
                  /\ workerPc[e] \in {"loop", "acquire"}
                  /\ ~BeingAssigned(e)

\* The release that comes with every error is still there to be taken when
\* run() decides or waits.
ErrorWakes ==
    /\ schedPc \in {"decide", "wait"}
    /\ \/ lastErr # NoErr
       \/ \E c \in Coordinators : workerPc[c] = "errLocked"
    => jobFinishedSemaphore > 0

\* What run() saw when it decided to wait still holds, but for coordinators
\* that are about to release the semaphore.
WaitJustified ==
    schedPc = "wait" /\ jobFinishedSemaphore = 0 =>
        IF JobRemaining
          THEN \A c \in Enabled : coordinatorAvailability[c] => workerPc[c] = "log"
          ELSE \E c \in Enabled : ~coordinatorAvailability[c] \/ workerPc[c] = "log"

AssignPossible ==
    schedPc \in {"assignCheck", "assign"} => AnyCoordinatorAvailable /\ JobRemaining

\* checkForErrors throws only for an error that is still recorded.
ThrowJustified == schedPc = "logErr" => lastErr # NoErr

\* Once run() has decided to shut down there is nothing left to happen.
Succeeding ==
    \/ schedPc = "shutdown"
    \/ schedPc \in {"termFlag", "termRelease", "collect"} /\ outcome = "none"
    \/ outcome = "returned"

NothingLeft ==
    Succeeding =>
        /\ lastErr = NoErr
        /\ AllChunksProcessed
        /\ AllCoordinatorsAvailable

OutcomeSet ==
    /\ outcome = "returned" =>
          schedPc \in {"destroy", "joinWatchdog", "joinCoordinators", "exit"}
    /\ outcome = "threw" =>
          schedPc \in {"termFlag", "termRelease", "destroy", "joinWatchdog",
                       "joinCoordinators", "exit"}
    /\ outcome = "none" =>
          schedPc \notin {"destroy", "joinWatchdog", "joinCoordinators", "exit"}

ResultSorted == outcome = "returned" => SortedById(processedJobs)

\* A terminated thread that sleeps has its token, or is about to get it.
TokenLeft ==
    \A c \in Enabled :
        /\ ~keepRunning[c]
        /\ workerPc[c] = "acquire"
        /\ ~(schedPc = "termRelease" /\ target = c)
        => semaphore[c] > 0

\* The job being assigned is the newest; every other is older.  No
\* coordinator is given an empty range.
JobsOld ==
    /\ \A c \in Coordinators : currentJob[c] # NoJob =>
          /\ currentJob[c].first < currentJob[c].last
          /\ currentJob[c].last <= nextChunkIdx
          /\ IF BeingAssigned(c) THEN currentJob[c].id = currentJobId
                                 ELSE currentJob[c].id < currentJobId
    /\ \A i \in DOMAIN processedJobs :
          /\ processedJobs[i].last <= nextChunkIdx
          /\ processedJobs[i].id < currentJobId

\* The parts in three groups: where the threads are, what tokens they have,
\* and what the main thread may rely on.
ThreadsInv == HasJob /\ DisabledIdle /\ MutexOwned /\ FlagsCleared /\ OutcomeSet

TokensInv == AvailableIdle /\ UnavailableBusy /\ FailedParked /\ TokenLeft

MainInv == ErrorWakes /\ WaitJustified /\ AssignPossible /\ ThrowJustified /\ NothingLeft

ControlInv == ThreadsInv /\ TokensInv /\ MainInv

DataInv == JobsOld /\ JobsOrdered /\ NoChunkLost /\ ResultSorted

IInv == TypeOK /\ ControlInv /\ DataInv
=============================================================================
