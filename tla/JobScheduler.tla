---------------------------- MODULE JobScheduler ----------------------------
(***************************************************************************)
(* JobScheduler.cpp and its caller in main.cpp: the main thread hands       *)
(* ranges of chunks to device coordinators, collects what they return and   *)
(* shuts everything down, on success or after an error.                     *)
(*                                                                         *)
(* The main thread, the coordinator threads and the watchdog interleave at  *)
(* every access to shared state.  coordinatorMutex is explicit: a critical  *)
(* section is one action where no other thread can look inside it, and      *)
(* several actions with the mutex held where one can (a semaphore, an       *)
(* atomic flag, currentJob, the log).  Semaphores are counters with an      *)
(* atomic acquire, which module CondVarSemaphore justifies.                 *)
(***************************************************************************)
EXTENDS DeviceCoordinator, Watchdog, Sequences

CONSTANTS
    MaxChunks,   \* getMaxNumberOfChunks of each coordinator
    NoErr,       \* the null pointer in lastErr
    Main,        \* the thread that runs main
    Nobody       \* owner of a free mutex

\* The CPU's is 0 when it has no memory to work with, and no thread either.
ASSUME MaxChunksAssumption ==
    /\ MaxChunks \in [Coordinators -> Nat]
    /\ \A c \in Enabled : MaxChunks[c] > 0

Errors == [jobId : Nat, coordinatorId : Coordinators]

ASSUME SchedulerAssumption ==
    /\ NoErr \notin Errors
    /\ Main \notin Coordinators
    /\ Nobody \notin Coordinators \cup {Main}

VARIABLES
    schedPc,                  \* control state of the main thread
    coordinatorMutex,         \* the thread that holds it, or Nobody
    coordinatorAvailability,  \* vector<bool>, one entry per enabled coordinator
    jobFinishedSemaphore,     \* its count
    processedJobs,
    currentJobId,
    lastErr,
    target,                   \* local of assignJob and of the terminate loop
    outcome                   \* how run() ends: it returns or it throws

schedVars == <<schedPc, target, outcome, currentJobId, nextChunkIdx>>
resultVars == <<coordinatorAvailability, processedJobs>>
vars == <<schedVars, resultVars, coordinatorMutex, jobFinishedSemaphore,
          lastErr, coordinatorVars, watchdogVars>>

SchedPcs == {"start", "check", "decide", "wait", "assignCheck", "assign",
             "assignRelease", "logErr", "shutdown", "termFlag", "termRelease",
             "collect", "destroy", "joinWatchdog", "joinCoordinators", "exit"}

TypeOK ==
    /\ ChunkHandlerTypeOK
    /\ CoordinatorTypeOK
    /\ WatchdogTypeOK
    /\ schedPc \in SchedPcs
    /\ coordinatorMutex \in Coordinators \cup {Main, Nobody}
    /\ coordinatorAvailability \in [Enabled -> BOOLEAN]
    /\ jobFinishedSemaphore \in Nat
    /\ processedJobs \in Seq(Jobs)
    /\ currentJobId \in Nat
    /\ lastErr \in Errors \cup {NoErr}
    /\ target \in Coordinators
    /\ outcome \in {"none", "returned", "threw"}

\* After the constructors: every thread exists and none has a job.
Init ==
    /\ ChunkHandlerInit
    /\ CoordinatorInit
    /\ WatchdogInit
    /\ schedPc = "start"
    /\ coordinatorMutex = Nobody
    /\ coordinatorAvailability = [c \in Enabled |-> TRUE]
    /\ jobFinishedSemaphore = 0
    /\ processedJobs = << >>
    /\ currentJobId = 0
    /\ lastErr = NoErr
    /\ target = 0
    /\ outcome = "none"

----------------------------------------------------------------------------
JobRemaining == ~AllChunksProcessed

AnyCoordinatorAvailable == \E c \in Enabled : coordinatorAvailability[c]
\* Mutant: run() stops when one coordinator, not all, is free.
SomeCoordinatorFree == \E c \in Enabled : coordinatorAvailability[c]

AllCoordinatorsAvailable == \A c \in Enabled : coordinatorAvailability[c]

\* Mutant: the first coordinator, busy or not.
IsFirstEnabled(c) == c \in Enabled /\ \A d \in Enabled : c <= d

\* OpenCL devices have the lower ids and so come first.
IsNextAvailable(c) ==
    /\ c \in Enabled
    /\ coordinatorAvailability[c]
    /\ \A d \in Enabled : d < c => ~coordinatorAvailability[d]

MutexFree == coordinatorMutex = Nobody

----------------------------------------------------------------------------
(* The main thread: run()                                                  *)

StartRun ==
    /\ schedPc = "start"
    /\ StartWatchdog
    /\ schedPc' = "check"
    /\ UNCHANGED <<counter, watchdogKeepRunning, watchdogPc, counterVal>>
    /\ UNCHANGED <<target, outcome, currentJobId, nextChunkIdx, resultVars,
                   coordinatorMutex, jobFinishedSemaphore, lastErr, coordinatorVars>>

\* checkForErrors finds nothing: the caller goes on.  Every error is fatal:
\* the only caller of CoordinatorErr takes the default.
CheckForErrors(from, to) ==
    /\ schedPc = from
    /\ MutexFree
    /\ IF lastErr = NoErr
         THEN schedPc' = to /\ UNCHANGED coordinatorMutex
         ELSE schedPc' = "logErr" /\ coordinatorMutex' = Main
    /\ UNCHANGED <<target, outcome, currentJobId, nextChunkIdx, resultVars,
                   jobFinishedSemaphore, lastErr, coordinatorVars, watchdogVars>>

CheckInLoop == CheckForErrors("check", "decide")

CheckInAssignJob == CheckForErrors("assignCheck", "assign")

\* The rest of checkForErrors: log CRITICAL, then terminate the coordinators
\* and throw, all with the mutex held.
LogError ==
    /\ schedPc = "logErr"
    /\ outcome' = "threw"
    /\ target' = 0
    /\ schedPc' = "termFlag"
    /\ UNCHANGED <<currentJobId, nextChunkIdx, resultVars, coordinatorMutex,
                   jobFinishedSemaphore, lastErr, coordinatorVars, watchdogVars>>

\* Mutant: jobs are assigned without asking for a free coordinator.
NextLoopStepEager ==
    IF JobRemaining
      THEN "assignCheck"
      ELSE IF AllCoordinatorsAvailable THEN "shutdown" ELSE "wait"

\* The body of the loop after checkForErrors.
NextLoopStep ==
    IF JobRemaining
      THEN IF AnyCoordinatorAvailable THEN "assignCheck" ELSE "wait"
      ELSE IF AllCoordinatorsAvailable THEN "shutdown" ELSE "wait"

Decide ==
    /\ schedPc = "decide"
    /\ MutexFree
    /\ schedPc' = NextLoopStep
    /\ UNCHANGED <<target, outcome, currentJobId, nextChunkIdx, resultVars,
                   coordinatorMutex, jobFinishedSemaphore, lastErr,
                   coordinatorVars, watchdogVars>>

WaitForJob ==
    /\ schedPc = "wait"
    /\ jobFinishedSemaphore > 0
    /\ jobFinishedSemaphore' = jobFinishedSemaphore - 1
    /\ schedPc' = "check"
    /\ UNCHANGED <<target, outcome, currentJobId, nextChunkIdx, resultVars,
                   coordinatorMutex, lastErr, coordinatorVars, watchdogVars>>

\* assignJob after checkForErrors, up to the coordinator's semaphore.
NewJob(c) ==
    [id |-> currentJobId, first |-> NextChunkRange(MaxChunks[c]).first,
                          last  |-> NextChunkRange(MaxChunks[c]).last]

\* Mutant: the coordinator stays marked available.
AssignJobUnmarked(c) ==
    /\ schedPc = "assign"
    /\ MutexFree
    /\ IsNextAvailable(c)
    /\ coordinatorMutex' = Main
    /\ GetNextNChunks(MaxChunks[c])
    /\ AssignCurrentJob(c, NewJob(c))
    /\ target' = c
    /\ schedPc' = "assignRelease"
    /\ UNCHANGED <<outcome, currentJobId, resultVars, jobFinishedSemaphore,
                   lastErr, keepRunning, workerPc, chunksDone, watchdogVars>>

AssignJob(c) ==
    /\ schedPc = "assign"
    /\ MutexFree
    /\ IsNextAvailable(c)
    /\ coordinatorMutex' = Main
    /\ coordinatorAvailability' = [coordinatorAvailability EXCEPT ![c] = FALSE]
    /\ GetNextNChunks(MaxChunks[c])
    /\ AssignCurrentJob(c, NewJob(c))
    /\ target' = c
    /\ schedPc' = "assignRelease"
    /\ UNCHANGED <<outcome, currentJobId, processedJobs, jobFinishedSemaphore,
                   lastErr, keepRunning, workerPc, chunksDone, watchdogVars>>

AssignRelease ==
    /\ schedPc = "assignRelease"
    /\ ReleaseCoordinator(target)
    /\ currentJobId' = currentJobId + 1
    /\ coordinatorMutex' = Nobody
    /\ schedPc' = "check"
    /\ UNCHANGED <<target, outcome, nextChunkIdx, resultVars, jobFinishedSemaphore,
                   lastErr, currentJob, keepRunning, workerPc, chunksDone, watchdogVars>>

\* After the loop: take the mutex for good and stop the watchdog.
Shutdown ==
    /\ schedPc = "shutdown"
    /\ MutexFree
    /\ coordinatorMutex' = Main
    /\ TerminateWatchdog
    /\ target' = 0
    /\ schedPc' = "termFlag"
    /\ UNCHANGED <<outcome, currentJobId, nextChunkIdx, resultVars,
                   jobFinishedSemaphore, lastErr, coordinatorVars>>
    /\ UNCHANGED <<counter, startSemaphore, counterVal>>

\* terminateDeviceCoordinators: for each coordinator, the CPU's last, clear
\* the flag, then release its semaphore.
TerminateFlag ==
    /\ schedPc = "termFlag"
    /\ ClearKeepRunning(target)
    /\ schedPc' = "termRelease"
    /\ UNCHANGED <<target, outcome, currentJobId, nextChunkIdx, resultVars,
                   coordinatorMutex, jobFinishedSemaphore, lastErr, currentJob,
                   workerPc, chunksDone, watchdogVars>>

\* After the last coordinator an exception leaves checkForErrors, and with
\* it run(): its locks go and the stack unwinds into ~JobScheduler.
TerminateRelease ==
    /\ schedPc = "termRelease"
    /\ ReleaseCoordinator(target)
    /\ IF target # Cpu
         THEN /\ target' = target + 1
              /\ schedPc' = "termFlag"
              /\ UNCHANGED coordinatorMutex
         ELSE /\ UNCHANGED target
              /\ IF outcome = "threw"
                   THEN schedPc' = "destroy" /\ coordinatorMutex' = Nobody
                   ELSE schedPc' = "collect" /\ UNCHANGED coordinatorMutex
    /\ UNCHANGED <<outcome, currentJobId, nextChunkIdx, resultVars,
                   jobFinishedSemaphore, lastErr, currentJob, keepRunning,
                   workerPc, chunksDone, watchdogVars>>

\* std::sort by id: some permutation that is in order.
SortedById(s) == \A i, k \in DOMAIN s : i < k => s[i].id <= s[k].id

CollectResults ==
    /\ schedPc = "collect"
    /\ \E p \in [DOMAIN processedJobs -> DOMAIN processedJobs] :
          /\ \A k \in DOMAIN p : \E i \in DOMAIN p : p[i] = k
          /\ \A i, k \in DOMAIN p : p[i] = p[k] => i = k
          /\ processedJobs' = [i \in DOMAIN processedJobs |-> processedJobs[p[i]]]
    /\ SortedById(processedJobs')
    /\ outcome' = "returned"
    /\ coordinatorMutex' = Nobody
    /\ schedPc' = "destroy"
    /\ UNCHANGED <<target, currentJobId, nextChunkIdx, coordinatorAvailability,
                   jobFinishedSemaphore, lastErr, coordinatorVars, watchdogVars>>

(* ~JobScheduler, at the end of the caller's block or while unwinding      *)

Destroy ==
    /\ schedPc = "destroy"
    /\ TerminateWatchdog
    /\ schedPc' = "joinWatchdog"
    /\ UNCHANGED <<target, outcome, currentJobId, nextChunkIdx, resultVars,
                   coordinatorMutex, jobFinishedSemaphore, lastErr, coordinatorVars>>
    /\ UNCHANGED <<counter, startSemaphore, counterVal>>

Join(from, joined, to) ==
    /\ schedPc = from
    /\ joined
    /\ schedPc' = to
    /\ UNCHANGED <<target, outcome, currentJobId, nextChunkIdx, resultVars,
                   coordinatorMutex, jobFinishedSemaphore, lastErr,
                   coordinatorVars, watchdogVars>>

JoinWatchdog == Join("joinWatchdog", WatchdogJoined, "joinCoordinators")

JoinCoordinators ==
    Join("joinCoordinators", \A c \in Coordinators : CoordinatorJoined(c), "exit")

----------------------------------------------------------------------------
(* The callbacks, run by the thread of coordinator c                       *)

\* notifyWatchdogCallback, at the end of every part of a job.
NotifyWatchdog(c, n) ==
    /\ ProcessPart(c, n)
    /\ MutexFree
    /\ UpdateCounter(n)
    /\ UNCHANGED <<startSemaphore, watchdogKeepRunning, watchdogPc, counterVal>>
    /\ UNCHANGED <<schedVars, resultVars, coordinatorMutex, jobFinishedSemaphore, lastErr>>

\* jobFinishedCallback and addProcessedJob.  The call moves the job out of
\* currentJob; logging and the release follow with the mutex still held.
JobFinished(c) ==
    /\ workerPc[c] = "finish"
    /\ MutexFree
    /\ coordinatorMutex' = c
    /\ coordinatorAvailability' = [coordinatorAvailability EXCEPT ![c] = TRUE]
    /\ processedJobs' = Append(processedJobs, currentJob[c])
    /\ currentJob' = [currentJob EXCEPT ![c] = NoJob]
    /\ Goto(c, "log")
    /\ UNCHANGED <<schedVars, jobFinishedSemaphore, lastErr, semaphore,
                   keepRunning, chunksDone, watchdogVars>>

\* Mutant: the main thread is not woken.
JobFinishedSilently(c) ==
    /\ workerPc[c] = "log"
    /\ coordinatorMutex' = Nobody
    /\ Goto(c, "loop")
    /\ UNCHANGED <<schedVars, resultVars, jobFinishedSemaphore, lastErr, currentJob,
                   semaphore, keepRunning, chunksDone, watchdogVars>>

JobFinishedRelease(c) ==
    /\ workerPc[c] = "log"
    /\ jobFinishedSemaphore' = jobFinishedSemaphore + 1
    /\ coordinatorMutex' = Nobody
    /\ Goto(c, "loop")
    /\ UNCHANGED <<schedVars, resultVars, lastErr, currentJob, semaphore,
                   keepRunning, chunksDone, watchdogVars>>

\* Mutant: an error does not wake the main thread.
NotifyErrSilently(c) ==
    /\ workerPc[c] = "fail"
    /\ MutexFree
    /\ coordinatorMutex' = c
    /\ Goto(c, "errLocked")
    /\ UNCHANGED <<schedVars, resultVars, jobFinishedSemaphore, lastErr, currentJob,
                   semaphore, keepRunning, chunksDone, watchdogVars>>

\* notifyErrOccurred: the release comes before the error is stored.
NotifyErr(c) ==
    /\ workerPc[c] = "fail"
    /\ MutexFree
    /\ coordinatorMutex' = c
    /\ jobFinishedSemaphore' = jobFinishedSemaphore + 1
    /\ Goto(c, "errLocked")
    /\ UNCHANGED <<schedVars, resultVars, lastErr, currentJob, semaphore,
                   keepRunning, chunksDone, watchdogVars>>

\* Mutant: the coordinator is told to try its job again.
StoreErrAndRetry(c) ==
    /\ workerPc[c] = "errLocked"
    /\ lastErr' = IF lastErr = NoErr
                    THEN [jobId |-> currentJob[c].id, coordinatorId |-> c]
                    ELSE lastErr
    /\ ReleaseCoordinator(c)
    /\ coordinatorMutex' = Nobody
    /\ Goto(c, "loop")
    /\ UNCHANGED <<schedVars, resultVars, jobFinishedSemaphore, currentJob,
                   keepRunning, chunksDone, watchdogVars>>

StoreErr(c) ==
    /\ workerPc[c] = "errLocked"
    /\ lastErr' = IF lastErr = NoErr
                    THEN [jobId |-> currentJob[c].id, coordinatorId |-> c]
                    ELSE lastErr
    /\ coordinatorMutex' = Nobody
    /\ Goto(c, "loop")
    /\ UNCHANGED <<schedVars, resultVars, jobFinishedSemaphore, currentJob,
                   semaphore, keepRunning, chunksDone, watchdogVars>>

----------------------------------------------------------------------------
MainStep ==
    \/ StartRun
    \/ CheckInLoop
    \/ CheckInAssignJob
    \/ LogError
    \/ Decide
    \/ WaitForJob
    \/ \E c \in Coordinators : AssignJob(c)
    \/ AssignRelease
    \/ Shutdown
    \/ TerminateFlag
    \/ TerminateRelease
    \/ CollectResults
    \/ Destroy
    \/ JoinWatchdog
    \/ JoinCoordinators

\* Steps of a coordinator thread that touch nothing of the scheduler.
LocalStep(c) ==
    /\ \/ WorkerLoop(c)
       \/ WorkerAcquire(c)
       \/ WorkerDispatch(c)
       \/ WorkerProcessed(c)
       \/ WorkerFails(c)
    /\ UNCHANGED <<schedVars, resultVars, coordinatorMutex, jobFinishedSemaphore,
                   lastErr, watchdogVars>>

WorkerStep(c) ==
    \/ LocalStep(c)
    \/ \E n \in 1..ChunkCount : NotifyWatchdog(c, n)
    \/ JobFinished(c)
    \/ JobFinishedRelease(c)
    \/ NotifyErr(c)
    \/ StoreErr(c)

WatchdogThread ==
    /\ WatchdogStep
    /\ UNCHANGED <<schedVars, resultVars, coordinatorMutex, jobFinishedSemaphore,
                   lastErr, coordinatorVars>>

\* main returns, or calls exit(1) after an error.
Done == schedPc = "exit" /\ UNCHANGED vars

Next ==
    \/ MainStep
    \/ \E c \in Coordinators : WorkerStep(c)
    \/ WatchdogThread
    \/ Done

\* Every thread is scheduled, and a job that does not fail comes to its end.
Fairness ==
    /\ WF_vars(MainStep)
    /\ \A c \in Coordinators : WF_vars(WorkerStep(c))
    /\ WF_vars(WatchdogThread)

Spec == Init /\ [][Next]_vars

FairSpec == Spec /\ Fairness

----------------------------------------------------------------------------
(* Safety                                                                  *)

HeldJobs == {currentJob[c] : c \in Coordinators} \ {NoJob}

ProcessedJobs == {processedJobs[i] : i \in DOMAIN processedJobs}

ChunksOf(jobs) == UNION {Chunks(j) : j \in jobs}

\* Jobs in two different places never share an id, and ids follow the order
\* of the file: a job with a smaller id ends before the other starts.
Before(j, k) == j.id < k.id /\ j.last <= k.first

InFileOrder(j, k) == Before(j, k) \/ Before(k, j)

JobsOrdered ==
    /\ \A c, d \in Coordinators :
          c # d /\ currentJob[c] # NoJob /\ currentJob[d] # NoJob
             => InFileOrder(currentJob[c], currentJob[d])
    /\ \A i, k \in DOMAIN processedJobs :
          i # k => InFileOrder(processedJobs[i], processedJobs[k])
    /\ \A c \in Coordinators, i \in DOMAIN processedJobs :
          currentJob[c] # NoJob => InFileOrder(currentJob[c], processedJobs[i])

\* assignJob, jobFinishedCallback and the retry of a failed job together
\* lose no chunk: each chunk handed out is in a job that a coordinator holds
\* or that was processed.  With JobsOrdered, in exactly one.
NoChunkLost ==
    0..(nextChunkIdx - 1)
        \subseteq ChunksOf(HeldJobs \cup ProcessedJobs)

ChunkPartition == JobsOrdered /\ NoChunkLost

\* run() returns only after every chunk of the file has been processed
\* once, with no error, and with the results in the order of the file.
ResultComplete ==
    outcome = "returned" =>
        /\ lastErr = NoErr
        /\ HeldJobs = {}
        /\ ChunksOf(ProcessedJobs) = 0..(ChunkCount - 1)
        /\ \A i, k \in DOMAIN processedJobs :
              i < k => Before(processedJobs[i], processedJobs[k])

\* "Caller must ensure that there is at least one coordinator available":
\* otherwise assignJob dereferences a null pointer.
AssignHasCoordinator == schedPc = "assign" => AnyCoordinatorAvailable

\* The main thread and a coordinator thread never access currentJob at the
\* same time: there is no lock on it, jobMutex is never taken.
NoJobRace ==
    schedPc = "assignRelease" =>
        workerPc[target] \notin {"dispatch", "process", "finish", "fail", "errLocked"}

\* A coordinator thread that will make a step of a job on its own.
Working(c) ==
    \/ workerPc[c] \in {"dispatch", "process", "finish", "log", "fail", "errLocked"}
    \/ workerPc[c] \in {"loop", "acquire"} /\ semaphore[c] > 0

\* When run() sleeps on jobFinishedSemaphore with nothing to take, what it
\* waits for is still to come: an error would have left a release behind,
\* and some coordinator is at work and will make one.
NoLostWakeup ==
    schedPc = "wait" /\ jobFinishedSemaphore = 0 =>
        /\ lastErr = NoErr
        /\ \E c \in Enabled :
              \/ Working(c) /\ currentJob[c] # NoJob
              \/ workerPc[c] = "log"

\* Once terminated, a coordinator thread never sleeps in acquire with no
\* token to wake it: join() in the destructor would hang.
NoStrandedWorker ==
    \A c \in Enabled :
        /\ schedPc \in {"destroy", "joinWatchdog", "joinCoordinators"}
        /\ workerPc[c] = "acquire"
        => semaphore[c] > 0

\* A job is processed a second time only when the computation has already
\* failed and its coordinator has been told to stop.
RetryOnlyWhenTerminating ==
    [][\A c \in Coordinators :
          /\ workerPc[c] = "dispatch" /\ workerPc'[c] = "process"
          /\ lastErr # NoErr /\ lastErr.coordinatorId = c
          => ~keepRunning[c] /\ outcome # "returned"]_vars

----------------------------------------------------------------------------
(* Liveness                                                                *)

\* The program ends, whatever fails and whichever thread is faster.
Termination == <>(schedPc = "exit")

\* An error of a coordinator makes run() throw.
ErrorSurfaces == (lastErr # NoErr) ~> (outcome = "threw")

----------------------------------------------------------------------------
(* Refinement                                                              *)

Computation == INSTANCE ChunkedComputation
                 WITH pending   <- nextChunkIdx .. (ChunkCount - 1),
                      running   <- ChunksOf(HeldJobs),
                      completed <- ChunksOf(ProcessedJobs),
                      failed    <- lastErr # NoErr

\* Every step of any thread is a step of the computation or invisible.
RefinesComputation == Computation!Spec

\* To its caller the scheduler, with all its threads, is a computation that
\* processes every chunk once and either completes or throws.
ImplementsComputation == Computation!FairSpec
=============================================================================
