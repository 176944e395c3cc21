------------------------ MODULE JobScheduler_proofs -------------------------
(***************************************************************************)
(* Proofs about JobScheduler for any number of devices and chunks.          *)
(***************************************************************************)
EXTENDS JobSchedulerInvariant, TLAPS

USE ChunkCountAssumption, DeviceAssumption, NoJobAssumption,
    MaxChunksAssumption, SchedulerAssumption

(***************************************************************************)
(* Types                                                                   *)
(***************************************************************************)

LEMMA EnabledSubset == Enabled \subseteq Coordinators
  BY DEF Enabled, Coordinators, ClCoordinators

\* The terminate loop runs over the coordinators in order.
LEMMA Targets ==
    /\ 0 \in Coordinators
    /\ \A c \in Coordinators : c # Cpu => c + 1 \in Coordinators
  BY DEF Coordinators, Cpu

LEMMA InitTypes == Init => TypeOK /\ HasJob
<1> SUFFICES ASSUME Init PROVE TypeOK /\ HasJob
  OBVIOUS
<1>1. TypeOK
  <2> QED
    BY Targets DEF Init, TypeOK, ChunkHandlerInit, CoordinatorInit, WatchdogInit,
      ChunkHandlerTypeOK, CoordinatorTypeOK, WatchdogTypeOK, SchedPcs, WorkerPcs,
      WatchdogPcs
<1>2. HasJob
  BY DEF Init, CoordinatorInit, HasJob, JobPcs
<1> QED
  BY <1>1, <1>2

\* What the job handed out by assignJob looks like.
LEMMA NewJobType ==
  ASSUME TypeOK, NEW c \in Coordinators
  PROVE  /\ NewJob(c) \in Jobs
         /\ NewJob(c).id = currentJobId
         /\ NewJob(c).first = nextChunkIdx
         /\ NewJob(c).last \in 0..ChunkCount
         /\ NewJob(c).last >= nextChunkIdx
         /\ nextChunkIdx + ActualChunksAdded(MaxChunks[c]) = NewJob(c).last
  BY DEF TypeOK, ChunkHandlerTypeOK, NewJob, NextChunkRange, ActualChunksAdded, Jobs

LEMMA NewJobNonEmpty ==
  ASSUME TypeOK, JobRemaining, NEW c \in Enabled
  PROVE  NewJob(c).last > nextChunkIdx
  BY EnabledSubset DEF TypeOK, ChunkHandlerTypeOK, JobRemaining, AllChunksProcessed, NewJob,
     NextChunkRange, ActualChunksAdded

LEMMA NextTypes == TypeOK /\ HasJob /\ [Next]_vars => TypeOK'
<1> SUFFICES ASSUME TypeOK, HasJob, [Next]_vars PROVE TypeOK'
  OBVIOUS
<1> USE DEF TypeOK, ChunkHandlerTypeOK, CoordinatorTypeOK, WatchdogTypeOK, SchedPcs,
        schedVars, resultVars, coordinatorVars, watchdogVars
<1>1. CASE MainStep
  <2>1. CASE StartRun
    BY <2>1 DEF StartRun, StartWatchdog
  <2>2. CASE CheckInLoop \/ CheckInAssignJob
    BY <2>2 DEF CheckInLoop, CheckInAssignJob, CheckForErrors
  <2>3. CASE LogError
    BY <2>3, Targets DEF LogError
  <2>4. CASE Decide
    BY <2>4 DEF Decide, NextLoopStep
  <2>5. CASE WaitForJob
    BY <2>5 DEF WaitForJob
  <2>6. ASSUME NEW c \in Coordinators, AssignJob(c) PROVE TypeOK'
    <3>0. nextChunkIdx' = NewJob(c).last
      BY <2>6, NewJobType DEF AssignJob, GetNextNChunks
    <3>1. NewJob(c) \in Jobs /\ nextChunkIdx' \in 0..ChunkCount
      BY <3>0, NewJobType
    <3>2. currentJob' \in [Coordinators -> Jobs \cup {NoJob}]
      BY <2>6, <3>1 DEF AssignJob, AssignCurrentJob
    <3>3. coordinatorAvailability' \in [Enabled -> BOOLEAN]
      BY <2>6 DEF AssignJob
    <3>4. QED
      BY <2>6, <3>1, <3>2, <3>3 DEF AssignJob, AssignCurrentJob
  <2>7. CASE AssignRelease
    BY <2>7 DEF AssignRelease, ReleaseCoordinator
  <2>8. CASE Shutdown
    <3>1. WatchdogTypeOK'
      BY <2>8 DEF Shutdown, TerminateWatchdog, WatchdogPcs
    <3>2. QED
      BY <2>8, <3>1, Targets DEF Shutdown
  <2>9. CASE TerminateFlag
    BY <2>9 DEF TerminateFlag, ClearKeepRunning
  <2>10. CASE TerminateRelease
    <3>1. target' \in Coordinators
      BY <2>10, Targets DEF TerminateRelease
    <3>2. semaphore' \in [Coordinators -> Nat]
      BY <2>10 DEF TerminateRelease, ReleaseCoordinator
    <3>3. QED
      BY <2>10, <3>1, <3>2 DEF TerminateRelease
  <2>11. CASE CollectResults
    <3>1. processedJobs' \in Seq(Jobs)
      <4>1. PICK p \in [DOMAIN processedJobs -> DOMAIN processedJobs] :
              processedJobs' = [i \in DOMAIN processedJobs |-> processedJobs[p[i]]]
        BY <2>11 DEF CollectResults
      <4>2. DOMAIN processedJobs = 1..Len(processedJobs) /\ Len(processedJobs) \in Nat
        OBVIOUS
      <4>3. \A i \in 1..Len(processedJobs) : processedJobs[p[i]] \in Jobs
        BY <4>1, <4>2
      <4>4. QED
        BY <4>1, <4>2, <4>3
    <3>2. QED
      BY <2>11, <3>1 DEF CollectResults
  <2>12. CASE Destroy
    BY <2>12 DEF Destroy, TerminateWatchdog, WatchdogPcs
  <2>13. CASE JoinWatchdog \/ JoinCoordinators
    BY <2>13 DEF JoinWatchdog, JoinCoordinators, Join
  <2>14. QED
    BY <1>1, <2>1, <2>2, <2>3, <2>4, <2>5, <2>6, <2>7, <2>8, <2>9, <2>10, <2>11,
       <2>12, <2>13 DEF MainStep
<1>2. ASSUME NEW c \in Coordinators, WorkerStep(c) PROVE TypeOK'
  <2>1. CASE LocalStep(c)
    <3>1. CASE WorkerLoop(c)
      BY <2>1, <3>1 DEF LocalStep, WorkerLoop, Goto, WorkerPcs
    <3>2. CASE WorkerAcquire(c)
      BY <2>1, <3>2 DEF LocalStep, WorkerAcquire, Goto, WorkerPcs
    <3>3. CASE WorkerDispatch(c)
      <4>1. chunksDone' \in [Coordinators -> 0..ChunkCount]
        BY <3>3 DEF WorkerDispatch
      <4>2. workerPc' \in [Coordinators -> WorkerPcs]
        BY <3>3 DEF WorkerDispatch, Goto, WorkerPcs
      <4>3. QED
        BY <2>1, <3>3, <4>1, <4>2 DEF LocalStep, WorkerDispatch
    <3>4. CASE WorkerProcessed(c)
      BY <2>1, <3>4 DEF LocalStep, WorkerProcessed, Goto, WorkerPcs
    <3>5. CASE WorkerFails(c)
      BY <2>1, <3>5 DEF LocalStep, WorkerFails, Goto, WorkerPcs
    <3>6. QED
      BY <2>1, <3>1, <3>2, <3>3, <3>4, <3>5 DEF LocalStep
  <2>2. ASSUME NEW n \in 1..ChunkCount, NotifyWatchdog(c, n) PROVE TypeOK'
    <3>1. currentJob[c] \in Jobs
      BY <2>2 DEF NotifyWatchdog, ProcessPart, HasJob, JobPcs
    <3>2. chunksDone[c] + n \in 0..ChunkCount
      BY <2>2, <3>1 DEF NotifyWatchdog, ProcessPart, NChunks, Jobs
    <3>3. QED
      BY <2>2, <3>2 DEF NotifyWatchdog, ProcessPart, UpdateCounter
  <2>3. CASE JobFinished(c)
    <3>1. currentJob[c] \in Jobs
      BY <2>3 DEF JobFinished, HasJob, JobPcs
    <3>2. currentJob' \in [Coordinators -> Jobs \cup {NoJob}]
      BY <2>3 DEF JobFinished
    <3>3. processedJobs' \in Seq(Jobs)
      BY <2>3, <3>1 DEF JobFinished
    <3>4. coordinatorAvailability' \in [Enabled -> BOOLEAN]
      BY <2>3 DEF JobFinished
    <3>5. QED
      BY <2>3, <3>2, <3>3, <3>4 DEF JobFinished, Goto, WorkerPcs
  <2>4. CASE JobFinishedRelease(c)
    BY <2>4 DEF JobFinishedRelease, Goto, WorkerPcs
  <2>5. CASE NotifyErr(c)
    BY <2>5 DEF NotifyErr, Goto, WorkerPcs
  <2>6. CASE StoreErr(c)
    <3>1. currentJob[c] \in Jobs
      BY <2>6 DEF StoreErr, HasJob, JobPcs
    <3>2. [jobId |-> currentJob[c].id, coordinatorId |-> c] \in Errors
      BY <3>1 DEF Jobs, Errors
    <3>3. QED
      BY <2>6, <3>2 DEF StoreErr, Goto, WorkerPcs
  <2>7. QED
    BY <1>2, <2>1, <2>2, <2>3, <2>4, <2>5, <2>6 DEF WorkerStep
<1>3. CASE WatchdogThread
  BY <1>3 DEF WatchdogThread, WatchdogStep, WatchdogStart, WatchdogLoop,
     WatchdogEnterSleep, WatchdogWake, WatchdogExchange, WatchdogReport, WatchdogPcs
<1>4. CASE Done \/ UNCHANGED vars
  BY <1>4 DEF Done, vars
<1> QED
  BY <1>1, <1>2, <1>3, <1>4 DEF Next

(***************************************************************************)
(* Steps that move a token or an entry of the availability vector          *)
(***************************************************************************)

LEMMA AssignJobTokens ==
  ASSUME TypeOK, ControlInv, NEW c \in Coordinators, AssignJob(c)
  PROVE  TokensInv'
<1>1. /\ AvailableIdle /\ UnavailableBusy /\ FailedParked /\ TokenLeft
      /\ FlagsCleared /\ MutexOwned /\ c \in Enabled
  BY DEF ControlInv, ThreadsInv, TokensInv, AssignJob, IsNextAvailable
<1>2. currentJob'[c] # NoJob
  BY NewJobType DEF AssignJob, AssignCurrentJob, TypeOK, CoordinatorTypeOK
<1>3. /\ ~coordinatorAvailability'[c]
      /\ keepRunning[c]
      /\ semaphore[c] = 0
      /\ workerPc[c] \in {"loop", "acquire"}
  BY <1>1 DEF AssignJob, AvailableIdle, FlagsCleared, Terminated, MutexOwned,
     IsNextAvailable, MutexFree, TypeOK
<1>4. \A d \in Enabled \ {c} : /\ coordinatorAvailability'[d] = coordinatorAvailability[d]
                               /\ currentJob'[d] = currentJob[d]
  BY DEF AssignJob, AssignCurrentJob, TypeOK, CoordinatorTypeOK
<1>5. /\ schedPc = "assign" /\ schedPc' = "assignRelease" /\ target' = c
      /\ UNCHANGED <<semaphore, keepRunning, workerPc, lastErr>>
      /\ coordinatorAvailability[c]
  BY DEF AssignJob, AssignCurrentJob, IsNextAvailable
<1>6. AvailableIdle'
  BY <1>1, <1>3, <1>4, <1>5 DEF AvailableIdle, BeingAssigned
<1>7. UnavailableBusy'
  <2> SUFFICES ASSUME NEW d \in Enabled, ~coordinatorAvailability'[d] PROVE Busy(d)'
    BY DEF UnavailableBusy
  <2>1. CASE d = c
    BY <1>2, <1>3, <1>5, <2>1 DEF Busy, BeingAssigned
  <2>2. CASE d # c
    BY <1>1, <1>4, <1>5, <2>2 DEF UnavailableBusy, Busy, BeingAssigned, JobPcs
  <2> QED
    BY <2>1, <2>2
<1>8. FailedParked'
  BY <1>1, <1>4, <1>5 DEF FailedParked, BeingAssigned
<1>9. TokenLeft'
  BY <1>1, <1>3, <1>5 DEF TokenLeft
<1> QED
  BY <1>6, <1>7, <1>8, <1>9 DEF TokensInv

LEMMA TerminateReleaseTokens ==
  ASSUME TypeOK, ControlInv, TerminateRelease
  PROVE  TokensInv'
<1>1. AvailableIdle /\ UnavailableBusy /\ FlagsCleared /\ FailedParked /\ TokenLeft
  BY DEF ControlInv, ThreadsInv, TokensInv
<1>2. ~keepRunning[target]
  BY <1>1 DEF TerminateRelease, FlagsCleared, Terminated, TypeOK, Coordinators
<1>3. \A d \in Enabled \ {target} : semaphore'[d] = semaphore[d]
  BY DEF TerminateRelease, ReleaseCoordinator, TypeOK, CoordinatorTypeOK
<1>4. /\ schedPc = "termRelease" /\ schedPc' # "assignRelease"
      /\ UNCHANGED <<coordinatorAvailability, currentJob, keepRunning, workerPc, lastErr>>
  BY DEF TerminateRelease, resultVars
<1>5. AvailableIdle'
  BY <1>1, <1>2, <1>3, <1>4 DEF AvailableIdle, BeingAssigned
<1>6. UnavailableBusy'
  BY <1>1, <1>2, <1>3, <1>4 DEF UnavailableBusy, Busy, BeingAssigned, JobPcs
<1>7. FailedParked'
  BY <1>1, <1>2, <1>3, <1>4 DEF FailedParked, BeingAssigned
<1>8. TokenLeft'
  <2> SUFFICES ASSUME NEW d \in Enabled, ~keepRunning[d], workerPc[d] = "acquire"
               PROVE  semaphore'[d] > 0
    BY <1>4 DEF TokenLeft
  <2>1. CASE d = target
    BY <2>1, EnabledSubset DEF TerminateRelease, ReleaseCoordinator, TypeOK, CoordinatorTypeOK
  <2>2. CASE d # target
    BY <1>1, <1>3, <2>2 DEF TokenLeft
  <2> QED
    BY <2>1, <2>2
<1> QED
  BY <1>5, <1>6, <1>7, <1>8 DEF TokensInv

LEMMA WorkerDispatchTokens ==
  ASSUME TypeOK, ControlInv, NEW c \in Coordinators, LocalStep(c), WorkerDispatch(c)
  PROVE  TokensInv'
<1>1. AvailableIdle /\ UnavailableBusy /\ FailedParked /\ TokenLeft /\ DisabledIdle
  BY DEF ControlInv, ThreadsInv, TokensInv
<1>2. /\ workerPc[c] = "dispatch"
      /\ workerPc'[c] \in {"loop", "process"}
      /\ currentJob[c] # NoJob => workerPc'[c] = "process"
      /\ \A d \in Enabled \ {c} : workerPc'[d] = workerPc[d]
  BY EnabledSubset DEF WorkerDispatch, Goto, TypeOK, CoordinatorTypeOK
<1>3. /\ UNCHANGED <<coordinatorAvailability, currentJob, semaphore, keepRunning,
                     schedPc, target, lastErr>>
  BY DEF LocalStep, WorkerDispatch, schedVars, resultVars
<1>4. AvailableIdle'
  BY <1>1, <1>2, <1>3 DEF AvailableIdle, BeingAssigned
<1>5. UnavailableBusy'
  BY <1>1, <1>2, <1>3 DEF UnavailableBusy, Busy, BeingAssigned, JobPcs
<1>6. FailedParked'
  BY <1>1, <1>2, <1>3 DEF FailedParked, BeingAssigned
<1>7. TokenLeft'
  BY <1>1, <1>2, <1>3 DEF TokenLeft
<1> QED
  BY <1>4, <1>5, <1>6, <1>7 DEF TokensInv

LEMMA JobFinishedTokens ==
  ASSUME TypeOK, ControlInv, NEW c \in Coordinators, JobFinished(c)
  PROVE  TokensInv'
<1>1. /\ AvailableIdle /\ UnavailableBusy /\ FailedParked /\ TokenLeft
      /\ FlagsCleared /\ MutexOwned /\ DisabledIdle
  BY DEF ControlInv, ThreadsInv, TokensInv
<1>2. c \in Enabled /\ ~BeingAssigned(c)
  BY <1>1 DEF DisabledIdle, BeingAssigned, JobFinished, MutexOwned, MutexFree
<1>3. currentJob'[c] = NoJob /\ workerPc[c] = "finish" /\ workerPc'[c] = "log"
      /\ coordinatorAvailability'[c]
  BY <1>2 DEF JobFinished, Goto, TypeOK, CoordinatorTypeOK
<1>4. keepRunning[c] => semaphore[c] = 0
  BY <1>1, <1>2 DEF AvailableIdle, UnavailableBusy, Busy, JobFinished, TypeOK
<1>5. \A d \in Enabled \ {c} : /\ coordinatorAvailability'[d] = coordinatorAvailability[d]
                               /\ currentJob'[d] = currentJob[d]
                               /\ workerPc'[d] = workerPc[d]
  BY EnabledSubset DEF JobFinished, Goto, TypeOK, CoordinatorTypeOK
<1>6. UNCHANGED <<semaphore, keepRunning, schedPc, target, lastErr>>
  BY DEF JobFinished, schedVars
<1>7. AvailableIdle'
  BY <1>1, <1>2, <1>3, <1>4, <1>5, <1>6 DEF AvailableIdle, BeingAssigned
<1>8. UnavailableBusy'
  BY <1>1, <1>3, <1>5, <1>6 DEF UnavailableBusy, Busy, BeingAssigned, JobPcs
<1>9. FailedParked'
  BY <1>1, <1>3, <1>5, <1>6 DEF FailedParked, BeingAssigned
<1>10. TokenLeft'
  BY <1>1, <1>3, <1>5, <1>6 DEF TokenLeft
<1> QED
  BY <1>7, <1>8, <1>9, <1>10 DEF TokensInv

LEMMA StoreErrTokens ==
  ASSUME TypeOK, ControlInv, NEW c \in Coordinators, StoreErr(c)
  PROVE  TokensInv'
<1>1. /\ AvailableIdle /\ UnavailableBusy /\ FailedParked /\ TokenLeft
      /\ FlagsCleared /\ MutexOwned /\ DisabledIdle /\ HasJob
  BY DEF ControlInv, ThreadsInv, TokensInv
<1>2. c \in Enabled /\ ~BeingAssigned(c) /\ ~coordinatorAvailability[c]
  BY <1>1 DEF DisabledIdle, BeingAssigned, StoreErr, MutexOwned, AvailableIdle, HasJob, JobPcs
<1>3. keepRunning[c] => semaphore[c] = 0
  BY <1>1, <1>2 DEF UnavailableBusy, Busy, StoreErr
<1>4. /\ lastErr' # NoErr
      /\ IF lastErr = NoErr THEN lastErr'.coordinatorId = c ELSE lastErr' = lastErr
  <2>1. currentJob[c] \in Jobs
    BY <1>1 DEF StoreErr, HasJob, JobPcs, TypeOK, CoordinatorTypeOK
  <2>2. [jobId |-> currentJob[c].id, coordinatorId |-> c] \in Errors
    BY <2>1 DEF Jobs, Errors
  <2> QED
    BY <2>2 DEF StoreErr
<1>5. /\ workerPc'[c] = "loop"
      /\ \A d \in Enabled \ {c} : workerPc'[d] = workerPc[d]
  BY EnabledSubset DEF StoreErr, Goto, TypeOK, CoordinatorTypeOK
<1>6. UNCHANGED <<coordinatorAvailability, currentJob, semaphore, keepRunning, schedPc, target>>
  BY DEF StoreErr, schedVars, resultVars
<1>7. AvailableIdle'
  BY <1>1, <1>2, <1>5, <1>6 DEF AvailableIdle, BeingAssigned
<1>8. UnavailableBusy'
  BY <1>1, <1>2, <1>3, <1>4, <1>5, <1>6 DEF UnavailableBusy, Busy, BeingAssigned, JobPcs
<1>9. FailedParked'
  BY <1>1, <1>2, <1>3, <1>4, <1>5, <1>6 DEF FailedParked, BeingAssigned
<1>10. TokenLeft'
  BY <1>1, <1>5, <1>6 DEF TokenLeft
<1> QED
  BY <1>7, <1>8, <1>9, <1>10 DEF TokensInv

LEMMA ThreadsNext ==
  ASSUME TypeOK, ControlInv, [Next]_vars
  PROVE  ThreadsInv'
<1>0. ThreadsInv
  BY DEF ControlInv, ThreadsInv, TokensInv, MainInv
<1> USE <1>0, EnabledSubset, Targets
    DEF ThreadsInv, HasJob, DisabledIdle, MutexOwned, FlagsCleared, OutcomeSet,
        JobPcs, Terminated, Coordinators, Cpu, TypeOK, CoordinatorTypeOK, ChunkHandlerTypeOK, schedVars, resultVars,
        coordinatorVars, MutexFree
<1>1. CASE MainStep
  <2>1. CASE StartRun
    BY <2>1 DEF StartRun, StartWatchdog
  <2>2. CASE CheckInLoop
    BY <2>2 DEF CheckInLoop, CheckForErrors
  <2>3. CASE CheckInAssignJob
    BY <2>3 DEF CheckInAssignJob, CheckForErrors
  <2>4. CASE LogError
    BY <2>4 DEF LogError
  <2>5. CASE Decide
    BY <2>5 DEF Decide, NextLoopStep
  <2>6. CASE WaitForJob
    BY <2>6 DEF WaitForJob
  <2>7. ASSUME NEW c \in Coordinators, AssignJob(c) PROVE ThreadsInv'
    <3>1. HasJob'
      <4>1. NewJob(c) # NoJob
        BY NewJobType
      <4> QED
        BY <2>7, <4>1 DEF AssignJob, AssignCurrentJob
    <3>2. DisabledIdle'
      BY <2>7 DEF AssignJob, AssignCurrentJob, IsNextAvailable
    <3>3. MutexOwned' /\ FlagsCleared' /\ OutcomeSet'
      BY <2>7 DEF AssignJob
    <3> QED
      BY <3>1, <3>2, <3>3
  <2>8. CASE AssignRelease
    BY <2>8 DEF AssignRelease, ReleaseCoordinator
  <2>9. CASE Shutdown
    BY <2>9 DEF Shutdown, TerminateWatchdog
  <2>10. CASE TerminateFlag
    BY <2>10 DEF TerminateFlag, ClearKeepRunning
  <2>11. CASE TerminateRelease
    <3>1. HasJob' /\ DisabledIdle' /\ OutcomeSet'
      BY <2>11 DEF TerminateRelease
    <3>2. MutexOwned'
      BY <2>11 DEF TerminateRelease
    <3>3. FlagsCleared'
      <4>1. \A d \in Coordinators : Terminated(d)' <=> d <= target
        <5>1. CASE target = Cpu
          BY <2>11, <5>1 DEF TerminateRelease
        <5>2. CASE target # Cpu
          BY <2>11, <5>2 DEF TerminateRelease
        <5> QED
          BY <5>1, <5>2
      <4>2. \A d \in Coordinators : ~keepRunning'[d] <=> d <= target
        BY <2>11 DEF TerminateRelease
      <4> QED
        BY <4>1, <4>2
    <3> QED
      BY <3>1, <3>2, <3>3
  <2>12. CASE CollectResults
    <3>1. HasJob' /\ DisabledIdle' /\ OutcomeSet'
      BY <2>12 DEF CollectResults
    <3>2. MutexOwned'
      <4>1. /\ schedPc = "collect" /\ schedPc' = "destroy"
            /\ coordinatorMutex' = Nobody /\ UNCHANGED workerPc
        BY <2>12 DEF CollectResults
      <4> QED
        BY <4>1
    <3>3. FlagsCleared'
      BY <2>12 DEF CollectResults
    <3> QED
      BY <3>1, <3>2, <3>3
  <2>13. CASE Destroy
    BY <2>13 DEF Destroy, TerminateWatchdog
  <2>14. CASE JoinWatchdog
    BY <2>14 DEF JoinWatchdog, Join
  <2>15. CASE JoinCoordinators
    BY <2>15 DEF JoinCoordinators, Join
  <2> QED
    BY <1>1, <2>1, <2>2, <2>3, <2>4, <2>5, <2>6, <2>7, <2>8, <2>9, <2>10, <2>11, <2>12, <2>13, <2>14, <2>15 DEF MainStep
<1>2. ASSUME NEW c \in Coordinators, WorkerStep(c) PROVE ThreadsInv'
  <2>1. CASE LocalStep(c) /\ WorkerLoop(c)
    BY <2>1 DEF LocalStep, WorkerLoop, Goto
  <2>2. CASE LocalStep(c) /\ WorkerAcquire(c)
    BY <2>2 DEF LocalStep, WorkerAcquire, Goto
  <2>3. CASE LocalStep(c) /\ WorkerDispatch(c)
    BY <2>3 DEF LocalStep, WorkerDispatch, Goto
  <2>4. CASE LocalStep(c) /\ WorkerProcessed(c)
    BY <2>4 DEF LocalStep, WorkerProcessed, Goto
  <2>5. CASE LocalStep(c) /\ WorkerFails(c)
    BY <2>5 DEF LocalStep, WorkerFails, Goto
  <2>6. ASSUME NEW n \in 1..ChunkCount, NotifyWatchdog(c, n) PROVE ThreadsInv'
    BY <2>6 DEF NotifyWatchdog, ProcessPart
  <2>7. CASE JobFinished(c)
    BY <2>7 DEF JobFinished, Goto
  <2>8. CASE JobFinishedRelease(c)
    BY <2>8 DEF JobFinishedRelease, Goto
  <2>9. CASE NotifyErr(c)
    BY <2>9 DEF NotifyErr, Goto
  <2>10. CASE StoreErr(c)
    BY <2>10 DEF StoreErr, Goto
  <2> QED
    BY <1>2, <2>1, <2>2, <2>3, <2>4, <2>5, <2>6, <2>7, <2>8, <2>9, <2>10 DEF WorkerStep, LocalStep
<1>3. CASE WatchdogThread \/ Done \/ UNCHANGED vars
  <2>1. UNCHANGED <<schedPc, target, outcome, nextChunkIdx, coordinatorAvailability,
                    coordinatorMutex, jobFinishedSemaphore, lastErr, currentJob,
                    semaphore, keepRunning, workerPc>>
    BY <1>3 DEF WatchdogThread, Done, vars
  <2> QED
    BY <2>1
<1> QED
  BY <1>1, <1>2, <1>3 DEF Next

LEMMA TokensNext ==
  ASSUME TypeOK, ControlInv, [Next]_vars
  PROVE  TokensInv'
<1>0. TokensInv /\ ThreadsInv
  BY DEF ControlInv, ThreadsInv, TokensInv, MainInv
<1> USE <1>0, EnabledSubset, Targets
    DEF ThreadsInv, MutexOwned, FlagsCleared, TokensInv, AvailableIdle, UnavailableBusy, Busy,
        FailedParked, TokenLeft, BeingAssigned, Terminated, JobPcs,
        TypeOK, CoordinatorTypeOK, ChunkHandlerTypeOK, schedVars, resultVars,
        coordinatorVars, MutexFree
<1>1. CASE MainStep
  <2>1. CASE StartRun
    BY <2>1 DEF StartRun, StartWatchdog
  <2>2. CASE CheckInLoop
    BY <2>2 DEF CheckInLoop, CheckForErrors
  <2>3. CASE CheckInAssignJob
    BY <2>3 DEF CheckInAssignJob, CheckForErrors
  <2>4. CASE LogError
    BY <2>4 DEF LogError
  <2>5. CASE Decide
    BY <2>5 DEF Decide, NextLoopStep
  <2>6. CASE WaitForJob
    BY <2>6 DEF WaitForJob
  <2>7. ASSUME NEW c \in Coordinators, AssignJob(c) PROVE TokensInv'
    BY <2>7, AssignJobTokens
  <2>8. CASE AssignRelease
    BY <2>8 DEF AssignRelease, ReleaseCoordinator
  <2>9. CASE Shutdown
    BY <2>9 DEF Shutdown, TerminateWatchdog
  <2>10. CASE TerminateFlag
    BY <2>10 DEF TerminateFlag, ClearKeepRunning
  <2>11. CASE TerminateRelease
    BY <2>11, TerminateReleaseTokens
  <2>12. CASE CollectResults
    BY <2>12 DEF CollectResults
  <2>13. CASE Destroy
    BY <2>13 DEF Destroy, TerminateWatchdog
  <2>14. CASE JoinWatchdog
    BY <2>14 DEF JoinWatchdog, Join
  <2>15. CASE JoinCoordinators
    BY <2>15 DEF JoinCoordinators, Join
  <2> QED
    BY <1>1, <2>1, <2>2, <2>3, <2>4, <2>5, <2>6, <2>7, <2>8, <2>9, <2>10, <2>11, <2>12, <2>13, <2>14, <2>15 DEF MainStep
<1>2. ASSUME NEW c \in Coordinators, WorkerStep(c) PROVE TokensInv'
  <2>1. CASE LocalStep(c) /\ WorkerLoop(c)
    BY <2>1 DEF LocalStep, WorkerLoop, Goto
  <2>2. CASE LocalStep(c) /\ WorkerAcquire(c)
    BY <2>2 DEF LocalStep, WorkerAcquire, Goto
  <2>3. CASE LocalStep(c) /\ WorkerDispatch(c)
    BY <2>3, WorkerDispatchTokens
  <2>4. CASE LocalStep(c) /\ WorkerProcessed(c)
    BY <2>4 DEF LocalStep, WorkerProcessed, Goto
  <2>5. CASE LocalStep(c) /\ WorkerFails(c)
    BY <2>5 DEF LocalStep, WorkerFails, Goto
  <2>6. ASSUME NEW n \in 1..ChunkCount, NotifyWatchdog(c, n) PROVE TokensInv'
    BY <2>6 DEF NotifyWatchdog, ProcessPart
  <2>7. CASE JobFinished(c)
    BY <2>7, JobFinishedTokens
  <2>8. CASE JobFinishedRelease(c)
    BY <2>8 DEF JobFinishedRelease, Goto
  <2>9. CASE NotifyErr(c)
    BY <2>9 DEF NotifyErr, Goto
  <2>10. CASE StoreErr(c)
    BY <2>10, StoreErrTokens
  <2> QED
    BY <1>2, <2>1, <2>2, <2>3, <2>4, <2>5, <2>6, <2>7, <2>8, <2>9, <2>10 DEF WorkerStep, LocalStep
<1>3. CASE WatchdogThread \/ Done \/ UNCHANGED vars
  <2>1. UNCHANGED <<schedPc, target, outcome, nextChunkIdx, coordinatorAvailability,
                    coordinatorMutex, jobFinishedSemaphore, lastErr, currentJob,
                    semaphore, keepRunning, workerPc>>
    BY <1>3 DEF WatchdogThread, Done, vars
  <2> QED
    BY <2>1
<1> QED
  BY <1>1, <1>2, <1>3 DEF Next

LEMMA MainInvNext ==
  ASSUME TypeOK, ControlInv, [Next]_vars
  PROVE  MainInv'
<1>0. MainInv /\ TokensInv /\ ThreadsInv
  BY DEF ControlInv, ThreadsInv, TokensInv, MainInv
<1> USE <1>0, EnabledSubset, Targets
    DEF MainInv, ErrorWakes, WaitJustified, AssignPossible, ThrowJustified,
        NothingLeft, Succeeding,
        JobRemaining, AllChunksProcessed, AnyCoordinatorAvailable, AllCoordinatorsAvailable,
        ThreadsInv, HasJob, MutexOwned, FlagsCleared, Terminated, OutcomeSet, JobPcs,
        TokensInv, AvailableIdle, UnavailableBusy, Busy, FailedParked, BeingAssigned,
        TypeOK, CoordinatorTypeOK, ChunkHandlerTypeOK, schedVars, resultVars,
        coordinatorVars, MutexFree
<1>1. CASE MainStep
  <2>1. CASE StartRun
    BY <2>1 DEF StartRun, StartWatchdog
  <2>2. CASE CheckInLoop
    BY <2>2 DEF CheckInLoop, CheckForErrors
  <2>3. CASE CheckInAssignJob
    BY <2>3 DEF CheckInAssignJob, CheckForErrors
  <2>4. CASE LogError
    BY <2>4 DEF LogError
  <2>5. CASE Decide
    BY <2>5 DEF Decide, NextLoopStep
  <2>6. CASE WaitForJob
    BY <2>6 DEF WaitForJob
  <2>7. ASSUME NEW c \in Coordinators, AssignJob(c) PROVE MainInv'
    BY <2>7, NewJobType DEF AssignJob, AssignCurrentJob, IsNextAvailable
  <2>8. CASE AssignRelease
    BY <2>8 DEF AssignRelease, ReleaseCoordinator
  <2>9. CASE Shutdown
    BY <2>9 DEF Shutdown, TerminateWatchdog
  <2>10. CASE TerminateFlag
    BY <2>10 DEF TerminateFlag, ClearKeepRunning
  <2>11. CASE TerminateRelease
    BY <2>11 DEF TerminateRelease, ReleaseCoordinator
  <2>12. CASE CollectResults
    BY <2>12 DEF CollectResults
  <2>13. CASE Destroy
    BY <2>13 DEF Destroy, TerminateWatchdog
  <2>14. CASE JoinWatchdog
    BY <2>14 DEF JoinWatchdog, Join
  <2>15. CASE JoinCoordinators
    BY <2>15 DEF JoinCoordinators, Join
  <2> QED
    BY <1>1, <2>1, <2>2, <2>3, <2>4, <2>5, <2>6, <2>7, <2>8, <2>9, <2>10, <2>11, <2>12, <2>13, <2>14, <2>15 DEF MainStep
<1>2. ASSUME NEW c \in Coordinators, WorkerStep(c) PROVE MainInv'
  <2>1. CASE LocalStep(c) /\ WorkerLoop(c)
    BY <2>1 DEF LocalStep, WorkerLoop, Goto
  <2>2. CASE LocalStep(c) /\ WorkerAcquire(c)
    BY <2>2 DEF LocalStep, WorkerAcquire, Goto
  <2>3. CASE LocalStep(c) /\ WorkerDispatch(c)
    BY <2>3 DEF LocalStep, WorkerDispatch, Goto
  <2>4. CASE LocalStep(c) /\ WorkerProcessed(c)
    BY <2>4 DEF LocalStep, WorkerProcessed, Goto
  <2>5. CASE LocalStep(c) /\ WorkerFails(c)
    BY <2>5 DEF LocalStep, WorkerFails, Goto
  <2>6. ASSUME NEW n \in 1..ChunkCount, NotifyWatchdog(c, n) PROVE MainInv'
    BY <2>6 DEF NotifyWatchdog, ProcessPart
  <2>7. CASE JobFinished(c)
    BY <2>7 DEF JobFinished, Goto
  <2>8. CASE JobFinishedRelease(c)
    BY <2>8 DEF JobFinishedRelease, Goto
  <2>9. CASE NotifyErr(c)
    BY <2>9 DEF NotifyErr, Goto
  <2>10. CASE StoreErr(c)
    <3>1. c \in Enabled /\ ~coordinatorAvailability[c] /\ coordinatorMutex = c
      BY <2>10 DEF StoreErr, DisabledIdle
    <3>2. ErrorWakes'
      BY <2>10, <3>1 DEF StoreErr, Goto
    <3>3. WaitJustified' /\ AssignPossible' /\ ThrowJustified'
      BY <2>10, <3>1 DEF StoreErr, Goto
    <3>4. NothingLeft'
      BY <2>10, <3>1 DEF StoreErr
    <3> QED
      BY <3>2, <3>3, <3>4
  <2> QED
    BY <1>2, <2>1, <2>2, <2>3, <2>4, <2>5, <2>6, <2>7, <2>8, <2>9, <2>10 DEF WorkerStep, LocalStep
<1>3. CASE WatchdogThread \/ Done \/ UNCHANGED vars
  <2>1. UNCHANGED <<schedPc, target, outcome, nextChunkIdx, coordinatorAvailability,
                    coordinatorMutex, jobFinishedSemaphore, lastErr, currentJob,
                    semaphore, keepRunning, workerPc>>
    BY <1>3 DEF WatchdogThread, Done, vars
  <2> QED
    BY <2>1
<1> QED
  BY <1>1, <1>2, <1>3 DEF Next
(***************************************************************************)
(* Jobs and chunks                                                         *)
(***************************************************************************)

\* Steps that move no job.
LEMMA DataFrame ==
  ASSUME DataInv,
         UNCHANGED <<currentJob, processedJobs, nextChunkIdx, currentJobId>>,
         \A c \in Coordinators : BeingAssigned(c)' <=> BeingAssigned(c),
         outcome' = "returned" => outcome = "returned"
  PROVE  DataInv'
<1>1. JobsOld'
  BY DEF DataInv, JobsOld
<1>2. JobsOrdered'
  BY DEF DataInv, JobsOrdered
<1>3. NoChunkLost'
  BY DEF DataInv, NoChunkLost, HeldJobs, ProcessedJobs, ChunksOf
<1>4. ResultSorted'
  BY DEF DataInv, ResultSorted, SortedById
<1> QED
  BY <1>1, <1>2, <1>3, <1>4 DEF DataInv

LEMMA AssignJobData ==
  ASSUME IInv, NEW c \in Coordinators, AssignJob(c)
  PROVE  DataInv'
<1> DEFINE new == NewJob(c)
<1>1. /\ new \in Jobs /\ new # NoJob
      /\ new.id = currentJobId
      /\ new.first = nextChunkIdx
      /\ new.last > nextChunkIdx
      /\ nextChunkIdx' = new.last
  BY NewJobType, NewJobNonEmpty DEF IInv, AssignJob, IsNextAvailable, GetNextNChunks, ControlInv, MainInv,
     AssignPossible
<1>2. currentJob[c] = NoJob
  BY DEF IInv, ControlInv, TokensInv, AvailableIdle, AssignJob, IsNextAvailable
<1>3. /\ currentJob'[c] = new
      /\ \A d \in Coordinators \ {c} : currentJob'[d] = currentJob[d]
      /\ UNCHANGED <<processedJobs, currentJobId, outcome>>
      /\ schedPc = "assign" /\ schedPc' = "assignRelease" /\ target' = c
  BY DEF AssignJob, AssignCurrentJob, IInv, TypeOK, CoordinatorTypeOK
<1>4. /\ \A d \in Coordinators \ {c} : currentJob[d] # NoJob =>
            Before(currentJob[d], new) /\ currentJob[d] \in Jobs
      /\ \A i \in DOMAIN processedJobs :
            Before(processedJobs[i], new) /\ processedJobs[i] \in Jobs
  <2>1. \A d \in Coordinators \ {c} : currentJob[d] # NoJob =>
            currentJob[d].id < currentJobId /\ currentJob[d].last <= nextChunkIdx
    BY <1>3 DEF IInv, DataInv, JobsOld, BeingAssigned
  <2>2. \A i \in DOMAIN processedJobs :
            processedJobs[i].id < currentJobId /\ processedJobs[i].last <= nextChunkIdx
    BY DEF IInv, DataInv, JobsOld
  <2> QED
    BY <1>1, <2>1, <2>2 DEF Before, IInv, TypeOK, CoordinatorTypeOK
<1>5. nextChunkIdx \in Nat /\ nextChunkIdx' \in Nat
  BY <1>1 DEF IInv, TypeOK, ChunkHandlerTypeOK, Jobs
<1>6. JobsOld'
  <2>1. ASSUME NEW d \in Coordinators, currentJob'[d] # NoJob
        PROVE  /\ currentJob'[d].first < currentJob'[d].last
               /\ currentJob'[d].last <= nextChunkIdx'
               /\ IF BeingAssigned(d)' THEN currentJob'[d].id = currentJobId'
                                       ELSE currentJob'[d].id < currentJobId'
    <3>1. CASE d = c
      BY <1>1, <1>3, <1>5, <3>1 DEF BeingAssigned
    <3>2. CASE d # c
      <4>1. currentJob[d].first < currentJob[d].last
        BY <1>3, <2>1, <3>2 DEF IInv, DataInv, JobsOld
      <4> QED
        BY <1>1, <1>3, <1>4, <1>5, <2>1, <3>2, <4>1 DEF BeingAssigned, Before, Jobs
    <3> QED
      BY <3>1, <3>2
  <2>2. \A i \in DOMAIN processedJobs : processedJobs[i].last <= nextChunkIdx'
                                        /\ processedJobs[i].id < currentJobId
    BY <1>1, <1>4, <1>5 DEF Before, Jobs
  <2> QED
    BY <1>3, <2>1, <2>2 DEF JobsOld
<1>7. JobsOrdered'
  <2>1. \A d, e \in Coordinators :
           d # e /\ currentJob'[d] # NoJob /\ currentJob'[e] # NoJob
             => InFileOrder(currentJob'[d], currentJob'[e])
    BY <1>3, <1>4 DEF IInv, DataInv, JobsOrdered, InFileOrder
  <2>2. \A d \in Coordinators, i \in DOMAIN processedJobs :
           currentJob'[d] # NoJob => InFileOrder(currentJob'[d], processedJobs[i])
    BY <1>3, <1>4 DEF IInv, DataInv, JobsOrdered, InFileOrder
  <2>3. \A i, k \in DOMAIN processedJobs :
           i # k => InFileOrder(processedJobs[i], processedJobs[k])
    BY DEF IInv, DataInv, JobsOrdered
  <2> QED
    BY <1>3, <2>1, <2>2, <2>3 DEF JobsOrdered
<1>8. NoChunkLost'
  <2>1. HeldJobs \cup {new} \subseteq HeldJobs'
    BY <1>1, <1>2, <1>3 DEF HeldJobs
  <2>2. ProcessedJobs' = ProcessedJobs
    BY <1>3 DEF ProcessedJobs
  <2> SUFFICES ASSUME NEW x \in 0..(nextChunkIdx' - 1)
               PROVE  \E j \in HeldJobs' \cup ProcessedJobs' : x \in Chunks(j)
    BY DEF NoChunkLost, ChunksOf
  <2>3. CASE x < nextChunkIdx
    <3>1. x \in 0..(nextChunkIdx - 1)
      BY <1>5, <2>3
    <3>2. PICK j \in HeldJobs \cup ProcessedJobs : x \in Chunks(j)
      BY <3>1 DEF IInv, DataInv, NoChunkLost, ChunksOf
    <3> QED
      BY <2>1, <2>2, <3>2
  <2>4. CASE x >= nextChunkIdx
    <3>1. x \in Chunks(new)
      BY <1>1, <1>5, <2>4 DEF Chunks, Jobs
    <3> QED
      BY <2>1, <3>1
  <2> QED
    BY <1>5, <2>3, <2>4
<1>9. ResultSorted'
  BY <1>3 DEF IInv, DataInv, ResultSorted, SortedById
<1> QED
  BY <1>6, <1>7, <1>8, <1>9 DEF DataInv

LEMMA AssignReleaseData ==
  ASSUME IInv, AssignRelease
  PROVE  DataInv'
<1>1. /\ UNCHANGED <<currentJob, processedJobs, nextChunkIdx, outcome>>
      /\ currentJobId' = currentJobId + 1 /\ currentJobId \in Nat
      /\ schedPc' = "check"
  BY DEF AssignRelease, resultVars, IInv, TypeOK
<1>2. JobsOld'
  <2>1. \A c \in Coordinators : currentJob[c] # NoJob =>
           /\ currentJob[c].first < currentJob[c].last
           /\ currentJob[c].last <= nextChunkIdx
           /\ currentJob[c].id < currentJobId + 1
    <3> SUFFICES ASSUME NEW c \in Coordinators, currentJob[c] # NoJob
                 PROVE  /\ currentJob[c].first < currentJob[c].last
                        /\ currentJob[c].last <= nextChunkIdx
                        /\ currentJob[c].id < currentJobId + 1
      OBVIOUS
    <3>1. currentJob[c].id \in Nat
      BY DEF IInv, TypeOK, CoordinatorTypeOK, Jobs
    <3> QED
      BY <1>1, <3>1 DEF IInv, DataInv, JobsOld
  <2>2. \A i \in DOMAIN processedJobs :
           processedJobs[i].last <= nextChunkIdx /\ processedJobs[i].id < currentJobId + 1
    <3> SUFFICES ASSUME NEW i \in DOMAIN processedJobs
                 PROVE  /\ processedJobs[i].last <= nextChunkIdx
                        /\ processedJobs[i].id < currentJobId + 1
      OBVIOUS
    <3>1. processedJobs[i] \in Jobs
      BY DEF IInv, TypeOK
    <3>2. processedJobs[i].id \in Nat
      BY <3>1 DEF Jobs
    <3> QED
      BY <1>1, <3>2 DEF IInv, DataInv, JobsOld
  <2> QED
    BY <1>1, <2>1, <2>2 DEF JobsOld, BeingAssigned
<1>3. JobsOrdered' /\ ResultSorted'
  BY <1>1 DEF IInv, DataInv, JobsOrdered, ResultSorted, SortedById
<1>4. NoChunkLost'
  BY <1>1 DEF IInv, DataInv, NoChunkLost, HeldJobs, ProcessedJobs, ChunksOf
<1> QED
  BY <1>2, <1>3, <1>4 DEF DataInv

LEMMA JobFinishedData ==
  ASSUME IInv, NEW c \in Coordinators, JobFinished(c)
  PROVE  DataInv'
<1> DEFINE job == currentJob[c]
           n == Len(processedJobs)
<1>1. job \in Jobs /\ job # NoJob
  BY DEF JobFinished, IInv, ControlInv, ThreadsInv, HasJob, JobPcs, TypeOK, CoordinatorTypeOK
<1>2. /\ currentJob'[c] = NoJob
      /\ \A d \in Coordinators \ {c} : currentJob'[d] = currentJob[d]
      /\ UNCHANGED <<nextChunkIdx, currentJobId, outcome, schedPc, target>>
      /\ schedPc # "assignRelease"
  BY DEF JobFinished, IInv, TypeOK, CoordinatorTypeOK, ControlInv, ThreadsInv, MutexOwned,
     MutexFree, schedVars
<1>3. /\ n \in Nat /\ DOMAIN processedJobs = 1..n /\ DOMAIN processedJobs' = 1..(n + 1)
      /\ \A i \in 1..n : processedJobs'[i] = processedJobs[i]
      /\ processedJobs'[n + 1] = job
  BY <1>1 DEF JobFinished, IInv, TypeOK
<1>4. JobsOld'
  <2>1. job.last <= nextChunkIdx /\ job.id < currentJobId
    BY <1>1, <1>2 DEF IInv, DataInv, JobsOld, BeingAssigned
  <2>2. \A d \in Coordinators : currentJob'[d] # NoJob =>
           /\ currentJob'[d].first < currentJob'[d].last
           /\ currentJob'[d].last <= nextChunkIdx
           /\ currentJob'[d].id < currentJobId
    BY <1>2 DEF IInv, DataInv, JobsOld, BeingAssigned
  <2>3. \A i \in 1..(n + 1) : processedJobs'[i].last <= nextChunkIdx
                              /\ processedJobs'[i].id < currentJobId
    <3> SUFFICES ASSUME NEW i \in 1..(n + 1)
                 PROVE  processedJobs'[i].last <= nextChunkIdx
                        /\ processedJobs'[i].id < currentJobId
      OBVIOUS
    <3>1. CASE i \in 1..n
      BY <1>3, <3>1 DEF IInv, DataInv, JobsOld
    <3>2. CASE i = n + 1
      BY <1>3, <2>1, <3>2
    <3> QED
      BY <1>3, <3>1, <3>2
  <2> QED
    BY <1>2, <1>3, <2>2, <2>3 DEF JobsOld, BeingAssigned
<1>5. JobsOrdered'
  <2>1. \A d, e \in Coordinators :
           d # e /\ currentJob'[d] # NoJob /\ currentJob'[e] # NoJob
             => InFileOrder(currentJob'[d], currentJob'[e])
    BY <1>2 DEF IInv, DataInv, JobsOrdered
  <2>2. \A i, k \in 1..n : i # k => InFileOrder(processedJobs[i], processedJobs[k])
    BY <1>3 DEF IInv, DataInv, JobsOrdered
  <2>3. \A i \in 1..n : InFileOrder(job, processedJobs[i])
    BY <1>1, <1>3 DEF IInv, DataInv, JobsOrdered
  <2>4. \A d \in Coordinators \ {c} : currentJob[d] # NoJob => InFileOrder(currentJob[d], job)
    BY <1>1 DEF IInv, DataInv, JobsOrdered
  <2>5. \A d \in Coordinators \ {c}, i \in 1..n :
           currentJob[d] # NoJob => InFileOrder(currentJob[d], processedJobs[i])
    BY <1>3 DEF IInv, DataInv, JobsOrdered
  <2>6. \A i, k \in 1..(n + 1) : i # k => InFileOrder(processedJobs'[i], processedJobs'[k])
    <3> SUFFICES ASSUME NEW i \in 1..(n + 1), NEW k \in 1..(n + 1), i # k
                 PROVE  InFileOrder(processedJobs'[i], processedJobs'[k])
      OBVIOUS
    <3>1. CASE i \in 1..n /\ k \in 1..n
      BY <1>3, <2>2, <3>1
    <3>2. CASE i = n + 1 /\ k \in 1..n
      BY <1>3, <2>3, <3>2
    <3>3. CASE i \in 1..n /\ k = n + 1
      BY <1>3, <2>3, <3>3 DEF InFileOrder
    <3> QED
      BY <1>3, <3>1, <3>2, <3>3
  <2>7. \A d \in Coordinators, i \in 1..(n + 1) :
           currentJob'[d] # NoJob => InFileOrder(currentJob'[d], processedJobs'[i])
    <3> SUFFICES ASSUME NEW d \in Coordinators, NEW i \in 1..(n + 1), currentJob'[d] # NoJob
                 PROVE  InFileOrder(currentJob'[d], processedJobs'[i])
      OBVIOUS
    <3>1. d # c /\ currentJob'[d] = currentJob[d]
      BY <1>2
    <3>2. CASE i \in 1..n
      BY <1>3, <2>5, <3>1, <3>2
    <3>3. CASE i = n + 1
      BY <1>3, <2>4, <3>1, <3>3
    <3> QED
      BY <1>3, <3>2, <3>3
  <2> QED
    BY <1>3, <2>1, <2>6, <2>7 DEF JobsOrdered
<1>6. NoChunkLost'
  <2>1. HeldJobs \ {job} \subseteq HeldJobs'
    BY <1>2 DEF HeldJobs
  <2>2. ProcessedJobs \cup {job} \subseteq ProcessedJobs'
    <3>1. \A i \in 1..n : i \in 1..(n + 1)
      BY <1>3
    <3>2. n + 1 \in 1..(n + 1)
      BY <1>3
    <3> QED
      BY <1>3, <3>1, <3>2 DEF ProcessedJobs
  <2>3. HeldJobs \cup ProcessedJobs \subseteq HeldJobs' \cup ProcessedJobs'
    BY <2>1, <2>2
  <2> QED
    BY <1>2, <2>3 DEF IInv, DataInv, NoChunkLost, ChunksOf
<1>7. ResultSorted'
  <2>1. outcome # "returned"
    BY <1>1, EnabledSubset DEF JobFinished, IInv, ControlInv, MainInv, NothingLeft, Succeeding,
       AllCoordinatorsAvailable, TokensInv, AvailableIdle, ThreadsInv, DisabledIdle
  <2> QED
    BY <1>2, <2>1 DEF ResultSorted
<1> QED
  BY <1>4, <1>5, <1>6, <1>7 DEF DataInv

LEMMA CollectResultsData ==
  ASSUME IInv, CollectResults
  PROVE  DataInv'
<1> DEFINE D == DOMAIN processedJobs
<1>1. PICK p \in [D -> D] :
         /\ \A k \in D : \E i \in D : p[i] = k
         /\ \A i, k \in D : p[i] = p[k] => i = k
         /\ processedJobs' = [i \in D |-> processedJobs[p[i]]]
  BY DEF CollectResults
<1>2. /\ DOMAIN processedJobs' = D
      /\ \A i \in D : p[i] \in D /\ processedJobs'[i] = processedJobs[p[i]]
  BY <1>1
<1>3. /\ UNCHANGED <<currentJob, nextChunkIdx, currentJobId>>
      /\ schedPc # "assignRelease" /\ schedPc' # "assignRelease"
      /\ SortedById(processedJobs')
  BY DEF CollectResults, coordinatorVars
<1>4. JobsOld'
  BY <1>2, <1>3 DEF IInv, DataInv, JobsOld, BeingAssigned
<1>5. JobsOrdered'
  <2>1. \A i, k \in D : i # k => InFileOrder(processedJobs'[i], processedJobs'[k])
    BY <1>1, <1>2 DEF IInv, DataInv, JobsOrdered
  <2>2. \A d \in Coordinators, i \in D :
           currentJob[d] # NoJob => InFileOrder(currentJob[d], processedJobs'[i])
    BY <1>2 DEF IInv, DataInv, JobsOrdered
  <2>3. \A d, e \in Coordinators :
           d # e /\ currentJob[d] # NoJob /\ currentJob[e] # NoJob
             => InFileOrder(currentJob[d], currentJob[e])
    BY DEF IInv, DataInv, JobsOrdered
  <2> QED
    BY <1>2, <1>3, <2>1, <2>2, <2>3 DEF JobsOrdered
<1>6. NoChunkLost'
  <2>1. ProcessedJobs \subseteq ProcessedJobs'
    BY <1>1, <1>2 DEF ProcessedJobs
  <2>2. HeldJobs' = HeldJobs
    BY <1>3 DEF HeldJobs
  <2> QED
    BY <1>3, <2>1, <2>2 DEF IInv, DataInv, NoChunkLost, ChunksOf
<1>7. ResultSorted'
  BY <1>3 DEF ResultSorted
<1> QED
  BY <1>4, <1>5, <1>6, <1>7 DEF DataInv

LEMMA DataNext ==
  ASSUME IInv, [Next]_vars
  PROVE  DataInv'
<1>0. DataInv
  BY DEF IInv
<1>1. CASE MainStep
  <2>1. ASSUME NEW c \in Coordinators, AssignJob(c) PROVE DataInv'
    BY <2>1, AssignJobData
  <2>2. CASE AssignRelease
    BY <2>2, AssignReleaseData
  <2>3. CASE CollectResults
    BY <2>3, CollectResultsData
  <2>4. CASE StartRun \/ LogError \/ Decide \/ WaitForJob \/ Shutdown \/ Destroy
    <3>1. /\ UNCHANGED <<currentJob, processedJobs, nextChunkIdx, currentJobId>>
          /\ schedPc # "assignRelease" /\ schedPc' # "assignRelease"
          /\ outcome' = "returned" => outcome = "returned"
      BY <2>4 DEF StartRun, LogError, Decide, NextLoopStep, WaitForJob, Shutdown, Destroy,
         coordinatorVars, resultVars
    <3> QED
      BY <1>0, <3>1, DataFrame DEF BeingAssigned
  <2>5. CASE CheckInLoop \/ CheckInAssignJob \/ TerminateFlag \/ TerminateRelease
             \/ JoinWatchdog \/ JoinCoordinators
    <3>1. /\ UNCHANGED <<currentJob, processedJobs, nextChunkIdx, currentJobId, outcome>>
          /\ schedPc # "assignRelease" /\ schedPc' # "assignRelease"
      BY <2>5 DEF CheckInLoop, CheckInAssignJob, CheckForErrors, TerminateFlag,
         TerminateRelease, JoinWatchdog, JoinCoordinators, Join, coordinatorVars, resultVars
    <3> QED
      BY <1>0, <3>1, DataFrame DEF BeingAssigned
  <2> QED
    BY <1>1, <2>1, <2>2, <2>3, <2>4, <2>5 DEF MainStep
<1>2. ASSUME NEW c \in Coordinators, WorkerStep(c) PROVE DataInv'
  <2>1. CASE JobFinished(c)
    BY <2>1, JobFinishedData
  <2>2. CASE ~JobFinished(c)
    <3>1. UNCHANGED <<currentJob, processedJobs, nextChunkIdx, currentJobId, schedPc,
                      target, outcome>>
      <4>1. CASE LocalStep(c)
        BY <4>1 DEF LocalStep, WorkerLoop, WorkerAcquire, WorkerDispatch, WorkerProcessed,
           WorkerFails, schedVars, resultVars
      <4>2. ASSUME NEW n \in 1..ChunkCount, NotifyWatchdog(c, n)
            PROVE  UNCHANGED <<currentJob, processedJobs, nextChunkIdx, currentJobId, schedPc,
                               target, outcome>>
        BY <4>2 DEF NotifyWatchdog, ProcessPart, schedVars, resultVars
      <4>3. CASE JobFinishedRelease(c) \/ NotifyErr(c) \/ StoreErr(c)
        BY <4>3 DEF JobFinishedRelease, NotifyErr, StoreErr, schedVars, resultVars
      <4> QED
        BY <1>2, <2>2, <4>1, <4>2, <4>3 DEF WorkerStep
    <3> QED
      BY <1>0, <3>1, DataFrame DEF BeingAssigned
  <2> QED
    BY <2>1, <2>2
<1>3. CASE WatchdogThread \/ Done \/ UNCHANGED vars
  <2>1. UNCHANGED <<currentJob, processedJobs, nextChunkIdx, currentJobId, schedPc,
                    target, outcome>>
    BY <1>3 DEF WatchdogThread, Done, vars, schedVars, resultVars, coordinatorVars
  <2> QED
    BY <1>0, <2>1, DataFrame DEF BeingAssigned
<1> QED
  BY <1>1, <1>2, <1>3 DEF Next

(***************************************************************************)
(* The inductive invariant and what follows from it                        *)
(***************************************************************************)

LEMMA InitIInv == Init => IInv
<1> SUFFICES ASSUME Init PROVE IInv
  OBVIOUS
<1>1. TypeOK /\ HasJob
  BY InitTypes
<1>2. 0 \in Coordinators
  BY Targets
<1>3. /\ nextChunkIdx = 0 /\ processedJobs = << >> /\ lastErr = NoErr
      /\ schedPc = "start" /\ outcome = "none" /\ coordinatorMutex = Nobody
      /\ \A c \in Coordinators :
            /\ currentJob[c] = NoJob /\ semaphore[c] = 0 /\ keepRunning[c]
            /\ workerPc[c] = IF c \in Enabled THEN "loop" ELSE "noThread"
      /\ \A c \in Enabled : coordinatorAvailability[c]
  BY DEF Init, ChunkHandlerInit, CoordinatorInit
<1>4. ThreadsInv
  BY <1>1, <1>3 DEF ThreadsInv, DisabledIdle, MutexOwned, FlagsCleared, Terminated, OutcomeSet
<1>5. TokensInv
  BY <1>3, EnabledSubset DEF TokensInv, AvailableIdle, UnavailableBusy, FailedParked, TokenLeft,
     BeingAssigned
<1>6. MainInv
  BY <1>3 DEF MainInv, ErrorWakes, WaitJustified, AssignPossible, ThrowJustified,
     NothingLeft, Succeeding
<1>7. DataInv
  BY <1>3 DEF DataInv, JobsOld, JobsOrdered, NoChunkLost, ResultSorted
<1> QED
  BY <1>1, <1>4, <1>5, <1>6, <1>7 DEF IInv, ControlInv

LEMMA NextIInv == IInv /\ [Next]_vars => IInv'
<1> SUFFICES ASSUME IInv, [Next]_vars PROVE IInv'
  OBVIOUS
<1>1. TypeOK /\ ControlInv /\ HasJob
  BY DEF IInv, ControlInv, ThreadsInv
<1>2. TypeOK'
  BY <1>1, NextTypes
<1>3. ControlInv'
  BY <1>1, ThreadsNext, TokensNext, MainInvNext DEF ControlInv
<1>4. DataInv'
  BY DataNext
<1> QED
  BY <1>2, <1>3, <1>4 DEF IInv

\* The scheduler, its coordinators and the watchdog keep IInv, whatever the
\* number of devices and chunks.
THEOREM Invariance == Spec => []IInv
  BY InitIInv, NextIInv, PTL DEF Spec

\* Every variable keeps its type: JobScheduler.h's and DeviceCoordinator.h's
\* fields never leave their ranges, the chunk cursor included.
THEOREM TypeCorrect == Spec => []TypeOK
<1>1. IInv => TypeOK
  BY DEF IInv
<1> QED
  BY <1>1, Invariance, PTL

\* Every chunk handed out by getNextNChunks is in exactly one job, held by a
\* coordinator or in processedJobs, and job ids follow the file.
THEOREM PartitionCorrect == Spec => []ChunkPartition
<1>1. IInv => ChunkPartition
  BY DEF IInv, DataInv, ChunkPartition
<1> QED
  BY <1>1, Invariance, PTL

\* run() returns only with every chunk of the file processed once, no error
\* and the results in the order of the file.
THEOREM ResultCorrect == Spec => []ResultComplete
<1>1. IInv => ResultComplete
  <2> SUFFICES ASSUME IInv, outcome = "returned"
               PROVE  /\ lastErr = NoErr
                      /\ HeldJobs = {}
                      /\ ChunksOf(ProcessedJobs) = 0..(ChunkCount - 1)
                      /\ \A i, k \in DOMAIN processedJobs :
                            i < k => Before(processedJobs[i], processedJobs[k])
    BY DEF ResultComplete
  <2>1. lastErr = NoErr /\ nextChunkIdx = ChunkCount /\ AllCoordinatorsAvailable
    BY DEF IInv, ControlInv, MainInv, NothingLeft, Succeeding, AllChunksProcessed
  <2>2. HeldJobs = {}
    BY <2>1 DEF HeldJobs, AllCoordinatorsAvailable, IInv, ControlInv, TokensInv, AvailableIdle,
       ThreadsInv, DisabledIdle
  <2>3. 0..(ChunkCount - 1) \subseteq ChunksOf(ProcessedJobs)
    BY <2>1, <2>2 DEF IInv, DataInv, NoChunkLost
  <2>4. ChunksOf(ProcessedJobs) \subseteq 0..(ChunkCount - 1)
    <3> SUFFICES ASSUME NEW i \in DOMAIN processedJobs, NEW x \in Chunks(processedJobs[i])
                 PROVE  x \in 0..(ChunkCount - 1)
      BY DEF ChunksOf, ProcessedJobs
    <3>1. processedJobs[i] \in Jobs
      BY DEF IInv, TypeOK
    <3> QED
      BY <3>1 DEF Chunks, Jobs
  <2>5. ASSUME NEW i \in DOMAIN processedJobs, NEW k \in DOMAIN processedJobs, i < k
        PROVE  Before(processedJobs[i], processedJobs[k])
    <3>1. InFileOrder(processedJobs[i], processedJobs[k])
      BY <2>5 DEF IInv, DataInv, JobsOrdered, TypeOK
    <3>2. processedJobs[i].id <= processedJobs[k].id
      BY <2>5 DEF IInv, DataInv, ResultSorted, SortedById
    <3>3. processedJobs[i] \in Jobs /\ processedJobs[k] \in Jobs
      BY DEF IInv, TypeOK
    <3> QED
      BY <3>1, <3>2, <3>3 DEF InFileOrder, Before, Jobs
  <2> QED
    BY <2>1, <2>2, <2>3, <2>4, <2>5
<1> QED
  BY <1>1, Invariance, PTL

\* assignJob never dereferences the null pointer of an unavailable coordinator.
THEOREM AssignCorrect == Spec => []AssignHasCoordinator
<1>1. IInv => AssignHasCoordinator
  BY DEF IInv, ControlInv, MainInv, AssignPossible, AssignHasCoordinator
<1> QED
  BY <1>1, Invariance, PTL

\* currentJob, which no lock protects, is never accessed by two threads at once.
THEOREM RaceFree == Spec => []NoJobRace
<1>1. IInv => NoJobRace
  <2> SUFFICES ASSUME IInv, schedPc = "assignRelease"
               PROVE  workerPc[target] \notin
                        {"dispatch", "process", "finish", "fail", "errLocked"}
    BY DEF NoJobRace
  <2>1. target \in Coordinators /\ keepRunning[target] /\ BeingAssigned(target)
    BY DEF IInv, TypeOK, CoordinatorTypeOK, ControlInv, ThreadsInv, FlagsCleared, Terminated,
       BeingAssigned
  <2>2. CASE target \in Enabled
    BY <2>1, <2>2 DEF IInv, TypeOK, ControlInv, TokensInv, AvailableIdle, UnavailableBusy, Busy
  <2>3. CASE target \notin Enabled
    BY <2>1, <2>3 DEF IInv, ControlInv, ThreadsInv, DisabledIdle
  <2> QED
    BY <2>2, <2>3
<1> QED
  BY <1>1, Invariance, PTL

\* run() never sleeps on jobFinishedSemaphore with an error recorded, or with
\* no coordinator at work to release it.
THEOREM NoWakeupLost == Spec => []NoLostWakeup
<1>1. IInv => NoLostWakeup
  <2> SUFFICES ASSUME IInv, schedPc = "wait", jobFinishedSemaphore = 0
               PROVE  /\ lastErr = NoErr
                      /\ \E c \in Enabled : \/ Working(c) /\ currentJob[c] # NoJob
                                            \/ workerPc[c] = "log"
    BY DEF NoLostWakeup
  <2>1. lastErr = NoErr
    BY DEF IInv, ControlInv, MainInv, ErrorWakes
  <2>2. \E c \in Enabled : ~coordinatorAvailability[c] \/ workerPc[c] = "log"
    <3>1. \E c \in Coordinators : c \in Enabled
      BY DEF Enabled, Coordinators, ClCoordinators
    <3>2. CASE JobRemaining
      BY <3>1, <3>2 DEF IInv, ControlInv, MainInv, WaitJustified
    <3>3. CASE ~JobRemaining
      BY <3>3 DEF IInv, ControlInv, MainInv, WaitJustified
    <3> QED
      BY <3>2, <3>3
  <2>3. \A c \in Enabled : keepRunning[c] /\ ~BeingAssigned(c)
    BY EnabledSubset DEF IInv, TypeOK, CoordinatorTypeOK, ControlInv, ThreadsInv, FlagsCleared,
       Terminated, BeingAssigned
  <2>4. ASSUME NEW c \in Enabled, ~coordinatorAvailability[c]
        PROVE  Working(c) /\ currentJob[c] # NoJob
    <3>1. Busy(c)
      BY <2>4 DEF IInv, ControlInv, TokensInv, UnavailableBusy
    <3> QED
      BY <2>1, <2>3, <3>1 DEF Busy, Working, JobPcs
  <2> QED
    BY <2>1, <2>2, <2>4
<1> QED
  BY <1>1, Invariance, PTL

\* When the destructor joins the coordinators, none sleeps without a token.
THEOREM NoWorkerStranded == Spec => []NoStrandedWorker
<1>1. IInv => NoStrandedWorker
  BY EnabledSubset DEF IInv, ControlInv, ThreadsInv, FlagsCleared, Terminated, TokensInv,
     TokenLeft, NoStrandedWorker
<1> QED
  BY <1>1, Invariance, PTL

\* A failed job is processed again only after its coordinator was told to
\* stop, in a computation that has not returned and will not return.
THEOREM RetryCorrect == Spec => RetryOnlyWhenTerminating
<1>1. ASSUME IInv, [Next]_vars, NEW c \in Coordinators,
             workerPc[c] = "dispatch", workerPc'[c] = "process",
             lastErr # NoErr, lastErr.coordinatorId = c
      PROVE  ~keepRunning[c] /\ outcome # "returned"
  <2>1. ~keepRunning[c]
    BY <1>1 DEF IInv, TypeOK, CoordinatorTypeOK, ControlInv, TokensInv, FailedParked
  <2>2. outcome # "returned"
    BY <1>1 DEF IInv, ControlInv, MainInv, NothingLeft, Succeeding
  <2> QED
    BY <2>1, <2>2
<1>2. IInv /\ [Next]_vars =>
        [\A c \in Coordinators :
            /\ workerPc[c] = "dispatch" /\ workerPc'[c] = "process"
            /\ lastErr # NoErr /\ lastErr.coordinatorId = c
            => ~keepRunning[c] /\ outcome # "returned"]_vars
  BY <1>1
<1> QED
  BY <1>2, Invariance, PTL DEF Spec, RetryOnlyWhenTerminating

(***************************************************************************)
(* Refinement of ChunkedComputation                                        *)
(***************************************************************************)

pendingBar   == nextChunkIdx .. (ChunkCount - 1)
runningBar   == ChunksOf(HeldJobs)
completedBar == ChunksOf(ProcessedJobs)

\* Steps that move no job, store no error and do not end run() stutter.
LEMMA ComputationStutter ==
  ASSUME UNCHANGED <<currentJob, processedJobs, nextChunkIdx, lastErr, outcome>>
  PROVE  UNCHANGED <<pendingBar, runningBar, completedBar, lastErr # NoErr, outcome>>
  BY DEF pendingBar, runningBar, completedBar, ChunksOf, HeldJobs, ProcessedJobs

LEMMA AssignJobRefines ==
  ASSUME IInv, NEW c \in Coordinators, AssignJob(c)
  PROVE  Computation!Next
<1> DEFINE new == NewJob(c)
           S == Chunks(new)
<1>1. /\ new \in Jobs /\ new # NoJob
      /\ new.first = nextChunkIdx
      /\ new.last > nextChunkIdx
      /\ nextChunkIdx' = new.last
      /\ nextChunkIdx \in 0..ChunkCount
  BY NewJobType, NewJobNonEmpty DEF IInv, AssignJob, IsNextAvailable, GetNextNChunks, ControlInv, MainInv,
     AssignPossible, TypeOK, ChunkHandlerTypeOK
<1>2. new.last \in 0..ChunkCount
  BY <1>1 DEF Jobs
<1>3. S = nextChunkIdx .. (new.last - 1)
  BY <1>1 DEF Chunks
<1>4. S \in (SUBSET pendingBar) \ {{}}
  <2>1. nextChunkIdx \in S
    BY <1>1, <1>2, <1>3
  <2>2. S \subseteq pendingBar
    BY <1>1, <1>2, <1>3 DEF pendingBar
  <2> HIDE DEF S
  <2> QED
    BY <2>1, <2>2
<1>5. pendingBar' = pendingBar \ S
  BY <1>1, <1>2, <1>3 DEF pendingBar
<1>6. /\ currentJob[c] = NoJob
      /\ currentJob'[c] = new
      /\ \A d \in Coordinators \ {c} : currentJob'[d] = currentJob[d]
      /\ UNCHANGED <<processedJobs, lastErr, outcome>>
      /\ outcome = "none"
  BY DEF AssignJob, AssignCurrentJob, IsNextAvailable, IInv, TypeOK, CoordinatorTypeOK,
     ControlInv, TokensInv, AvailableIdle, ThreadsInv, OutcomeSet
<1>7. HeldJobs' = HeldJobs \cup {new}
  BY <1>1, <1>6 DEF HeldJobs
<1>8. runningBar' = runningBar \cup S
  BY <1>7 DEF runningBar, ChunksOf
<1>9. UNCHANGED <<completedBar, lastErr # NoErr, outcome>>
  BY <1>6 DEF completedBar, ChunksOf, ProcessedJobs
<1> QED
  BY <1>4, <1>5, <1>6, <1>8, <1>9
  DEF Computation!Next, Computation!Assign, pendingBar, runningBar, completedBar

LEMMA JobFinishedRefines ==
  ASSUME IInv, NEW c \in Coordinators, JobFinished(c)
  PROVE  Computation!Next
<1> DEFINE job == currentJob[c]
           S == Chunks(job)
           n == Len(processedJobs)
<1>1. job \in Jobs /\ job # NoJob /\ job.first < job.last
  BY DEF JobFinished, IInv, ControlInv, ThreadsInv, HasJob, JobPcs, TypeOK, CoordinatorTypeOK,
     DataInv, JobsOld
<1>2. /\ currentJob'[c] = NoJob
      /\ \A d \in Coordinators \ {c} : currentJob'[d] = currentJob[d]
      /\ UNCHANGED <<nextChunkIdx, lastErr, outcome>>
  BY DEF JobFinished, IInv, TypeOK, CoordinatorTypeOK, schedVars
<1>3. /\ n \in Nat /\ DOMAIN processedJobs = 1..n /\ DOMAIN processedJobs' = 1..(n + 1)
      /\ \A i \in 1..n : processedJobs'[i] = processedJobs[i]
      /\ processedJobs'[n + 1] = job
  BY <1>1 DEF JobFinished, IInv, TypeOK
<1>4. outcome # "returned"
  BY <1>1, EnabledSubset DEF JobFinished, IInv, ControlInv, MainInv, NothingLeft, Succeeding,
     AllCoordinatorsAvailable, TokensInv, AvailableIdle, ThreadsInv, DisabledIdle
<1>5. S \in (SUBSET runningBar) \ {{}}
  <2>1. job \in HeldJobs
    BY <1>1 DEF HeldJobs
  <2>2. job.first \in S
    BY <1>1 DEF Chunks, Jobs
  <2>3. S \subseteq runningBar
    BY <2>1 DEF runningBar, ChunksOf
  <2> HIDE DEF S
  <2> QED
    BY <2>2, <2>3
<1>6. \A d \in Coordinators \ {c} : currentJob[d] # NoJob => Chunks(currentJob[d]) \cap S = {}
  <2> SUFFICES ASSUME NEW d \in Coordinators \ {c}, currentJob[d] # NoJob
               PROVE  Chunks(currentJob[d]) \cap S = {}
    OBVIOUS
  <2>1. InFileOrder(currentJob[d], job)
    BY <1>1 DEF IInv, DataInv, JobsOrdered
  <2>2. currentJob[d] \in Jobs
    BY DEF IInv, TypeOK, CoordinatorTypeOK
  <2> QED
    BY <1>1, <2>1, <2>2 DEF InFileOrder, Before, Chunks, Jobs
<1>7. runningBar' = runningBar \ S
  <2>1. HeldJobs' = {currentJob[d] : d \in Coordinators \ {c}} \ {NoJob}
    BY <1>2 DEF HeldJobs
  <2>2. HeldJobs = HeldJobs' \cup {job}
    BY <1>1, <2>1 DEF HeldJobs
  <2>3. \A j \in HeldJobs' : Chunks(j) \cap S = {}
    BY <1>6, <2>1
  <2> QED
    BY <2>2, <2>3 DEF runningBar, ChunksOf
<1>8. completedBar' = completedBar \cup S
  <2>1. ProcessedJobs' = ProcessedJobs \cup {job}
    <3>1. \A i \in 1..(n + 1) : i \in 1..n \/ i = n + 1
      BY <1>3
    <3>2. \A i \in 1..n : i \in 1..(n + 1)
      BY <1>3
    <3>3. n + 1 \in 1..(n + 1)
      BY <1>3
    <3> QED
      BY <1>3, <3>1, <3>2, <3>3 DEF ProcessedJobs
  <2> QED
    BY <2>1 DEF completedBar, ChunksOf
<1>9. UNCHANGED <<pendingBar, lastErr # NoErr, outcome>>
  BY <1>2 DEF pendingBar
<1> QED
  BY <1>4, <1>5, <1>7, <1>8, <1>9
  DEF Computation!Next, Computation!Complete, pendingBar, runningBar, completedBar

LEMMA StoreErrRefines ==
  ASSUME IInv, NEW c \in Coordinators, StoreErr(c)
  PROVE  Computation!Next \/ UNCHANGED Computation!compVars
<1>1. /\ UNCHANGED <<currentJob, processedJobs, nextChunkIdx, outcome>>
      /\ lastErr' = IF lastErr = NoErr
                      THEN [jobId |-> currentJob[c].id, coordinatorId |-> c] ELSE lastErr
  BY DEF StoreErr, schedVars, resultVars
<1>2. UNCHANGED <<pendingBar, runningBar, completedBar, outcome>>
  BY <1>1 DEF pendingBar, runningBar, completedBar, ChunksOf, HeldJobs, ProcessedJobs
<1>3. CASE lastErr # NoErr
  BY <1>1, <1>2, <1>3 DEF Computation!compVars, pendingBar, runningBar, completedBar
<1>4. CASE lastErr = NoErr
  <2>1. currentJob[c] \in Jobs /\ currentJob[c] # NoJob /\ currentJob[c].first < currentJob[c].last
    BY DEF StoreErr, IInv, ControlInv, ThreadsInv, HasJob, JobPcs, TypeOK, CoordinatorTypeOK,
       DataInv, JobsOld
  <2>2. lastErr' # NoErr
    <3>1. [jobId |-> currentJob[c].id, coordinatorId |-> c] \in Errors
      BY <2>1 DEF Errors, Jobs
    <3> QED
      BY <1>1, <1>4, <3>1
  <2>3. runningBar # {}
    <3>1. currentJob[c].first \in Chunks(currentJob[c])
      BY <2>1 DEF Chunks, Jobs
    <3>2. currentJob[c] \in HeldJobs
      BY <2>1 DEF HeldJobs
    <3> QED
      BY <3>1, <3>2 DEF runningBar, ChunksOf
  <2> QED
    BY <1>2, <1>4, <2>2, <2>3
    DEF Computation!Next, Computation!Fail, pendingBar, runningBar, completedBar
<1> QED
  BY <1>3, <1>4

LEMMA LogErrorRefines ==
  ASSUME IInv, LogError
  PROVE  Computation!Next
<1>1. /\ outcome = "none" /\ outcome' = "threw" /\ lastErr # NoErr
      /\ UNCHANGED <<currentJob, processedJobs, nextChunkIdx, lastErr>>
  BY DEF LogError, IInv, TypeOK, ControlInv, ThreadsInv, OutcomeSet, MainInv, ThrowJustified,
     resultVars, coordinatorVars
<1>2. UNCHANGED <<pendingBar, runningBar, completedBar>>
  BY <1>1 DEF pendingBar, runningBar, completedBar, ChunksOf, HeldJobs, ProcessedJobs
<1> QED
  BY <1>1, <1>2
  DEF Computation!Next, Computation!Throw, pendingBar, runningBar, completedBar

LEMMA CollectResultsRefines ==
  ASSUME IInv, CollectResults
  PROVE  Computation!Next
<1> DEFINE D == DOMAIN processedJobs
<1>1. PICK p \in [D -> D] :
         /\ \A k \in D : \E i \in D : p[i] = k
         /\ processedJobs' = [i \in D |-> processedJobs[p[i]]]
  BY DEF CollectResults
<1>2. UNCHANGED <<currentJob, nextChunkIdx, lastErr>> /\ outcome' = "returned"
  BY DEF CollectResults, coordinatorVars
<1>3. outcome = "none"
  BY DEF CollectResults, IInv, TypeOK, ControlInv, ThreadsInv, OutcomeSet
<1>4. lastErr = NoErr /\ AllChunksProcessed /\ AllCoordinatorsAvailable
  BY <1>3 DEF CollectResults, IInv, ControlInv, MainInv, NothingLeft, Succeeding
<1>5. HeldJobs = {} /\ HeldJobs' = {}
  BY <1>2, <1>4 DEF HeldJobs, AllCoordinatorsAvailable, IInv, ControlInv, TokensInv,
     AvailableIdle, ThreadsInv, DisabledIdle
<1>6. ProcessedJobs' = ProcessedJobs
  BY <1>1 DEF ProcessedJobs
<1>7. pendingBar = {} /\ pendingBar' = {}
  BY <1>2, <1>4 DEF pendingBar, AllChunksProcessed
<1>8. runningBar = {} /\ runningBar' = {}
  BY <1>5 DEF runningBar, ChunksOf
<1>9. completedBar' = completedBar
  BY <1>6 DEF completedBar, ChunksOf
<1> QED
  BY <1>2, <1>3, <1>4, <1>7, <1>8, <1>9
  DEF Computation!Next, Computation!Return, pendingBar, runningBar, completedBar

LEMMA NextRefines ==
  ASSUME IInv, [Next]_vars
  PROVE  Computation!Next \/ UNCHANGED Computation!compVars
<1>1. ASSUME UNCHANGED <<currentJob, processedJobs, nextChunkIdx, lastErr, outcome>>
      PROVE  UNCHANGED Computation!compVars
  BY <1>1, ComputationStutter DEF Computation!compVars, pendingBar, runningBar, completedBar
<1>2. CASE MainStep
  <2>1. ASSUME NEW c \in Coordinators, AssignJob(c) PROVE Computation!Next
    BY <2>1, AssignJobRefines
  <2>2. CASE LogError
    BY <2>2, LogErrorRefines
  <2>3. CASE CollectResults
    BY <2>3, CollectResultsRefines
  <2>4. CASE \/ StartRun \/ CheckInLoop \/ CheckInAssignJob \/ Decide \/ WaitForJob
             \/ AssignRelease \/ Shutdown \/ TerminateFlag \/ TerminateRelease
             \/ Destroy \/ JoinWatchdog \/ JoinCoordinators
    <3>1. UNCHANGED <<currentJob, processedJobs, nextChunkIdx, lastErr, outcome>>
      BY <2>4 DEF StartRun, CheckInLoop, CheckInAssignJob, CheckForErrors, Decide, WaitForJob,
         AssignRelease, Shutdown, TerminateFlag, TerminateRelease, Destroy, JoinWatchdog,
         JoinCoordinators, Join, coordinatorVars, resultVars
    <3> QED
      BY <1>1, <3>1
  <2> QED
    BY <1>2, <2>1, <2>2, <2>3, <2>4 DEF MainStep
<1>3. ASSUME NEW c \in Coordinators, WorkerStep(c)
      PROVE  Computation!Next \/ UNCHANGED Computation!compVars
  <2>1. CASE JobFinished(c)
    BY <2>1, JobFinishedRefines
  <2>2. CASE StoreErr(c)
    BY <2>2, StoreErrRefines
  <2>3. CASE LocalStep(c)
    <3>1. UNCHANGED <<currentJob, processedJobs, nextChunkIdx, lastErr, outcome>>
      BY <2>3 DEF LocalStep, WorkerLoop, WorkerAcquire, WorkerDispatch, WorkerProcessed,
         WorkerFails, schedVars, resultVars
    <3> QED
      BY <1>1, <3>1
  <2>4. ASSUME NEW n \in 1..ChunkCount, NotifyWatchdog(c, n)
        PROVE  UNCHANGED Computation!compVars
    <3>1. UNCHANGED <<currentJob, processedJobs, nextChunkIdx, lastErr, outcome>>
      BY <2>4 DEF NotifyWatchdog, ProcessPart, schedVars, resultVars
    <3> QED
      BY <1>1, <3>1
  <2>5. CASE JobFinishedRelease(c) \/ NotifyErr(c)
    <3>1. UNCHANGED <<currentJob, processedJobs, nextChunkIdx, lastErr, outcome>>
      BY <2>5 DEF JobFinishedRelease, NotifyErr, schedVars, resultVars
    <3> QED
      BY <1>1, <3>1
  <2> QED
    BY <1>3, <2>1, <2>2, <2>3, <2>4, <2>5 DEF WorkerStep
<1>4. CASE WatchdogThread \/ Done \/ UNCHANGED vars
  <2>1. UNCHANGED <<currentJob, processedJobs, nextChunkIdx, lastErr, outcome>>
    BY <1>4 DEF WatchdogThread, Done, vars, schedVars, resultVars, coordinatorVars
  <2> QED
    BY <1>1, <2>1
<1> QED
  BY <1>2, <1>3, <1>4 DEF Next

LEMMA InitRefines == Init => Computation!Init
<1> SUFFICES ASSUME Init PROVE Computation!Init
  OBVIOUS
<1>1. /\ nextChunkIdx = 0 /\ processedJobs = << >> /\ lastErr = NoErr /\ outcome = "none"
      /\ \A c \in Coordinators : currentJob[c] = NoJob
  BY DEF Init, ChunkHandlerInit, CoordinatorInit
<1>2. HeldJobs = {} /\ ProcessedJobs = {}
  BY <1>1 DEF HeldJobs, ProcessedJobs
<1> QED
  BY <1>1, <1>2 DEF Computation!Init, ChunksOf

\* The scheduler with its threads implements the abstract computation: no
\* interleaving, failure or shutdown order shows its caller anything else.
THEOREM Refinement == Spec => RefinesComputation
<1>1. IInv /\ [Next]_vars => [Computation!Next]_(Computation!compVars)
  BY NextRefines
<1> QED
  BY InitRefines, <1>1, Invariance, PTL DEF Spec, RefinesComputation, Computation!Spec


=============================================================================
