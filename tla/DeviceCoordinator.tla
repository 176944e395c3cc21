------------------------- MODULE DeviceCoordinator --------------------------
(***************************************************************************)
(* DeviceCoordinator.h and the life of a job in its subclasses: a thread    *)
(* per enabled coordinator that waits on its own semaphore, processes the   *)
(* job left in currentJob and reports back through callbacks.               *)
(*                                                                         *)
(* Coordinators are numbered as in JobScheduler's constructor: the OpenCL   *)
(* devices first, then the CPU.  The CPU coordinator always exists but has  *)
(* no thread, and no place in the availability vector, when only OpenCL     *)
(* devices are to be used.  The callbacks are JobScheduler's methods, so    *)
(* the actions that run inside them are in module JobScheduler.             *)
(***************************************************************************)
EXTENDS FileChunkHandler

CONSTANTS
    NClDevices,   \* OpenCL devices found
    OpenClOnly,   \* ProcessingMode::OPENCL_DEVICES
    NoJob         \* the null pointer in currentJob

ASSUME DeviceAssumption ==
    /\ NClDevices \in Nat
    /\ OpenClOnly \in BOOLEAN
    /\ OpenClOnly => NClDevices > 0   \* validateArgs refuses the mode otherwise

Coordinators   == 0..NClDevices
ClCoordinators == 0..(NClDevices - 1)
Cpu            == NClDevices
Enabled        == IF OpenClOnly THEN ClCoordinators ELSE Coordinators

Jobs == [id : Nat, first : 0..ChunkCount, last : 0..ChunkCount]

ASSUME NoJobAssumption == NoJob \notin Jobs

VARIABLES
    currentJob,    \* job of each coordinator, or NoJob
    semaphore,     \* count of each coordinator's semaphore
    keepRunning,   \* atomic flag of each coordinator
    workerPc,      \* control state of each coordinator thread
    chunksDone     \* chunks of currentJob that onProcessJob has got through

coordinatorVars == <<currentJob, semaphore, keepRunning, workerPc, chunksDone>>

WorkerPcs == {"noThread", "loop", "acquire", "dispatch", "process", "finish",
              "log", "fail", "errLocked", "exited"}

CoordinatorTypeOK ==
    /\ currentJob \in [Coordinators -> Jobs \cup {NoJob}]
    /\ semaphore \in [Coordinators -> Nat]
    /\ keepRunning \in [Coordinators -> BOOLEAN]
    /\ workerPc \in [Coordinators -> WorkerPcs]
    /\ chunksDone \in [Coordinators -> 0..ChunkCount]

CoordinatorInit ==
    /\ currentJob = [c \in Coordinators |-> NoJob]
    /\ semaphore = [c \in Coordinators |-> 0]
    /\ keepRunning = [c \in Coordinators |-> TRUE]
    /\ workerPc = [c \in Coordinators |->
                      IF c \in Enabled THEN "loop" ELSE "noThread"]
    /\ chunksDone = [c \in Coordinators |-> 0]

NChunks(job) == job.last - job.first

----------------------------------------------------------------------------
(* Public methods, called by the scheduler's thread.  Each has two effects  *)
(* that other threads can see one after the other.                         *)

\* Mutant: the coordinator is woken before it has its job.
AssignAfterRelease(c, job) ==
    /\ currentJob' = [currentJob EXCEPT ![c] = job]
    /\ semaphore' = [semaphore EXCEPT ![c] = @ + 1]

AssignCurrentJob(c, job) ==
    /\ currentJob' = [currentJob EXCEPT ![c] = job]
    /\ UNCHANGED semaphore

ReleaseCoordinator(c) == semaphore' = [semaphore EXCEPT ![c] = @ + 1]

\* Mutant: terminate only wakes the thread.
LeaveKeepRunning(c) == c \in Coordinators /\ UNCHANGED <<keepRunning, semaphore>>

ClearKeepRunning(c) ==
    /\ keepRunning' = [keepRunning EXCEPT ![c] = FALSE]
    /\ UNCHANGED semaphore

CoordinatorJoined(c) == workerPc[c] \in {"noThread", "exited"}

----------------------------------------------------------------------------
(* threadMain, up to the callbacks                                         *)

Goto(c, pc) == workerPc' = [workerPc EXCEPT ![c] = pc]

WorkerLoop(c) ==
    /\ workerPc[c] = "loop"
    /\ Goto(c, IF keepRunning[c] THEN "acquire" ELSE "exited")
    /\ UNCHANGED <<currentJob, semaphore, keepRunning, chunksDone>>

WorkerAcquire(c) ==
    /\ workerPc[c] = "acquire"
    /\ semaphore[c] > 0
    /\ semaphore' = [semaphore EXCEPT ![c] = @ - 1]
    /\ Goto(c, "dispatch")
    /\ UNCHANGED <<currentJob, keepRunning, chunksDone>>

\* The null check, and the start of onProcessJob when there is a job.
WorkerDispatch(c) ==
    /\ workerPc[c] = "dispatch"
    /\ IF currentJob[c] = NoJob
         THEN Goto(c, "loop") /\ UNCHANGED chunksDone
         ELSE Goto(c, "process") /\ chunksDone' = [chunksDone EXCEPT ![c] = 0]
    /\ UNCHANGED <<currentJob, semaphore, keepRunning>>

\* A part of the job: an accumulator on the CPU, a pass over the device
\* buffer in OpenCL.  It ends in a call of notifyWatchdogCallback.
ProcessPart(c, n) ==
    /\ workerPc[c] = "process"
    /\ chunksDone[c] + n <= NChunks(currentJob[c])
    /\ chunksDone' = [chunksDone EXCEPT ![c] = @ + n]
    /\ UNCHANGED <<currentJob, semaphore, keepRunning, workerPc>>

WorkerProcessed(c) ==
    /\ workerPc[c] = "process"
    /\ chunksDone[c] = NChunks(currentJob[c])
    /\ Goto(c, "finish")
    /\ UNCHANGED <<currentJob, semaphore, keepRunning, chunksDone>>

\* throwIfStatusUnsuccessful and the catch in threadMain: an OpenCL call
\* fails before, between or after the passes.  The CPU code throws nothing
\* that threadMain catches.  currentJob keeps the failed job.
WorkerFails(c) ==
    /\ c \in ClCoordinators
    /\ workerPc[c] = "process"
    /\ Goto(c, "fail")
    /\ UNCHANGED <<currentJob, semaphore, keepRunning, chunksDone>>
=============================================================================
