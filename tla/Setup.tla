-------------------------------- MODULE Setup --------------------------------
(***************************************************************************)
(* From the command line to the running scheduler: processArgs,             *)
(* validateArgs and queryClDevices of ArgParser.cpp, then JobScheduler's    *)
(* constructor with those of the coordinators.  The result is what module   *)
(* JobScheduler takes as constants: which coordinators have a thread, how   *)
(* many chunks the file has and how many of them each coordinator takes at  *)
(* a time.  Module Program puts the actions together with those of main.    *)
(*                                                                         *)
(* Device names are compared without regard to case by the code; here they  *)
(* are equal or different.  The AVX2 switch and the watchdog's timeout      *)
(* change none of this and are parsed only.                                *)
(***************************************************************************)
EXTENDS MemoryAllocation, OptionParser

CONSTANTS
    Argvs,                  \* command lines, without the program's name
    Devices,                \* records that describe OpenCL devices
    MaxDevices,             \* bound: devices in the machine
    FileSizes,
    NoFile,                 \* in place of the size of a missing file
    Megabyte, WordSize,     \* WordSize: 2 to the width of size_t
    DefaultMemoryLimit, MaxMemoryLimit,
    DefaultChunkSize, SmallSizeLimit

\* Where an extension's name stands in the list of a device's extensions.
Positions == {"absent", "first", "later"}

ASSUME SetupAssumption ==
    /\ Argvs \subseteq Seq(Argument)
    /\ Devices \subseteq [name : STRING, khrFp64 : Positions, amdFp64 : Positions,
                          geforce : BOOLEAN, preferredGroup : Nat \ {0},
                          maxGroup : Nat \ (0..7), maxAlloc : Nat]
    /\ \A d \in Devices :
         /\ ~(d.khrFp64 = "first" /\ d.amdFp64 = "first")
         /\ d.maxAlloc * 9 >= DefaultChunkSize * 10
    /\ {MaxDevices, MaxMemoryLimit, SmallSizeLimit} \subseteq Nat
    /\ {Megabyte, WordSize, DefaultMemoryLimit, DefaultChunkSize} \subseteq Nat \ {0}
    /\ FileSizes \subseteq Nat
    /\ DefaultMemoryLimit <= MaxMemoryLimit

\* DEFAULT_CHUNK_SIZE, the bytes of an accumulator and the smallest limit that
\* is accepted: of its 12 percent for buffers, the least share there is, half
\* holds an accumulator and half two chunks for each device.
ASSUME SizesAssumption ==
    /\ DefaultChunkSize <= AccumulatorBytes
    /\ 12 * DefaultMemoryLimit >= 200 * AccumulatorBytes
    /\ 12 * DefaultMemoryLimit >= 400 * (MaxDevices * DefaultChunkSize)

VARIABLES
    argv,            \* the command line
    parsed,          \* what the option parser made of it
    file,            \* size of the input file, or NoFile
    pc,              \* control state of the main thread
    mode, limit, deviceNames, isBenchmark, nBenchmarkRuns, outputGiven,
                     \* ProcessingConfig
    machine,         \* sequence of the OpenCL devices that were queried
    clDevices,       \* indices in machine of the devices chosen
    chunkSizeBytes, chunkCount,   \* FileChunkHandler
    memoryConfig,
    coordinators,    \* sequence of the coordinators constructed
    nAvailability    \* size of coordinatorAvailability

args == <<argv, parsed>>
options == <<mode, limit, deviceNames, isBenchmark, nBenchmarkRuns, outputGiven>>
found == <<machine, clDevices>>
config == <<options, found>>
scheduler == <<chunkSizeBytes, chunkCount, memoryConfig, coordinators, nAvailability>>
setupVars == <<args, file, pc, config, scheduler>>

\* No scheduler has been constructed, or the last one is destroyed.
NoScheduler ==
    [chunkSizeBytes |-> DefaultChunkSize, chunkCount |-> 0,
     memoryConfig |-> [maxCpuBuffer |-> 0, maxClHostBuffer |-> 0],
     coordinators |-> <<>>, nAvailability |-> 0]

SetupInit ==
    /\ argv \in Argvs
    /\ parsed = Start
    /\ file = NoFile
    /\ pc = "args"
    /\ mode = "all" /\ limit = DefaultMemoryLimit /\ deviceNames = {}
    /\ isBenchmark = FALSE /\ nBenchmarkRuns = 0 /\ outputGiven = FALSE
    /\ machine = <<>> /\ clDevices = <<>>
    /\ chunkSizeBytes = NoScheduler.chunkSizeBytes
    /\ chunkCount = NoScheduler.chunkCount
    /\ memoryConfig = NoScheduler.memoryConfig
    /\ coordinators = NoScheduler.coordinators
    /\ nAvailability = NoScheduler.nAvailability

----------------------------------------------------------------------------
(* ArgParser.cpp                                                           *)

Given(option) == Count(parsed, option) > 0

ParseNext ==
    /\ pc = "args"
    /\ parsed.current <= Len(argv)
    /\ \/ parsed.status = "parsing" /\ parsed' = ParseArgument(parsed, argv)
       \/ parsed.status = "remaining" /\ parsed' = ConsumeRemaining(parsed, argv)
    /\ UNCHANGED <<argv, file, pc, config, scheduler>>

ParseDefaults ==
    /\ pc = "args"
    /\ parsed.status = "end" \/ (parsed.status = "parsing" /\ parsed.current > Len(argv))
    /\ parsed' = SetDefaults(parsed)
    /\ UNCHANGED <<argv, file, pc, config, scheduler>>

\* Help and the list of devices end the program with code 0.  argc counts the
\* program's name.
ProcessArgs ==
    /\ pc = "args"
    /\ \/ parsed.status \in {"exception", "parsed"}
       \/ parsed.status = "remaining" /\ parsed.current > Len(argv)
    /\ pc' = IF parsed.status = "exception" THEN "exit"
             ELSE IF Given("help") \/ Given("list_cl_devices") THEN "success"
             ELSE IF Len(argv) + 1 < 3 THEN "exit"
             ELSE "validate"
    /\ UNCHANGED <<args, file, config, scheduler>>

ModeArg == IF Given("mode") THEN Value(parsed, "mode") ELSE "opencl_devices"

\* A positional argument that is no mode is taken for a device.
ModeArgIsDevice == ModeArg \notin ProcessingModes

ModeOf == IF ModeArgIsDevice THEN "opencl_devices" ELSE ModeArg

\* The product is a size_t and wraps.
LimitOf ==
    IF Given("memory_limit") THEN (Numerals[Value(parsed, "memory_limit")] * Megabyte) % WordSize
                             ELSE DefaultMemoryLimit

DeviceNames ==
    IF ModeOf # "opencl_devices" THEN {}
    ELSE ToSet(Values(parsed, "devices")) \cup IF ModeArgIsDevice THEN {ModeArg} ELSE {}

\* Mutant: the lower bound of the memory limit is not checked.
ArgsAcceptedUpper(size) ==
    /\ Given("file") /\ size # NoFile
    /\ Given("mode") \/ Given("devices")
    /\ LimitOf <= MaxMemoryLimit

ArgsAccepted(size) ==
    /\ Given("file")
    /\ size # NoFile
    /\ Given("mode") \/ Given("devices")
    /\ LimitOf <= MaxMemoryLimit
    /\ LimitOf >= DefaultMemoryLimit

\* An exception reaches main, which exits.  The command line is not read again.
Validate ==
    /\ pc = "validate"
    /\ file' \in FileSizes \cup {NoFile}
    /\ IF ArgsAccepted(file')
         THEN /\ mode' = ModeOf
              /\ limit' = LimitOf
              /\ deviceNames' = DeviceNames
              /\ isBenchmark' = Flag(parsed, "benchmark")
              /\ nBenchmarkRuns' = Number(parsed, "benchmark_runs", 0)
              /\ outputGiven' = Given("output_file")
              /\ pc' = CASE ~UsesCl(mode') -> "main"
                         [] mode' = "opencl_devices" /\ deviceNames' = {} -> "exit"
                         [] OTHER -> "query"
         ELSE pc' = "exit" /\ UNCHANGED options
    /\ argv' = <<>> /\ parsed' = Start
    /\ UNCHANGED <<found, scheduler>>

\* std::string::find returns a position, and the code tests it as a Boolean:
\* only an extension in first place counts as not found.
TakenForMissing(position) == position = "first"

Chosen(device) ==
    /\ ~(TakenForMissing(device.khrFp64) /\ TakenForMissing(device.amdFp64))
    /\ deviceNames = {} \/ device.name \in deviceNames

\* The next device of one of the platforms.
QueryDevice ==
    /\ pc = "query"
    /\ Len(machine) < MaxDevices
    /\ \E device \in Devices :
         /\ machine' = Append(machine, device)
         /\ clDevices' = IF Chosen(device) THEN Append(clDevices, Len(machine')) ELSE clDevices
    /\ UNCHANGED <<args, file, pc, options, scheduler>>

QueryDone ==
    /\ pc = "query"
    /\ pc' = IF mode = "opencl_devices" /\ clDevices = <<>> THEN "exit" ELSE "main"
    /\ UNCHANGED <<args, file, config, scheduler>>

----------------------------------------------------------------------------
(* JobScheduler's constructor                                              *)

\* Mutant: small files are read like others.
ChunkSizeDefault(size) == DefaultChunkSize

ChunkSizeFor(size) ==
    IF size < DefaultChunkSize \/ size < SmallSizeLimit THEN 1 ELSE DefaultChunkSize

\* The watchdog's thread exists before the size is asked for: an exception
\* destroys a joinable std::thread, which ends the program in terminate.
Construct ==
    /\ pc = "construct"
    /\ IF file = NoFile
         THEN pc' = "terminated" /\ UNCHANGED scheduler
         ELSE /\ chunkSizeBytes' = ChunkSizeFor(file)
              /\ chunkCount' = file \div chunkSizeBytes'
              /\ memoryConfig' = BuildMemoryConfig(mode, Len(clDevices), limit)
              /\ pc' = "coordinators"
              /\ UNCHANGED <<coordinators, nAvailability>>
    /\ UNCHANGED <<args, file, config>>

\* Mutant: every device gets an eighth of a group.
EighthOfGroup(device) ==
    IF device.geforce THEN device.maxGroup \div 8 ELSE device.preferredGroup \div 8

\* estimateWorkgroupSize: both of its NVIDIA branches assign the same value.
WorkGroupSize(device) ==
    IF device.geforce THEN device.maxGroup \div 8 ELSE device.preferredGroup

\* Mutant: the device's own limit is ignored.
HostChunksOnly(device) == memoryConfig.maxClHostBuffer \div chunkSizeBytes

\* The host buffer, aligned to what the device can allocate.
HostChunks(device) ==
    LET chunks       == memoryConfig.maxClHostBuffer \div chunkSizeBytes
        deviceBuffer == (device.maxAlloc * 9) \div 10
    IN  IF chunks * chunkSizeBytes > deviceBuffer THEN deviceBuffer \div chunkSizeBytes
                                                  ELSE chunks

ClCoordinator(id, device) ==
    [id |-> id, hasThread |-> TRUE,
     maxChunks  |-> WorkGroupSize(device) * (AccumulatorBytes \div chunkSizeBytes),
     hostChunks |-> HostChunks(device)]

CpuChunks == ((memoryConfig.maxCpuBuffer \div AccumulatorBytes) * AccumulatorBytes)
                \div chunkSizeBytes

CpuCoordinator(id) ==
    [id |-> id, hasThread |-> mode # "opencl_devices",
     maxChunks |-> CpuChunks, hostChunks |-> 0]

\* Each coordinator opens the file; a failure is again an exception.
OpenFails ==
    /\ pc = "coordinators"
    /\ Len(coordinators) <= Len(clDevices)
    /\ file = NoFile
    /\ pc' = "terminated"
    /\ UNCHANGED <<args, file, config, scheduler>>

ConstructClCoordinator ==
    /\ pc = "coordinators"
    /\ Len(coordinators) < Len(clDevices)
    /\ file # NoFile
    /\ LET id == Len(coordinators)
       IN  coordinators' =
             Append(coordinators, ClCoordinator(id, machine[clDevices[id + 1]]))
    /\ UNCHANGED <<args, file, pc, config, chunkSizeBytes, chunkCount, memoryConfig,
                   nAvailability>>

\* ClCompileErr: the constructor calls exit(1).
CompileFails ==
    /\ pc = "coordinators"
    /\ Len(coordinators) < Len(clDevices)
    /\ pc' = "exit"
    /\ UNCHANGED <<args, file, config, scheduler>>

ConstructCpuCoordinator ==
    /\ pc = "coordinators"
    /\ Len(coordinators) = Len(clDevices)
    /\ file # NoFile
    /\ coordinators' = Append(coordinators, CpuCoordinator(Len(coordinators)))
    /\ pc' = "availability"
    /\ UNCHANGED <<args, file, config, chunkSizeBytes, chunkCount, memoryConfig,
                   nAvailability>>

\* Mutant: a place for the CPU in every mode.
ResizeForAll ==
    /\ pc = "availability"
    /\ nAvailability' = Len(clDevices) + 1
    /\ pc' = "ready"
    /\ UNCHANGED <<args, file, config, chunkSizeBytes, chunkCount, memoryConfig, coordinators>>

ResizeAvailability ==
    /\ pc = "availability"
    /\ nAvailability' = IF mode = "opencl_devices" THEN Len(clDevices) ELSE Len(clDevices) + 1
    /\ pc' = "ready"
    /\ UNCHANGED <<args, file, config, chunkSizeBytes, chunkCount, memoryConfig, coordinators>>

\* The environment: the input file is removed while the program starts.
FileRemoved ==
    /\ file # NoFile
    /\ pc \in {"query", "construct", "coordinators"}
    /\ file' = NoFile
    /\ UNCHANGED <<args, pc, config, scheduler>>

SetupNext ==
    \/ ParseNext \/ ParseDefaults \/ ProcessArgs \/ Validate \/ QueryDevice \/ QueryDone
    \/ Construct \/ OpenFails \/ CompileFails
    \/ ConstructClCoordinator \/ ConstructCpuCoordinator \/ ResizeAvailability

----------------------------------------------------------------------------
Final == {"exit", "terminated", "crashed", "success"}

SetupTypeOK ==
    /\ file \in Nat \cup {NoFile}
    /\ mode \in ProcessingModes
    /\ limit \in DefaultMemoryLimit..MaxMemoryLimit
    /\ isBenchmark \in BOOLEAN /\ outputGiven \in BOOLEAN
    /\ nBenchmarkRuns \in Nat
    /\ clDevices \in Seq(1..Len(machine))
    /\ chunkSizeBytes \in {1, DefaultChunkSize}
    /\ chunkCount \in Nat
    /\ memoryConfig \in [maxCpuBuffer : Nat, maxClHostBuffer : Nat]
    /\ \A i \in 1..Len(coordinators) :
         coordinators[i] \in [id : Nat, hasThread : BOOLEAN, maxChunks : Nat, hostChunks : Nat]
    /\ nAvailability \in Nat

\* No argument is dropped: with a container as the last positional option the
\* parser finds a place for every text, also for those behind "--" and where
\* positional options were given as flags before.
NothingIgnored == parsed.status # "exception" => parsed.unmatched = <<>>

Working == {i \in 1..Len(coordinators) : coordinators[i].hasThread}

\* run() finds work for every thread it will wait for: there is a coordinator,
\* each takes at least a chunk per job (DeviceAssumption and
\* MaxChunksAssumption of module JobScheduler), and an OpenCL pass loads at
\* least one chunk.
WorkersCanWork ==
    pc = "ready" =>
        /\ Working # {}
        /\ \A i \in Working :
             /\ coordinators[i].maxChunks > 0
             /\ i <= Len(clDevices) => coordinators[i].hostChunks > 0

\* coordinatorAvailability is indexed by the ids the callbacks pass, and run()
\* takes index clDeviceCoordinators.size() for the CPU: exactly the
\* coordinators with a thread have a place, at their id.
AvailabilityMatchesThreads ==
    pc = "ready" =>
        /\ {coordinators[i].id : i \in Working} = 0..(nAvailability - 1)
        /\ \A i \in 1..Len(coordinators) : coordinators[i].id = i - 1

\* Host memory that the buffers of coordinator i can take.
Buffers(i) ==
    chunkSizeBytes * IF i <= Len(clDevices) THEN 2 * coordinators[i].hostChunks
                                            ELSE coordinators[i].maxChunks

TotalBuffers ==
    LET sum[i \in 0..Len(coordinators)] == IF i = 0 THEN 0 ELSE sum[i - 1] + Buffers(i)
    IN  sum[Len(coordinators)]

\* All coordinators busy with their largest job, and each device's buffer in
\* host memory beside its host buffer, stay within what buildMemoryConfig calls
\* "Max amount of memory for all buffers (both CPU and CL)", and no device is
\* asked for a larger buffer than it can allocate.
BuffersFitLimit ==
    pc = "ready" =>
        /\ TotalBuffers <= BufferMemory(mode, Len(clDevices), limit)
        /\ \A i \in 1..Len(clDevices) :
             coordinators[i].hostChunks * chunkSizeBytes <= machine[clDevices[i]].maxAlloc

=============================================================================
