------------------------------- MODULE Program -------------------------------
(***************************************************************************)
(* The main thread from start to end: main and run of main.cpp and          *)
(* runBenchmark of Benchmark.h, around the steps of module Setup.  The run  *)
(* of the scheduler, which module JobScheduler describes, is one step here, *)
(* and so is the merge of its result, described by module Results.          *)
(***************************************************************************)
EXTENDS Setup

CONSTANTS MAX_RUNS, DEFAULT_RUNS

ASSUME ProgramAssumption == {MAX_RUNS, DEFAULT_RUNS} \subseteq Nat \ {0}

VARIABLES
    nRuns,          \* runs to make
    printed,        \* results on the console
    directories,    \* the directories there are
    written         \* whether the output file has the results

progress == <<nRuns, printed, directories, written>>
vars == <<setupVars, progress>>

\* Paths of the input and output file and of the directories they are in.
parent_path == [input |-> "inputDir", inputDir |-> "inputRoot", output |-> "outputDir"]

Init ==
    /\ SetupInit
    /\ nRuns = 1
    /\ printed = 0
    /\ directories \in {{"inputDir", "inputRoot"}, {"inputDir", "inputRoot", "outputDir"}}
    /\ written = FALSE

\* Mutant: a number of runs that was not given is taken as it is.
CappedRuns == IF nBenchmarkRuns > MAX_RUNS THEN MAX_RUNS ELSE nBenchmarkRuns

getNRuns ==
    IF nBenchmarkRuns > MAX_RUNS THEN MAX_RUNS
    ELSE IF nBenchmarkRuns = 0 THEN DEFAULT_RUNS
    ELSE nBenchmarkRuns

\* makeDirs makes the directory that its argument is in, if it is missing.
makeDirs(path) == directories' = directories \cup {parent_path[path]}

\* setupOutputFileDirsIfNeeded starts from the path of the input file.
SetupOutputDirs ==
    IF outputGiven THEN makeDirs(parent_path["input"]) ELSE UNCHANGED directories

\* makeDirs throws: the directories have gone and cannot be made again.
OutputDirsFail ==
    /\ outputGiven
    /\ pc = IF isBenchmark THEN "main" ELSE "ready"
    /\ pc' = "exit"
    /\ UNCHANGED <<args, file, config, scheduler, progress>>

\* main: run, or runBenchmark up to its loop.
Main ==
    /\ pc = "main"
    /\ IF isBenchmark
         THEN /\ SetupOutputDirs
              /\ nRuns' = getNRuns
              /\ pc' = "loop"
         ELSE /\ pc' = "construct"
              /\ UNCHANGED <<nRuns, directories>>
    /\ UNCHANGED <<args, file, config, scheduler, printed, written>>

\* The loop of runBenchmark, with a new scheduler for each run.
StartRun ==
    /\ pc = "loop"
    /\ pc' = IF printed < nRuns THEN "construct" ELSE "average"
    /\ UNCHANGED <<args, file, config, scheduler, progress>>

\* run: the directories come after the constructor.
Prepare ==
    /\ pc = "ready"
    /\ IF isBenchmark THEN UNCHANGED directories ELSE SetupOutputDirs
    /\ pc' = "run"
    /\ UNCHANGED <<args, file, config, scheduler, nRuns, printed, written>>

\* Mutant: an exception of the scheduler is reported and nothing more.
RunThrowsOn ==
    /\ pc = "run"
    /\ pc' = IF isBenchmark THEN "average" ELSE "success"
    /\ UNCHANGED <<args, file, config, scheduler, progress>>

\* run() of the scheduler throws a runtime_error, which is caught: exit(1).
RunThrows ==
    /\ pc = "run"
    /\ pc' = "exit"
    /\ UNCHANGED <<args, file, config, scheduler, progress>>

\* It returns the items of all jobs.  Without a chunk there is no job, and
\* mergeLeftToRight takes the first item of an empty vector: a null pointer.
RunReturns ==
    /\ pc = "run"
    /\ pc' = IF chunkCount = 0 THEN "crashed" ELSE "classify"
    /\ UNCHANGED <<args, file, config, scheduler, progress>>

DestroyScheduler ==
    /\ chunkSizeBytes' = NoScheduler.chunkSizeBytes
    /\ chunkCount' = NoScheduler.chunkCount
    /\ memoryConfig' = NoScheduler.memoryConfig
    /\ coordinators' = NoScheduler.coordinators
    /\ nAvailability' = NoScheduler.nAvailability

\* Mutant: a benchmark goes on without counting the run.
ClassifyUncounted ==
    /\ pc = "classify"
    /\ IF isBenchmark
         THEN pc' = "loop" /\ DestroyScheduler
         ELSE /\ pc' = IF outputGiven THEN "write" ELSE "success"
              /\ UNCHANGED scheduler
    /\ UNCHANGED <<args, file, config, progress>>

\* classifyDistribution to the console.  A benchmark then destroys the
\* scheduler and goes on with the next run.
Classify ==
    /\ pc = "classify"
    /\ printed' = printed + 1
    /\ IF isBenchmark
         THEN pc' = "loop" /\ DestroyScheduler
         ELSE /\ pc' = IF outputGiven THEN "write" ELSE "success"
              /\ UNCHANGED scheduler
    /\ UNCHANGED <<args, file, config, nRuns, directories, written>>

\* A file stream opens in a directory that exists; one that did not open
\* swallows what is written to it.
WriteOutput == written' = ("outputDir" \in directories)

\* run: no word on a file that did not open.
Write ==
    /\ pc = "write"
    /\ WriteOutput
    /\ pc' = "success"
    /\ UNCHANGED <<args, file, config, scheduler, nRuns, printed, directories>>

\* runBenchmark after its loop: the average, then the output file; one that
\* did not open is worth a warning.
Average ==
    /\ pc = "average"
    /\ IF outputGiven THEN WriteOutput ELSE UNCHANGED written
    /\ pc' = "success"
    /\ UNCHANGED <<args, file, config, scheduler, nRuns, printed, directories>>

\* The steps of the main thread.
Step ==
    \/ SetupNext /\ UNCHANGED progress
    \/ OutputDirsFail
    \/ Main \/ StartRun \/ Prepare \/ RunThrows \/ RunReturns \/ Classify \/ Write \/ Average

Next ==
    \/ Step
    \/ FileRemoved /\ UNCHANGED progress
    \/ pc \in Final /\ UNCHANGED vars

\* The main thread is scheduled, and run() of the scheduler ends (Termination
\* in module JobScheduler).
Spec == Init /\ [][Next]_vars /\ WF_vars(Step)

----------------------------------------------------------------------------
TypeOK ==
    /\ SetupTypeOK
    /\ pc \in {"args", "validate", "query", "main", "loop", "construct", "coordinators",
               "availability", "ready", "run", "classify", "write", "average"} \cup Final
    /\ nRuns \in 1..(MAX_RUNS + DEFAULT_RUNS)
    /\ printed \in 0..nRuns
    /\ written \in BOOLEAN

Informative == Count(parsed, "help") + Count(parsed, "list_cl_devices") > 0

\* The exit code tells the truth: it is 0 only when help or the devices were
\* asked for, or when the results of every run are on the console.
ZeroOnlyWithResults ==
    pc = "success" => Informative \/ printed = nRuns

\* runBenchmark divides by the number of runs it has made, and takes the
\* first of the slowest and fastest: there is one, whatever number the user
\* asks for.
AverageDefined == pc = "average" => printed > 0

\* The merge finds an item to return unless the file is empty: a file smaller
\* than a chunk is read in chunks of one byte.
OnlyEmptyFileCrashes == pc = "crashed" => file = 0

\* Every command line comes to an end.
ProgramEnds == <>(pc \in Final)

\* Benchmark.h on setupOutputFileDirsIfNeeded: "Sets up file directory
\* structure if necessary"; it exits where "we have nowhere to write the
\* results".
OutputWritten == pc = "success" /\ outputGiven => written
=============================================================================
