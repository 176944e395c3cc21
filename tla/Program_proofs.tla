--------------------------- MODULE Program_proofs ---------------------------
(***************************************************************************)
(* The main thread for any command line, file, machine and limit: what the  *)
(* parser keeps, what the scheduler is constructed from, and what the exit  *)
(* code and the crash of the merge tell.                                    *)
(***************************************************************************)
EXTENDS Program, NaturalNumbers

----------------------------------------------------------------------------
(* buildMemoryConfig                                                        *)

LEMMA RatioInRange ==
    ASSUME NEW n \in Nat
    PROVE  ClRuntimeRatio(n) \in 0..88
<1>1. CASE n >= 4
  BY <1>1 DEF ClRuntimeRatio
<1>2. CASE n \in {0, 1, 2, 3}
  BY <1>2 DEF ClRuntimeRatio
<1> QED
  BY <1>1, <1>2

LEMMA BufferMemoryInLimit ==
    ASSUME NEW m, NEW n \in Nat, NEW l \in Nat
    PROVE  BufferMemory(m, n, l) \in 0..l
<1> DEFINE runtime == IF UsesCl(m) THEN ClRuntimeRatio(n) ELSE CpuRuntimeRatio
<1>1. runtime \in 0..88
  BY RatioInRange DEF CpuRuntimeRatio
<1>2. BufferMemory(m, n, l) = (l * (100 - runtime)) \div 100
  BY DEF BufferMemory
<1> HIDE DEF runtime
<1>3. l * (100 - runtime) \in 0..(l * 100)
  BY <1>1, Z3
<1> QED
  BY <1>2, <1>3

\* In every mode, for any number of devices and any limit, what the CPU may
\* load for a job and, for every device, a host buffer and a device buffer of
\* the same size fit the memory for buffers, which is within the limit.
THEOREM BuffersWithinShare ==
    ASSUME NEW m \in ProcessingModes, NEW n \in Nat, NEW l \in Nat,
           m = "opencl_devices" => n > 0
    PROVE  /\ CpuBuffer(m, n, l) + n * (2 * ClHostBuffer(m, n, l))
                <= BufferMemory(m, n, l)
           /\ BufferMemory(m, n, l) <= l
<1> DEFINE buffers == BufferMemory(m, n, l)
           cpu     == CpuBuffer(m, n, l)
           host    == ClHostBuffer(m, n, l)
<1>1. buffers \in 0..l
  BY BufferMemoryInLimit
<1>2. CASE CpuOnly(m, n)
  <2>1. cpu = buffers /\ host = 0
    BY <1>2 DEF CpuBuffer, ClHostBuffer
  <2>2. n * (2 * 0) = 0
    OBVIOUS
  <2> QED
    BY <1>1, <2>1, <2>2
<1>3. CASE ~CpuOnly(m, n)
  <2>1. n > 0
    BY <1>3 DEF CpuOnly, UsesCl, ProcessingModes
  <2>2. cpu \in 0..buffers
    BY <1>1, <1>3 DEF CpuBuffer, CpuMemoryRatio
  <2> DEFINE share == (buffers - cpu) \div n
  <2>3. host = share \div 2
    BY <1>3 DEF ClHostBuffer
  <2>4. buffers - cpu \in Nat
    BY <1>1, <2>2
  <2>5. share \in Nat /\ n * share <= buffers - cpu
    BY <2>1, <2>4, DivTimes
  <2> HIDE DEF share
  <2>6. 2 * host \in Nat /\ 2 * host <= share
    BY <2>3, <2>5
  <2>7. n * (2 * host) <= n * share
    BY <2>1, <2>5, <2>6, Z3
  <2>8. n * (2 * host) \in Nat /\ n * share \in Nat
    BY <2>5, <2>6, Z3
  <2> QED
    BY <1>1, <2>2, <2>4, <2>5, <2>7, <2>8
<1> QED
  BY <1>2, <1>3

----------------------------------------------------------------------------
\* The texts an option can be given, "true" for a flag (written out: the
\* provers do not know the members of STRING).
Texts == STRING \cup {"true"}

Parsers ==
    [current : Nat \ {0}, next : 1..3, texts : [Options -> Seq(Texts)],
     defaults : SUBSET Options, unmatched : {<<>>},
     status : {"parsing", "end", "remaining", "parsed", "exception"}]

\* What was not thrown on can be converted.
Convertible(parser) ==
    \A o \in Options : \A i \in 1..Len(parser.texts[o]) : Parseable(o, parser.texts[o][i])

Sound(parser) == parser \in Parsers /\ Convertible(parser)

ArgsInv == argv \in Seq(Argument) /\ Sound(parsed)

----------------------------------------------------------------------------
(* The option parser                                                       *)

LEMMA FlagText == "true" \in Texts
BY DEF Texts

LEMMA OptionFacts ==
    /\ Options = {"file", "mode", "devices", "list_cl_devices", "memory_limit", "benchmark",
                  "benchmark_runs", "output_file", "disable_avx2", "watchdog_timeout", "help"}
    /\ Details["devices"] = "strings" /\ Details["benchmark_runs"] = "size_t"
    /\ Details["memory_limit"] = "size_t"
    /\ \A name : IsOption(name) => OptionOf(name) \in Options
BY DEF Options, Details, IsOption, OptionOf, ShortNames

LEMMA StartSound == Sound(Start)
BY OptionFacts DEF Sound, Start, Parsers, Convertible

LEMMA ThrowSound ==
    ASSUME NEW parser, Sound(parser)
    PROVE  Sound(Throw(parser))
BY DEF Throw, Sound, Parsers, Convertible

LEMMA ParseOptionSound ==
    ASSUME NEW parser, Sound(parser), NEW o \in Options, NEW text \in Texts
    PROVE  Sound(parse_option(parser, o, text))
<1>1. CASE ~Parseable(o, text)
  BY <1>1, ThrowSound DEF parse_option
<1>2. CASE Parseable(o, text)
  <2> DEFINE after == [parser EXCEPT !.texts[o] = Append(@, text)]
  <2>1. parse_option(parser, o, text) = after
    BY <1>2 DEF parse_option
  <2>2. parser.texts \in [Options -> Seq(Texts)]
    BY DEF Sound, Parsers
  <2>3. after.texts = [parser.texts EXCEPT ![o] = Append(@, text)]
    BY DEF Sound, Parsers
  <2>4. after \in Parsers
    <3>1. [parser.texts EXCEPT ![o] = Append(@, text)] \in [Options -> Seq(Texts)]
      BY <2>2
    <3>2. after = [parser EXCEPT !.texts = [parser.texts EXCEPT ![o] = Append(@, text)]]
      OBVIOUS
    <3> QED
      BY <3>1, <3>2 DEF Sound, Parsers
  <2>5. ASSUME NEW p \in Options, NEW i \in 1..Len(after.texts[p])
        PROVE  Parseable(p, after.texts[p][i])
    <3>1. CASE p # o
      BY <2>2, <2>3, <2>5, <3>1 DEF Sound, Convertible
    <3>2. CASE p = o
      <4>1. after.texts[o] = Append(parser.texts[o], text)
        BY <2>2, <2>3
      <4>2. i = Len(parser.texts[o]) + 1 \/ i \in 1..Len(parser.texts[o])
        BY <2>2, <2>5, <3>2, <4>1
      <4>3. CASE i = Len(parser.texts[o]) + 1
        BY <1>2, <2>2, <3>2, <4>1, <4>3
      <4>4. CASE i \in 1..Len(parser.texts[o])
        BY <2>2, <3>2, <4>1, <4>4 DEF Sound, Convertible
      <4> QED
        BY <4>2, <4>3, <4>4
    <3> QED
      BY <3>1, <3>2
  <2> QED
    BY <2>1, <2>4, <2>5 DEF Sound, Convertible
<1> QED
  BY <1>1, <1>2

\* The counters of a parser do not matter to what it has kept.
LEMMA CurrentSound ==
    ASSUME NEW parser, Sound(parser), NEW c \in Nat \ {0}
    PROVE  Sound([parser EXCEPT !.current = c])
BY DEF Sound, Parsers, Convertible

LEMMA NextSound ==
    ASSUME NEW parser, Sound(parser), NEW n \in 1..3
    PROVE  Sound([parser EXCEPT !.next = n])
BY DEF Sound, Parsers, Convertible

LEMMA ArgumentFacts ==
    ASSUME NEW arg \in Argument
    PROVE  /\ arg.text \in Texts
           /\ arg.kind \in {"long", "group", "plain", "end", "bad"}
           /\ arg.kind = "long" => arg.value \in Texts
           /\ arg.kind = "group" => arg.letters \in Seq(Texts) /\ Len(arg.letters) \in {1, 2}
BY DEF Argument, Texts

LEMMA CheckedParseSound ==
    ASSUME NEW parser, Sound(parser), NEW o \in Options,
           NEW line \in Seq(Argument), parser.current \in 1..Len(line)
    PROVE  Sound(checked_parse_arg(parser, line, o))
<1>1. CASE HasImplicit(o)
  BY <1>1, FlagText, ParseOptionSound DEF checked_parse_arg
<1>2. CASE ~HasImplicit(o) /\ parser.current + 1 > Len(line)
  BY <1>2, ThrowSound DEF checked_parse_arg
<1>3. CASE ~HasImplicit(o) /\ ~(parser.current + 1 > Len(line))
  <2>1. parser.current \in Nat \ {0}
    BY DEF Sound, Parsers
  <2>2. parser.current + 1 \in 1..Len(line)
    BY <1>3, <2>1
  <2>3. line[parser.current + 1].text \in Texts
    BY <2>2, ArgumentFacts
  <2> DEFINE done == parse_option(parser, o, line[parser.current + 1].text)
  <2>4. Sound(done)
    BY <2>3, ParseOptionSound
  <2>5. checked_parse_arg(parser, line, o) = [done EXCEPT !.current = parser.current + 1]
    BY <1>3 DEF checked_parse_arg
  <2> HIDE DEF done
  <2>6. parser.current + 1 \in Nat \ {0}
    BY <2>1
  <2> QED
    BY <2>4, <2>5, <2>6, CurrentSound
<1> QED
  BY <1>1, <1>2, <1>3

\* The container at the end of the positional options is always free.
LEMMA ConsumeSound ==
    ASSUME NEW parser, Sound(parser), NEW text \in Texts
    PROVE  Sound(consume_positional(parser, text))
<1> DEFINE free == {i \in parser.next..Len(Positional) :
                      IsContainer(Positional[i]) \/ Count(parser, Positional[i]) = 0}
           i == CHOOSE i \in free : \A j \in free : i <= j
<1>1. parser.next \in 1..3 /\ Len(Positional) = 3
  BY DEF Sound, Parsers, Positional
<1>2. IsContainer(Positional[3]) /\ \A k \in 1..3 : Positional[k] \in Options
  BY OptionFacts DEF Positional, IsContainer
<1>3. 3 \in free /\ free \subseteq 1..3
  BY <1>1, <1>2
<1> HIDE DEF free
<1>4. \E k \in free : \A j \in free : k <= j
  <2>1. CASE 1 \in free
    BY <1>3, <2>1
  <2>2. CASE 1 \notin free /\ 2 \in free
    BY <1>3, <2>2
  <2>3. CASE 1 \notin free /\ 2 \notin free
    BY <1>3, <2>3
  <2> QED
    BY <2>1, <2>2, <2>3
<1>5. i \in free
  BY <1>4
<1>6. i \in 1..3
  BY <1>3, <1>5
<1>7. consume_positional(parser, text) =
        [parse_option(parser, Positional[i], text) EXCEPT
           !.next = IF IsContainer(Positional[i]) THEN i ELSE i + 1]
  BY <1>3 DEF consume_positional, free
<1> HIDE DEF i
<1>8. (IF IsContainer(Positional[i]) THEN i ELSE i + 1) \in 1..3
  BY <1>2, <1>6
<1> DEFINE done == parse_option(parser, Positional[i], text)
<1>9. Sound(done)
  BY <1>2, <1>6, ParseOptionSound
<1> HIDE DEF done
<1> QED
  BY <1>7, <1>8, <1>9, NextSound DEF done

LEMMA LongSound ==
    ASSUME NEW parser, Sound(parser), NEW line \in Seq(Argument),
           parser.current \in 1..Len(line), NEW arg \in Argument, arg.kind = "long"
    PROVE  Sound(ParseLong(parser, line, arg))
<1>1. arg.value \in Texts
  BY ArgumentFacts
<1>2. CASE ~IsOption(arg.name)
  BY <1>2, ThrowSound DEF ParseLong
<1>3. CASE IsOption(arg.name)
  BY <1>1, <1>3, OptionFacts, ParseOptionSound, CheckedParseSound DEF ParseLong
<1> QED
  BY <1>2, <1>3

LEMMA GroupSound ==
    ASSUME NEW parser, Sound(parser), NEW line \in Seq(Argument),
           parser.current \in 1..Len(line),
           NEW letters \in Seq(Texts), Len(letters) \in {1, 2}
    PROVE  Sound(ParseGroup(parser, line, letters))
<1> DEFINE option == OptionOf(letters[1])
           first  == parse_option(parser, option, "true")
<1>1. CASE ~IsOption(letters[1])
  BY <1>1, ThrowSound DEF ParseGroup
<1>2. CASE IsOption(letters[1])
  <2>1. option \in Options
    BY <1>2, OptionFacts
  <2>2. CASE Len(letters) = 1
    BY <1>2, <2>1, <2>2, CheckedParseSound DEF ParseGroup
  <2>3. CASE Len(letters) = 2 /\ ~HasImplicit(option)
    <3>1. letters[2] \in Texts
      BY <2>3
    <3>2. ParseGroup(parser, line, letters) = parse_option(parser, option, letters[2])
      BY <1>2, <2>3 DEF ParseGroup
    <3> QED
      BY <2>1, <3>1, <3>2, ParseOptionSound
  <2>4. CASE Len(letters) = 2 /\ HasImplicit(option)
    <3>1. Sound(first)
      BY <2>1, FlagText, ParseOptionSound
    <3>2. first.current = parser.current
      BY DEF parse_option, Throw, Sound, Parsers
    <3>3. ParseGroup(parser, line, letters) =
            IF IsOption(letters[2]) THEN checked_parse_arg(first, line, OptionOf(letters[2]))
                                    ELSE Throw(first)
      BY <1>2, <2>4 DEF ParseGroup
    <3> HIDE DEF first
    <3> QED
      BY <3>1, <3>2, <3>3, OptionFacts, CheckedParseSound, ThrowSound
  <2> QED
    BY <2>2, <2>3, <2>4
<1> QED
  BY <1>1, <1>2

LEMMA ParseArgumentSound ==
    ASSUME NEW parser, Sound(parser), NEW line \in Seq(Argument),
           parser.current \in 1..Len(line)
    PROVE  Sound(ParseArgument(parser, line))
<1> DEFINE arg  == line[parser.current]
           done == CASE arg.kind = "long"  -> ParseLong(parser, line, arg)
                     [] arg.kind = "group" -> ParseGroup(parser, line, arg.letters)
                     [] arg.kind = "plain" -> consume_positional(parser, arg.text)
                     [] arg.kind = "end"   -> [parser EXCEPT !.status = "end"]
                     [] arg.kind = "bad"   -> Throw(parser)
<1>1. arg \in Argument
  OBVIOUS
<1> HIDE DEF arg
<1>2. arg.kind \in {"long", "group", "plain", "end", "bad"}
  BY <1>1, ArgumentFacts
<1>3. ASSUME arg.kind = "long" PROVE Sound(done)
  BY <1>1, <1>3, LongSound
<1>4. ASSUME arg.kind = "group" PROVE Sound(done)
  BY <1>1, <1>4, ArgumentFacts, GroupSound
<1>5. ASSUME arg.kind = "plain" PROVE Sound(done)
  BY <1>1, <1>5, ArgumentFacts, ConsumeSound
<1>6. ASSUME arg.kind = "end" PROVE Sound(done)
  BY <1>6 DEF Sound, Parsers, Convertible
<1>7. ASSUME arg.kind = "bad" PROVE Sound(done)
  BY <1>7, ThrowSound
<1>8. Sound(done)
  BY <1>2, <1>3, <1>4, <1>5, <1>6, <1>7
<1>9. ParseArgument(parser, line) = [done EXCEPT !.current = @ + 1]
  BY DEF ParseArgument, arg
<1> HIDE DEF done
<1>10. done.current + 1 \in Nat \ {0}
  BY <1>8 DEF Sound, Parsers
<1> QED
  BY <1>8, <1>9, <1>10, CurrentSound

LEMMA RemainingSound ==
    ASSUME NEW parser, Sound(parser), NEW line \in Seq(Argument),
           parser.current \in 1..Len(line)
    PROVE  Sound(ConsumeRemaining(parser, line))
<1> DEFINE done == consume_positional(parser, line[parser.current].text)
<1>1. Sound(done)
  BY ArgumentFacts, ConsumeSound
<1>2. ConsumeRemaining(parser, line) = [done EXCEPT !.current = @ + 1]
  BY DEF ConsumeRemaining
<1> HIDE DEF done
<1>3. done.current + 1 \in Nat \ {0}
  BY <1>1 DEF Sound, Parsers
<1> QED
  BY <1>1, <1>2, <1>3, CurrentSound

LEMMA DefaultsSound ==
    ASSUME NEW parser, Sound(parser)
    PROVE  Sound(SetDefaults(parser))
BY DEF SetDefaults, Sound, Parsers, Convertible

\* A number that was given is one that the parser could convert.
LEMMA NumberKnown ==
    ASSUME NEW parser, Sound(parser), NEW o \in Options, Details[o] = "size_t",
           Count(parser, o) > 0
    PROVE  Numerals[Value(parser, o)] \in Nat
<1> DEFINE texts == parser.texts[o]
<1>1. texts \in Seq(Texts) /\ Len(texts) > 0
  BY DEF Sound, Parsers, Count
<1>2. Len(texts) \in 1..Len(texts)
  BY <1>1
<1>3. Parseable(o, texts[Len(texts)])
  BY <1>2 DEF Sound, Convertible
<1> HIDE DEF texts
<1>4. texts[Len(texts)] \in DOMAIN Numerals
  BY <1>3 DEF Parseable
<1>5. Value(parser, o) = texts[Len(texts)]
  BY DEF Value, Last, texts
<1> QED
  BY <1>4, <1>5, OptionParserAssumption
----------------------------------------------------------------------------
(* The inductive invariant, part by part                                   *)

\* Before a scheduler is constructed, and from there to the end of its run.
Before == {"args", "validate", "query", "main", "loop", "construct"}
During == {"coordinators", "availability", "ready", "run", "classify"}

OptionsInv ==
    /\ pc \in Before \cup During \cup {"write", "average"} \cup Final
    /\ mode \in ProcessingModes
    /\ limit \in DefaultMemoryLimit..MaxMemoryLimit
    /\ isBenchmark \in BOOLEAN /\ outputGiven \in BOOLEAN
    /\ nBenchmarkRuns \in Nat

\* A mode that needs devices has some when the main thread goes on.
MachineInv ==
    /\ machine \in Seq(Devices)
    /\ clDevices \in Seq(1..Len(machine))
    /\ pc \in During \cup {"main", "loop", "construct"} /\ mode = "opencl_devices"
          => Len(clDevices) > 0

\* Chunk size and count belong to the file until its scheduler is destroyed.
ChunkInv ==
    /\ file \in FileSizes \cup {NoFile}
    /\ chunkSizeBytes \in {1, DefaultChunkSize}
    /\ chunkCount \in Nat
    /\ pc \in During => \/ pc = "coordinators" /\ file = NoFile
                        \/ /\ file \in FileSizes
                           /\ chunkSizeBytes = ChunkSizeFor(file)
                           /\ chunkCount = file \div chunkSizeBytes
    /\ pc = "crashed" => file = 0

Coordinators == [id : Nat, hasThread : BOOLEAN, maxChunks : Nat, hostChunks : Nat]

CoordinatorInv ==
    /\ memoryConfig \in [maxCpuBuffer : Nat, maxClHostBuffer : Nat]
    /\ coordinators \in Seq(Coordinators)
    /\ nAvailability \in Nat
    /\ \A i \in 1..Len(coordinators) : coordinators[i].id = i - 1
    /\ pc \in Before => coordinators = <<>>
    /\ pc = "coordinators" => Len(coordinators) <= Len(clDevices)
    /\ pc \in {"availability", "ready"} => Len(coordinators) = Len(clDevices) + 1
    /\ pc \in {"coordinators", "availability", "ready"} =>
         \A i \in 1..Len(coordinators) :
            coordinators[i].hasThread <=> i <= Len(clDevices) \/ mode # "opencl_devices"
    /\ pc = "ready" =>
         nAvailability = IF mode = "opencl_devices" THEN Len(clDevices) ELSE Len(clDevices) + 1

\* Results on the console against the runs to make.
CountInv ==
    /\ nRuns \in 1..(MAX_RUNS + DEFAULT_RUNS)
    /\ printed \in 0..nRuns
    /\ pc \in {"args", "validate", "query", "main"} => printed = 0 /\ nRuns = 1
    /\ pc \in During \cup {"construct"} => printed < nRuns /\ (~isBenchmark => nRuns = 1)
    /\ pc = "loop" => isBenchmark
    /\ pc \in {"write", "average"} => printed = nRuns
    /\ pc = "success" => Informative \/ printed = nRuns
    /\ written \in BOOLEAN

\* What coordinator i was constructed from.
Planned(i) ==
    IF i <= Len(clDevices) THEN ClCoordinator(i - 1, machine[clDevices[i]])
                           ELSE CpuCoordinator(i - 1)

\* The sizes of the coordinators come from the mode, the limit and the number
\* of devices there still are; without OpenCL there is none.
PlanInv ==
    /\ Len(clDevices) <= Len(machine) /\ Len(machine) <= MaxDevices
    /\ pc \in {"args", "validate"} => clDevices = <<>>
    /\ pc = "query" => UsesCl(mode)
    /\ clDevices # <<>> => UsesCl(mode)
    /\ pc \in {"coordinators", "availability", "ready"} =>
         /\ memoryConfig = BuildMemoryConfig(mode, Len(clDevices), limit)
         /\ \A i \in 1..Len(coordinators) : coordinators[i] = Planned(i)

Inv ==
    /\ ArgsInv /\ OptionsInv /\ MachineInv /\ ChunkInv /\ CoordinatorInv /\ PlanInv /\ CountInv

----------------------------------------------------------------------------
LEMMA ArgsInit == Init => ArgsInv
BY StartSound, SetupAssumption DEF Init, SetupInit, ArgsInv

LEMMA ArgsNext == ArgsInv /\ [Next]_vars => ArgsInv'
<1> SUFFICES ASSUME ArgsInv, [Next]_vars PROVE ArgsInv'
  OBVIOUS
<1>1. argv \in Seq(Argument) /\ Sound(parsed) /\ parsed.current \in Nat \ {0}
  BY DEF ArgsInv, Sound, Parsers
<1>2. CASE ParseNext
  <2>1. parsed.current \in 1..Len(argv) /\ argv' = argv
    BY <1>1, <1>2 DEF ParseNext
  <2>2. parsed' = ParseArgument(parsed, argv) \/ parsed' = ConsumeRemaining(parsed, argv)
    BY <1>2 DEF ParseNext
  <2> QED
    BY <1>1, <2>1, <2>2, ParseArgumentSound, RemainingSound DEF ArgsInv
<1>3. CASE ParseDefaults
  BY <1>1, <1>3, DefaultsSound DEF ParseDefaults, ArgsInv
<1>4. CASE Validate
  BY <1>4, StartSound DEF Validate, ArgsInv
<1>5. CASE UNCHANGED args
  BY <1>1, <1>5 DEF args, ArgsInv
<1>6. ParseNext \/ ParseDefaults \/ Validate \/ UNCHANGED args
  BY DEF Next, Step, SetupNext, ProcessArgs, QueryDevice, QueryDone, Construct, OpenFails,
         CompileFails, ConstructClCoordinator, ConstructCpuCoordinator, ResizeAvailability,
         FileRemoved, Main, StartRun, Prepare, OutputDirsFail, RunThrows, RunReturns,
         Classify, Write, Average,
         vars, setupVars
<1> QED
  BY <1>2, <1>3, <1>4, <1>5, <1>6

LEMMA OptionsInit == Init => OptionsInv
<1>1. DefaultMemoryLimit \in DefaultMemoryLimit..MaxMemoryLimit
  BY SetupAssumption
<1> SUFFICES ASSUME Init PROVE OptionsInv
  OBVIOUS
<1>2. /\ pc = "args" /\ mode = "all" /\ limit = DefaultMemoryLimit
      /\ isBenchmark \in BOOLEAN /\ outputGiven \in BOOLEAN /\ nBenchmarkRuns \in Nat
  BY DEF Init, SetupInit
<1>3. pc \in Before /\ mode \in ProcessingModes
  BY <1>2 DEF Before, ProcessingModes
<1> QED
  BY <1>1, <1>2, <1>3 DEF OptionsInv

\* The options that validateArgs lets through.
LEMMA OptionsAccepted ==
    ASSUME ArgsInv, NEW size, ArgsAccepted(size)
    PROVE  /\ ModeOf \in ProcessingModes
           /\ LimitOf \in DefaultMemoryLimit..MaxMemoryLimit
           /\ Number(parsed, "benchmark_runs", 0) \in Nat
<1>1. ModeOf \in ProcessingModes
  BY DEF ModeOf, ModeArgIsDevice, ProcessingModes
<1>2. LimitOf \in Nat
  <2>1. CASE Given("memory_limit")
    <3>1. Numerals[Value(parsed, "memory_limit")] \in Nat
      BY <2>1, OptionFacts, NumberKnown DEF ArgsInv, Given
    <3>2. Numerals[Value(parsed, "memory_limit")] * Megabyte \in Nat
      BY <3>1, SetupAssumption
    <3> QED
      BY <2>1, <3>2, SetupAssumption DEF LimitOf
  <2>2. CASE ~Given("memory_limit")
    BY <2>2, SetupAssumption DEF LimitOf
  <2> QED
    BY <2>1, <2>2
<1>3. LimitOf \in DefaultMemoryLimit..MaxMemoryLimit
  BY <1>2, SetupAssumption DEF ArgsAccepted
<1>4. Number(parsed, "benchmark_runs", 0) \in Nat
  BY OptionFacts, NumberKnown DEF ArgsInv, Number
<1> QED
  BY <1>1, <1>3, <1>4

LEMMA OptionsNext == ArgsInv /\ OptionsInv /\ [Next]_vars => OptionsInv'
<1> SUFFICES ASSUME ArgsInv, OptionsInv, [Next]_vars PROVE OptionsInv'
  OBVIOUS
<1> USE DEF Before, During, Final
<1>1. CASE Validate
  <2>1. CASE ArgsAccepted(file')
    <3>1. /\ mode' = ModeOf /\ limit' = LimitOf
          /\ isBenchmark' = Flag(parsed, "benchmark")
          /\ nBenchmarkRuns' = Number(parsed, "benchmark_runs", 0)
          /\ outputGiven' = Given("output_file")
          /\ pc' \in {"main", "exit", "query"}
      BY <1>1, <2>1 DEF Validate
    <3>2. isBenchmark' \in BOOLEAN /\ outputGiven' \in BOOLEAN
      BY <3>1 DEF Flag, Given
    <3> QED
      BY <2>1, <3>1, <3>2, OptionsAccepted DEF OptionsInv
  <2>2. CASE ~ArgsAccepted(file')
    BY <1>1, <2>2 DEF Validate, OptionsInv, options
  <2> QED
    BY <2>1, <2>2
<1>2. CASE ~Validate
  <2>1. UNCHANGED options
    BY <1>2 DEF Next, Step, SetupNext, ParseNext, ParseDefaults, ProcessArgs, QueryDevice,
         QueryDone, Construct, OpenFails,
         CompileFails, ConstructClCoordinator, ConstructCpuCoordinator, ResizeAvailability,
         FileRemoved, Main, StartRun, Prepare, OutputDirsFail, RunThrows, RunReturns,
         Classify, Write, Average,
         vars, setupVars, config
  <2>2. pc' \in Before \cup During \cup {"write", "average"} \cup Final
    BY <1>2 DEF Next, Step, SetupNext, ParseNext, ParseDefaults, ProcessArgs, QueryDevice,
         QueryDone, Construct, OpenFails,
         CompileFails, ConstructClCoordinator, ConstructCpuCoordinator, ResizeAvailability,
         FileRemoved, Main, StartRun, Prepare, OutputDirsFail, RunThrows, RunReturns,
         Classify, Write, Average,
         vars, setupVars, OptionsInv
  <2> QED
    BY <2>1, <2>2 DEF OptionsInv, options
<1> QED
  BY <1>1, <1>2

LEMMA SeqWider ==
    ASSUME NEW S, NEW T, S \subseteq T, NEW s \in Seq(S)
    PROVE  s \in Seq(T)
OBVIOUS

LEMMA AppendInSeq ==
    ASSUME NEW S, NEW s \in Seq(S), NEW m \in S
    PROVE  Append(s, m) \in Seq(S)
OBVIOUS

LEMMA MachineInit == Init => MachineInv
BY DEF Init, SetupInit, MachineInv, During

LEMMA MachineNext == OptionsInv /\ MachineInv /\ [Next]_vars => MachineInv'
<1> SUFFICES ASSUME OptionsInv, MachineInv, [Next]_vars PROVE MachineInv'
  OBVIOUS
<1> USE DEF During
<1>1. CASE QueryDevice
  <2>1. PICK device \in Devices :
          /\ machine' = Append(machine, device)
          /\ clDevices' = IF Chosen(device) THEN Append(clDevices, Len(machine')) ELSE clDevices
    BY <1>1 DEF QueryDevice
  <2>2. machine' \in Seq(Devices) /\ Len(machine') = Len(machine) + 1 /\ Len(machine) \in Nat
    BY <2>1 DEF MachineInv
  <2>3. clDevices \in Seq(1..Len(machine'))
    <3>1. 1..Len(machine) \subseteq 1..Len(machine')
      BY <2>2
    <3>2. clDevices \in Seq(1..Len(machine))
      BY DEF MachineInv
    <3> QED
      BY ONLY <3>1, <3>2, SeqWider
  <2>4. clDevices' \in Seq(1..Len(machine'))
    <3>1. Len(machine') \in 1..Len(machine')
      BY <2>2
    <3>2. Append(clDevices, Len(machine')) \in Seq(1..Len(machine'))
      BY ONLY <2>3, <3>1, AppendInSeq
    <3> QED
      BY <2>1, <2>3, <3>2
  <2>5. pc' = "query"
    BY <1>1 DEF QueryDevice
  <2> QED
    BY <2>2, <2>4, <2>5 DEF MachineInv
<1>2. CASE QueryDone
  <2>1. clDevices # <<>> => Len(clDevices) > 0
    BY DEF MachineInv
  <2> QED
    BY <1>2, <2>1 DEF QueryDone, MachineInv, config, options, found
<1>3. CASE Validate
  <2>1. pc' = "main" => mode' # "opencl_devices"
    BY <1>3 DEF Validate, UsesCl
  <2>2. pc' \in {"main", "exit", "query"} /\ UNCHANGED found
    BY <1>3 DEF Validate
  <2> QED
    BY <2>1, <2>2 DEF MachineInv, found
<1>4. CASE ~QueryDevice /\ ~QueryDone /\ ~Validate
  <2>1. UNCHANGED found /\ UNCHANGED mode
    BY <1>4 DEF Next, Step, SetupNext, ParseNext, ParseDefaults, ProcessArgs,
         Construct, OpenFails,
         CompileFails, ConstructClCoordinator, ConstructCpuCoordinator, ResizeAvailability,
         FileRemoved, Main, StartRun, Prepare, OutputDirsFail, RunThrows, RunReturns,
         Classify, Write, Average,
         vars, setupVars, config, options
  <2>2. pc' \in During \cup {"main", "loop", "construct"}
          => pc \in During \cup {"main", "loop", "construct"}
    BY <1>4 DEF Next, Step, SetupNext, ParseNext, ParseDefaults, ProcessArgs,
         Construct, OpenFails,
         CompileFails, ConstructClCoordinator, ConstructCpuCoordinator, ResizeAvailability,
         FileRemoved, Main, StartRun, Prepare, OutputDirsFail, RunThrows, RunReturns,
         Classify, Write, Average,
         vars, setupVars
  <2> QED
    BY <2>1, <2>2 DEF MachineInv, found
<1> QED
  BY <1>1, <1>2, <1>3, <1>4

LEMMA SizeFacts ==
    /\ DefaultChunkSize \in Nat \ {0}
    /\ FileSizes \subseteq Nat
    /\ AccumulatorBytes \in Nat \ {0}
    /\ \A s : ChunkSizeFor(s) \in {1, DefaultChunkSize}
BY SetupAssumption, AccumulatorAssumption DEF ChunkSizeFor

\* A file that has a byte has a chunk.
LEMMA EmptyFile ==
    ASSUME NEW size \in FileSizes, size \div ChunkSizeFor(size) = 0
    PROVE  size = 0
<1>1. size \in Nat /\ DefaultChunkSize \in Nat \ {0}
  BY SizeFacts
<1>2. CASE ChunkSizeFor(size) = 1
  <2>1. size \div 1 = size
    BY <1>1
  <2> QED
    BY <1>2, <2>1
<1>3. CASE ChunkSizeFor(size) # 1
  <2>1. ChunkSizeFor(size) = DefaultChunkSize /\ ~(size < DefaultChunkSize)
    BY <1>3 DEF ChunkSizeFor
  <2>2. size \div DefaultChunkSize # 0
    BY <1>1, <2>1, Z3
  <2> QED
    BY <2>1, <2>2
<1> QED
  BY <1>2, <1>3

LEMMA ChunkInit == Init => ChunkInv
BY DEF Init, SetupInit, NoScheduler, ChunkInv, During

LEMMA ChunkNext == ChunkInv /\ [Next]_vars => ChunkInv'
<1> SUFFICES ASSUME ChunkInv, [Next]_vars PROVE ChunkInv'
  OBVIOUS
<1> USE DEF During
<1>1. CASE Validate
  BY <1>1 DEF Validate, ChunkInv, scheduler
<1>2. CASE Construct
  <2>1. CASE file = NoFile
    BY <1>2, <2>1 DEF Construct, ChunkInv, scheduler, args
  <2>2. CASE file # NoFile
    <3>1. /\ chunkSizeBytes' = ChunkSizeFor(file) /\ chunkCount' = file \div chunkSizeBytes'
          /\ pc' = "coordinators" /\ file' = file /\ file \in FileSizes
      BY <1>2, <2>2 DEF Construct, ChunkInv
    <3>2. ChunkSizeFor(file) \in {1, DefaultChunkSize} /\ ChunkSizeFor(file) \in Nat \ {0}
      BY SizeFacts
    <3>3. file \in Nat
      BY <3>1, SizeFacts
    <3>4. chunkCount' \in Nat
      BY <3>1, <3>2, <3>3
    <3> QED
      BY <3>1, <3>2, <3>4 DEF ChunkInv
  <2> QED
    BY <2>1, <2>2
<1>3. CASE Classify
  <2>1. pc' \in {"loop", "write", "success"} /\ file' = file
    BY <1>3 DEF Classify
  <2>2. /\ chunkSizeBytes' \in {1, DefaultChunkSize}
        /\ chunkCount' \in Nat
    BY <1>3 DEF Classify, DestroyScheduler, NoScheduler, ChunkInv, scheduler
  <2> QED
    BY <2>1, <2>2 DEF ChunkInv
<1>4. CASE FileRemoved
  BY <1>4 DEF FileRemoved, ChunkInv, scheduler
<1>5. CASE RunReturns
  <2>1. pc' = "crashed" => file = 0
    <3>1. ASSUME pc' = "crashed" PROVE file = 0
      <4>1. chunkCount = 0 /\ file \in FileSizes /\ chunkCount = file \div ChunkSizeFor(file)
        BY <1>5, <3>1 DEF RunReturns, ChunkInv
      <4> QED
        BY <4>1, EmptyFile
    <3> QED
      BY <3>1
  <2>2. pc' \in {"crashed", "classify"} /\ UNCHANGED <<file, chunkSizeBytes, chunkCount>>
    BY <1>5 DEF RunReturns, scheduler
  <2> QED
    BY <1>5, <2>1, <2>2 DEF RunReturns, ChunkInv
<1>6. CASE ~Validate /\ ~Construct /\ ~Classify /\ ~FileRemoved /\ ~RunReturns
  <2>1. UNCHANGED <<file, chunkSizeBytes, chunkCount>>
    BY <1>6 DEF Next, Step, SetupNext, ParseNext, ParseDefaults, ProcessArgs, QueryDevice,
         QueryDone, OpenFails,
         CompileFails, ConstructClCoordinator, ConstructCpuCoordinator, ResizeAvailability,
         Main, StartRun, Prepare, OutputDirsFail, RunThrows, Write, Average, vars, setupVars,
         scheduler
  <2>2. /\ pc' \in During => pc \in During /\ (pc' = pc \/ file # NoFile \/ pc # "coordinators")
        /\ pc' = "crashed" => pc = "crashed"
    BY <1>6 DEF Next, Step, SetupNext, ParseNext, ParseDefaults, ProcessArgs, QueryDevice,
         QueryDone, OpenFails,
         CompileFails, ConstructClCoordinator, ConstructCpuCoordinator, ResizeAvailability,
         Main, StartRun, Prepare, OutputDirsFail, RunThrows, Write, Average, vars, setupVars
  <2> QED
    BY <2>1, <2>2 DEF ChunkInv
<1> QED
  BY <1>1, <1>2, <1>3, <1>4, <1>5, <1>6

----------------------------------------------------------------------------
LEMMA MemoryType ==
    ASSUME NEW m \in ProcessingModes, NEW n \in Nat, NEW l \in Nat, m = "opencl_devices" => n > 0
    PROVE  BuildMemoryConfig(m, n, l) \in [maxCpuBuffer : Nat, maxClHostBuffer : Nat]
<1> DEFINE buffers == BufferMemory(m, n, l)
           cpu     == CpuBuffer(m, n, l)
<1>1. buffers \in Nat
  BY BufferMemoryInLimit
<1>2. CASE CpuOnly(m, n)
  BY <1>1, <1>2 DEF CpuBuffer, ClHostBuffer, BuildMemoryConfig
<1>3. CASE ~CpuOnly(m, n)
  <2>1. n \in Nat \ {0}
    BY <1>3 DEF CpuOnly, UsesCl, ProcessingModes
  <2>2. cpu \in 0..buffers
    BY <1>1, <1>3 DEF CpuBuffer, CpuMemoryRatio
  <2>3. buffers - cpu \in Nat
    BY <1>1, <2>2
  <2>4. (buffers - cpu) \div n \in Nat
    BY <2>1, <2>3
  <2>5. ((buffers - cpu) \div n) \div 2 \in Nat
    BY <2>4
  <2> QED
    BY <1>3, <2>2, <2>5 DEF ClHostBuffer, BuildMemoryConfig
<1> QED
  BY <1>2, <1>3

LEMMA ClCoordinatorType ==
    ASSUME NEW device \in Devices, NEW id \in Nat,
           chunkSizeBytes \in Nat \ {0},
           memoryConfig \in [maxCpuBuffer : Nat, maxClHostBuffer : Nat]
    PROVE  ClCoordinator(id, device) \in Coordinators
<1>1. AccumulatorBytes \div chunkSizeBytes \in Nat /\ memoryConfig.maxClHostBuffer \in Nat
  BY SizeFacts
<1>2. device.preferredGroup \in Nat /\ device.maxGroup \in Nat /\ device.maxAlloc \in Nat
  BY SetupAssumption
<1>3. WorkGroupSize(device) \in Nat
  BY <1>2 DEF WorkGroupSize
<1>4. WorkGroupSize(device) * (AccumulatorBytes \div chunkSizeBytes) \in Nat
  BY <1>1, <1>3
<1>5. HostChunks(device) \in Nat
  <2>1. memoryConfig.maxClHostBuffer \div chunkSizeBytes \in Nat
    BY <1>1
  <2>2. (device.maxAlloc * 9) \div 10 \in Nat
    BY <1>2
  <2>3. ((device.maxAlloc * 9) \div 10) \div chunkSizeBytes \in Nat
    BY <2>2
  <2> QED
    BY <2>1, <2>3 DEF HostChunks
<1> QED
  BY <1>4, <1>5 DEF ClCoordinator, Coordinators

LEMMA CpuCoordinatorType ==
    ASSUME NEW id \in Nat, chunkSizeBytes \in Nat \ {0},
           memoryConfig \in [maxCpuBuffer : Nat, maxClHostBuffer : Nat]
    PROVE  CpuCoordinator(id) \in Coordinators
<1>1. AccumulatorBytes \in Nat \ {0} /\ memoryConfig.maxCpuBuffer \in Nat
  BY SizeFacts
<1>2. memoryConfig.maxCpuBuffer \div AccumulatorBytes \in Nat
  BY <1>1
<1>3. (memoryConfig.maxCpuBuffer \div AccumulatorBytes) * AccumulatorBytes \in Nat
  BY <1>1, <1>2
<1>4. CpuChunks \in Nat
  BY <1>3 DEF CpuChunks
<1> QED
  BY <1>4 DEF CpuCoordinator, Coordinators

LEMMA CoordinatorInit == Init => CoordinatorInv
BY DEF Init, SetupInit, NoScheduler, CoordinatorInv

LEMMA CoordinatorNext ==
    OptionsInv /\ MachineInv /\ ChunkInv /\ CoordinatorInv /\ [Next]_vars => CoordinatorInv'
<1> SUFFICES ASSUME OptionsInv, MachineInv, ChunkInv, CoordinatorInv, [Next]_vars
             PROVE  CoordinatorInv'
  OBVIOUS
<1> USE DEF Before
<1>1. /\ mode \in ProcessingModes /\ limit \in Nat /\ Len(clDevices) \in Nat
      /\ Len(coordinators) \in Nat /\ chunkSizeBytes \in Nat \ {0}
  BY SetupAssumption, SizeFacts DEF OptionsInv, MachineInv, ChunkInv, CoordinatorInv
<1>2. CASE Construct
  <2>1. CASE file = NoFile
    BY <1>2, <2>1 DEF Construct, CoordinatorInv, scheduler
  <2>2. CASE file # NoFile
    <3>1. mode = "opencl_devices" => Len(clDevices) > 0
      BY <1>2 DEF Construct, MachineInv
    <3>2. memoryConfig' \in [maxCpuBuffer : Nat, maxClHostBuffer : Nat]
      BY <1>1, <1>2, <2>2, <3>1, MemoryType DEF Construct
    <3>3. pc' = "coordinators" /\ coordinators' = <<>> /\ nAvailability' \in Nat
      BY <1>2, <2>2 DEF Construct, CoordinatorInv
    <3>4. Len(clDevices') \in Nat
      BY <1>1, <1>2 DEF Construct, config, found
    <3>5. coordinators' \in Seq(Coordinators) /\ Len(coordinators') = 0
      BY <3>3
    <3> QED
      BY <3>2, <3>3, <3>4, <3>5 DEF CoordinatorInv
  <2> QED
    BY <2>1, <2>2
<1>3. ASSUME NEW c \in Coordinators, c.id = Len(coordinators),
             coordinators' = Append(coordinators, c)
      PROVE  /\ coordinators' \in Seq(Coordinators)
             /\ Len(coordinators') = Len(coordinators) + 1
             /\ \A i \in 1..Len(coordinators') : coordinators'[i].id = i - 1
             /\ \A i \in 1..Len(coordinators) : coordinators'[i] = coordinators[i]
             /\ coordinators'[Len(coordinators')] = c
  <2>1. coordinators \in Seq(Coordinators)
    BY DEF CoordinatorInv
  <2>2. Len(coordinators') = Len(coordinators) + 1
    BY <1>3, <2>1
  <2>3. \A i \in 1..Len(coordinators) : coordinators'[i] = coordinators[i]
    BY <1>3, <2>1
  <2>4. coordinators'[Len(coordinators')] = c
    BY <1>3, <2>1
  <2>5. ASSUME NEW i \in 1..Len(coordinators') PROVE coordinators'[i].id = i - 1
    <3>1. CASE i \in 1..Len(coordinators)
      BY <2>3, <3>1 DEF CoordinatorInv
    <3>2. CASE i = Len(coordinators')
      BY <1>1, <1>3, <2>2, <2>4, <3>2
    <3> QED
      BY <1>1, <2>2, <3>1, <3>2
  <2>6. coordinators' \in Seq(Coordinators)
    BY <1>3, <2>1
  <2> QED
    BY <2>2, <2>3, <2>4, <2>5, <2>6
<1>4. CASE ConstructClCoordinator
  <2> DEFINE id == Len(coordinators)
             c  == ClCoordinator(id, machine[clDevices[id + 1]])
  <2>1. /\ pc = "coordinators" /\ pc' = "coordinators" /\ id < Len(clDevices)
        /\ coordinators' = Append(coordinators, c)
        /\ UNCHANGED <<memoryConfig, nAvailability, mode, clDevices>>
    BY <1>4 DEF ConstructClCoordinator, config, options, found
  <2>2. clDevices[id + 1] \in 1..Len(machine)
    BY <1>1, <2>1 DEF MachineInv
  <2>3. machine[clDevices[id + 1]] \in Devices
    BY <2>2 DEF MachineInv
  <2>4. c \in Coordinators
    BY <1>1, <2>3, ClCoordinatorType DEF CoordinatorInv
  <2>5. c.id = id /\ c.hasThread = TRUE
    BY DEF ClCoordinator
  <2> HIDE DEF c
  <2>6. /\ coordinators' \in Seq(Coordinators)
        /\ Len(coordinators') = id + 1
        /\ \A i \in 1..Len(coordinators') : coordinators'[i].id = i - 1
        /\ \A i \in 1..id : coordinators'[i] = coordinators[i]
        /\ coordinators'[Len(coordinators')] = c
    BY <1>3, <2>1, <2>4, <2>5
  <2>7. ASSUME NEW i \in 1..Len(coordinators')
        PROVE  coordinators'[i].hasThread <=> i <= Len(clDevices) \/ mode # "opencl_devices"
    <3>1. CASE i \in 1..id
      BY <2>1, <2>6, <3>1 DEF CoordinatorInv
    <3>2. CASE i = id + 1
      BY <1>1, <2>1, <2>5, <2>6, <3>2
    <3> QED
      BY <1>1, <2>6, <3>1, <3>2
  <2> QED
    BY <1>1, <2>1, <2>6, <2>7 DEF CoordinatorInv
<1>5. CASE ConstructCpuCoordinator
  <2> DEFINE id == Len(coordinators)
             c  == CpuCoordinator(id)
  <2>1. /\ pc = "coordinators" /\ pc' = "availability" /\ id = Len(clDevices)
        /\ coordinators' = Append(coordinators, c)
        /\ UNCHANGED <<memoryConfig, nAvailability, mode, clDevices>>
    BY <1>5 DEF ConstructCpuCoordinator, config, options, found
  <2>2. c \in Coordinators /\ c.id = id
    BY <1>1, CpuCoordinatorType DEF CoordinatorInv, CpuCoordinator
  <2>3. c.hasThread <=> mode # "opencl_devices"
    BY DEF CpuCoordinator
  <2> HIDE DEF c
  <2>4. /\ coordinators' \in Seq(Coordinators)
        /\ Len(coordinators') = id + 1
        /\ \A i \in 1..Len(coordinators') : coordinators'[i].id = i - 1
        /\ \A i \in 1..id : coordinators'[i] = coordinators[i]
        /\ coordinators'[Len(coordinators')] = c
    BY <1>3, <2>1, <2>2
  <2>5. ASSUME NEW i \in 1..Len(coordinators')
        PROVE  coordinators'[i].hasThread <=> i <= Len(clDevices) \/ mode # "opencl_devices"
    <3>1. CASE i \in 1..id
      BY <2>1, <2>4, <3>1 DEF CoordinatorInv
    <3>2. CASE i = id + 1
      BY <1>1, <2>1, <2>3, <2>4, <3>2
    <3> QED
      BY <1>1, <2>4, <3>1, <3>2
  <2> QED
    BY <1>1, <2>1, <2>4, <2>5 DEF CoordinatorInv
<1>6. CASE ResizeAvailability
  <2>1. /\ pc = "availability" /\ pc' = "ready"
        /\ nAvailability' = IF mode = "opencl_devices" THEN Len(clDevices)
                                                       ELSE Len(clDevices) + 1
        /\ UNCHANGED <<memoryConfig, coordinators, mode, clDevices>>
    BY <1>6 DEF ResizeAvailability, config, options, found
  <2>2. nAvailability' \in Nat
    BY <1>1, <2>1
  <2> QED
    BY <2>1, <2>2 DEF CoordinatorInv
<1>7. CASE Classify
  <2>1. pc' \in {"loop", "write", "success"} /\ (pc' = "loop" => DestroyScheduler)
    BY <1>7 DEF Classify, OptionsInv
  <2>2. CASE DestroyScheduler
    <3>1. coordinators' = <<>> /\ nAvailability' = 0
          /\ memoryConfig' = [maxCpuBuffer |-> 0, maxClHostBuffer |-> 0]
      BY <2>2 DEF DestroyScheduler, NoScheduler
    <3> QED
      BY <2>1, <3>1 DEF CoordinatorInv
  <2>3. CASE ~DestroyScheduler
    <3>1. UNCHANGED scheduler
      BY <1>7, <2>3 DEF Classify
    <3> QED
      BY <2>1, <2>3, <3>1 DEF CoordinatorInv, scheduler
  <2> QED
    BY <2>2, <2>3
<1>8. CASE /\ ~Construct /\ ~ConstructClCoordinator /\ ~ConstructCpuCoordinator
           /\ ~ResizeAvailability /\ ~Classify
  <2>1. UNCHANGED <<memoryConfig, coordinators, nAvailability>>
    BY <1>8 DEF Next, Step, SetupNext, ParseNext, ParseDefaults, ProcessArgs, Validate,
         QueryDevice, QueryDone, OpenFails, CompileFails, FileRemoved,
         Main, StartRun, Prepare, OutputDirsFail, RunThrows, RunReturns, Write, Average, vars,
         setupVars, scheduler
  <2>2. /\ pc' \in Before => pc \in Before
        /\ pc' \in {"coordinators", "availability", "ready"} =>
             pc' = pc /\ mode' = mode /\ clDevices' = clDevices
    BY <1>8 DEF Next, Step, SetupNext, ParseNext, ParseDefaults, ProcessArgs, Validate,
         QueryDevice, QueryDone, OpenFails, CompileFails, FileRemoved,
         Main, StartRun, Prepare, OutputDirsFail, RunThrows, RunReturns, Write, Average, vars,
         setupVars, config,
         options, found
  <2> QED
    BY <2>1, <2>2 DEF CoordinatorInv
<1> QED
  BY <1>2, <1>4, <1>5, <1>6, <1>7, <1>8

----------------------------------------------------------------------------
LEMMA PlanInit == Init => PlanInv
<1>1. 0 <= MaxDevices
  BY SetupAssumption
<1> QED
  BY <1>1 DEF Init, SetupInit, PlanInv

LEMMA PlanNext ==
    OptionsInv /\ MachineInv /\ CoordinatorInv /\ PlanInv /\ [Next]_vars => PlanInv'
<1> SUFFICES ASSUME OptionsInv, MachineInv, CoordinatorInv, PlanInv, [Next]_vars PROVE PlanInv'
  OBVIOUS
<1>1. Len(clDevices) \in Nat /\ Len(machine) \in Nat /\ Len(coordinators) \in Nat
      /\ MaxDevices \in Nat
  BY SetupAssumption DEF MachineInv, CoordinatorInv
<1>2. ASSUME UNCHANGED <<config, chunkSizeBytes, memoryConfig>>, NEW i
      PROVE  Planned(i)' = Planned(i)
  BY <1>2 DEF config, options, found, Planned, ClCoordinator, CpuCoordinator, CpuChunks,
       HostChunks, WorkGroupSize
<1>3. CASE Validate
  <2>1. /\ UNCHANGED found /\ clDevices = <<>> /\ pc' \in {"main", "query", "exit"}
        /\ pc' = "query" => UsesCl(mode')
    BY <1>3 DEF Validate, PlanInv, found
  <2> QED
    BY <1>1, <2>1 DEF PlanInv, found
<1>4. CASE QueryDevice
  <2>1. PICK device \in Devices :
          /\ machine' = Append(machine, device)
          /\ clDevices' = IF Chosen(device) THEN Append(clDevices, Len(machine')) ELSE clDevices
    BY <1>4 DEF QueryDevice
  <2>2. pc = "query" /\ pc' = "query" /\ mode' = mode /\ Len(machine) < MaxDevices
    BY <1>4 DEF QueryDevice, options
  <2>3. Len(machine') = Len(machine) + 1
    BY <2>1 DEF MachineInv
  <2>4. Len(clDevices') <= Len(clDevices) + 1
    BY <1>1, <2>1 DEF MachineInv
  <2>5. Len(clDevices') \in Nat
    BY <2>1 DEF MachineInv
  <2> QED
    BY <1>1, <2>2, <2>3, <2>4, <2>5 DEF PlanInv
<1>5. CASE Construct
  <2>1. pc' \in {"terminated", "coordinators"} /\ UNCHANGED config
    BY <1>5 DEF Construct
  <2>2. CASE pc' = "coordinators"
    <3>1. /\ memoryConfig' = BuildMemoryConfig(mode, Len(clDevices), limit)
          /\ coordinators' = <<>>
      BY <1>5, <2>2 DEF Construct, CoordinatorInv, Before
    <3>2. 1..Len(coordinators') = {}
      BY <3>1
    <3> QED
      BY <1>1, <2>1, <2>2, <3>1, <3>2 DEF PlanInv, config, options, found
  <2> QED
    BY <2>1, <2>2 DEF PlanInv, config, options, found
<1>6. ASSUME pc = "coordinators", NEW c, coordinators' = Append(coordinators, c),
             UNCHANGED <<config, chunkSizeBytes, memoryConfig>>,
             pc' \in {"coordinators", "availability"},
             c = Planned(Len(coordinators) + 1)
      PROVE  PlanInv'
  <2>1. coordinators \in Seq(Coordinators)
    BY DEF CoordinatorInv
  <2>2. Len(coordinators') = Len(coordinators) + 1
    BY <1>6, <2>1
  <2>3. ASSUME NEW i \in 1..Len(coordinators') PROVE coordinators'[i] = Planned(i)'
    <3>1. Planned(i)' = Planned(i)
      BY <1>2, <1>6
    <3>2. CASE i \in 1..Len(coordinators)
      <4>1. coordinators'[i] = coordinators[i]
        BY <1>6, <2>1, <3>2
      <4> QED
        BY <1>6, <3>1, <3>2, <4>1 DEF PlanInv
    <3>3. CASE i = Len(coordinators) + 1
      <4>1. coordinators'[i] = c
        BY <1>6, <2>1, <3>3
      <4> QED
        BY <1>6, <3>1, <3>3, <4>1
    <3> QED
      BY <1>1, <2>2, <3>2, <3>3
  <2>4. memoryConfig' = BuildMemoryConfig(mode', Len(clDevices'), limit')
    BY <1>6 DEF PlanInv, config, options, found
  <2> QED
    BY <1>1, <1>6, <2>3, <2>4 DEF PlanInv, config, options, found
<1>7. CASE ConstructClCoordinator
  <2> DEFINE c == ClCoordinator(Len(coordinators), machine[clDevices[Len(coordinators) + 1]])
  <2>1. /\ pc = "coordinators" /\ pc' = "coordinators" /\ coordinators' = Append(coordinators, c)
        /\ UNCHANGED <<config, chunkSizeBytes, memoryConfig>>
        /\ Len(coordinators) < Len(clDevices)
    BY <1>7 DEF ConstructClCoordinator
  <2>2. Planned(Len(coordinators) + 1)
          = ClCoordinator((Len(coordinators) + 1) - 1, machine[clDevices[Len(coordinators) + 1]])
    BY <1>1, <2>1 DEF Planned
  <2>3. (Len(coordinators) + 1) - 1 = Len(coordinators)
    BY <1>1
  <2>4. c = Planned(Len(coordinators) + 1)
    BY <2>2, <2>3
  <2> HIDE DEF c
  <2> QED
    BY <1>6, <2>1, <2>4
<1>8. CASE ConstructCpuCoordinator
  <2> DEFINE c == CpuCoordinator(Len(coordinators))
  <2>1. /\ pc = "coordinators" /\ pc' = "availability"
        /\ coordinators' = Append(coordinators, c)
        /\ UNCHANGED <<config, chunkSizeBytes, memoryConfig>>
        /\ Len(coordinators) = Len(clDevices)
    BY <1>8 DEF ConstructCpuCoordinator
  <2>2. Planned(Len(coordinators) + 1) = CpuCoordinator((Len(coordinators) + 1) - 1)
    BY <1>1, <2>1 DEF Planned
  <2>3. (Len(coordinators) + 1) - 1 = Len(coordinators)
    BY <1>1
  <2>4. c = Planned(Len(coordinators) + 1)
    BY <2>2, <2>3
  <2> HIDE DEF c
  <2> QED
    BY <1>6, <2>1, <2>4
<1>9. CASE ResizeAvailability
  <2>1. /\ pc = "availability" /\ pc' = "ready"
        /\ UNCHANGED <<config, chunkSizeBytes, memoryConfig, coordinators>>
    BY <1>9 DEF ResizeAvailability
  <2> QED
    BY <1>2, <2>1 DEF PlanInv, config, options, found
<1>10. CASE /\ ~Validate /\ ~QueryDevice /\ ~Construct /\ ~ConstructClCoordinator
            /\ ~ConstructCpuCoordinator /\ ~ResizeAvailability
  <2>1. UNCHANGED <<clDevices, machine, mode, limit>>
    BY <1>10 DEF Next, Step, SetupNext, ParseNext, ParseDefaults, ProcessArgs,
         QueryDone, OpenFails, CompileFails, FileRemoved,
         Main, StartRun, Prepare, OutputDirsFail, RunThrows, RunReturns,
         Classify, Write, Average, vars,
         setupVars, config, options, found
  <2>2. /\ pc' \in {"args", "validate"} => pc \in {"args", "validate"}
        /\ pc' = "query" => pc = "query"
        /\ pc' \in {"coordinators", "availability", "ready"} =>
              pc' = pc /\ UNCHANGED <<config, chunkSizeBytes, memoryConfig, coordinators>>
    BY <1>10 DEF Next, Step, SetupNext, ParseNext, ParseDefaults, ProcessArgs,
         QueryDone, OpenFails, CompileFails, FileRemoved,
         Main, StartRun, Prepare, OutputDirsFail, RunThrows, RunReturns,
         Classify, Write, Average, vars,
         setupVars, scheduler
  <2> QED
    BY <1>2, <2>1, <2>2 DEF PlanInv
<1> QED
  BY <1>3, <1>4, <1>5, <1>7, <1>8, <1>9, <1>10

----------------------------------------------------------------------------
LEMMA RunsToMake == OptionsInv => getNRuns \in 1..(MAX_RUNS + DEFAULT_RUNS)
BY ProgramAssumption DEF OptionsInv, getNRuns

LEMMA CountInit == Init => CountInv
<1> SUFFICES ASSUME Init PROVE CountInv
  OBVIOUS
<1>1. pc = "args" /\ nRuns = 1 /\ printed = 0 /\ written \in BOOLEAN
  BY DEF Init, SetupInit
<1>2. 1 \in 1..(MAX_RUNS + DEFAULT_RUNS)
  BY ProgramAssumption
<1> QED
  BY <1>1, <1>2 DEF CountInv, During

LEMMA CountNext == ArgsInv /\ OptionsInv /\ CountInv /\ [Next]_vars => CountInv'
<1> SUFFICES ASSUME ArgsInv, OptionsInv, CountInv, [Next]_vars
             PROVE  CountInv'
  OBVIOUS
<1> USE DEF During
<1>1. nRuns \in Nat /\ printed \in Nat
  BY ProgramAssumption DEF CountInv
<1>2. CASE Main
  BY <1>2, RunsToMake DEF Main, CountInv, OptionsInv, config, options
<1>3. CASE Classify
  <2>1. CASE isBenchmark
    BY <1>1, <1>3, <2>1 DEF Classify, CountInv, config, options
  <2>2. CASE ~isBenchmark
    BY <1>1, <1>3, <2>2 DEF Classify, CountInv
  <2> QED
    BY <2>1, <2>2
<1>4. CASE StartRun
  <2>1. /\ pc = "loop" /\ pc' = IF printed < nRuns THEN "construct" ELSE "average"
        /\ UNCHANGED <<nRuns, printed, written, isBenchmark>>
    BY <1>4 DEF StartRun, progress, config, options
  <2>2. isBenchmark
    BY <2>1 DEF CountInv
  <2> QED
    BY <1>1, <2>1, <2>2 DEF CountInv
<1>5. CASE Write \/ Average
  <2>1. pc \in {"write", "average"} /\ pc' = "success" /\ UNCHANGED <<nRuns, printed>>
    BY <1>5 DEF Write, Average
  <2>2. WriteOutput \/ UNCHANGED written
    BY <1>5 DEF Write, Average
  <2>3. ASSUME WriteOutput PROVE written' \in BOOLEAN
    <3>1. written' = ("outputDir" \in directories)
      BY <2>3 DEF WriteOutput
    <3> QED
      BY ONLY <3>1
  <2>4. written' \in BOOLEAN
    BY <2>2, <2>3 DEF CountInv
  <2> QED
    BY <2>1, <2>4 DEF CountInv
<1>6. CASE ProcessArgs
  <2>1. pc' = "success" => Given("help") \/ Given("list_cl_devices")
    BY <1>6 DEF ProcessArgs
  <2>2. Count(parsed, "help") \in Nat /\ Count(parsed, "list_cl_devices") \in Nat
    BY OptionFacts DEF ArgsInv, Sound, Parsers, Count
  <2>3. pc' = "success" => Informative
    BY <2>1, <2>2 DEF Given, Informative
  <2>4. Informative' <=> Informative
    BY <1>6 DEF ProcessArgs, args, Informative, Count
  <2>5. /\ pc' \in {"exit", "success", "validate"} /\ pc = "args"
        /\ UNCHANGED <<nRuns, printed, written>>
    BY <1>6 DEF ProcessArgs, Next, Step, progress, FileRemoved, Main, StartRun, Prepare,
         OutputDirsFail, RunThrows, RunReturns, Classify, Write, Average, vars
  <2> QED
    BY <2>3, <2>4, <2>5 DEF CountInv
<1>7. CASE Validate
  <2>1. /\ pc' \in {"main", "exit", "query"} /\ pc = "validate"
        /\ UNCHANGED <<nRuns, printed, written>>
    BY <1>7 DEF Validate, Next, Step, progress, FileRemoved, Main, StartRun, Prepare,
         OutputDirsFail, RunThrows, RunReturns, Classify, Write, Average, vars
  <2> QED
    BY <2>1 DEF CountInv
<1>8. CASE ~Main /\ ~Classify /\ ~StartRun /\ ~Write /\ ~Average /\ ~ProcessArgs /\ ~Validate
  <2>1. UNCHANGED <<nRuns, printed, written, isBenchmark>>
    BY <1>8 DEF Next, Step, SetupNext, ParseNext, ParseDefaults,
         QueryDevice, QueryDone, Construct, OpenFails, CompileFails, ConstructClCoordinator,
         ConstructCpuCoordinator, ResizeAvailability, FileRemoved,
         Prepare, OutputDirsFail, RunThrows, RunReturns, vars, setupVars, progress, config, options
  <2>2. /\ pc' \in {"args", "validate", "query", "main"} =>
              pc \in {"args", "validate", "query", "main"}
        /\ pc' \in During \cup {"construct"} => pc \in During \cup {"construct"}
        /\ pc' \in {"loop", "write", "average", "success"} => pc' = pc
        /\ pc = "success" => UNCHANGED parsed
    BY <1>8 DEF Next, Step, SetupNext, ParseNext, ParseDefaults,
         QueryDevice, QueryDone, Construct, OpenFails, CompileFails, ConstructClCoordinator,
         ConstructCpuCoordinator, ResizeAvailability, FileRemoved,
         Prepare, OutputDirsFail, RunThrows, RunReturns, vars, setupVars, args
  <2>3. UNCHANGED parsed => (Informative' <=> Informative)
    BY DEF Informative, Count
  <2> QED
    BY <2>1, <2>2, <2>3 DEF CountInv
<1> QED
  BY <1>2, <1>3, <1>4, <1>5, <1>6, <1>7, <1>8

----------------------------------------------------------------------------
LEMMA Invariance == Spec => []Inv
<1>1. Init => Inv
  BY ArgsInit, OptionsInit, MachineInit, ChunkInit, CoordinatorInit, PlanInit, CountInit DEF Inv
<1>2. Inv /\ [Next]_vars => Inv'
  BY ArgsNext, OptionsNext, MachineNext, ChunkNext, CoordinatorNext, PlanNext, CountNext DEF Inv
<1> QED
  BY <1>1, <1>2, PTL DEF Spec

\* The variables keep their types for any command line, file and machine: in
\* particular a number of runs comes from a text the parser could convert
\* (OptionParser::parse, validateArgs and JobScheduler's constructor).
THEOREM TypeCorrect == Spec => []TypeOK
<1>1. Inv => TypeOK
  <2> SUFFICES ASSUME Inv PROVE TypeOK
    OBVIOUS
  <2>1. file \in Nat \cup {NoFile}
    BY SizeFacts DEF Inv, ChunkInv
  <2>2. \A i \in 1..Len(coordinators) : coordinators[i] \in Coordinators
    BY DEF Inv, CoordinatorInv
  <2>3. SetupTypeOK
    BY <2>1, <2>2 DEF Inv, OptionsInv, MachineInv, ChunkInv, CoordinatorInv, Coordinators,
         SetupTypeOK
  <2> QED
    BY <2>3 DEF Inv, OptionsInv, CountInv, TypeOK, Before, During
<1> QED
  BY <1>1, Invariance, PTL

\* No argument of any command line is dropped without an exception
\* (OptionParser::consume_positional with the positional options of
\* ArgParser.cpp, the last of which is a container).
THEOREM ParserTakesAll == Spec => []NothingIgnored
<1>1. Inv => NothingIgnored
  BY DEF Inv, ArgsInv, Sound, Parsers, NothingIgnored
<1> QED
  BY <1>1, Invariance, PTL

\* In every mode and with any number of devices, coordinatorAvailability has
\* exactly the places of the coordinators that have a thread (the constructor
\* of JobScheduler).
THEOREM AvailabilityCorrect == Spec => []AvailabilityMatchesThreads
<1> SUFFICES ASSUME Inv, pc = "ready"
             PROVE  /\ {coordinators[i].id : i \in Working} = 0..(nAvailability - 1)
                    /\ \A i \in 1..Len(coordinators) : coordinators[i].id = i - 1
  BY Invariance, PTL DEF AvailabilityMatchesThreads
<1> DEFINE n == Len(clDevices)
<1>1. n \in Nat
  BY DEF Inv, MachineInv
<1>2. /\ Len(coordinators) = n + 1
      /\ \A i \in 1..(n + 1) : /\ coordinators[i].id = i - 1
                               /\ coordinators[i].hasThread
                                    <=> i <= n \/ mode # "opencl_devices"
      /\ nAvailability = IF mode = "opencl_devices" THEN n ELSE n + 1
  BY DEF Inv, CoordinatorInv
<1> HIDE DEF n
<1>3. Working = 1..nAvailability
  BY <1>1, <1>2 DEF Working
<1>4. nAvailability \in Nat /\ nAvailability <= n + 1
  BY <1>1, <1>2
<1>5. {coordinators[i].id : i \in Working} = 0..(nAvailability - 1)
  <2>1. ASSUME NEW k \in 0..(nAvailability - 1)
        PROVE  k \in {coordinators[i].id : i \in Working}
    <3>1. k + 1 \in 1..(n + 1) /\ k + 1 \in 1..nAvailability
      BY <1>1, <1>4
    <3>2. coordinators[k + 1].id = k
      BY <1>2, <3>1
    <3> QED
      BY <1>3, <3>1, <3>2
  <2>2. ASSUME NEW i \in Working PROVE coordinators[i].id \in 0..(nAvailability - 1)
    <3>1. i \in 1..(n + 1) /\ i \in 1..nAvailability
      BY <1>1, <1>3, <1>4
    <3>2. coordinators[i].id = i - 1
      BY <1>2, <3>1
    <3> QED
      BY <1>4, <3>1, <3>2
  <2> QED
    BY <2>1, <2>2
<1> QED
  BY <1>2, <1>5

----------------------------------------------------------------------------
(* What the limit leaves for each coordinator                              *)

\* The runtime's share is at most 88 percent.
LEMMA LeastBuffers ==
    ASSUME NEW m, NEW n \in Nat, NEW l \in Nat, DefaultMemoryLimit <= l
    PROVE  /\ BufferMemory(m, n, l) \in Nat
           /\ BufferMemory(m, n, l) >= 2 * AccumulatorBytes
           /\ BufferMemory(m, n, l) >= 4 * (MaxDevices * DefaultChunkSize)
<1> DEFINE runtime == IF UsesCl(m) THEN ClRuntimeRatio(n) ELSE CpuRuntimeRatio
           chunks  == MaxDevices * DefaultChunkSize
<1>1. runtime \in 0..88
  BY RatioInRange DEF CpuRuntimeRatio
<1>2. BufferMemory(m, n, l) = (l * (100 - runtime)) \div 100
  BY DEF BufferMemory
<1>3. DefaultMemoryLimit \in Nat /\ AccumulatorBytes \in Nat /\ chunks \in Nat
  BY SetupAssumption, AccumulatorAssumption
<1>4. /\ 12 * DefaultMemoryLimit >= 200 * AccumulatorBytes
      /\ 12 * DefaultMemoryLimit >= 400 * chunks
  BY SizesAssumption
<1> HIDE DEF runtime, chunks
<1>5. 100 - runtime \in Nat /\ 12 <= 100 - runtime
  BY <1>1
<1>6. 12 * l <= (100 - runtime) * l
  BY <1>5, ProductMonotone
<1>7. (100 - runtime) * l = l * (100 - runtime) /\ l * (100 - runtime) \in Nat
  BY <1>5, Z3
<1> DEFINE product == l * (100 - runtime)
<1>8. /\ product \in Nat /\ product >= 200 * AccumulatorBytes /\ product >= 400 * chunks
  BY <1>3, <1>4, <1>6, <1>7
<1> HIDE DEF product
<1>9. product \div 100 \in Nat /\ product \div 100 >= 2 * AccumulatorBytes
      /\ product \div 100 >= 4 * chunks
  BY <1>3, <1>8
<1> QED
  BY <1>2, <1>9 DEF product, chunks

LEMMA LeastCpuBuffer ==
    ASSUME NEW m \in ProcessingModes, NEW n \in Nat, NEW l \in Nat, DefaultMemoryLimit <= l,
           m # "opencl_devices"
    PROVE  CpuBuffer(m, n, l) \in Nat /\ CpuBuffer(m, n, l) >= AccumulatorBytes
<1> DEFINE buffers == BufferMemory(m, n, l)
<1>1. AccumulatorBytes \in Nat /\ buffers \in Nat /\ buffers >= 2 * AccumulatorBytes
  BY AccumulatorAssumption, LeastBuffers
<1>2. CpuBuffer(m, n, l) = buffers \/ CpuBuffer(m, n, l) = (buffers * 50) \div 100
  BY DEF CpuBuffer, CpuOnly, CpuMemoryRatio, UsesCl, ProcessingModes
<1> HIDE DEF buffers
<1> QED
  BY <1>1, <1>2

LEMMA LeastHostBuffer ==
    ASSUME NEW m \in ProcessingModes, NEW n \in 1..MaxDevices, NEW l \in Nat,
           DefaultMemoryLimit <= l, UsesCl(m)
    PROVE  ClHostBuffer(m, n, l) >= DefaultChunkSize
<1> DEFINE buffers == BufferMemory(m, n, l)
           cpu     == CpuBuffer(m, n, l)
           rest    == buffers - cpu
<1>1. /\ DefaultChunkSize \in Nat \ {0} /\ MaxDevices \in Nat /\ n \in Nat \ {0}
      /\ n <= MaxDevices
  BY SetupAssumption
<1>2. buffers \in Nat /\ buffers >= 4 * (MaxDevices * DefaultChunkSize)
  BY <1>1, LeastBuffers
<1>3. n * DefaultChunkSize <= MaxDevices * DefaultChunkSize
  BY <1>1, ProductMonotone
<1>4. n * DefaultChunkSize \in Nat /\ MaxDevices * DefaultChunkSize \in Nat
  BY <1>1, Product
<1>5. ~CpuOnly(m, n)
  BY <1>1 DEF CpuOnly
<1>6. ClHostBuffer(m, n, l) = (rest \div n) \div 2
  BY <1>5 DEF ClHostBuffer
<1>7. cpu = 0 \/ cpu = (buffers * 50) \div 100
  BY <1>5 DEF CpuBuffer, CpuMemoryRatio
<1> HIDE DEF buffers, cpu
<1>8. rest \in Nat /\ 2 * (n * DefaultChunkSize) <= rest
  BY <1>2, <1>3, <1>4, <1>7
<1>9. (2 * DefaultChunkSize) * n <= rest
  BY <1>1, <1>8, Z3
<1> HIDE DEF rest
<1>10. 2 * DefaultChunkSize <= rest \div n
  BY <1>1, <1>8, <1>9, DivAtLeast
<1>11. rest \div n \in Nat
  BY <1>1, <1>8
<1> QED
  BY <1>1, <1>6, <1>10, <1>11

\* A device with enough memory loads a chunk, and never more than its share of
\* the host's memory or than it can allocate.
LEMMA HostChunksFit ==
    ASSUME NEW device \in Devices, chunkSizeBytes \in Nat \ {0},
           memoryConfig \in [maxCpuBuffer : Nat, maxClHostBuffer : Nat]
    PROVE  /\ HostChunks(device) \in Nat
           /\ HostChunks(device) * chunkSizeBytes <= memoryConfig.maxClHostBuffer
           /\ HostChunks(device) * chunkSizeBytes <= device.maxAlloc
           /\ (chunkSizeBytes <= memoryConfig.maxClHostBuffer /\ chunkSizeBytes <= DefaultChunkSize)
                => HostChunks(device) > 0
<1> DEFINE c      == chunkSizeBytes
           h      == memoryConfig.maxClHostBuffer
           d      == (device.maxAlloc * 9) \div 10
           chunks == h \div c
<1>1. /\ c \in Nat \ {0} /\ h \in Nat /\ device.maxAlloc \in Nat /\ DefaultChunkSize \in Nat
      /\ device.maxAlloc * 9 >= DefaultChunkSize * 10
  BY SetupAssumption
<1>2. d \in Nat /\ d <= device.maxAlloc /\ d >= DefaultChunkSize
  BY <1>1
<1>3. HostChunks(device) = IF chunks * c > d THEN d \div c ELSE chunks
  BY DEF HostChunks
<1> HIDE DEF c, h, d
<1>4. /\ chunks \in Nat /\ chunks * c <= h /\ c * chunks = chunks * c
      /\ d \div c \in Nat /\ (d \div c) * c <= d
  BY <1>1, <1>2, DivTimes, Z3
<1>5. /\ c <= h => chunks >= 1
      /\ c <= d => d \div c >= 1
  <2>1. 1 * c = c
    BY <1>1
  <2> QED
    BY <1>1, <1>2, <2>1, DivAtLeast
<1> HIDE DEF chunks
<1>6. CASE chunks * c > d
  <2> DEFINE k == d \div c
  <2> HIDE DEF k
  <2>1. HostChunks(device) = k /\ k \in Nat /\ k * c <= d /\ (c <= d => k >= 1)
    BY <1>3, <1>4, <1>5, <1>6 DEF k
  <2>2. k * c \in Nat /\ chunks * c \in Nat
    BY <1>1, <1>4, <2>1
  <2> QED
    BY <1>1, <1>2, <1>4, <1>6, <2>1, <2>2 DEF c, h
<1>7. CASE ~(chunks * c > d)
  <2>1. HostChunks(device) = chunks
    BY <1>3, <1>7
  <2>2. chunks * c \in Nat
    BY <1>1, <1>4
  <2> QED
    BY <1>1, <1>2, <1>4, <1>5, <1>7, <2>1, <2>2 DEF c, h
<1> QED
  BY <1>6, <1>7

\* What a coordinator's sizes are, once all are constructed.
LEMMA ReadyFacts ==
    ASSUME Inv, pc = "ready"
    PROVE  /\ Len(clDevices) \in 0..MaxDevices /\ Len(coordinators) = Len(clDevices) + 1
           /\ chunkSizeBytes \in Nat \ {0} /\ chunkSizeBytes <= DefaultChunkSize
           /\ chunkSizeBytes <= AccumulatorBytes
           /\ mode \in ProcessingModes /\ limit \in Nat /\ DefaultMemoryLimit <= limit
           /\ memoryConfig \in [maxCpuBuffer : Nat, maxClHostBuffer : Nat]
           /\ memoryConfig.maxCpuBuffer = CpuBuffer(mode, Len(clDevices), limit)
           /\ memoryConfig.maxClHostBuffer = ClHostBuffer(mode, Len(clDevices), limit)
           /\ \A i \in 1..Len(clDevices) :
                /\ machine[clDevices[i]] \in Devices
                /\ coordinators[i] = ClCoordinator(i - 1, machine[clDevices[i]])
           /\ coordinators[Len(clDevices) + 1] = CpuCoordinator((Len(clDevices) + 1) - 1)
           /\ Len(clDevices) > 0 => UsesCl(mode)
           /\ mode = "opencl_devices" => Len(clDevices) > 0
<1> DEFINE n == Len(clDevices)
<1>1. n \in Nat /\ Len(machine) \in Nat /\ Len(coordinators) = n + 1
  BY DEF Inv, MachineInv, CoordinatorInv
<1>2. n <= Len(machine) /\ Len(machine) <= MaxDevices /\ MaxDevices \in Nat
  BY SetupAssumption DEF Inv, PlanInv
<1>3. n \in 0..MaxDevices
  BY <1>1, <1>2
<1>4. /\ chunkSizeBytes \in {1, DefaultChunkSize} /\ DefaultChunkSize \in Nat \ {0}
      /\ AccumulatorBytes \in Nat \ {0}
      /\ DefaultChunkSize <= AccumulatorBytes
  BY SizeFacts, SizesAssumption DEF Inv, ChunkInv
<1>5. /\ mode \in ProcessingModes /\ limit \in Nat /\ DefaultMemoryLimit <= limit
  BY SetupAssumption DEF Inv, OptionsInv
<1>6. /\ memoryConfig \in [maxCpuBuffer : Nat, maxClHostBuffer : Nat]
      /\ memoryConfig = BuildMemoryConfig(mode, n, limit)
  BY DEF Inv, CoordinatorInv, PlanInv
<1>7. \A i \in 1..(n + 1) : coordinators[i] = Planned(i)
  BY <1>1 DEF Inv, PlanInv
<1>8. \A i \in 1..n : machine[clDevices[i]] \in Devices
  BY DEF Inv, MachineInv
<1>9. /\ n > 0 => clDevices # <<>>
      /\ mode = "opencl_devices" => n > 0
  BY DEF Inv, MachineInv, During
<1>10. n > 0 => UsesCl(mode)
  BY <1>9 DEF Inv, PlanInv
<1>11. \A i \in 1..n : coordinators[i] = ClCoordinator(i - 1, machine[clDevices[i]])
  BY <1>1, <1>7 DEF Planned
<1>12. coordinators[n + 1] = CpuCoordinator((n + 1) - 1)
  BY <1>1, <1>7 DEF Planned
<1> HIDE DEF n
<1>13. chunkSizeBytes \in Nat \ {0} /\ chunkSizeBytes <= DefaultChunkSize
       /\ chunkSizeBytes <= AccumulatorBytes
  BY <1>4
<1>14. /\ memoryConfig.maxCpuBuffer = CpuBuffer(mode, n, limit)
       /\ memoryConfig.maxClHostBuffer = ClHostBuffer(mode, n, limit)
  BY <1>6 DEF BuildMemoryConfig
<1> QED
  BY <1>1, <1>3, <1>5, <1>6, <1>8, <1>9, <1>10, <1>11, <1>12, <1>13, <1>14 DEF n

\* Whatever the mode, the devices and the limit that was accepted, run() finds
\* work for every thread it waits for (the constructors of JobScheduler,
\* ClDeviceCoordinator and CpuDeviceCoordinator).
THEOREM WorkersAble == Spec => []WorkersCanWork
<1> SUFFICES ASSUME Inv, pc = "ready"
             PROVE  /\ Working # {}
                    /\ \A i \in Working :
                         /\ coordinators[i].maxChunks > 0
                         /\ i <= Len(clDevices) => coordinators[i].hostChunks > 0
  BY Invariance, PTL DEF WorkersCanWork
<1> DEFINE n == Len(clDevices)
<1>1. /\ n \in 0..MaxDevices /\ MaxDevices \in Nat /\ Len(coordinators) = n + 1
      /\ chunkSizeBytes \in Nat \ {0} /\ chunkSizeBytes <= DefaultChunkSize
      /\ chunkSizeBytes <= AccumulatorBytes
  BY ReadyFacts, SetupAssumption
<1>2. AccumulatorBytes \in Nat \ {0}
  BY AccumulatorAssumption
<1>3. ASSUME NEW i \in 1..n
      PROVE  coordinators[i].hasThread /\ coordinators[i].maxChunks > 0
             /\ coordinators[i].hostChunks > 0
  <2> DEFINE device == machine[clDevices[i]]
             lines  == AccumulatorBytes \div chunkSizeBytes
  <2>1. device \in Devices /\ coordinators[i] = ClCoordinator(i - 1, device)
    BY ReadyFacts
  <2>2. device.preferredGroup \in Nat \ {0} /\ device.maxGroup \in Nat \ (0..7)
    BY <2>1, SetupAssumption
  <2>3. WorkGroupSize(device) \in Nat \ {0}
    BY <2>2 DEF WorkGroupSize
  <2>4. lines \in Nat \ {0}
    <3>1. 1 * chunkSizeBytes = chunkSizeBytes
      BY <1>1
    <3>2. lines \in Nat /\ 1 <= lines
      BY <1>1, <1>2, <3>1, DivAtLeast, Division
    <3> QED
      BY <3>2
  <2>5. n \in 1..MaxDevices
    BY <1>1
  <2>6. ClHostBuffer(mode, n, limit) >= DefaultChunkSize
    BY <2>5, ReadyFacts, LeastHostBuffer
  <2>7. chunkSizeBytes <= memoryConfig.maxClHostBuffer
    BY <1>1, <2>6, ReadyFacts, SetupAssumption
  <2>8. HostChunks(device) > 0
    BY <1>1, <2>1, <2>7, ReadyFacts, HostChunksFit
  <2> HIDE DEF device, lines
  <2>9. WorkGroupSize(device) * lines > 0
    BY <2>3, <2>4, Z3
  <2> QED
    BY <2>1, <2>8, <2>9 DEF ClCoordinator, lines
<1>4. /\ coordinators[n + 1].hasThread <=> mode # "opencl_devices"
      /\ coordinators[n + 1].maxChunks = CpuChunks
  <2> DEFINE c == CpuCoordinator((n + 1) - 1)
  <2>1. coordinators[n + 1] = c
    BY ReadyFacts
  <2>2. /\ c.hasThread <=> mode # "opencl_devices"
        /\ c.maxChunks = CpuChunks
    BY DEF CpuCoordinator
  <2> HIDE DEF c
  <2> QED
    BY <2>1, <2>2
<1>5. ASSUME mode # "opencl_devices"
      PROVE  coordinators[n + 1].hasThread /\ coordinators[n + 1].maxChunks > 0
  <2> DEFINE m == memoryConfig.maxCpuBuffer
             k == m \div AccumulatorBytes
  <2>1. m \in Nat /\ AccumulatorBytes <= m
    BY <1>1, <1>5, ReadyFacts, LeastCpuBuffer
  <2>2. 1 * AccumulatorBytes = AccumulatorBytes /\ 1 * chunkSizeBytes = chunkSizeBytes
    BY <1>1, <1>2
  <2>3. k \in Nat /\ 1 <= k
    BY <1>2, <2>1, <2>2, DivAtLeast, Division
  <2>4. CpuChunks = (k * AccumulatorBytes) \div chunkSizeBytes
    BY DEF CpuChunks
  <2> HIDE DEF k, m
  <2>5. 1 * AccumulatorBytes <= k * AccumulatorBytes /\ k * AccumulatorBytes \in Nat
    BY <1>2, <2>3, ProductMonotone
  <2>6. 1 * chunkSizeBytes <= k * AccumulatorBytes
    BY <1>1, <1>2, <2>2, <2>5
  <2> DEFINE bytes == k * AccumulatorBytes
  <2>7. bytes \in Nat /\ 1 * chunkSizeBytes <= bytes
    BY <2>5, <2>6
  <2> HIDE DEF bytes
  <2>8. bytes \div chunkSizeBytes \in Nat /\ 1 <= bytes \div chunkSizeBytes
    BY <1>1, <2>7, DivAtLeast, Division
  <2>9. CpuChunks > 0
    BY <2>4, <2>8 DEF bytes
  <2> QED
    BY <1>5, <1>4, <2>9
<1>6. Working # {}
  <2>1. CASE n = 0
    <3>1. mode # "opencl_devices"
      BY <2>1, ReadyFacts
    <3>2. n + 1 \in 1..Len(coordinators)
      BY <1>1
    <3> QED
      BY <1>5, <3>1, <3>2 DEF Working
  <2>2. CASE n # 0
    <3>1. 1 \in 1..n /\ 1 \in 1..Len(coordinators)
      BY <1>1, <2>2
    <3> QED
      BY <1>3, <3>1 DEF Working
  <2> QED
    BY <2>1, <2>2
<1>7. ASSUME NEW i \in Working
      PROVE  coordinators[i].maxChunks > 0 /\ (i <= n => coordinators[i].hostChunks > 0)
  <2>1. i \in 1..(n + 1) /\ coordinators[i].hasThread
    BY <1>1 DEF Working
  <2>2. CASE i \in 1..n
    BY <1>3, <2>2
  <2>3. CASE i = n + 1
    <3>1. mode # "opencl_devices"
      BY <1>4, <2>1, <2>3
    <3>2. ~(i <= n)
      BY <1>1, <2>3
    <3> QED
      BY <1>5, <2>3, <3>1, <3>2
  <2> QED
    BY <1>1, <2>1, <2>2, <2>3
<1> QED
  BY <1>6, <1>7

\* Each coordinator's buffers are within what buildMemoryConfig gives it.
LEMMA BuffersBounded ==
    ASSUME Inv, pc = "ready"
    PROVE  /\ \A i \in 1..Len(clDevices) :
                /\ Buffers(i) \in Nat
                /\ Buffers(i) <= 2 * ClHostBuffer(mode, Len(clDevices), limit)
                /\ coordinators[i].hostChunks * chunkSizeBytes <= machine[clDevices[i]].maxAlloc
           /\ Buffers(Len(clDevices) + 1) \in Nat
           /\ Buffers(Len(clDevices) + 1) <= CpuBuffer(mode, Len(clDevices), limit)
<1> DEFINE n == Len(clDevices)
<1>1. n \in Nat /\ chunkSizeBytes \in Nat \ {0} /\ AccumulatorBytes \in Nat \ {0}
  BY ReadyFacts, SetupAssumption, AccumulatorAssumption
<1>2. ASSUME NEW i \in 1..n
      PROVE  /\ Buffers(i) \in Nat
             /\ Buffers(i) <= 2 * ClHostBuffer(mode, n, limit)
             /\ coordinators[i].hostChunks * chunkSizeBytes <= machine[clDevices[i]].maxAlloc
  <2> DEFINE h == HostChunks(machine[clDevices[i]])
  <2>1. /\ h \in Nat /\ h * chunkSizeBytes <= ClHostBuffer(mode, n, limit)
        /\ h * chunkSizeBytes <= machine[clDevices[i]].maxAlloc
        /\ ClHostBuffer(mode, n, limit) \in Nat
    BY <1>1, ReadyFacts, HostChunksFit
  <2>2. coordinators[i].hostChunks = h
    <3>1. coordinators[i] = ClCoordinator(i - 1, machine[clDevices[i]])
      BY ReadyFacts
    <3> QED
      BY <3>1 DEF ClCoordinator
  <2>3. i <= Len(clDevices)
    BY <1>1
  <2>4. Buffers(i) = chunkSizeBytes * (2 * h)
    BY <2>2, <2>3 DEF Buffers
  <2> HIDE DEF h
  <2>5. chunkSizeBytes * (2 * h) = 2 * (h * chunkSizeBytes) /\ h * chunkSizeBytes \in Nat
    BY <1>1, <2>1, Z3
  <2> QED
    BY <2>1, <2>2, <2>4, <2>5
<1>3. Buffers(n + 1) \in Nat /\ Buffers(n + 1) <= CpuBuffer(mode, n, limit)
  <2> DEFINE m     == memoryConfig.maxCpuBuffer
             bytes == (m \div AccumulatorBytes) * AccumulatorBytes
  <2>1. coordinators[n + 1] = CpuCoordinator((n + 1) - 1) /\ m = CpuBuffer(mode, n, limit)
        /\ m \in Nat
    BY ReadyFacts
  <2>2. coordinators[n + 1].maxChunks = bytes \div chunkSizeBytes
    BY <2>1 DEF CpuCoordinator, CpuChunks
  <2>3. ~(n + 1 <= Len(clDevices))
    BY <1>1
  <2>4. Buffers(n + 1) = chunkSizeBytes * (bytes \div chunkSizeBytes)
    BY <2>2, <2>3 DEF Buffers
  <2> HIDE DEF m
  <2>5. bytes \in Nat /\ bytes <= m
    BY <1>1, <2>1, DivTimes, Z3
  <2> HIDE DEF bytes
  <2>6. bytes \div chunkSizeBytes \in Nat /\ chunkSizeBytes * (bytes \div chunkSizeBytes) <= bytes
    BY <1>1, <2>5, DivTimes
  <2>7. chunkSizeBytes * (bytes \div chunkSizeBytes) \in Nat
    BY <1>1, <2>6, Z3
  <2> QED
    BY <2>1, <2>4, <2>5, <2>6, <2>7
<1> QED
  BY <1>2, <1>3

\* With every coordinator busy, the buffers in the host's memory stay within
\* the memory for buffers and within what each device can allocate, for any
\* number of devices (buildMemoryConfig, getMaxHostChunks of
\* ClDeviceCoordinator and the constructor of CpuDeviceCoordinator).
THEOREM BuffersFit == Spec => []BuffersFitLimit
<1> SUFFICES ASSUME Inv, pc = "ready"
             PROVE  /\ TotalBuffers <= BufferMemory(mode, Len(clDevices), limit)
                    /\ \A i \in 1..Len(clDevices) :
                         coordinators[i].hostChunks * chunkSizeBytes
                            <= machine[clDevices[i]].maxAlloc
  BY Invariance, PTL DEF BuffersFitLimit
<1> DEFINE n    == Len(clDevices)
           N    == Len(coordinators)
           term == [i \in 1..N |-> Buffers(i)]
           sum[i \in 0..N] == IF i = 0 THEN 0 ELSE sum[i - 1] + Buffers(i)
           host == 2 * ClHostBuffer(mode, n, limit)
           cpu  == CpuBuffer(mode, n, limit)
<1>1. n \in Nat /\ N = n + 1
  BY ReadyFacts
<1>2. host \in Nat /\ cpu \in Nat
  BY ReadyFacts
<1>3. /\ \A i \in 1..n : Buffers(i) \in Nat /\ Buffers(i) <= host
      /\ Buffers(n + 1) \in Nat /\ Buffers(n + 1) <= cpu
  BY BuffersBounded
<1>4. cpu + n * host <= BufferMemory(mode, n, limit)
  BY <1>1, ReadyFacts, BuffersWithinShare
<1>5. sum = [i \in 0..N |-> IF i = 0 THEN 0 ELSE sum[i - 1] + Buffers(i)]
  <2>1. term \in [1..N -> Nat]
    <3>1. \A i \in 1..N : i \in 1..n \/ i = n + 1
      BY <1>1
    <3> QED
      BY <1>3, <3>1
  <2>2. \A i \in 1..N : term[i] = Buffers(i)
    OBVIOUS
  <2> HIDE DEF term, N
  <2>3. N \in Nat
    BY <1>1
  <2>4. PICK f \in [0..N -> Nat] : f[0] = 0 /\ \A i \in 1..N : f[i] = f[i - 1] + term[i]
    BY <2>1, <2>3, Summation
  <2>5. \A i \in 0..N : f[i] = IF i = 0 THEN 0 ELSE f[i - 1] + Buffers(i)
    <3>1. \A i \in 0..N : i # 0 => i \in 1..N
      BY <2>3
    <3> QED
      BY <2>2, <2>4, <3>1
  <2>6. f = [i \in 0..N |-> IF i = 0 THEN 0 ELSE f[i - 1] + Buffers(i)]
    BY <2>5
  <2> QED
    BY <2>6
<1>6. TotalBuffers = sum[N]
  BY DEF TotalBuffers
<1> HIDE DEF sum, host, cpu, N, n
<1>7. \A k \in 0..n : sum[k] \in 0..(k * host)
  <2> DEFINE G == {k \in 0..n : sum[k] \in 0..(k * host)}
  <2>1. 0 \in G
    <3>1. sum[0] = 0 /\ 0 * host = 0
      BY <1>1, <1>2, <1>5
    <3> QED
      BY <1>1, <3>1
  <2>2. ASSUME NEW k \in 1..n, k - 1 \in G PROVE k \in G
    <3>1. sum[k] = sum[k - 1] + Buffers(k)
      BY <1>1, <1>5
    <3>2. sum[k - 1] \in 0..((k - 1) * host)
      BY <2>2
    <3>3. (k - 1) * host + host = k * host /\ (k - 1) * host \in Nat
      BY <1>1, <1>2, Z3
    <3>4. Buffers(k) \in Nat /\ Buffers(k) <= host
      BY <1>3
    <3>5. sum[k] \in 0..(k * host)
      BY <1>2, <3>1, <3>2, <3>3, <3>4
    <3> QED
      BY <1>1, <3>5
  <2> HIDE DEF G
  <2>3. 0..n \subseteq G
    BY <1>1, <2>1, <2>2, Induction
  <2> QED
    BY <2>3 DEF G
<1>8. sum[N] = sum[n] + Buffers(n + 1)
  BY <1>1, <1>5
<1>9. sum[n] \in 0..(n * host)
  BY <1>1, <1>7
<1>10. n * host \in Nat /\ BufferMemory(mode, n, limit) \in Nat
  BY <1>1, <1>2, ReadyFacts, BufferMemoryInLimit, Product
<1>11. sum[N] <= BufferMemory(mode, n, limit)
  BY <1>2, <1>3, <1>4, <1>8, <1>9, <1>10
<1> QED
  BY <1>6, <1>11, BuffersBounded DEF n

\* Exit code 0 means that help or the devices were asked for or that every run
\* has printed its results (main.cpp and Benchmark.h).
THEOREM ExitCodeTrue == Spec => []ZeroOnlyWithResults
<1>1. Inv => ZeroOnlyWithResults
  BY DEF Inv, CountInv, ZeroOnlyWithResults
<1> QED
  BY <1>1, Invariance, PTL

\* A benchmark averages over at least one run, whatever number is asked for
\* (getNRuns in Benchmark.h).
THEOREM AverageCorrect == Spec => []AverageDefined
<1>1. Inv => AverageDefined
  BY ProgramAssumption DEF Inv, CountInv, AverageDefined
<1> QED
  BY <1>1, Invariance, PTL

\* The merge has nothing to return only when the file is empty, whatever the
\* chunk size (mergeLeftToRight).
THEOREM CrashOnlyEmpty == Spec => []OnlyEmptyFileCrashes
<1>1. Inv => OnlyEmptyFileCrashes
  BY DEF Inv, ChunkInv, OnlyEmptyFileCrashes
<1> QED
  BY <1>1, Invariance, PTL
=============================================================================
