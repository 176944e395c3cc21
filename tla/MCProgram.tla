------------------------------ MODULE MCProgram ------------------------------
EXTENDS Program

\* The sizes are the code's, in kilobytes, with a smallest chunk of 1 in place
\* of 1 byte.

MCDevices ==
    {[name |-> "gpu", khrFp64 |-> "later", amdFp64 |-> "absent", geforce |-> TRUE,
      preferredGroup |-> 32, maxGroup |-> 1024, maxAlloc |-> 2097152],
     [name |-> "gpu", khrFp64 |-> "absent", amdFp64 |-> "absent", geforce |-> FALSE,
      preferredGroup |-> 64, maxGroup |-> 256, maxAlloc |-> 65536],
     [name |-> "cpu", khrFp64 |-> "first", amdFp64 |-> "later", geforce |-> FALSE,
      preferredGroup |-> 1, maxGroup |-> 8192, maxAlloc |-> 524288]}

\* Empty, shorter than a chunk, just below and at the limit for small files,
\* and with an incomplete last chunk.
MCFileSizes == {0, 3, 1023, 1024, 1027}

Plain(text) == [kind |-> "plain", text |-> text]
Long(name) == [kind |-> "long", name |-> name, set |-> FALSE, value |-> "", text |-> name]
LongSet(name, value) ==
    [kind |-> "long", name |-> name, set |-> TRUE, value |-> value, text |-> name]
Group(letters) == [kind |-> "group", letters |-> letters, text |-> "group"]

\* 66560 MB wraps to 1024 MB in the modulus of the instance.
MCNumerals ==
    "0" :> 0 @@ "9" :> 9 @@ "1023" :> 1023 @@ "4096" :> 4096 @@ "4097" :> 4097
    @@ "66560" :> 66560

MCLists == "gpu,cpu" :> <<"gpu", "cpu">>

Arguments ==
    {Plain(t) : t \in {"data", "smp", "all", "gpu", "gpu,cpu", "4096"}}
    \cup {Group(l) : l \in {<<"b">>, <<"o">>, <<"d">>, <<"b", "h">>, <<"x", "1023">>, <<"z">>}}
    \cup {LongSet("memory_limit", n) : n \in {"66560", "4097", "data"}}
    \cup {LongSet("benchmark_runs", n) : n \in {"0", "9", "data"}}
    \cup {Long(n) : n \in {"file", "mode", "memory_limit", "list_cl_devices", "output_file"}}
    \cup {LongSet("output_file", "out"), [kind |-> "end", text |-> "--"],
          [kind |-> "bad", text |-> "--="]}

\* All short command lines, and those that go on from a file and a mode or
\* device, some of them with a benchmark.
MCArgvs ==
    UNION {[1..n -> Arguments] : n \in 0..2}
    \cup {<<Plain("data"), Plain(m)>> \o s :
             m \in {"smp", "all", "gpu"}, s \in [1..2 -> Arguments]}
    \cup {<<Group(<<"b">>), Plain("data"), Plain("all")>> \o s : s \in [1..2 -> Arguments]}
=============================================================================
