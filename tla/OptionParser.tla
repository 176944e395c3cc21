----------------------------- MODULE OptionParser -----------------------------
(***************************************************************************)
(* The option parser (cxxopts.h) with the options of ArgParser.cpp.         *)
(***************************************************************************)
EXTENDS Integers, SequencesExt

CONSTANTS
    Numerals,       \* function: text of a number that fits size_t -> the number
    Lists           \* function: text with commas -> the texts between them

ASSUME OptionParserAssumption == \A t \in DOMAIN Numerals : Numerals[t] \in Nat

\* An argument as ParseArgument splits it, with the text it is made of for
\* when it is the value of the option before it: --name or, when set,
\* --name=value; -ab, one or two short options, or one and its value; a text,
\* "--" or a malformed flag.
Argument ==
    [kind : {"long"}, name : STRING, set : BOOLEAN, value : STRING, text : STRING]
    \cup [kind : {"group"}, letters : {l \in Seq(STRING) : Len(l) \in {1, 2}}, text : STRING]
    \cup [kind : {"plain", "end", "bad"}, text : STRING]

\* The type of each option's value.
Details ==
    [file |-> "string", mode |-> "string", devices |-> "strings",
     list_cl_devices |-> "bool", memory_limit |-> "size_t", benchmark |-> "bool",
     benchmark_runs |-> "size_t", output_file |-> "path", disable_avx2 |-> "bool",
     watchdog_timeout |-> "size_t", help |-> "bool"]

Options == DOMAIN Details

ShortNames ==
    [f |-> "file", m |-> "mode", d |-> "devices", l |-> "list_cl_devices",
     x |-> "memory_limit", b |-> "benchmark", o |-> "output_file",
     t |-> "watchdog_timeout", h |-> "help"]

Positional == <<"file", "mode", "devices">>

IsOption(name) == name \in Options \cup DOMAIN ShortNames

OptionOf(name) == IF name \in Options THEN name ELSE ShortNames[name]

IsContainer(option) == Details[option] = "strings"

HasImplicit(option) == Details[option] = "bool"

HasDefault(option) ==
    HasImplicit(option) \/ option \in {"memory_limit", "benchmark_runs", "watchdog_timeout"}

----------------------------------------------------------------------------
(* Values                                                                  *)

\* Whether parse_value returns for the text.
Parseable(option, text) ==
    CASE Details[option] = "size_t" -> text \in DOMAIN Numerals
      [] Details[option] = "bool"   -> text \in {"true", "false"}
      [] OTHER -> TRUE

\* Texts that a container's value stands for.
Elements(text) == IF text \in DOMAIN Lists THEN Lists[text] ELSE <<text>>

\* The parser while it runs: the index of the argument it is at, the index of
\* the next positional option, for each option the texts it was given, the
\* options set to their defaults, the texts no option took, and whether an
\* exception was thrown or "--" met.
Start ==
    [current |-> 1, next |-> 1, texts |-> [o \in Options |-> <<>>], defaults |-> {},
     unmatched |-> <<>>, status |-> "parsing"]

Count(parser, option) == Len(parser.texts[option])

Throw(parser) == [parser EXCEPT !.status = "exception"]

parse_option(parser, option, text) ==
    IF Parseable(option, text)
      THEN [parser EXCEPT !.texts[option] = Append(@, text)] ELSE Throw(parser)

\* The argument after an option is its value, whatever it looks like; a flag
\* has none.
checked_parse_arg(parser, argv, option) ==
    IF HasImplicit(option) THEN parse_option(parser, option, "true")
    ELSE IF parser.current + 1 > Len(argv) THEN Throw(parser)
    ELSE [parse_option(parser, option, argv[parser.current + 1].text)
             EXCEPT !.current = parser.current + 1]

\* Mutant: the last positional option takes one text only.
consume_single(parser, text) ==
    LET free == {i \in parser.next..Len(Positional) : Count(parser, Positional[i]) = 0}
    IN  IF free = {} THEN [parser EXCEPT !.next = Len(Positional) + 1,
                                         !.unmatched = Append(@, text)]
        ELSE LET i == CHOOSE i \in free : \A j \in free : i <= j
             IN  [parse_option(parser, Positional[i], text) EXCEPT !.next = i + 1]

\* A positional option that was given as a flag before is passed over; one
\* that is a container takes all texts that follow.
consume_positional(parser, text) ==
    LET free == {i \in parser.next..Len(Positional) :
                   IsContainer(Positional[i]) \/ Count(parser, Positional[i]) = 0}
    IN  IF free = {} THEN [parser EXCEPT !.next = Len(Positional) + 1,
                                         !.unmatched = Append(@, text)]
        ELSE LET i == CHOOSE i \in free : \A j \in free : i <= j
             IN  [parse_option(parser, Positional[i], text) EXCEPT
                    !.next = IF IsContainer(Positional[i]) THEN i ELSE i + 1]

----------------------------------------------------------------------------
(* Arguments                                                               *)

ParseLong(parser, argv, arg) ==
    IF ~IsOption(arg.name) THEN Throw(parser)
    ELSE IF arg.set THEN parse_option(parser, OptionOf(arg.name), arg.value)
    ELSE checked_parse_arg(parser, argv, OptionOf(arg.name))

\* A short option that needs a value takes what follows it in its group.
ParseGroup(parser, argv, letters) ==
    IF ~IsOption(letters[1]) THEN Throw(parser)
    ELSE LET option == OptionOf(letters[1])
         IN  CASE Len(letters) = 1 -> checked_parse_arg(parser, argv, option)
               [] Len(letters) = 2 /\ ~HasImplicit(option) ->
                    parse_option(parser, option, letters[2])
               [] OTHER ->
                    LET first == parse_option(parser, option, "true")
                    IN  IF IsOption(letters[2])
                          THEN checked_parse_arg(first, argv, OptionOf(letters[2]))
                          ELSE Throw(first)

\* One round of OptionParser::parse's loop.
ParseArgument(parser, argv) ==
    LET arg  == argv[parser.current]
        done == CASE arg.kind = "long"  -> ParseLong(parser, argv, arg)
                  [] arg.kind = "group" -> ParseGroup(parser, argv, arg.letters)
                  [] arg.kind = "plain" -> consume_positional(parser, arg.text)
                  [] arg.kind = "end"   -> [parser EXCEPT !.status = "end"]
                  [] arg.kind = "bad"   -> Throw(parser)
    IN  [done EXCEPT !.current = @ + 1]

\* What follows the loop: the defaults, and only then what stands behind "--".
SetDefaults(parser) ==
    [parser EXCEPT !.defaults = {o \in Options : HasDefault(o) /\ Count(parser, o) = 0},
                   !.status = IF @ = "end" THEN "remaining" ELSE "parsed"]

ConsumeRemaining(parser, argv) ==
    [consume_positional(parser, argv[parser.current].text) EXCEPT !.current = @ + 1]

\* ParseResult: the value as() returns is the one given last, of a container
\* all of them.
Value(parser, option) == Last(parser.texts[option])

Values(parser, option) ==
    FoldLeft(LAMBDA all, text : all \o Elements(text), <<>>, parser.texts[option])

Flag(parser, option) == Count(parser, option) > 0 /\ Value(parser, option) = "true"

Number(parser, option, otherwise) ==
    IF Count(parser, option) > 0 THEN Numerals[Value(parser, option)] ELSE otherwise
=============================================================================
