----------------------------- MODULE CliParser -----------------------------
(***************************************************************************)
(* The command line of h323p: CliParser::parse (src/src/cli/cli_parser.cpp)*)
(* and what main() makes of its answer.  An argument is a word, an option  *)
(* is a row of one of the tables below; a step reads one argument, with    *)
(* the value it takes.                                                     *)
(***************************************************************************)
EXTENDS Integers, Sequences, SequencesExt

CONSTANTS
    ArgLists,     \* command lines, each without the program's name
    OtherDashed,  \* words that begin with a dash and are no option
    Numerals,     \* the numbers of the words that begin with one
    SizeMax,      \* the largest size_t
    IntMax        \* the largest int

(* Every default fits.                                                     *)
ASSUME CliParserAssumption ==
    /\ ArgLists \subseteq Seq(STRING)
    /\ \A word \in DOMAIN Numerals : Numerals[word] \in Int
    /\ SizeMax \in Nat /\ SizeMax >= 10
    /\ IntMax \in Nat /\ IntMax >= 30

VARIABLES
    args,               \* argv, from argv[1] on
    parserPc,           \* where parse() is
    index,              \* i, or j
    config,             \* the CommandConfig
    versionRequested,   \* --version seen before the command
    valid,              \* valid_
    error,              \* whether error_ is set
    outcome             \* what main() does next

parserVars == <<args, parserPc, index, config, versionRequested, valid, error, outcome>>

-----------------------------------------------------------------------------
(* The tables: the words for a field of config, and the field of a word.   *)
CommandTypes ==
    [call |-> "CALL", listen |-> "LISTEN", load |-> "LOAD",
     fuzz |-> "FUZZ", register |-> "REGISTER", info |-> "INFO"]

(* "-p" is in the code a second time, for --percentage; that is never      *)
(* reached.                                                                *)
TextOptions ==
    [configFile |-> {"--config"}, logFile |-> {"--log-file"},
     logLevel |-> {"--log-level"}, scenario |-> {"--scenario", "-s"},
     gatekeeper |-> {"--gatekeeper", "-g"}, username |-> {"--username", "-u"},
     password |-> {"--password", "-p"}, audioCodec |-> {"--audio-codec", "-P"},
     videoCodec |-> {"--video-codec"}, tlsCert |-> {"--tls-cert"},
     tlsKey |-> {"--tls-key"}, tlsCaFile |-> {"--tls-ca"}, cdrFile |-> {"--cdr"},
     outputFile |-> {"--output", "-o"}, fuzzType |-> {"--type", "-T"}]

SizeOptions ==
    [maxCalls |-> {"--max-calls", "-m", "--calls", "-c"}, repeatCount |-> {"--repeat", "-r"}]

IntOptions ==
    [mediaEncBits |-> {"--media-enc"}, tminCall |-> {"--tmin-call"},
     tmaxCall |-> {"--tmax-call"}, fuzzPercentage |-> {"--percentage"},
     traceLevel |-> {"--trace", "-t"}]

SwitchOptions ==
    [quiet |-> {"--quiet", "-q"}, verbose |-> {"--verbose", "-v"},
     cycleMode |-> {"--cycle", "-C"}, video |-> {"--video", "-V"},
     h239 |-> {"--h239"}, tls |-> {"--tls"}]

FieldOf(options) ==
    [word \in UNION Range(options) |-> CHOOSE f \in DOMAIN options : word \in options[f]]

Texts == FieldOf(TextOptions)
Sizes == FieldOf(SizeOptions)
Ints == FieldOf(IntOptions)
Switches == FieldOf(SwitchOptions)

(* Those that may stand before the command, too.                           *)
GlobalTexts == [word \in {"--config", "--log-file", "--log-level"} |-> Texts[word]]
GlobalFlags == [word \in {"--quiet", "-q", "--verbose", "-v"} |-> Switches[word]]

(* Their value is skipped.                                                 *)
Unstored == {"--rate", "--duration", "-d"}

Valued == DOMAIN Texts \cup DOMAIN Sizes \cup DOMAIN Ints \cup Unstored
Helps == {"--help", "-h"}
Options == Valued \cup DOMAIN Switches \cup Helps \cup {"--version"}

ASSUME OtherWordsAssumption ==
    OtherDashed \cap (Options \cup DOMAIN CommandTypes) = {}

Dashed == Options \cup OtherDashed

IsBare(word) == word \notin Dashed

IntRange == -(IntMax + 1)..IntMax

(* The words stoul and stoi return from: they throw invalid_argument at a  *)
(* word that begins with no number and out_of_range at a number beyond     *)
(* their type - which for stoul, that takes a minus and counts from the    *)
(* top, is one of more than SizeMax either way.                            *)
SizeWords == {word \in DOMAIN Numerals : Numerals[word] \in -SizeMax..SizeMax}
IntWords == {word \in DOMAIN Numerals : Numerals[word] \in IntRange}

NumberWords(option) == IF option \in DOMAIN Sizes THEN SizeWords ELSE IntWords

Stoul(word) == Numerals[word] % (SizeMax + 1)
Stoi(word) == Numerals[word]

DefaultConfig ==
    [type |-> "UNKNOWN", destination |-> "",
     configFile |-> "", logFile |-> "", logLevel |-> "info", scenario |-> "",
     gatekeeper |-> "", username |-> "", password |-> "", audioCodec |-> "G.711",
     videoCodec |-> "H.264", tlsCert |-> "", tlsKey |-> "", tlsCaFile |-> "",
     cdrFile |-> "", outputFile |-> "", fuzzType |-> "",
     maxCalls |-> 10, repeatCount |-> 1,
     mediaEncBits |-> 0, tminCall |-> 10, tmaxCall |-> 30, fuzzPercentage |-> 0,
     traceLevel |-> 0,
     quiet |-> FALSE, verbose |-> FALSE, cycleMode |-> FALSE, video |-> FALSE,
     h239 |-> FALSE, tls |-> FALSE]

ParserInit ==
    /\ args \in ArgLists
    /\ parserPc = "arguments"
    /\ index = 1
    /\ config = DefaultConfig
    /\ versionRequested = FALSE
    /\ valid = FALSE
    /\ error = FALSE
    /\ outcome = "none"

-----------------------------------------------------------------------------
Arg == args[index]
With(field, value) == [config EXCEPT ![field] = value]

At(pc) == parserPc = pc /\ index <= Len(args)
HasValue == index < Len(args)

(* The next argument, or the one after it.                                 *)
Advance(n) ==
    /\ index' = index + n
    /\ UNCHANGED <<args, parserPc, valid, error, outcome>>

(* The first pass, up to the command.                                      *)
GlobalValue ==
    /\ At("arguments") /\ Arg \in DOMAIN GlobalTexts /\ HasValue
    /\ config' = With(GlobalTexts[Arg], args[index + 1])
    /\ Advance(2) /\ UNCHANGED versionRequested

GlobalFlag ==
    /\ At("arguments") /\ Arg \in DOMAIN GlobalFlags
    /\ config' = With(GlobalFlags[Arg], TRUE)
    /\ Advance(1) /\ UNCHANGED versionRequested

GlobalOther ==
    /\ At("arguments") /\ ~IsBare(Arg) /\ Arg \notin DOMAIN GlobalFlags
    /\ Arg \in DOMAIN GlobalTexts => ~HasValue
    /\ versionRequested' = (versionRequested \/ Arg = "--version")
    /\ Advance(1) /\ UNCHANGED config

CommandWord ==
    /\ At("arguments") /\ IsBare(Arg)
    /\ IF Arg \in DOMAIN CommandTypes
       THEN /\ config' = With("type", CommandTypes[Arg])
            /\ parserPc' = "options"
            /\ UNCHANGED error
       ELSE /\ error' = TRUE
            /\ parserPc' = "parsed"
            /\ UNCHANGED config
    /\ index' = index + 1
    /\ UNCHANGED <<args, versionRequested, valid, outcome>>

-----------------------------------------------------------------------------
(* parseCommandOptions                                                     *)

(* Bug variant: the value is read and not passed over.                     *)
OptionTextOnce ==
    /\ At("options") /\ Arg \in DOMAIN Texts /\ HasValue
    /\ config' = With(Texts[Arg], args[index + 1])
    /\ Advance(1) /\ UNCHANGED versionRequested

OptionText ==
    /\ At("options") /\ Arg \in DOMAIN Texts /\ HasValue
    /\ config' = With(Texts[Arg], args[index + 1])
    /\ Advance(2) /\ UNCHANGED versionRequested

OptionNumber ==
    /\ At("options") /\ Arg \in DOMAIN Sizes \cup DOMAIN Ints /\ HasValue
    /\ LET word == args[index + 1]
       IN  /\ word \in NumberWords(Arg)
           /\ config' = IF Arg \in DOMAIN Sizes THEN With(Sizes[Arg], Stoul(word))
                                                ELSE With(Ints[Arg], Stoi(word))
    /\ Advance(2) /\ UNCHANGED versionRequested

(* stoul and stoi throw, and nobody catches: std::terminate.               *)
OptionThrows ==
    /\ At("options") /\ Arg \in DOMAIN Sizes \cup DOMAIN Ints /\ HasValue
    /\ args[index + 1] \notin NumberWords(Arg)
    /\ outcome' = "crash"
    /\ parserPc' = "crashed"
    /\ UNCHANGED <<args, index, config, versionRequested, valid, error>>

(* Bug variant: the value is passed over without a look at argc.           *)
OptionUnstoredUnchecked ==
    /\ At("options") /\ Arg \in Unstored
    /\ Advance(2) /\ UNCHANGED <<config, versionRequested>>

OptionUnstored ==
    /\ At("options") /\ Arg \in Unstored /\ HasValue
    /\ Advance(2) /\ UNCHANGED <<config, versionRequested>>

OptionSwitch ==
    /\ At("options") /\ Arg \in DOMAIN Switches
    /\ config' = With(Switches[Arg], TRUE)
    /\ Advance(1) /\ UNCHANGED versionRequested

(* Bug variant: an unknown option is looked at for ever.                   *)
OptionOtherStays ==
    /\ At("options") /\ (Arg \in OtherDashed \/ (Arg \in Valued /\ ~HasValue))
    /\ Advance(0) /\ UNCHANGED <<config, versionRequested>>

(* An unknown option, or one whose value is missing.                       *)
OptionOther ==
    /\ At("options") /\ (Arg \in OtherDashed \/ (Arg \in Valued /\ ~HasValue))
    /\ Advance(1) /\ UNCHANGED <<config, versionRequested>>

BareWord ==
    /\ At("options") /\ IsBare(Arg)
    /\ config' = IF config.type = "CALL" THEN With("destination", Arg) ELSE config
    /\ Advance(1) /\ UNCHANGED versionRequested

(* --version and --help end the parsing, and the validation does not look  *)
(* at the valid_ they leave.                                               *)
EarlyEnd ==
    /\ At("options") /\ Arg \in Helps \cup {"--version"}
    /\ config' = IF Arg = "--version" THEN With("type", "INFO") ELSE config
    /\ valid' = FALSE
    /\ parserPc' = "validate"
    /\ UNCHANGED <<args, index, versionRequested, error, outcome>>

-----------------------------------------------------------------------------
EndOfArguments ==
    /\ parserPc \in {"arguments", "options"} /\ index > Len(args)
    /\ IF args = <<>> THEN parserPc' = "parsed" /\ error' = TRUE
                      ELSE parserPc' = "validate" /\ UNCHANGED error
    /\ UNCHANGED <<args, index, config, versionRequested, valid, outcome>>

(* Bug variant: the first check alone.                                     *)
ValidateConfigDestination == config.type = "CALL" => config.destination # ""

ValidateConfig ==
    /\ config.type = "CALL" => config.destination # ""
    /\ config.maxCalls # 0

(* The command is one of those that are validated.                         *)
Known == ~versionRequested /\ config.type # "UNKNOWN"

Validate ==
    /\ parserPc = "validate"
    /\ config' = IF versionRequested THEN With("type", "INFO") ELSE config
    /\ valid' = (Known /\ ValidateConfig)
    /\ error' = (error \/ (Known /\ ~ValidateConfig))
    /\ parserPc' = "parsed"
    /\ UNCHANGED <<args, index, versionRequested, outcome>>

(* main(), which looks for --version by itself.                            *)
Decide ==
    /\ parserPc = "parsed"
    /\ outcome' = CASE \E k \in 1..Len(args) : args[k] = "--version" -> "version"
                    [] OTHER -> IF valid THEN "run" ELSE IF error THEN "error" ELSE "help"
    /\ parserPc' = "decided"
    /\ UNCHANGED <<args, index, config, versionRequested, valid, error>>

ParserStep ==
    \/ GlobalValue \/ GlobalFlag \/ GlobalOther \/ CommandWord
    \/ OptionText \/ OptionNumber \/ OptionThrows \/ OptionUnstored
    \/ OptionSwitch \/ OptionOther \/ BareWord \/ EarlyEnd
    \/ EndOfArguments \/ Validate \/ Decide

ParserSpec == ParserInit /\ [][ParserStep]_parserVars /\ WF_parserVars(ParserStep)

-----------------------------------------------------------------------------
(* Type invariant; index never leaves argv by more than one.               *)
CliTypeOK ==
    /\ args \in Seq(STRING)
    /\ parserPc \in {"arguments", "options", "validate", "parsed", "decided", "crashed"}
    /\ index \in 1..Len(args) + 1
    /\ DOMAIN config = DOMAIN DefaultConfig
    /\ config.type \in Range(CommandTypes) \cup {"UNKNOWN"}
    /\ \A f \in DOMAIN SizeOptions : config[f] \in 0..SizeMax
    /\ \A f \in DOMAIN IntOptions : config[f] \in IntRange
    /\ \A f \in DOMAIN SwitchOptions : config[f] \in BOOLEAN
    /\ versionRequested \in BOOLEAN /\ valid \in BOOLEAN /\ error \in BOOLEAN
    /\ outcome \in {"none", "version", "help", "error", "crash", "run"}
    /\ outcome = "none" <=> parserPc \notin {"decided", "crashed"}

(* What the k-th word is, by what the words before it are, ...             *)
RoleAt(words, role, k) ==
    LET after == \E j \in 1..(k - 1) : role[j] = "command"
        takes == IF after THEN Valued ELSE DOMAIN GlobalTexts
        knows == IF after THEN Dashed ELSE takes \cup DOMAIN GlobalFlags
    IN  IF k > 1 /\ role[k - 1] = "option" /\ words[k - 1] \in takes
        THEN "value"
        ELSE CASE IsBare(words[k])            -> IF after THEN "bare" ELSE "command"
               [] words[k] \in knows          -> "option"
               [] OTHER                       -> "ignored"

(* ... and so what each word is, from left to right and without a parser.  *)
Roles(words) ==
    LET role[k \in 1..Len(words)] == RoleAt(words, role, k)
    IN  role

(* Where the reading ends early: at an unknown command, at a --help or     *)
(* --version after the command.                                            *)
Ends(words, roles) ==
    {k \in 1..Len(words) :
        \/ roles[k] = "command" /\ words[k] \notin DOMAIN CommandTypes
        \/ roles[k] = "option" /\ words[k] \in Helps \cup {"--version"}}

(* The places of a role up to there.                                       *)
Places(words, roles, role) ==
    {k \in 1..Len(words) : roles[k] = role /\ \A end \in Ends(words, roles) : k < end}

(* The values given for a field of the table, ...                          *)
Given(words, values, table, field) ==
    {k \in values : words[k - 1] \in DOMAIN table /\ table[words[k - 1]] = field}

(* ... and the last of them, or its default.                               *)
LastValue(words, values, table, field, Convert(_)) ==
    LET places == Given(words, values, table, field)
    IN  IF places = {} THEN DefaultConfig[field] ELSE Convert(words[Max(places)])

Itself(word) == word

(* Every field of c holds the last value it is given, a switch is on if it *)
(* is given, the destination is the last bare word.                        *)
Holds(c, words, values, options, bare) ==
    /\ \A f \in DOMAIN TextOptions : c[f] = LastValue(words, values, Texts, f, Itself)
    /\ \A f \in DOMAIN SizeOptions : c[f] = LastValue(words, values, Sizes, f, Stoul)
    /\ \A f \in DOMAIN IntOptions : c[f] = LastValue(words, values, Ints, f, Stoi)
    /\ \A f \in DOMAIN SwitchOptions :
          c[f] <=> \E k \in options : words[k] \in DOMAIN Switches /\ Switches[words[k]] = f
    /\ c.destination # "" => bare # {} /\ c.destination = words[Max(bare)]

(* The value of an option with a number is one its field can hold.         *)
IsNumber(words, k) ==
    words[k - 1] \in DOMAIN Sizes \cup DOMAIN Ints => words[k] \in NumberWords(words[k - 1])

(* Every field holds the last value the command line gives it, a switch is *)
(* on if it is given, the destination is the last bare word of a call; and *)
(* parsing crashes exactly where a number is asked for and the word is     *)
(* none, or one too large for the field: the same word may do for -m and   *)
(* end the program behind -t.  In particular the value of an option is     *)
(* never taken for an option (cli_parser.cpp:22-115).                      *)
ConfigAsWritten ==
    parserPc \in {"decided", "crashed"} =>
        LET roles  == Roles(args)
            values == Places(args, roles, "value")
        IN  IF \E k \in values : ~IsNumber(args, k)
            THEN outcome = "crash"
            ELSE /\ outcome # "crash"
                 /\ Holds(config, args, values, Places(args, roles, "option"),
                          Places(args, roles, "bare"))

(* A command runs only with what it needs, whatever order the options came *)
(* in and wherever the parsing stopped (cli_parser.cpp:164-194,            *)
(* main.cpp:126-142).                                                      *)
RunsOnlyValid ==
    outcome = "run" =>
        /\ config.type # "UNKNOWN"
        /\ \A k \in 1..Len(args) : args[k] # "--version"
        /\ config.type = "CALL" => Places(args, Roles(args), "bare") # {}
        /\ config.maxCalls > 0

(* Every command line is decided upon: version, help, an error, a crash or *)
(* a run (cli_parser.cpp:37, 128).                                         *)
ParseEnds == <>(outcome # "none")
=============================================================================
