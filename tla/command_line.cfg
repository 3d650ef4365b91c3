\* All command lines of up to four of these words: one or two of each kind. 200 fits a
\* size_t and no int here, 300 neither.
SPECIFICATION ParserSpec
CONSTANTS
    Words = {"call", "load", "word", "--log-file", "-q", "-m", "--calls", "-t",
             "-d", "--tls", "0", "-1", "200", "300", "-h", "--version"}
    MaxArgs = 4
    ArgLists <- MCArgLists
    OtherDashed = {"-", "--", "-x", "--unknown", "-1"}
    Numerals <- MCNumerals
    SizeMax = 255
    IntMax = 127
INVARIANTS
    CliTypeOK
    ConfigAsWritten
    RunsOnlyValid
PROPERTIES
    ParseEnds
CHECK_DEADLOCK FALSE
