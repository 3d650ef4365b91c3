\* One signal, delivered anywhere.
SPECIFICATION FairSpec
CONSTANTS
    Frames = {"main", "handler"}
    Files = {"none"}
    ArgLists <- ListenArgs
    OtherDashed = {"-", "--", "-x", "--unknown", "-1"}
    Numerals <- MCNumerals
    SizeMax = 255
    IntMax = 127
    MaxSignals = 1
    SignalsAnywhere = TRUE
PROPERTIES
    ProgramEnds
CHECK_DEADLOCK FALSE
