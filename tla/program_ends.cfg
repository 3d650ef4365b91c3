\* Every kind of command line; signals at any moment at which their thread is not inside
\* the queue's critical section.
SPECIFICATION FairSpec
CONSTANTS
    Frames = {"main", "handler"}
    Files = {"none", "open"}
    ArgLists <- MCArgLists
    OtherDashed = {"-", "--", "-x", "--unknown", "-1"}
    Numerals <- MCNumerals
    SizeMax = 255
    IntMax = 127
    MaxSignals = 1
    SignalsAnywhere = FALSE
INVARIANTS
    ProgramTypeOK
    OutputInOrder
    DrainedBeforeClose
    WorkerGoneBeforeClose
PROPERTIES
    ProgramEnds
    QueueDrains
    ImplementsLog
CHECK_DEADLOCK FALSE
