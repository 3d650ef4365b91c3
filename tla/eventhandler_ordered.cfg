\* Two stack threads, but one report at a time about each connection.
SPECIFICATION FairHandlerSpec
CONSTANTS
    StackThreads = {s1, s2}
    NoThread = NoThread
    Connections = {c1, c2}
    Callbacks = {f, g}
    NoCallback = NoCallback
    MaxLives = 3
INVARIANTS
    CallbackSerialised
    EventsMatchStates
    NoStaleEntry
PROPERTIES
    CallbackNotReplacedWhileRunning
    DeliveryEnds
