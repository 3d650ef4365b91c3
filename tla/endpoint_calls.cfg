\* Two threads use both singletons, every operation; callbacks are replaced; shutdown, once it
\* has begun, stops the program: that is not a deadlock to report here.
SPECIFICATION Spec
CONSTANTS
    StackThreads = {s1}
    NoThread = NoThread
    Connections = {c1}
    Callbacks = {f, g}
    NoCallback = NoCallback
    MaxLives = 0
    AppThreads = {t1, t2}
    GatekeeperRequired = TRUE
    AppOperations = {"initialize", "setEventCallback", "makeCall", "releaseCall",
                     "answerCall", "registerWithGatekeeper", "unregisterFromGatekeeper",
                     "isRegisteredWithGatekeeper", "getActiveCalls", "releaseAllCalls", "shutdown"}
    AppLayers = {"Endpoint", "H323Endpoint"}
    CallbackOps = {}
    EarlyCallback = FALSE
    ResetCallback = TRUE
    MaxCalls = 2
INVARIANTS
    EndpointTypeOK
    NoCallOverwritten
    CallbackInstalled
PROPERTIES
    CallbacksAgree
CHECK_DEADLOCK FALSE
