\* The callback calls Endpoint and H323Endpoint; it is set once, after initialize.
SPECIFICATION FairSpec
CONSTANTS
    StackThreads = {s1}
    NoThread = NoThread
    Connections = {c1}
    Callbacks = {f}
    NoCallback = NoCallback
    MaxLives = 1
    AppThreads = {t1, t2}
    GatekeeperRequired = TRUE
    AppOperations = {"initialize", "setEventCallback", "makeCall"}
    AppLayers = {"Endpoint", "H323Endpoint"}
    CallbackOps = {"makeCall", "isRegisteredWithGatekeeper"}
    EarlyCallback = FALSE
    ResetCallback = FALSE
    MaxCalls = 1
INVARIANTS
    NoCircularWait
PROPERTIES
    RequestsEnd
