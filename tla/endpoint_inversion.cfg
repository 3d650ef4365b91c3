\* The callback is replaced while the one it replaces calls Endpoint.
SPECIFICATION Spec
CONSTANTS
    StackThreads = {s1}
    NoThread = NoThread
    Connections = {c1}
    Callbacks = {f, g}
    NoCallback = NoCallback
    MaxLives = 1
    AppThreads = {t1, t2}
    GatekeeperRequired = TRUE
    AppOperations = {"initialize", "setEventCallback"}
    AppLayers = {"Endpoint"}
    CallbackOps = {"makeCall"}
    EarlyCallback = FALSE
    ResetCallback = TRUE
    MaxCalls = 2
INVARIANTS
    NoCircularWait
