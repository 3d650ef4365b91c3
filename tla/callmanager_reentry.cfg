\* The callback removes the call it was told is over.
SPECIFICATION Spec
CONSTANTS
    Threads = {t1}
    NoThread = NoThread
    Limits = {}
    DefaultMaxCalls = 2
    AddedIds = {}
    ClientStates = {}
    Causes = {}
    OnInitiated = {}
    OnReleased = {"removeCall"}
    MaxTotal = 2
INVARIANTS
    NoCallLost
