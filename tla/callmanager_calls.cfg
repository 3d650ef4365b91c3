\* Two threads; the callback of startOutgoingCall dials again and
\* stops everything, that of stopAllCalls looks around.
SPECIFICATION Spec
SYMMETRY Symmetry
CONSTANTS
    Threads = {t1, t2}
    NoThread = NoThread
    Limits = {2}
    DefaultMaxCalls = 1
    AddedIds = {3}
    ClientStates = {"CALL_ALERTING"}
    Causes = {17}
    OnInitiated = {"startOutgoingCall", "stopAllCalls"}
    OnReleased = {"getCall"}
    MaxTotal = 3
INVARIANTS
    TypeOK
    CallsConserved
    IssuedIdResolves
    StatsInSync
    NestingBounded
PROPERTIES
    
    
    RefinesRegistry
