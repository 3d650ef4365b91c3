\* Two threads create calls and use them.
SPECIFICATION FairSpec
CONSTANTS
    Threads = {t1, t2}
    NoThread = NoThread
    Creators = {t1, t2}
    Methods = {"answerCall", "rejectCall", "releaseCall", "setCallStateCallback"}
    MaxCreated = 4
INVARIANTS
    Q931TypeOK
    CallbackSeesItsState
PROPERTIES
    ChosenIdUnused
    CreateEnds
