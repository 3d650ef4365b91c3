---------------------------- MODULE Q931Manager ----------------------------
(***************************************************************************)
(* The Q931Manager of src/src/h323/q931.cpp: a map from call ids to call   *)
(* information, under a std::mutex that is not recursive.                  *)
(*                                                                         *)
(* Two methods are more than one step.  createOutgoingCall reads the size  *)
(* of the map before it takes the mutex.  answerCall and releaseCall call  *)
(* the application with the mutex held, after they have changed the map.   *)
(* The callback does not call the manager: it would wait for the mutex its *)
(* own thread holds, and never return.                                     *)
(***************************************************************************)
EXTENDS Integers, FiniteSets

CONSTANTS
    Threads,      \* threads of the application
    NoThread,     \* owner of a free mutex
    Creators,     \* the threads that call createOutgoingCall
    Methods,      \* the methods all threads call besides
    MaxCreated    \* bound on the number of calls created

ASSUME QThreadsAssumption ==
    /\ NoThread \notin Threads
    /\ Creators \subseteq Threads
ASSUME QBoundAssumption == MaxCreated \in Nat
ASSUME QMethodsAssumption ==
    Methods \subseteq
        {"answerCall", "rejectCall", "releaseCall", "getCallState",
         "setCallStateCallback"}

VARIABLES
    infos,          \* calls_: the state of every call in the map, by id
    stateCallback,  \* whether stateCallback_ is set
    owner,          \* who holds mutex_
    inCallback,     \* the call the owner's callback is about, or None
    pending,        \* the size a thread in createOutgoingCall has read, or None
    created,        \* createOutgoingCalls begun
    told            \* the state the callback was told last, by id

vars == <<infos, stateCallback, owner, inCallback, pending, created,
          told>>

(* The id "call-<n>" is the number n.                                      *)
Ids == 0..(MaxCreated - 1)

States == {"absent", "CALL_INITIATED", "CALL_ACTIVE", "RELEASE_COMPLETE"}

Present == {id \in Ids : infos[id] # "absent"}

None == -1

Init ==
    /\ infos = [id \in Ids |-> "absent"]
    /\ stateCallback = FALSE
    /\ owner = NoThread
    /\ inCallback = None
    /\ pending = [t \in Threads |-> None]
    /\ created = 0
    /\ told = [id \in Ids |-> "absent"]

-----------------------------------------------------------------------------
(* calls_.size() of createOutgoingCall, with nobody's leave.               *)
CreateReadsSize(t) ==
    /\ t \in Creators
    /\ pending[t] = None
    /\ owner # t
    /\ created < MaxCreated
    /\ pending' = [pending EXCEPT ![t] = Cardinality(Present)]
    /\ created' = created + 1
    /\ UNCHANGED <<infos, stateCallback, owner, inCallback, told>>

(* calls_[callId] = info, whatever was there.                              *)
CreateInserts(t) ==
    /\ pending[t] # None
    /\ owner = NoThread
    /\ infos' = [infos EXCEPT ![pending[t]] = "CALL_INITIATED"]
    /\ pending' = [pending EXCEPT ![t] = None]
    /\ UNCHANGED <<stateCallback, owner, inCallback, created, told>>

(* The mutex is free, and the thread is not in the middle of a method.     *)
MayEnter(t, method) ==
    /\ method \in Methods
    /\ owner = NoThread
    /\ pending[t] = None

(* updateCallState: the callback, if there is one, runs from here until    *)
(* CallbackReturns.                                                        *)
UpdateCallState(t, id, state) ==
    IF stateCallback
    THEN /\ owner' = t
         /\ inCallback' = id
         /\ told' = [told EXCEPT ![id] = state]
    ELSE UNCHANGED <<owner, inCallback, told>>

(* Bug variant: the callback is told, the map is left alone.               *)
AnswerCallTellsOnly(t, id) ==
    /\ MayEnter(t, "answerCall")
    /\ id \in Present
    /\ UpdateCallState(t, id, "CALL_ACTIVE")
    /\ UNCHANGED <<infos, stateCallback, pending, created>>

(* No look at the state the call is in.                                    *)
AnswerCall(t, id) ==
    /\ MayEnter(t, "answerCall")
    /\ id \in Present
    /\ infos' = [infos EXCEPT ![id] = "CALL_ACTIVE"]
    /\ UpdateCallState(t, id, "CALL_ACTIVE")
    /\ UNCHANGED <<stateCallback, pending, created>>

(* rejectCall is releaseCall without the callback.                         *)
RejectCall(t, id) ==
    /\ MayEnter(t, "rejectCall")
    /\ id \in Present
    /\ infos' = [infos EXCEPT ![id] = "RELEASE_COMPLETE"]
    /\ UNCHANGED <<stateCallback, owner, inCallback, pending,
                   created, told>>

(* Bug variant: a released call is erased from the map.                    *)
ReleaseCallErases(t, id) ==
    /\ MayEnter(t, "releaseCall")
    /\ id \in Present
    /\ infos' = [infos EXCEPT ![id] = "absent"]
    /\ UpdateCallState(t, id, "RELEASE_COMPLETE")
    /\ UNCHANGED <<stateCallback, pending, created>>

(* A released call stays in the map.                                       *)
ReleaseCall(t, id) ==
    /\ MayEnter(t, "releaseCall")
    /\ id \in Present
    /\ infos' = [infos EXCEPT ![id] = "RELEASE_COMPLETE"]
    /\ UpdateCallState(t, id, "RELEASE_COMPLETE")
    /\ UNCHANGED <<stateCallback, pending, created>>

(* An empty std::function takes the callback away.                         *)
SetCallStateCallback(t, callback) ==
    /\ MayEnter(t, "setCallStateCallback")
    /\ stateCallback' = callback
    /\ UNCHANGED <<infos, owner, inCallback, pending, created, told>>

(* Bug variant: the mutex is not released.                                 *)
CallbackReturnsLocked(t) ==
    /\ owner = t /\ inCallback # None
    /\ inCallback' = None
    /\ UNCHANGED <<infos, stateCallback, owner, pending, created,
                   told>>

CallbackReturns(t) ==
    /\ owner = t /\ inCallback # None
    /\ owner' = NoThread
    /\ inCallback' = None
    /\ UNCHANGED <<infos, stateCallback, pending, created, told>>

-----------------------------------------------------------------------------
UseCall(t) ==
    \/ \E id \in Ids : AnswerCall(t, id) \/ RejectCall(t, id) \/ ReleaseCall(t, id)
    \/ \E callback \in BOOLEAN : SetCallStateCallback(t, callback)

Next ==
    \E t \in Threads :
        \/ CreateReadsSize(t)
        \/ CreateInserts(t)
        \/ UseCall(t)
        \/ CallbackReturns(t)

Spec == Init /\ [][Next]_vars

(* A creator that waits for the mutex is not starved, a callback returns.  *)
FairSpec ==
    /\ Spec
    /\ \A t \in Threads : SF_vars(CreateInserts(t)) /\ WF_vars(CallbackReturns(t))

-----------------------------------------------------------------------------
(* Type invariant.                                                         *)
Q931TypeOK ==
    /\ infos \in [Ids -> States]
    /\ stateCallback \in BOOLEAN
    /\ owner \in Threads \cup {NoThread}
    /\ inCallback \in Ids \cup {None}
    /\ inCallback # None <=> owner # NoThread
    /\ pending \in [Threads -> Ids \cup {None}]
    /\ created \in 0..MaxCreated
    /\ told \in [Ids -> States]

(* The id createOutgoingCall settles on is that of no call in the map at   *)
(* that moment, whoever else creates calls: releaseCall keeps what it      *)
(* releases, so that the size is a free number (q931.cpp:20, 74-83).  What *)
(* createOutgoingCall overwrites can only be a call created meanwhile.     *)
ChosenIdUnused ==
    [][\A t \in Threads :
          pending[t] = None /\ pending'[t] # None => pending'[t] \notin Present]_vars

(* As long as the callback runs, the map holds the state it was told of    *)
(* the call, whatever other threads ask for (q931.cpp:46-47, 80-82).       *)
CallbackSeesItsState ==
    inCallback # None => infos[inCallback] = told[inCallback]

(* A createOutgoingCall that has begun returns.                            *)
CreateEnds ==
    \A t \in Threads : pending[t] # None ~> pending[t] = None

=============================================================================
