----------------------------- MODULE CallManager -----------------------------
(***************************************************************************)
(* The CallManager singleton of src/src/core/call_manager.cpp together     *)
(* with the Call objects it owns.                                          *)
(*                                                                         *)
(* Every method that changes the manager holds its recursive_mutex from    *)
(* the first statement to the return.  A method that calls no user code is *)
(* therefore one step.  Two methods call the installed callback with the   *)
(* mutex held - startOutgoingCall as its last action, stopAllCalls once    *)
(* per call - and during the callback                                      *)
(*   - the same thread may enter the manager again (the mutex is           *)
(*     recursive), while                                                   *)
(*   - other threads may not, but may still use the shared_ptr<Call> they  *)
(*     obtained earlier: a Call has a mutex of its own.                    *)
(* These two methods are split at the callback.  stopAllCalls is split     *)
(* once more: release() gives the mutex of the call up before the call is  *)
(* kept as completed, and such a client can get in between.                *)
(*                                                                         *)
(* A call object is a number, its index in calls; the shared_ptrs of the   *)
(* two vectors are these numbers.                                          *)
(***************************************************************************)
EXTENDS Call, Sequences, FiniteSets, SequencesExt

CONSTANTS
    Threads,          \* the threads of the program
    NoThread,         \* owner of a free mutex
    Limits,           \* values passed to setMaxCalls
    DefaultMaxCalls,  \* maxCalls_ before the first setMaxCalls
    AddedIds,         \* ids of the calls handed to addCall
    ClientStates,     \* states passed to setState
    Causes,           \* causes clients pass to Call::release
    OnInitiated,      \* methods the callback enters on CALL_INITIATED
    OnReleased,       \* methods the callback enters on RELEASE_COMPLETE
    MaxTotal          \* bound on the number of calls of a behaviour

ASSUME ThreadsAssumption == NoThread \notin Threads
ASSUME LimitsAssumption ==
    /\ Limits \subseteq Nat
    /\ DefaultMaxCalls \in Nat
    /\ MaxTotal \in Nat
ASSUME CallArgsAssumption ==
    /\ AddedIds \subseteq Nat
    /\ ClientStates \subseteq CallState
    /\ Causes \subseteq Nat

(* A callback of stopAllCalls that makes activeCalls_ grow, or clears it,  *)
(* may free the memory the range-for is walking through: undefined         *)
(* behaviour that this module leaves to the caller's obligation.           *)
ASSUME ReleasedCallbackAssumption ==
    OnReleased \cap {"startOutgoingCall", "addCall", "stopAllCalls"} = {}

(* A callback of stopAllCalls that leaves the list alone.  Not assumed:    *)
(* the results below that need it say so.                                  *)
ReleasedCallbackKeepsList == "removeCall" \notin OnReleased

VARIABLES
    calls,           \* every Call object, in order of creation
    activeCalls,     \* activeCalls_
    completedCalls,  \* completedCalls_
    totalCalls,      \* totalCalls_
    maxCalls,        \* maxCalls_
    listening,       \* listening_
    stats,           \* stats_, as of the last updateStats
    stateCallback,   \* whether a callback is installed
    owner,           \* the thread that holds mutex_
    dialling,        \* startOutgoingCall activations inside their callback
    loop,            \* the range-for of a running stopAllCalls
    handles          \* calls some client holds a shared_ptr to

manager == <<activeCalls, completedCalls, totalCalls, maxCalls, listening,
             stats, stateCallback>>
control == <<owner, dialling, loop>>
vars == <<calls, manager, control, handles>>

CallRefs == 1..Len(calls)

CallStats == [totalCalls : Nat, activeCalls : Nat, completedCalls : Nat]

(* The iterator of the loop: element number pos comes next, end is the     *)
(* end() taken when the loop began.  released: the body has released the   *)
(* element and not moved it yet.  notifying: it is inside the callback.    *)
NoLoop == [running |-> FALSE, pos |-> 1, end |-> 0,
           released |-> FALSE, notifying |-> FALSE]
Loop == [running : BOOLEAN, pos : Nat \ {0}, end : Nat,
         released : BOOLEAN, notifying : BOOLEAN]

-----------------------------------------------------------------------------
(* The recursive mutex and the callback                                    *)

InCallback == IF loop.running THEN loop.notifying ELSE dialling > 0

CallbackMethods == IF loop.running THEN OnReleased ELSE OnInitiated

(* Bug variant: no mutex at all.                                           *)
MayEnterWithoutMutex(t, method) == TRUE

(* Thread t calls a method: the mutex is free, or t owns it and calls from *)
(* inside the callback.                                                    *)
MayEnter(t, method) ==
    \/ owner = NoThread
    \/ owner = t /\ InCallback /\ method \in CallbackMethods

-----------------------------------------------------------------------------
(* Initial state and configuration                                         *)

Init ==
    /\ calls = <<>>
    /\ activeCalls = <<>>
    /\ completedCalls = <<>>
    /\ totalCalls = 0
    /\ maxCalls = DefaultMaxCalls
    /\ listening = FALSE
    /\ stats = [totalCalls |-> 0, activeCalls |-> 0, completedCalls |-> 0]
    /\ stateCallback = FALSE
    /\ owner = NoThread
    /\ dialling = 0
    /\ loop = NoLoop
    /\ handles = {}

SetMaxCalls(t, max) ==
    /\ MayEnter(t, "setMaxCalls")
    /\ maxCalls' = max
    /\ UNCHANGED <<calls, activeCalls, completedCalls, totalCalls, listening,
                   stats, stateCallback, control, handles>>

StartListening(t) ==
    /\ MayEnter(t, "startListening")
    /\ listening' = TRUE
    /\ UNCHANGED <<calls, activeCalls, completedCalls, totalCalls, maxCalls,
                   stats, stateCallback, control, handles>>

StopListening(t) ==
    /\ MayEnter(t, "stopListening")
    /\ listening' = FALSE
    /\ UNCHANGED <<calls, activeCalls, completedCalls, totalCalls, maxCalls,
                   stats, stateCallback, control, handles>>

(* Replacing the std::function while it runs is left out: only a thread    *)
(* that finds the mutex free sets it.                                      *)
SetCallStateCallback(t, installed) ==
    /\ owner = NoThread
    /\ stateCallback' = installed
    /\ UNCHANGED <<calls, activeCalls, completedCalls, totalCalls, maxCalls,
                   listening, stats, control, handles>>

-----------------------------------------------------------------------------
(* Calls enter the manager                                                 *)

(* Bug variant: totalCalls_ is left alone, so the next id repeats.         *)
PushCallUncounted(call) ==
    /\ calls' = Append(calls, call)
    /\ activeCalls' = Append(activeCalls, Len(calls) + 1)
    /\ totalCalls' = totalCalls

(* push_back and totalCalls_++ *)
PushCall(call) ==
    /\ calls' = Append(calls, call)
    /\ activeCalls' = Append(activeCalls, Len(calls) + 1)
    /\ totalCalls' = totalCalls + 1

(* Bug variant: the limit is off by one.                                   *)
BelowLimitOrEqual == Len(activeCalls) <= maxCalls

BelowLimit == Len(activeCalls) < maxCalls

(* A refused start returns "" and changes nothing.                         *)
StartOutgoingCall(t) ==
    /\ MayEnter(t, "startOutgoingCall")
    /\ totalCalls < MaxTotal
    /\ BelowLimit
    /\ PushCall(Setup(NewCall(totalCalls, FALSE)))
    /\ IF stateCallback
       THEN owner' = t /\ dialling' = dialling + 1
       ELSE UNCHANGED <<owner, dialling>>
    /\ UNCHANGED <<completedCalls, maxCalls, listening, stats, stateCallback,
                   loop, handles>>

(* The caller made the object, may have moved it on already, and keeps its *)
(* own pointer to it.  Each object is added once.                          *)
AddCall(t, id, s) ==
    /\ MayEnter(t, "addCall")
    /\ totalCalls < MaxTotal
    /\ PushCall(WithState(NewCall(id, TRUE), s))
    /\ handles' = handles \cup {Len(calls) + 1}
    /\ UNCHANGED <<completedCalls, maxCalls, listening, stats, stateCallback,
                   control>>

-----------------------------------------------------------------------------
(* Calls leave the manager                                                 *)

(* Bug variant: the call that is already erased is subtracted once more.   *)
UpdateStatsSubtracts(active, completed) ==
    stats' = [totalCalls |-> totalCalls, activeCalls |-> Len(active) - 1,
              completedCalls |-> Len(completed)]

(* updateStats() once the two lists are as given *)
UpdateStats(active, completed) ==
    stats' = [totalCalls |-> totalCalls, activeCalls |-> Len(active),
              completedCalls |-> Len(completed)]

(* find_if by id: element number i is the first with this id *)
FirstWith(list, i, id) ==
    /\ i \in 1..Len(list)
    /\ calls[list[i]].callId = id
    /\ \A j \in 1..(i - 1) : calls[list[j]].callId # id

(* Bug variant: erased, but not kept as completed.                         *)
RemoveCallForgets(t, i) ==
    /\ MayEnter(t, "removeCall")
    /\ FirstWith(activeCalls, i, calls[activeCalls[i]].callId)
    /\ activeCalls' = RemoveAt(activeCalls, i)
    /\ UNCHANGED <<calls, completedCalls, totalCalls, maxCalls, listening,
                   stats, stateCallback, control, handles>>

(* removeCall moves the call to completedCalls_ in whatever state it is:   *)
(* it does not release it.                                                 *)
RemoveCall(t, i) ==
    /\ MayEnter(t, "removeCall")
    /\ FirstWith(activeCalls, i, calls[activeCalls[i]].callId)
    /\ completedCalls' = Append(completedCalls, activeCalls[i])
    /\ activeCalls' = RemoveAt(activeCalls, i)
    /\ UpdateStats(activeCalls', completedCalls')
    /\ UNCHANGED <<calls, totalCalls, maxCalls, listening, stateCallback,
                   control, handles>>

(* stopAllCalls up to the first test of the loop *)
StopAllCalls(t) ==
    /\ MayEnter(t, "stopAllCalls")
    /\ owner' = t
    /\ loop' = [NoLoop EXCEPT !.running = TRUE, !.end = Len(activeCalls)]
    /\ UNCHANGED <<calls, manager, dialling, handles>>

(* The loop is about to look at an element.                                *)
AtElement(t) ==
    /\ owner = t /\ loop.running /\ ~loop.notifying /\ ~loop.released
    /\ loop.pos <= loop.end

(* Bug variant: the call is moved without being released.                  *)
StopReleaseOmitted(t) ==
    /\ AtElement(t)
    /\ loop' = IF loop.pos <= Len(activeCalls)
               THEN [loop EXCEPT !.released = TRUE]
               ELSE [loop EXCEPT !.pos = @ + 1]
    /\ UNCHANGED <<calls, manager, owner, dialling, handles>>

(* call->release(16) under the mutex of the call.  When the callback has   *)
(* erased an element, the vector is shorter than the end() the loop        *)
(* compares with; the slots past its last element hold moved-from, null    *)
(* pointers, which "if (call)" skips.                                      *)
StopRelease(t) ==
    /\ AtElement(t)
    /\ IF loop.pos <= Len(activeCalls)
       THEN /\ calls' = [calls EXCEPT ![activeCalls[loop.pos]] =
                            Released(@, NormalCallClearing)]
            /\ loop' = [loop EXCEPT !.released = TRUE]
       ELSE /\ loop' = [loop EXCEPT !.pos = @ + 1]
            /\ UNCHANGED calls
    /\ UNCHANGED <<manager, owner, dialling, handles>>

(* Keep the call as completed, whatever a client has made of it since, and *)
(* tell the callback.                                                      *)
StopMove(t) ==
    /\ owner = t /\ loop.running /\ loop.released
    /\ completedCalls' = Append(completedCalls, activeCalls[loop.pos])
    /\ loop' = [loop EXCEPT !.pos = @ + 1, !.released = FALSE,
                            !.notifying = stateCallback]
    /\ UNCHANGED <<calls, activeCalls, totalCalls, maxCalls, listening, stats,
                   stateCallback, owner, dialling, handles>>

(* The mutex is free again when the outermost method returns.              *)
OwnerAfterReturn(d) == IF d = 0 THEN NoThread ELSE owner

(* Bug variant: the statistics are not refreshed on the way out.           *)
StopEndKeepsStats(t) ==
    /\ owner = t /\ loop.running /\ ~loop.notifying /\ loop.pos > loop.end
    /\ activeCalls' = <<>>
    /\ listening' = FALSE
    /\ loop' = NoLoop
    /\ owner' = OwnerAfterReturn(dialling)
    /\ UNCHANGED <<calls, completedCalls, totalCalls, maxCalls, stats,
                   stateCallback, dialling, handles>>

(* clear(), listening_ = false, updateStats() and return *)
StopEnd(t) ==
    /\ owner = t /\ loop.running /\ ~loop.notifying /\ loop.pos > loop.end
    /\ activeCalls' = <<>>
    /\ listening' = FALSE
    /\ UpdateStats(activeCalls', completedCalls)
    /\ loop' = NoLoop
    /\ owner' = OwnerAfterReturn(dialling)
    /\ UNCHANGED <<calls, completedCalls, totalCalls, maxCalls, stateCallback,
                   dialling, handles>>

(* The callback returns: to the loop, or out of startOutgoingCall.         *)
CallbackReturns(t) ==
    /\ owner = t /\ InCallback
    /\ IF loop.running
       THEN /\ loop' = [loop EXCEPT !.notifying = FALSE]
            /\ UNCHANGED <<owner, dialling>>
       ELSE /\ dialling' = dialling - 1
            /\ owner' = OwnerAfterReturn(dialling')
            /\ UNCHANGED loop
    /\ UNCHANGED <<calls, manager, handles>>

-----------------------------------------------------------------------------
(* Clients obtain calls and use them without the manager's mutex           *)

(* getCall(id) returns call c: active calls are searched before completed  *)
(* ones.  When it returns nullptr, nothing happens.                        *)
GetCallReturns(id, c) ==
    \/ \E i \in DOMAIN activeCalls :
          FirstWith(activeCalls, i, id) /\ c = activeCalls[i]
    \/ /\ \A i \in DOMAIN activeCalls : calls[activeCalls[i]].callId # id
       /\ \E i \in DOMAIN completedCalls :
             FirstWith(completedCalls, i, id) /\ c = completedCalls[i]

GetCall(t, id, c) ==
    /\ MayEnter(t, "getCall")
    /\ GetCallReturns(id, c)
    /\ handles' = handles \cup {c}
    /\ UNCHANGED <<calls, manager, control>>

GetActiveCalls(t) ==
    /\ MayEnter(t, "getActiveCalls")
    /\ handles' = handles \cup Range(activeCalls)
    /\ UNCHANGED <<calls, manager, control>>

GetAllCalls(t) ==
    /\ MayEnter(t, "getAllCalls")
    /\ handles' = handles \cup Range(activeCalls) \cup Range(completedCalls)
    /\ UNCHANGED <<calls, manager, control>>

CallAnswer(c) ==
    /\ CanAnswer(calls[c])
    /\ calls' = [calls EXCEPT ![c] = Answered(@)]
    /\ UNCHANGED <<manager, control, handles>>

CallRelease(c, cause) ==
    /\ calls' = [calls EXCEPT ![c] = Released(@, cause)]
    /\ UNCHANGED <<manager, control, handles>>

CallSetState(c, s) ==
    /\ calls' = [calls EXCEPT ![c] = WithState(@, s)]
    /\ UNCHANGED <<manager, control, handles>>

-----------------------------------------------------------------------------
Configure(t) ==
    \/ \E max \in Limits : SetMaxCalls(t, max)
    \/ \E installed \in BOOLEAN : SetCallStateCallback(t, installed)
    \/ StartListening(t)
    \/ StopListening(t)

Enter(t) ==
    \/ StartOutgoingCall(t)
    \/ \E id \in AddedIds, s \in ClientStates : AddCall(t, id, s)
    \/ \E i \in 1..Len(activeCalls) : RemoveCall(t, i)
    \/ StopAllCalls(t)

Query(t) ==
    \/ \E c \in CallRefs : GetCall(t, calls[c].callId, c)
    \/ GetActiveCalls(t)
    \/ GetAllCalls(t)

Continue(t) ==
    \/ StopRelease(t)
    \/ StopMove(t)
    \/ StopEnd(t)
    \/ CallbackReturns(t)

UseHandle ==
    \E c \in handles :
        \/ CallAnswer(c)
        \/ \E cause \in Causes : CallRelease(c, cause)
        \/ \E s \in ClientStates : CallSetState(c, s)

Next ==
    \/ \E t \in Threads : Configure(t) \/ Enter(t) \/ Query(t) \/ Continue(t)
    \/ UseHandle

Spec == Init /\ [][Next]_vars

-----------------------------------------------------------------------------
(* Type invariant.  The number fields stay Nat: their bounds follow from   *)
(* the guards.                                                             *)
TypeOK ==
    /\ calls \in Seq(CallObject)
    /\ activeCalls \in Seq(CallRefs)
    /\ completedCalls \in Seq(CallRefs)
    /\ totalCalls \in Nat
    /\ maxCalls \in Nat
    /\ listening \in BOOLEAN
    /\ stats \in CallStats
    /\ stateCallback \in BOOLEAN
    /\ owner \in Threads \cup {NoThread}
    /\ dialling \in Nat
    /\ loop \in Loop
    /\ handles \subseteq CallRefs

(* How many calls the running loop has copied to completedCalls_ without   *)
(* taking them out of activeCalls_ yet.                                    *)
InBothLists == IF loop.running THEN loop.pos - 1 ELSE 0

(* Conservation of calls: every call that ever entered the manager is in   *)
(* one of its two lists, in one place only - except for the calls a        *)
(* running stopAllCalls has already moved, which are in both until its     *)
(* final clear().  totalCalls_ counts them.  This is about the callbacks   *)
(* of stopAllCalls and startOutgoingCall re-entering the manager and about *)
(* threads that interleave with them.                                      *)
CallsConserved ==
    /\ Range(activeCalls) \cup Range(completedCalls) = CallRefs
    /\ Len(activeCalls) + Len(completedCalls) = Len(calls) + InBothLists
    /\ totalCalls = Len(calls)

(* The id startOutgoingCall returned keeps naming that call and no other,  *)
(* through getCall, for the rest of the program - while other calls start, *)
(* stop, are removed or sit in both lists (call_manager.cpp:56, 150-168).  *)
(* It needs the ids of added calls to differ from those issued here.       *)
IssuedIdResolves ==
    \A c \in CallRefs :
        ~calls[c].incoming
            => \A d \in CallRefs :
                  GetCallReturns(calls[c].callId, d) <=> d = c

(* A callback that dials again from inside CALL_INITIATED recurses as deep *)
(* as the largest limit ever set, and deeper only by the calls that were   *)
(* completed: the limit check comes before every push_back                 *)
(* (call_manager.cpp:50, 69-71).                                           *)
NestingBounded ==
    \E max \in Limits \cup {DefaultMaxCalls} :
        dialling <= max + Len(completedCalls)

(* The cached statistics count every completed call whenever no loop is    *)
(* at work: each way into completedCalls_ refreshes them before it leaves  *)
(* the mutex (call_manager.cpp:110, 146).                                  *)
StatsInSync == ~loop.running => stats.completedCalls = Len(completedCalls)

(* The first release of a call decides its cause: a client's release()     *)
(* racing with stopAllCalls never overwrites it (call.cpp:67-75).          *)
FirstReleaseWins ==
    [][\A c \in CallRefs :
          calls[c].state = "RELEASE_COMPLETE"
            => \/ calls'[c].releaseCause = calls[c].releaseCause
               \/ calls'[c].state # "RELEASE_COMPLETE"]_vars

(* Clients end a call with release() and never write the states that make  *)
(* release() refuse.  Not assumed: the property below needs it.            *)
ClientsEndByRelease ==
    /\ ClientStates \cap {"RELEASE_COMPLETE", "NULL_STATE"} = {}
    /\ 0 \notin Causes

(* Every call stopAllCalls keeps as completed has had its release: a cause *)
(* is on record, 16 or that of a client that released it first - although  *)
(* clients may answer the call or set its state before, during and after   *)
(* the loop's release(), so that it may be completed in CALL_ALERTING      *)
(* (call_manager.cpp:95-98, call.cpp:46, 67-75, 88).                       *)
StoppedCallsHaveCause ==
    [][loop.running /\ completedCalls' # completedCalls
          => calls[Last(completedCalls')].releaseCause # 0]_vars

(* The manager implements the registry its clients rely on: no call is     *)
(* lost, completed twice, or brought back.                                 *)
Registry == INSTANCE CallRegistry WITH
    Calls <- 1..MaxTotal,
    live <- Range(activeCalls) \ Range(completedCalls),
    done <- Range(completedCalls)

RefinesRegistry == Registry!RegistrySpec

(* No call drops out of both lists, whatever the callback does with the    *)
(* recursive mutex it is called under.                                     *)
NoCallLost ==
    \A c \in CallRefs : c \in Range(activeCalls) \cup Range(completedCalls)
=============================================================================
