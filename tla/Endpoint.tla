------------------------------ MODULE Endpoint ------------------------------
(***************************************************************************)
(* The Endpoint singleton of src/src/core/endpoint.cpp, composed with the  *)
(* H323Endpoint it wraps, the event handler below that, the threads of the *)
(* application and those of the H.323 stack.                               *)
(*                                                                         *)
(* Three std::mutexes, none recursive, are taken from the top down by the  *)
(* application (Endpoint, H323Endpoint, handler) and from the bottom up by *)
(* a stack thread whose callback calls Endpoint.  A method of Endpoint     *)
(* holds its mutex across the call to H323Endpoint: it is two steps of     *)
(* this module, "lockE" and "return", around those of H323Endpoint.        *)
(***************************************************************************)
EXTENDS H323Endpoint

CONSTANTS
    AppOperations,    \* operations the application performs
    AppLayers,        \* the singletons it performs them on
    CallbackOps,      \* operations the event callback performs
    EarlyCallback,    \* may the callback be set before initialize?
    ResetCallback,    \* may a callback that was set be replaced?
    MaxCalls          \* bound on the number of makeCalls

ASSUME EndpointArgsAssumption ==
    /\ AppOperations \subseteq Operations
    /\ CallbackOps \subseteq Operations
    /\ AppLayers \subseteq Layers
    /\ EarlyCallback \in BOOLEAN
    /\ ResetCallback \in BOOLEAN
    /\ MaxCalls \in Nat

VARIABLES
    endpointMutex,  \* who holds Endpoint's mutex_
    initialized,    \* initialized_
    activeCalls,    \* ids in activeCalls_
    totalCalls,     \* totalCalls_
    eventCallback   \* eventCallback_

endpointVars == <<endpointMutex, initialized, activeCalls, totalCalls,
                  eventCallback>>
vars == <<handlerVars, h323Vars, request, endpointVars>>

Init ==
    /\ HandlerInit
    /\ H323Init
    /\ endpointMutex = NoThread
    /\ initialized = FALSE
    /\ activeCalls = {}
    /\ totalCalls = 0
    /\ eventCallback = NoCallback

-----------------------------------------------------------------------------
(* (external) What the application asks for.                               *)

Arguments(op) ==
    CASE op \in {"answerCall", "releaseCall"} -> 0..(MaxCalls - 1)
      [] op = "setEventCallback" -> Callbacks
      [] OTHER -> {NoArg}

Pending(op) == {t \in AllThreads : request[t].op = op}

(* When the application sets the callback, and how often.                  *)
MaySetCallback ==
    /\ EarlyCallback \/ h323Initialized
    /\ ResetCallback \/ (h323Callback = NoCallback
                         /\ Pending("setEventCallback") = {})

MayRequest(op) ==
    /\ op = "makeCall" =>
          h323TotalCalls + Cardinality(Pending("makeCall")) < MaxCalls
    /\ op = "setEventCallback" => MaySetCallback

(* An application thread calls a method, or the callback does on the stack *)
(* thread it runs on, where the handler's mutex is held.                   *)
Request(t, op, layer, arg) ==
    /\ request[t] = NoRequest
    /\ \/ t \in AppThreads /\ op \in AppOperations
       \/ /\ t \in StackThreads /\ op \in CallbackOps
          /\ delivery[t].phase = "callback"
    /\ MayRequest(op)
    /\ op = "releaseAllCalls" => layer = "H323Endpoint"
    /\ request' = [request EXCEPT ![t] = NewRequest(op, layer, arg)]
    /\ UNCHANGED <<handlerVars, h323Vars, endpointVars>>

-----------------------------------------------------------------------------
(* Endpoint's methods up to the call of H323Endpoint.                      *)

(* Early returns.  initialize succeeds at once the second time, shutdown   *)
(* has nothing to do before it, the other methods fail before it.          *)
EarlyReturn(op, arg) ==
    \/ op = "getActiveCalls"
    \/ op = "initialize" /\ initialized
    \/ op \notin {"initialize", "setEventCallback"} /\ ~initialized
    \/ op \in {"answerCall", "releaseCall"} /\ arg \notin activeCalls

(* Bug variant: Endpoint's mutex is released before H323Endpoint is called. *)
EnterEndpointBriefly(t) ==
    /\ request[t].at = "lockE"
    /\ endpointMutex = NoThread
    /\ LET op == request[t].op  arg == request[t].arg IN
       IF EarlyReturn(op, arg)
       THEN /\ request' = [request EXCEPT ![t] = NoRequest]
            /\ UNCHANGED <<activeCalls, eventCallback>>
       ELSE /\ request' = [request EXCEPT ![t].at = "lockH"]
            /\ activeCalls' = IF op = "shutdown" THEN {} ELSE activeCalls
            /\ eventCallback' =
                  IF op = "setEventCallback" THEN arg ELSE eventCallback
    /\ UNCHANGED <<handlerVars, h323Vars, endpointMutex, initialized,
                   totalCalls>>

(* Bug variant: an early return leaves the mutex locked.                   *)
EnterEndpointKeepsLock(t) ==
    /\ request[t].at = "lockE"
    /\ endpointMutex = NoThread
    /\ endpointMutex' = t
    /\ LET op == request[t].op  arg == request[t].arg IN
       IF EarlyReturn(op, arg)
       THEN /\ request' = [request EXCEPT ![t] = NoRequest]
            /\ UNCHANGED <<activeCalls, eventCallback>>
       ELSE /\ request' = [request EXCEPT ![t].at = "lockH"]
            /\ activeCalls' = IF op = "shutdown" THEN {} ELSE activeCalls
            /\ eventCallback' =
                  IF op = "setEventCallback" THEN arg ELSE eventCallback
    /\ UNCHANGED <<handlerVars, h323Vars, initialized, totalCalls>>

EnterEndpoint(t) ==
    /\ request[t].at = "lockE"
    /\ endpointMutex = NoThread
    /\ LET op == request[t].op  arg == request[t].arg IN
       IF EarlyReturn(op, arg)
       THEN /\ request' = [request EXCEPT ![t] = NoRequest]
            /\ UNCHANGED <<endpointMutex, activeCalls, eventCallback>>
       ELSE /\ endpointMutex' = t
            /\ request' = [request EXCEPT ![t].at = "lockH"]
            /\ activeCalls' = IF op = "shutdown" THEN {} ELSE activeCalls
            /\ eventCallback' =
                  IF op = "setEventCallback" THEN arg ELSE eventCallback
    /\ UNCHANGED <<handlerVars, h323Vars, initialized, totalCalls>>

(* ... and from its return to Endpoint's own.  releaseCall forgets the     *)
(* call whatever H323Endpoint answered.                                    *)
ReturnFromEndpoint(t) ==
    /\ request[t].at = "return"
    /\ LET op == request[t].op  id == request[t].arg  ok == request[t].ok IN
       /\ initialized' = (initialized \/ (op = "initialize" /\ ok))
       /\ activeCalls' =
             CASE op = "makeCall" /\ ok -> activeCalls \cup {id}
               [] op = "releaseCall"    -> activeCalls \ {id}
               [] OTHER                 -> activeCalls
       /\ totalCalls' =
             IF op = "makeCall" /\ ok THEN totalCalls + 1 ELSE totalCalls
    /\ endpointMutex' = IF endpointMutex = t THEN NoThread ELSE endpointMutex
    /\ request' = [request EXCEPT ![t] = NoRequest]
    /\ UNCHANGED <<handlerVars, h323Vars, eventCallback>>

-----------------------------------------------------------------------------
(* The event handler's threads.  The stack has somebody to report to once  *)
(* the handler exists, and a callback returns when its requests are done.  *)
HandlerStep ==
    /\ \/ /\ h323Initialized
          /\ \E s \in StackThreads : StackStep(s)
       \/ \E s \in StackThreads : Deliver(s)
       \/ \E c \in Connections : ConnectionDeleted(c)
    /\ UNCHANGED <<h323Vars, request, endpointVars>>

EndCallback(s) ==
    /\ request[s] = NoRequest
    /\ CallbackReturns(s)
    /\ UNCHANGED <<h323Vars, request, endpointVars>>

Proceed(t) ==
    \/ EnterEndpoint(t)
    \/ H323Step(t) /\ UNCHANGED endpointVars
    \/ ReturnFromEndpoint(t)

Next ==
    \/ \E t \in AllThreads, op \in Operations, layer \in AppLayers :
          \E arg \in Arguments(op) : Request(t, op, layer, arg)
    \/ \E t \in AllThreads : Proceed(t)
    \/ HandlerStep
    \/ \E s \in StackThreads : EndCallback(s)

Spec == Init /\ [][Next]_vars

(* A thread that waits for a mutex gets it if it becomes free again and    *)
(* again, and the callback makes finitely many requests.                   *)
FairSpec ==
    /\ Spec
    /\ \A t \in AllThreads : SF_vars(Proceed(t))
    /\ \A s \in StackThreads :
          /\ SF_vars(EndCallback(s))
          /\ SF_vars(Deliver(s) /\ UNCHANGED <<h323Vars, request, endpointVars>>)

-----------------------------------------------------------------------------
Requests ==
    {NoRequest} \cup
    [op : Operations, layer : Layers,
     arg : {NoArg} \cup Callbacks \cup (0..MaxCalls),
     at : {"lockE", "lockH", "lockV", "relockH", "return"}, ok : BOOLEAN]

(* Type invariant, with the mutexes: who holds one is inside the methods   *)
(* it protects, and nobody else is.                                        *)
EndpointTypeOK ==
    /\ HandlerTypeOK
    /\ h323Initialized \in BOOLEAN /\ initialized \in BOOLEAN
    /\ h323TotalCalls \in 0..MaxCalls /\ totalCalls \in 0..MaxCalls
    /\ h323Callback \in Callbacks \cup {NoCallback}
    /\ eventCallback \in Callbacks \cup {NoCallback}
    /\ activeCalls \subseteq 0..MaxCalls
    /\ request \in [AllThreads -> Requests]
    /\ \A t \in AllThreads :
          /\ endpointMutex = t <=> /\ request[t].layer = "Endpoint"
                                   /\ request[t].at \notin {"idle", "lockE"}
          /\ h323Mutex = t <=> request[t].at \in {"lockV", "relockH"}

(* The owner of the mutex a thread is waiting for.                         *)
WaitsFor(t) ==
    CASE request[t].at = "lockE"                -> endpointMutex
      [] request[t].at \in {"lockH", "relockH"} -> h323Mutex
      [] request[t].at = "lockV"                -> mutex
      [] OTHER -> IF t \in StackThreads
                     /\ delivery[t].phase \in {"update", "send"}
                  THEN mutex ELSE NoThread

(* No set of threads waits within itself - for each other, or one for      *)
(* itself: three mutexes taken in two directions must not meet.            *)
NoCircularWait ==
    \A S \in (SUBSET AllThreads) \ {{}} : \E t \in S : WaitsFor(t) \notin S

(* Endpoint's map is keyed by ids it does not make: an id makeCall returns *)
(* never names a call already in the map (endpoint.cpp:123-124), which     *)
(* would leak that Call, also when others call H323Endpoint directly.      *)
NoCallOverwritten ==
    /\ \A t \in AllThreads :
          InRequest(t, "makeCall", "return") => request[t].arg \notin activeCalls
    /\ totalCalls >= Cardinality(activeCalls)

(* The handler calls the callback that was set last: two setEventCallbacks *)
(* do not leave the handler with the older one, and none is lost           *)
(* (h323_endpoint.cpp:270-279).                                            *)
CallbackInstalled ==
    h323Mutex = NoThread /\ h323Initialized => callback = h323Callback

(* The two singletons change their callback together: the one Endpoint     *)
(* passes down is the one it has itself at that moment, so that two        *)
(* setEventCallbacks cannot leave the layers with different ones           *)
(* (endpoint.cpp:177-183).                                                 *)
CallbacksAgree ==
    [][\A t \in AllThreads :
          /\ request[t].layer = "Endpoint"
          /\ InRequest(t, "setEventCallback", "lockH")
          /\ request'[t].at # "lockH"
          => h323Callback' = eventCallback]_vars

(* Every method call returns.                                              *)
RequestsEnd ==
    \A t \in AllThreads : request[t] # NoRequest ~> request[t] = NoRequest

=============================================================================
