---------------------------- MODULE H323Endpoint ----------------------------
(***************************************************************************)
(* The H323Endpoint singleton of src/src/h323/h323_endpoint.cpp on top of  *)
(* its event handler.  Every method holds H323Endpoint's std::mutex, which *)
(* is not recursive, from its first statement to its return.               *)
(*                                                                         *)
(* A thread's method call is a request that moves through the mutexes it   *)
(* needs: "lockH" (this class), "lockV" (the handler, in setEventCallback) *)
(* and "relockH" (this class once more, in shutdown).  A request that came *)
(* through Endpoint starts earlier and goes on afterwards, in module       *)
(* Endpoint.                                                               *)
(*                                                                         *)
(* activeCalls_ of this class stays empty: addCall, the one place that     *)
(* fills it, has no caller in the repository.                              *)
(***************************************************************************)
EXTENDS H323EventHandler, FiniteSets

CONSTANTS
    AppThreads,          \* threads of the application
    GatekeeperRequired   \* config_.gatekeeperRequired

ASSUME AppThreadsAssumption ==
    /\ AppThreads \cap StackThreads = {}
    /\ NoThread \notin AppThreads
ASSUME ConfigAssumption == GatekeeperRequired \in BOOLEAN

VARIABLES
    h323Mutex,        \* who holds mutex_
    h323Initialized,  \* initialized_, and whether eventHandler_ is set
    h323TotalCalls,   \* totalCalls_
    h323Callback,     \* eventCallback_
    request           \* the method call each thread is in

h323Vars == <<h323Mutex, h323Initialized, h323TotalCalls, h323Callback>>

AllThreads == AppThreads \cup StackThreads

Operations ==
    {"initialize", "shutdown", "registerWithGatekeeper",
     "unregisterFromGatekeeper", "isRegisteredWithGatekeeper", "makeCall",
     "answerCall", "releaseCall", "setEventCallback", "getActiveCalls",
     "releaseAllCalls"}

Layers == {"Endpoint", "H323Endpoint"}

(* The argument of a method without one.                                   *)
NoArg == NoCallback

(* A request: its operation, the class it was made on, its argument (a     *)
(* call id or a callback; the id makeCall assigns), where it is, and the   *)
(* value it returns - TRUE for a method without one.                       *)
NoRequest == [op |-> "none", layer |-> "none", arg |-> NoArg,
              at |-> "idle", ok |-> TRUE]

NewRequest(op, layer, arg) ==
    [op |-> op, layer |-> layer, arg |-> arg,
     at |-> IF layer = "Endpoint" THEN "lockE" ELSE "lockH", ok |-> TRUE]

InRequest(t, op, at) == request[t].op = op /\ request[t].at = at

H323Init ==
    /\ h323Mutex = NoThread
    /\ h323Initialized = FALSE
    /\ h323TotalCalls = 0
    /\ h323Callback = NoCallback
    /\ request = [t \in AllThreads |-> NoRequest]

-----------------------------------------------------------------------------
(* getConnection: finds nothing, as activeCalls_ is empty.                 *)
GetConnection(id) == FALSE

(* The method is done: its caller goes on, or is Endpoint, with this       *)
(* argument and value.                                                     *)
ReturnWith(t, arg, ok) ==
    request' = [request EXCEPT
                   ![t] = IF @.layer = "Endpoint"
                          THEN [@ EXCEPT !.at = "return", !.arg = arg,
                                         !.ok = ok]
                          ELSE NoRequest]

Return(t, ok) == ReturnWith(t, request[t].arg, ok)

(* lock_guard at the top of a method; a method that needs no other mutex   *)
(* is one step from here to its return.                                    *)
EnterH323(t, op) == InRequest(t, op, "lockH") /\ h323Mutex = NoThread

(* A second initialize changes nothing.                                    *)
H323Initialize(t) ==
    /\ EnterH323(t, "initialize")
    /\ h323Initialized' = TRUE
    /\ Return(t, TRUE)
    /\ UNCHANGED <<h323Mutex, h323TotalCalls, h323Callback, handlerVars>>

(* The gatekeeper is not spoken to: registering succeeds, and being        *)
(* registered means not to need to.                                        *)
H323Gatekeeper(t) ==
    /\ \/ /\ EnterH323(t, "registerWithGatekeeper")
          /\ Return(t, h323Initialized)
       \/ /\ EnterH323(t, "unregisterFromGatekeeper")
          /\ Return(t, h323Initialized)
       \/ /\ EnterH323(t, "isRegisteredWithGatekeeper")
          /\ Return(t, h323Initialized /\ ~GatekeeperRequired)
    /\ UNCHANGED <<h323Vars, handlerVars>>

(* Bug variant: totalCalls_ is not advanced.                               *)
H323MakeCallUncounted(t) ==
    /\ EnterH323(t, "makeCall")
    /\ IF h323Initialized
       THEN ReturnWith(t, h323TotalCalls, TRUE)
       ELSE Return(t, FALSE)
    /\ UNCHANGED <<h323Vars, handlerVars>>

(* The id "call-<n>" is the number n.                                      *)
H323MakeCall(t) ==
    /\ EnterH323(t, "makeCall")
    /\ IF h323Initialized
       THEN /\ h323TotalCalls' = h323TotalCalls + 1
            /\ ReturnWith(t, h323TotalCalls, TRUE)
       ELSE /\ Return(t, FALSE)
            /\ UNCHANGED h323TotalCalls
    /\ UNCHANGED <<h323Mutex, h323Initialized, h323Callback, handlerVars>>

(* answerCall and releaseCall; the latter would next take the mutex again, *)
(* in removeCall, if it ever found a connection.                           *)
H323UseCall(t) ==
    /\ EnterH323(t, "answerCall") \/ EnterH323(t, "releaseCall")
    /\ Return(t, h323Initialized /\ GetConnection(request[t].arg))
    /\ UNCHANGED <<h323Vars, handlerVars>>

(* getActiveCalls, getCallState and getActiveCallIds only read the map.    *)
(* releaseAllCalls reads it as well and lets mutex_ go; it finds no call   *)
(* that it would have to release.                                          *)
H323GetActiveCalls(t) ==
    /\ EnterH323(t, "getActiveCalls") \/ EnterH323(t, "releaseAllCalls")
    /\ Return(t, TRUE)
    /\ UNCHANGED <<h323Vars, handlerVars>>

(* Bug variant: mutex_ is let go before the handler is called.             *)
H323SetEventCallbackEarlyUnlock(t) ==
    /\ EnterH323(t, "setEventCallback")
    /\ h323Callback' = request[t].arg
    /\ IF h323Initialized
       THEN request' = [request EXCEPT ![t].at = "lockV"]
       ELSE Return(t, TRUE)
    /\ UNCHANGED <<h323Mutex, h323Initialized, h323TotalCalls, handlerVars>>

(* eventCallback_ is set; the handler is told if there is one yet, which   *)
(* means waiting for its mutex with mutex_ held.                           *)
H323SetEventCallback(t) ==
    /\ EnterH323(t, "setEventCallback")
    /\ h323Callback' = request[t].arg
    /\ IF h323Initialized
       THEN /\ h323Mutex' = t
            /\ request' = [request EXCEPT ![t].at = "lockV"]
       ELSE /\ Return(t, TRUE)
            /\ UNCHANGED h323Mutex
    /\ UNCHANGED <<h323Initialized, h323TotalCalls, handlerVars>>

(* H323EventHandler::setEventCallback, and back out of both classes.       *)
H323InstallCallback(t) ==
    /\ InRequest(t, "setEventCallback", "lockV")
    /\ SetEventCallback(request[t].arg)
    /\ h323Mutex' = IF h323Mutex = t THEN NoThread ELSE h323Mutex
    /\ Return(t, TRUE)
    /\ UNCHANGED <<h323Initialized, h323TotalCalls, h323Callback>>

(* shutdown calls releaseAllCalls with mutex_ held, and that method takes  *)
(* mutex_.  The thread waits for itself: no action continues from          *)
(* "relockH", and the rest of shutdown is never reached.                   *)
H323Shutdown(t) ==
    /\ EnterH323(t, "shutdown")
    /\ IF h323Initialized
       THEN /\ h323Mutex' = t
            /\ request' = [request EXCEPT ![t].at = "relockH"]
       ELSE /\ Return(t, TRUE)
            /\ UNCHANGED h323Mutex
    /\ UNCHANGED <<h323Initialized, h323TotalCalls, h323Callback, handlerVars>>

H323Step(t) ==
    \/ H323Initialize(t)
    \/ H323Gatekeeper(t)
    \/ H323MakeCall(t)
    \/ H323UseCall(t)
    \/ H323GetActiveCalls(t)
    \/ H323SetEventCallback(t)
    \/ H323InstallCallback(t)
    \/ H323Shutdown(t)
=============================================================================
