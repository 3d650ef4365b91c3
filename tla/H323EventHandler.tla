-------------------------- MODULE H323EventHandler --------------------------
(***************************************************************************)
(* The H323EventHandler of src/src/h323/h323_event_handler.cpp: the H.323  *)
(* stack calls it about connections, it keeps a map of call states and     *)
(* passes an event to the installed callback.                              *)
(*                                                                         *)
(* A handler method takes the handler's mutex twice: once to write the     *)
(* map, and again, in sendEvent, to call the callback.  The callback runs  *)
(* with the mutex held.  Between the two another thread may run.           *)
(*                                                                         *)
(* H323Plus is not part of the repository.  Its side - which methods are   *)
(* called about a connection, in which order, by how many threads - is the *)
(* action StackCalls, written from the handler's interface.                *)
(***************************************************************************)
EXTENDS Integers, Sequences, SequencesExt

CONSTANTS
    StackThreads,   \* threads of the H.323 stack
    NoThread,       \* owner of a free mutex
    Connections,    \* addresses of H323Connection objects
    Callbacks,      \* callbacks the application may install
    NoCallback,     \* the empty std::function
    MaxLives        \* bound: how often connection addresses are reused in all

ASSUME HandlerThreadsAssumption == NoThread \notin StackThreads
ASSUME HandlerArgsAssumption ==
    /\ NoCallback \notin Callbacks
    /\ "none" \notin Connections
    /\ MaxLives \in Nat

VARIABLES
    mutex,       \* who holds the handler's mutex_
    callback,    \* callback_
    callStates,  \* callStates_; "absent" where there is no entry
    delivery,    \* the handler method each stack thread is in
    progress,    \* (external) the last method called about a connection
    lives,       \* (external) connections created so far
    delivered    \* the events the callback got about a connection, in order

handlerVars == <<mutex, callback, callStates, delivery, progress, lives,
                 delivered>>

(* The methods the stack calls about a connection, in the order of a call's *)
(* life; "unborn" before the first one.                                    *)
Methods == {"onNewIncomingConnection", "onCallEstablished",
            "onConnectionClearing", "onCallReleased"}

(* What a method writes to the map and the event it sends.                 *)
StateWritten(method) ==
    CASE method = "onNewIncomingConnection" -> "CALL_RECEIVED"
      [] method = "onCallEstablished"       -> "CALL_ACTIVE"
      [] method = "onConnectionClearing"    -> "RELEASE_COMPLETE"
      [] method = "onCallReleased"          -> "absent"

(* Bug variant: the event of onNewIncomingConnection copied along.          *)
EventSentCopied(method) ==
    CASE method = "onNewIncomingConnection" -> "INCOMING_CALL"
      [] method = "onCallEstablished"       -> "INCOMING_CALL"
      [] OTHER                              -> "CALL_CLEARED"

EventSent(method) ==
    CASE method = "onNewIncomingConnection" -> "INCOMING_CALL"
      [] method = "onCallEstablished"       -> "CALL_ESTABLISHED"
      [] OTHER                              -> "CALL_CLEARED"

(* The state an event carries.                                             *)
StateInEvent(event) ==
    CASE event = "INCOMING_CALL"    -> "CALL_RECEIVED"
      [] event = "CALL_ESTABLISHED" -> "CALL_ACTIVE"
      [] event = "CALL_CLEARED"     -> "RELEASE_COMPLETE"

(* onGatekeeperRegistered and onGatekeeperDiscovered write no state.       *)
GatekeeperEvent == "gatekeeper"

NoDelivery == [method |-> "none", conn |-> "none", phase |-> "idle"]

Idle(s) == delivery[s] = NoDelivery

-----------------------------------------------------------------------------
HandlerInit ==
    /\ mutex = NoThread
    /\ callback = NoCallback
    /\ callStates = [c \in Connections |-> "absent"]
    /\ delivery = [s \in StackThreads |-> NoDelivery]
    /\ progress = [c \in Connections |-> "unborn"]
    /\ lives = 0
    /\ delivered = [c \in Connections |-> <<>>]

(* Which method may come next.  A call we placed has no incoming report; a *)
(* call may be cleared before it is answered.                              *)
Follows(previous, method) ==
    CASE previous = "unborn" ->
            method \in {"onNewIncomingConnection", "onCallEstablished"}
      [] previous = "onNewIncomingConnection" ->
            method \in {"onCallEstablished", "onConnectionClearing"}
      [] previous = "onCallEstablished" -> method = "onConnectionClearing"
      [] previous = "onConnectionClearing" -> method = "onCallReleased"
      [] previous = "onCallReleased" -> FALSE

Busy(c) == \E s \in StackThreads : delivery[s].conn = c

(* A thread of the stack enters a handler method about connection c, on    *)
(* which no other thread is reporting.                                     *)
StackCalls(s, c, method) ==
    /\ Idle(s)
    /\ ~Busy(c)
    /\ Follows(progress[c], method)
    /\ progress[c] = "unborn" => lives < MaxLives
    /\ lives' = IF progress[c] = "unborn" THEN lives + 1 ELSE lives
    /\ progress' = [progress EXCEPT ![c] = method]
    /\ delivery' = [delivery EXCEPT
                       ![s] = [method |-> method, conn |-> c,
                               phase |-> "update"]]
    /\ UNCHANGED <<mutex, callback, callStates, delivered>>

(* ... or a gatekeeper method, which goes straight to sendEvent.           *)
StackReportsGatekeeper(s) ==
    /\ Idle(s)
    /\ delivery' = [delivery EXCEPT
                       ![s] = [method |-> GatekeeperEvent, conn |-> "none",
                               phase |-> "send"]]
    /\ UNCHANGED <<mutex, callback, callStates, progress, lives, delivered>>

(* The stack deletes a released connection; a later one may get its        *)
(* address, which is all getCallId looks at.                               *)
ConnectionDeleted(c) ==
    /\ progress[c] = "onCallReleased"
    /\ ~Busy(c)
    /\ progress' = [progress EXCEPT ![c] = "unborn"]
    /\ delivered' = [delivered EXCEPT ![c] = <<>>]
    /\ UNCHANGED <<mutex, callback, callStates, delivery, lives>>

(* Bug variant: a released call is marked, its entry never erased.         *)
UpdateStateKeepsEntry(s) ==
    /\ delivery[s].phase = "update"
    /\ mutex = NoThread
    /\ callStates' = [callStates EXCEPT
                         ![delivery[s].conn] =
                             StateInEvent(EventSent(delivery[s].method))]
    /\ delivery' = [delivery EXCEPT ![s].phase = "send"]
    /\ UNCHANGED <<mutex, callback, progress, lives, delivered>>

(* The first locked region: one write to the map.                          *)
UpdateState(s) ==
    /\ delivery[s].phase = "update"
    /\ mutex = NoThread
    /\ callStates' = [callStates EXCEPT
                         ![delivery[s].conn] =
                             StateWritten(delivery[s].method)]
    /\ delivery' = [delivery EXCEPT ![s].phase = "send"]
    /\ UNCHANGED <<mutex, callback, progress, lives, delivered>>

Record(c, event) ==
    delivered' = [delivered EXCEPT ![c] = Append(@, event)]

(* Bug variant: the callback is called without the mutex.                  *)
SendEventUnlocked(s) ==
    /\ delivery[s].phase = "send"
    /\ IF callback = NoCallback
       THEN delivery' = [delivery EXCEPT ![s] = NoDelivery]
            /\ UNCHANGED <<mutex, delivered>>
       ELSE delivery' = [delivery EXCEPT ![s].phase = "callback"]
            /\ UNCHANGED mutex
            /\ IF delivery[s].conn \in Connections
               THEN Record(delivery[s].conn, EventSent(delivery[s].method))
               ELSE UNCHANGED delivered
    /\ UNCHANGED <<callback, callStates, progress, lives>>

(* The second one, sendEvent: the callback is entered with the mutex held. *)
(* Without a callback the event is dropped.                                *)
SendEvent(s) ==
    /\ delivery[s].phase = "send"
    /\ mutex = NoThread
    /\ IF callback = NoCallback
       THEN delivery' = [delivery EXCEPT ![s] = NoDelivery]
            /\ UNCHANGED <<mutex, delivered>>
       ELSE delivery' = [delivery EXCEPT ![s].phase = "callback"]
            /\ mutex' = s
            /\ IF delivery[s].conn \in Connections
               THEN Record(delivery[s].conn, EventSent(delivery[s].method))
               ELSE UNCHANGED delivered
    /\ UNCHANGED <<callback, callStates, progress, lives>>

(* Bug variant: the mutex is left locked.                                  *)
CallbackReturnsLocked(s) ==
    /\ delivery[s].phase = "callback"
    /\ delivery' = [delivery EXCEPT ![s] = NoDelivery]
    /\ UNCHANGED <<mutex, callback, callStates, progress, lives, delivered>>

CallbackReturns(s) ==
    /\ delivery[s].phase = "callback"
    /\ mutex' = NoThread
    /\ delivery' = [delivery EXCEPT ![s] = NoDelivery]
    /\ UNCHANGED <<callback, callStates, progress, lives, delivered>>

(* Bug variant: the callback is replaced without the mutex.                *)
SetEventCallbackUnlocked(cb) ==
    /\ callback' = cb
    /\ UNCHANGED <<mutex, callStates, delivery, progress, lives, delivered>>

(* Called by the application through H323Endpoint::setEventCallback.       *)
SetEventCallback(cb) ==
    /\ mutex = NoThread
    /\ callback' = cb
    /\ UNCHANGED <<mutex, callStates, delivery, progress, lives, delivered>>

-----------------------------------------------------------------------------
StackStep(s) ==
    \/ \E c \in Connections, method \in Methods : StackCalls(s, c, method)
    \/ StackReportsGatekeeper(s)

Deliver(s) == UpdateState(s) \/ SendEvent(s)

HandlerNext ==
    \/ \E s \in StackThreads : StackStep(s) \/ Deliver(s) \/ CallbackReturns(s)
    \/ \E c \in Connections : ConnectionDeleted(c)
    \/ \E cb \in Callbacks : SetEventCallback(cb)

HandlerSpec == HandlerInit /\ [][HandlerNext]_handlerVars

(* A thread waiting for the mutex gets it if it becomes free again and     *)
(* again, and a callback returns.                                          *)
FairHandlerSpec ==
    /\ HandlerSpec
    /\ \A s \in StackThreads :
          SF_handlerVars(Deliver(s)) /\ WF_handlerVars(CallbackReturns(s))

-----------------------------------------------------------------------------
HandlerStates == {"absent", "CALL_RECEIVED", "CALL_ACTIVE", "RELEASE_COMPLETE"}

EventTypes == {"INCOMING_CALL", "CALL_ESTABLISHED", "CALL_CLEARED"}

Deliveries ==
    {NoDelivery}
    \cup [method : Methods, conn : Connections,
          phase : {"update", "send", "callback"}]
    \cup [method : {GatekeeperEvent}, conn : {"none"},
          phase : {"send", "callback"}]

(* Type invariant.                                                         *)
HandlerTypeOK ==
    /\ mutex \in StackThreads \cup {NoThread}
    /\ callback \in Callbacks \cup {NoCallback}
    /\ callStates \in [Connections -> HandlerStates]
    /\ delivery \in [StackThreads -> Deliveries]
    /\ progress \in [Connections -> Methods \cup {"unborn"}]
    /\ lives \in 0..MaxLives
    /\ delivered \in [Connections -> Seq(EventTypes)]

(* The callback needs no lock of its own: it never runs in two threads at  *)
(* once (h323_event_handler.cpp:161-166).                                  *)
CallbackSerialised ==
    \A s1, s2 \in StackThreads :
        delivery[s1].phase = "callback" /\ delivery[s2].phase = "callback"
            => s1 = s2

(* The std::function is not replaced under a running call of it, which     *)
(* would destroy what is executing (h323_event_handler.cpp:21-25, 164).    *)
CallbackNotReplacedWhileRunning ==
    [][callback' # callback
          => \A s \in StackThreads : delivery[s].phase # "callback"]_handlerVars

(* What the application was told last about a connection is what the map   *)
(* says, once nobody is reporting on it: the write and the event are two   *)
(* locked regions, so this rests on the order in which the stack's threads *)
(* pass through them.                                                      *)
EventsMatchStates ==
    \A c \in Connections :
        ~Busy(c) /\ delivered[c] # <<>> /\ callStates[c] # "absent"
            => StateInEvent(Last(delivered[c])) = callStates[c]

(* The map does not keep entries of connections that are gone: a new       *)
(* connection at the same address starts without a state, and the map does *)
(* not grow without end (h323_event_handler.cpp:116-127, 168-174).         *)
NoStaleEntry ==
    \A c \in Connections :
        progress[c] \in {"unborn", "onCallReleased"} /\ ~Busy(c)
            => callStates[c] = "absent"

(* A thread of the stack that enters the handler leaves it again.          *)
DeliveryEnds ==
    \A s \in StackThreads : delivery[s].phase # "idle" ~> delivery[s].phase = "idle"
=============================================================================
