----------------------- MODULE H323EventHandler_proofs -----------------------
(***************************************************************************)
(* What holds of the event handler for any number of stack threads,        *)
(* connections and callbacks: the callback is serialised and stays put     *)
(* while it runs, no entry of the map outlives its connection, and the     *)
(* last event about a connection is what the map says of it.               *)
(***************************************************************************)
EXTENDS H323EventHandler, TLAPS

(* The inductive invariant: the mutex is held exactly by the thread in the *)
(* callback, ...                                                           *)
MutexInCallback ==
    \A s \in StackThreads : mutex = s <=> delivery[s].phase = "callback"

(* ... one thread reports on a connection, the last that was reported,     *)
OneReporter ==
    /\ \A s \in StackThreads, c \in Connections :
          delivery[s].conn = c => progress[c] = delivery[s].method
    /\ \A s1, s2 \in StackThreads, c \in Connections :
          delivery[s1].conn = c /\ delivery[s2].conn = c => s1 = s2

(* and the entry goes in the first locked region of onCallReleased.        *)
EntryErased ==
    \A c \in Connections :
        /\ progress[c] = "unborn" => callStates[c] = "absent"
        /\ progress[c] = "onCallReleased" =>
              \/ callStates[c] = "absent"
              \/ \E s \in StackThreads : delivery[s].conn = c /\ delivery[s].phase = "update"

HInv == HandlerTypeOK /\ MutexInCallback /\ OneReporter /\ EntryErased

-----------------------------------------------------------------------------
(* What a thread's delivery is in each of its phases.                      *)
LEMMA DeliveryPhases ==
    ASSUME NEW d \in Deliveries
    PROVE  /\ d.phase \in {"idle", "update", "send", "callback"}
           /\ d.phase = "idle" <=> d = NoDelivery
           /\ d.phase = "update" => d.method \in Methods /\ d.conn \in Connections
           /\ d.conn \in Connections => d.method \in Methods
           /\ d.phase = "send" => [d EXCEPT !.phase = "callback"] \in Deliveries
           /\ d.phase = "update" => [d EXCEPT !.phase = "send"] \in Deliveries
<1>0. "none" \notin Connections
  BY HandlerArgsAssumption
<1>1. CASE d = NoDelivery
  BY <1>0, <1>1 DEF NoDelivery
<1>2. CASE d \in [method : Methods, conn : Connections,
                  phase : {"update", "send", "callback"}]
  BY <1>2 DEF NoDelivery, Deliveries
<1>3. CASE d \in [method : {GatekeeperEvent}, conn : {"none"}, phase : {"send", "callback"}]
  BY <1>0, <1>3 DEF NoDelivery, Deliveries
<1> QED
  BY <1>1, <1>2, <1>3 DEF Deliveries

(* What is written and sent has the type the map and the record expect.    *)
LEMMA MethodTypes ==
    ASSUME NEW method \in Methods
    PROVE  /\ StateWritten(method) \in HandlerStates
           /\ StateWritten(method) = "absent" <=> method = "onCallReleased"
           /\ EventSent(method) \in EventTypes
BY DEF Methods, StateWritten, HandlerStates, EventSent, EventTypes

(* The handler starts without entries, reports and a held mutex.           *)
LEMMA HandlerInitInv == HandlerInit => HInv
<1> SUFFICES ASSUME HandlerInit PROVE HInv
  OBVIOUS
<1> USE DEF HandlerInit
<1>1. HandlerTypeOK
  BY HandlerArgsAssumption DEF HandlerTypeOK, HandlerStates, Deliveries
<1>2. MutexInCallback
  BY HandlerThreadsAssumption DEF MutexInCallback, NoDelivery
<1>3. OneReporter
  BY HandlerArgsAssumption DEF OneReporter, NoDelivery
<1>4. EntryErased
  BY DEF EntryErased
<1> QED
  BY <1>1, <1>2, <1>3, <1>4 DEF HInv

-----------------------------------------------------------------------------
(* A report begins only on a connection nobody else reports on.            *)
LEMMA StackCallsStep ==
    ASSUME HInv, NEW s \in StackThreads, NEW c \in Connections,
           NEW method \in Methods, StackCalls(s, c, method)
    PROVE  HInv'
<1> DEFINE entered == [method |-> method, conn |-> c, phase |-> "update"]
<1>0. /\ delivery \in [StackThreads -> Deliveries]
      /\ progress \in [Connections -> Methods \cup {"unborn"}]
  BY DEF HInv, HandlerTypeOK
<1>1. /\ delivery' = [delivery EXCEPT ![s] = entered]
      /\ progress' = [progress EXCEPT ![c] = method]
      /\ \A r \in StackThreads : delivery[r].conn # c
      /\ delivery[s] = NoDelivery
      /\ Follows(progress[c], method)
      /\ UNCHANGED <<mutex, callback, callStates, delivered>>
  BY DEF StackCalls, Busy, Idle
<1>2. entered \in Deliveries
  BY DEF Deliveries
<1>3. lives' \in 0..MaxLives
  <2>1. lives \in 0..MaxLives /\ MaxLives \in Nat
    BY HandlerArgsAssumption DEF HInv, HandlerTypeOK
  <2> QED
    BY <2>1 DEF StackCalls
<1>4. HandlerTypeOK'
  BY <1>0, <1>1, <1>2, <1>3 DEF HInv, HandlerTypeOK
<1>5. MutexInCallback'
  BY <1>0, <1>1 DEF HInv, MutexInCallback, NoDelivery
<1>6. OneReporter'
  BY <1>0, <1>1 DEF HInv, OneReporter
<1>7. EntryErased'
  <2> SUFFICES ASSUME NEW d \in Connections
               PROVE  /\ progress'[d] = "unborn" => callStates'[d] = "absent"
                      /\ progress'[d] = "onCallReleased" =>
                            \/ callStates'[d] = "absent"
                            \/ \E r \in StackThreads : delivery'[r].conn = d /\ delivery'[r].phase = "update"
    BY DEF EntryErased
  <2>1. CASE d = c
    <3>1. delivery'[s].conn = c /\ delivery'[s].phase = "update"
      BY <1>0, <1>1
    <3>2. progress'[c] # "unborn"
      BY <1>0, <1>1 DEF Methods
    <3> QED
      BY <2>1, <3>1, <3>2
  <2>2. CASE d # c
    <3>1. progress'[d] = progress[d] /\ callStates'[d] = callStates[d]
      BY <1>0, <1>1, <2>2
    <3>2. \A r \in StackThreads :
             delivery[r].conn = d /\ delivery[r].phase = "update" => delivery'[r] = delivery[r]
      BY <1>0, <1>1 DEF NoDelivery
    <3> QED
      BY <3>1, <3>2 DEF HInv, EntryErased
  <2> QED
    BY <2>1, <2>2
<1> QED
  BY <1>4, <1>5, <1>6, <1>7 DEF HInv

(* onRegistrationStateChanged is about no connection.                      *)
LEMMA GatekeeperStep ==
    ASSUME HInv, NEW s \in StackThreads, StackReportsGatekeeper(s)
    PROVE  HInv'
<1> DEFINE entered == [method |-> GatekeeperEvent, conn |-> "none", phase |-> "send"]
<1>0. /\ delivery \in [StackThreads -> Deliveries]
      /\ "none" \notin Connections
  BY HandlerArgsAssumption DEF HInv, HandlerTypeOK
<1>1. /\ delivery' = [delivery EXCEPT ![s] = entered]
      /\ delivery[s] = NoDelivery
      /\ UNCHANGED <<mutex, callback, callStates, progress, lives, delivered>>
  BY DEF StackReportsGatekeeper, Idle
<1>2. entered \in Deliveries
  BY DEF Deliveries
<1>3. HandlerTypeOK'
  BY <1>0, <1>1, <1>2 DEF HInv, HandlerTypeOK
<1>4. MutexInCallback'
  BY <1>0, <1>1 DEF HInv, MutexInCallback, NoDelivery
<1>5. OneReporter'
  BY <1>0, <1>1 DEF HInv, OneReporter
<1>6. EntryErased'
  <2>1. \A r \in StackThreads : delivery[r].phase = "update" => delivery'[r] = delivery[r]
    BY <1>0, <1>1 DEF NoDelivery
  <2> QED
    BY <1>1, <2>1 DEF HInv, EntryErased
<1> QED
  BY <1>3, <1>4, <1>5, <1>6 DEF HInv

(* A connection is deleted when nobody reports on it: its entry is gone.    *)
LEMMA ConnectionDeletedStep ==
    ASSUME HInv, NEW c \in Connections, ConnectionDeleted(c)
    PROVE  HInv'
<1>0. /\ progress \in [Connections -> Methods \cup {"unborn"}]
      /\ delivered \in [Connections -> Seq(EventTypes)]
  BY DEF HInv, HandlerTypeOK
<1>1. /\ progress[c] = "onCallReleased"
      /\ \A r \in StackThreads : delivery[r].conn # c
      /\ progress' = [progress EXCEPT ![c] = "unborn"]
      /\ delivered' = [delivered EXCEPT ![c] = <<>>]
      /\ UNCHANGED <<mutex, callback, callStates, delivery, lives>>
  BY DEF ConnectionDeleted, Busy
<1>2. callStates[c] = "absent"
  BY <1>1 DEF HInv, EntryErased
<1>3. HandlerTypeOK'
  BY <1>0, <1>1 DEF HInv, HandlerTypeOK
<1>4. MutexInCallback'
  BY <1>1 DEF HInv, MutexInCallback
<1>5. OneReporter'
  BY <1>0, <1>1 DEF HInv, OneReporter
<1>6. EntryErased'
  BY <1>0, <1>1, <1>2 DEF HInv, EntryErased
<1> QED
  BY <1>3, <1>4, <1>5, <1>6 DEF HInv

-----------------------------------------------------------------------------
(* The first critical section writes, or erases, the entry.                *)
LEMMA UpdateStateStep ==
    ASSUME HInv, NEW s \in StackThreads, UpdateState(s)
    PROVE  HInv'
<1> DEFINE c == delivery[s].conn
           method == delivery[s].method
<1>0. /\ delivery \in [StackThreads -> Deliveries]
      /\ callStates \in [Connections -> HandlerStates]
  BY DEF HInv, HandlerTypeOK
<1>1. /\ delivery[s].phase = "update"
      /\ callStates' = [callStates EXCEPT ![c] = StateWritten(method)]
      /\ delivery' = [delivery EXCEPT ![s] = [delivery[s] EXCEPT !.phase = "send"]]
      /\ UNCHANGED <<mutex, callback, progress, lives, delivered>>
  BY DEF UpdateState
<1>2. /\ c \in Connections /\ method \in Methods
      /\ [delivery[s] EXCEPT !.phase = "send"] \in Deliveries
  BY <1>0, <1>1, DeliveryPhases
<1>3. \A r \in StackThreads : /\ r # s => delivery'[r] = delivery[r]
                              /\ delivery'[r].conn = delivery[r].conn
                              /\ delivery'[r].method = delivery[r].method
  <2>1. /\ [delivery[s] EXCEPT !.phase = "send"].conn = delivery[s].conn
        /\ [delivery[s] EXCEPT !.phase = "send"].method = delivery[s].method
    BY <1>0 DEF Deliveries, NoDelivery
  <2> QED
    BY <1>0, <1>1, <2>1
<1>4. delivery'[s].phase = "send"
  BY <1>0, <1>1 DEF Deliveries, NoDelivery
<1>5. HandlerTypeOK'
  <2>1. StateWritten(method) \in HandlerStates
    BY <1>2, MethodTypes
  <2>2. callStates' \in [Connections -> HandlerStates]
    BY <1>0, <1>1, <2>1
  <2>3. delivery' \in [StackThreads -> Deliveries]
    BY <1>0, <1>1, <1>2
  <2> QED
    BY <1>1, <2>2, <2>3 DEF HInv, HandlerTypeOK
<1>6. MutexInCallback'
  BY <1>1, <1>3, <1>4 DEF HInv, MutexInCallback
<1>7. OneReporter'
  BY <1>1, <1>3 DEF HInv, OneReporter
<1>8. EntryErased'
  <2> SUFFICES ASSUME NEW d \in Connections
               PROVE  /\ progress'[d] = "unborn" => callStates'[d] = "absent"
                      /\ progress'[d] = "onCallReleased" =>
                            \/ callStates'[d] = "absent"
                            \/ \E r \in StackThreads : delivery'[r].conn = d /\ delivery'[r].phase = "update"
    BY DEF EntryErased
  <2>1. CASE d = c
    <3>1. progress'[c] = method
      BY <1>1, <1>2 DEF HInv, OneReporter
    <3>2. callStates'[c] = StateWritten(method)
      BY <1>0, <1>1, <1>2
    <3>3. method # "unborn"
      BY <1>2 DEF Methods
    <3> QED
      BY <2>1, <3>1, <3>2, <3>3, <1>2, MethodTypes
  <2>2. CASE d # c
    <3>1. progress'[d] = progress[d] /\ callStates'[d] = callStates[d]
      BY <1>0, <1>1, <2>2
    <3>2. \A r \in StackThreads : delivery[r].conn = d => delivery'[r] = delivery[r]
      BY <1>3, <2>2
    <3> QED
      BY <3>1, <3>2 DEF HInv, EntryErased
  <2> QED
    BY <2>1, <2>2
<1> QED
  BY <1>5, <1>6, <1>7, <1>8 DEF HInv

(* A thread leaves for "idle": of a callback, or for want of one.          *)
LEMMA LeavesStep ==
    ASSUME HInv, NEW s \in StackThreads,
           delivery[s].phase \in {"send", "callback"},
           delivery' = [delivery EXCEPT ![s] = NoDelivery],
           mutex' = IF delivery[s].phase = "callback" THEN NoThread ELSE mutex,
           UNCHANGED <<callback, callStates, progress, lives, delivered>>
    PROVE  HInv'
<1>0. /\ delivery \in [StackThreads -> Deliveries]
      /\ "none" \notin Connections
  BY HandlerArgsAssumption DEF HInv, HandlerTypeOK
<1>1. HandlerTypeOK'
  <2>1. NoDelivery \in Deliveries
    BY DEF Deliveries
  <2> QED
    BY <1>0, <2>1 DEF HInv, HandlerTypeOK
<1>2. MutexInCallback'
  BY <1>0, HandlerThreadsAssumption DEF HInv, MutexInCallback, NoDelivery
<1>3. OneReporter'
  BY <1>0 DEF HInv, OneReporter, NoDelivery
<1>4. EntryErased'
  BY <1>0 DEF HInv, EntryErased
<1> QED
  BY <1>1, <1>2, <1>3, <1>4 DEF HInv

(* sendEvent takes the mutex for the whole callback, and gives it back.    *)
LEMMA SendEventStep ==
    ASSUME HInv, NEW s \in StackThreads, SendEvent(s)
    PROVE  HInv'
<1> DEFINE entered == [delivery[s] EXCEPT !.phase = "callback"]
<1>0. /\ delivery \in [StackThreads -> Deliveries]
      /\ delivery[s].phase = "send" /\ mutex = NoThread
      /\ UNCHANGED <<callback, callStates, progress, lives>>
  BY DEF HInv, HandlerTypeOK, SendEvent
<1>1. CASE callback = NoCallback
  BY <1>0, <1>1, LeavesStep DEF SendEvent
<1>2. CASE callback # NoCallback
  <2>1. /\ delivery' = [delivery EXCEPT ![s] = entered]
        /\ mutex' = s
        /\ entered \in Deliveries
    BY <1>0, <1>2, DeliveryPhases DEF SendEvent
  <2>2. /\ entered.conn = delivery[s].conn /\ entered.method = delivery[s].method
        /\ entered.phase = "callback"
    BY <1>0 DEF Deliveries, NoDelivery
  <2>3. delivered' \in [Connections -> Seq(EventTypes)]
    <3>0. delivered \in [Connections -> Seq(EventTypes)]
      BY DEF HInv, HandlerTypeOK
    <3>1. CASE delivery[s].conn \in Connections
      <4>1. EventSent(delivery[s].method) \in EventTypes
        BY <1>0, <3>1, DeliveryPhases, MethodTypes
      <4>2. delivered[delivery[s].conn] \in Seq(EventTypes)
        BY <3>0, <3>1
      <4>3. Append(delivered[delivery[s].conn], EventSent(delivery[s].method)) \in Seq(EventTypes)
        BY <4>1, <4>2
      <4> QED
        BY <1>2, <3>0, <3>1, <4>3 DEF SendEvent, Record
    <3>2. CASE delivery[s].conn \notin Connections
      BY <1>2, <3>0, <3>2 DEF SendEvent
    <3> QED
      BY <3>1, <3>2
  <2>4. HandlerTypeOK'
    BY <1>0, <2>1, <2>3 DEF HInv, HandlerTypeOK
  <2>5. MutexInCallback'
    BY <1>0, <2>1, <2>2, HandlerThreadsAssumption DEF HInv, MutexInCallback
  <2>6. OneReporter'
    BY <1>0, <2>1, <2>2 DEF HInv, OneReporter
  <2>7. EntryErased'
    BY <1>0, <2>1 DEF HInv, EntryErased
  <2> QED
    BY <2>4, <2>5, <2>6, <2>7 DEF HInv
<1> QED
  BY <1>1, <1>2

-----------------------------------------------------------------------------
(* Every step of the stack and of the application keeps the invariant.     *)
LEMMA HandlerNextInv == HInv /\ [HandlerNext]_handlerVars => HInv'
<1> SUFFICES ASSUME HInv, [HandlerNext]_handlerVars PROVE HInv'
  OBVIOUS
<1>1. ASSUME NEW s \in StackThreads, StackStep(s) PROVE HInv'
  BY <1>1, StackCallsStep, GatekeeperStep DEF StackStep
<1>2. ASSUME NEW s \in StackThreads, Deliver(s) PROVE HInv'
  BY <1>2, UpdateStateStep, SendEventStep DEF Deliver
<1>3. ASSUME NEW s \in StackThreads, CallbackReturns(s) PROVE HInv'
  BY <1>3, LeavesStep DEF CallbackReturns
<1>4. ASSUME NEW c \in Connections, ConnectionDeleted(c) PROVE HInv'
  BY <1>4, ConnectionDeletedStep
<1>5. ASSUME NEW cb \in Callbacks, SetEventCallback(cb) PROVE HInv'
  BY <1>5 DEF SetEventCallback, HInv, HandlerTypeOK, MutexInCallback, OneReporter, EntryErased
<1>6. CASE UNCHANGED handlerVars
  BY <1>6 DEF handlerVars, HInv, HandlerTypeOK, MutexInCallback, OneReporter, EntryErased
<1> QED
  BY <1>1, <1>2, <1>3, <1>4, <1>5, <1>6 DEF HandlerNext

(* So it always holds.                                                     *)
LEMMA HandlerInvariance == HandlerSpec => []HInv
  BY HandlerInitInv, HandlerNextInv, PTL DEF HandlerSpec

(* The callback never runs in two threads at once, however many threads    *)
(* the stack has (h323_event_handler.cpp:161-166).                         *)
THEOREM Serialised == HandlerSpec => []CallbackSerialised
<1>1. HInv => CallbackSerialised
  BY DEF HInv, MutexInCallback, CallbackSerialised
<1> QED
  BY <1>1, HandlerInvariance, PTL

(* The std::function is not replaced while it runs                         *)
(* (h323_event_handler.cpp:21-25, 164).                                    *)
THEOREM NotReplacedWhileRunning == HandlerSpec => CallbackNotReplacedWhileRunning
<1>1. HInv /\ [HandlerNext]_handlerVars =>
          [callback' # callback
              => \A s \in StackThreads : delivery[s].phase # "callback"]_handlerVars
  <2> SUFFICES ASSUME HInv, HandlerNext, callback' # callback,
                      NEW s \in StackThreads
               PROVE  delivery[s].phase # "callback"
    OBVIOUS
  <2>1. mutex = NoThread
    BY DEF HandlerNext, StackStep, StackCalls, StackReportsGatekeeper, Deliver, UpdateState,
           SendEvent, CallbackReturns, ConnectionDeleted, SetEventCallback
  <2> QED
    BY <2>1, HandlerThreadsAssumption DEF HInv, MutexInCallback
<1> QED
  BY <1>1, HandlerInvariance, PTL DEF HandlerSpec, CallbackNotReplacedWhileRunning

(* No entry outlives its connection, however often addresses are reused    *)
(* (h323_event_handler.cpp:116-127, 168-174).                              *)
THEOREM NoneStale == HandlerSpec => []NoStaleEntry
<1>1. HInv => NoStaleEntry
  BY DEF HInv, EntryErased, NoStaleEntry, Busy
<1> QED
  BY <1>1, HandlerInvariance, PTL

-----------------------------------------------------------------------------
(* What the map and the events about a connection have in common.          *)
Match(c) ==
    delivered[c] # <<>> /\ callStates[c] # "absent"
        => StateInEvent(Last(delivered[c])) = callStates[c]

(* A report that has written the map finds what it wrote when it sends the *)
(* event, and the event is the last one when the callback runs.            *)
ReportOf(c, d) ==
    /\ d.phase \in {"send", "callback"} => callStates[c] = StateWritten(d.method)
    /\ d.phase = "callback" => /\ delivered[c] # <<>>
                               /\ Last(delivered[c]) = EventSent(d.method)

(* The inductive invariant for EventsMatchStates: events reach only an     *)
(* installed callback, which is never taken away again, so that none is    *)
(* dropped after the first; and between the two locked regions of a report *)
(* the map still holds what the report wrote.                              *)
EventsInv ==
    \A c \in Connections :
        /\ callback = NoCallback => delivered[c] = <<>>
        /\ ~Busy(c) => Match(c)
        /\ \A s \in StackThreads :
              delivery[s].conn = c => ReportOf(c, delivery[s])

(* The event sent carries the state written, unless the entry is erased.   *)
LEMMA EventCarriesState ==
    ASSUME NEW method \in Methods, StateWritten(method) # "absent"
    PROVE  StateInEvent(EventSent(method)) = StateWritten(method)
BY DEF Methods, StateWritten, EventSent, StateInEvent

(* Appending an event makes it the last one.                               *)
LEMMA LastAppended ==
    ASSUME NEW S, NEW q \in Seq(S), NEW e \in S
    PROVE  Append(q, e) # <<>> /\ Last(Append(q, e)) = e
<1>1. Len(Append(q, e)) = Len(q) + 1 /\ Len(q) \in Nat
  OBVIOUS
<1>2. Append(q, e)[Len(q) + 1] = e
  OBVIOUS
<1> QED
  BY <1>1, <1>2 DEF Last

(* While nobody reports, the map has no entry and no event is recorded.    *)
LEMMA EventsInitInv == HandlerInit => EventsInv
<1> SUFFICES ASSUME HandlerInit, NEW c \in Connections
             PROVE  /\ callback = NoCallback => delivered[c] = <<>>
                    /\ ~Busy(c) => Match(c)
                    /\ \A s \in StackThreads :
                          delivery[s].conn = c => ReportOf(c, delivery[s])
  BY DEF EventsInv
<1>1. delivered[c] = <<>> /\ callStates[c] = "absent"
  BY DEF HandlerInit
<1>2. \A s \in StackThreads : delivery[s].phase = "idle"
  BY DEF HandlerInit, NoDelivery
<1> QED
  BY <1>1, <1>2 DEF Match, ReportOf

(* The first locked region and the second are about the reporter's         *)
(* connection only: the others keep what is known of them.                 *)
LEMMA OthersKeepEvents ==
    ASSUME HInv, EventsInv, NEW s \in StackThreads, NEW c \in Connections,
           delivery[s].conn # c,
           callback' = callback,
           callStates'[c] = callStates[c], delivered'[c] = delivered[c],
           delivery'[s].conn # c,
           \A r \in StackThreads \ {s} : delivery'[r] = delivery[r]
    PROVE  /\ callback' = NoCallback => delivered'[c] = <<>>
           /\ ~Busy(c)' => Match(c)'
           /\ \A r \in StackThreads :
                 delivery'[r].conn = c => ReportOf(c, delivery[r])'
<1>1. \A r \in StackThreads : delivery'[r].conn = c => delivery'[r] = delivery[r]
  OBVIOUS
<1>2. Busy(c)' <=> Busy(c)
  BY <1>1 DEF Busy
<1> QED
  BY <1>1, <1>2 DEF EventsInv, Match, ReportOf

(* Every step keeps what the events and the map have in common.            *)
LEMMA EventsNextInv == HInv /\ EventsInv /\ [HandlerNext]_handlerVars => EventsInv'
<1> SUFFICES ASSUME HInv, EventsInv, [HandlerNext]_handlerVars PROVE EventsInv'
  OBVIOUS
<1>0. /\ delivery \in [StackThreads -> Deliveries]
      /\ callStates \in [Connections -> HandlerStates]
      /\ delivered \in [Connections -> Seq(EventTypes)]
      /\ callback \in Callbacks \cup {NoCallback}
      /\ "none" \notin Connections
  BY HandlerArgsAssumption DEF HInv, HandlerTypeOK
<1> DEFINE Good(c) == /\ callback' = NoCallback => delivered'[c] = <<>>
                      /\ ~Busy(c)' => Match(c)'
                      /\ \A r \in StackThreads :
                            delivery'[r].conn = c => ReportOf(c, delivery[r])'
<1>a. (\A c \in Connections : Good(c)) => EventsInv'
  BY DEF EventsInv
<1>1. ASSUME NEW s \in StackThreads, NEW c \in Connections, NEW method \in Methods,
             StackCalls(s, c, method)
      PROVE  EventsInv'
  <2>1. /\ delivery' = [delivery EXCEPT ![s] = [method |-> method, conn |-> c, phase |-> "update"]]
        /\ delivery[s] = NoDelivery
        /\ UNCHANGED <<callback, callStates, delivered>>
        /\ ~Busy(c)
    BY <1>1 DEF StackCalls, Idle
  <2> SUFFICES ASSUME NEW d \in Connections PROVE Good(d)
    BY <1>a
  <2>2. CASE d = c
    <3>1. Busy(c)'
      BY <1>0, <2>1 DEF Busy
    <3>2. \A r \in StackThreads : delivery'[r].conn = c => delivery'[r].phase = "update"
      BY <1>0, <2>1 DEF Busy
    <3> QED
      BY <2>1, <2>2, <3>1, <3>2 DEF EventsInv, ReportOf
  <2>3. CASE d # c
    <3>1. delivery[s].conn # d /\ delivery'[s].conn # d
      BY <1>0, <2>1, <2>3 DEF NoDelivery
    <3> QED
      BY <1>0, <2>1, <3>1, OthersKeepEvents
  <2> QED
    BY <2>2, <2>3
<1>2. ASSUME NEW s \in StackThreads, StackReportsGatekeeper(s)
      PROVE  EventsInv'
  <2>1. /\ delivery' = [delivery EXCEPT ![s] = [method |-> GatekeeperEvent, conn |-> "none",
                                               phase |-> "send"]]
        /\ delivery[s] = NoDelivery
        /\ UNCHANGED <<callback, callStates, delivered>>
    BY <1>2 DEF StackReportsGatekeeper, Idle
  <2> SUFFICES ASSUME NEW d \in Connections PROVE Good(d)
    BY <1>a
  <2>2. delivery[s].conn # d /\ delivery'[s].conn # d
    BY <1>0, <2>1 DEF NoDelivery
  <2> QED
    BY <1>0, <2>1, <2>2, OthersKeepEvents
<1>3. ASSUME NEW s \in StackThreads, UpdateState(s) PROVE EventsInv'
  <2> DEFINE c == delivery[s].conn
             method == delivery[s].method
  <2>1. /\ delivery[s].phase = "update"
        /\ callStates' = [callStates EXCEPT ![c] = StateWritten(method)]
        /\ delivery' = [delivery EXCEPT ![s] = [delivery[s] EXCEPT !.phase = "send"]]
        /\ UNCHANGED <<callback, delivered>>
    BY <1>3 DEF UpdateState
  <2>2. /\ delivery'[s].conn = c /\ delivery'[s].method = method
        /\ delivery'[s].phase = "send" /\ c \in Connections
    BY <1>0, <2>1, DeliveryPhases DEF Deliveries, NoDelivery
  <2> SUFFICES ASSUME NEW d \in Connections PROVE Good(d)
    BY <1>a
  <2>3. CASE d = c
    <3>1. Busy(c)'
      BY <2>2 DEF Busy
    <3>2. \A r \in StackThreads : delivery'[r].conn = c => r = s
      BY <1>0, <2>1, <2>2 DEF HInv, OneReporter
    <3>3. callStates'[c] = StateWritten(method)
      BY <1>0, <2>1, <2>2
    <3> QED
      BY <2>1, <2>2, <2>3, <3>1, <3>2, <3>3 DEF EventsInv, ReportOf
  <2>4. CASE d # c
    BY <1>0, <2>1, <2>2, <2>4, OthersKeepEvents
  <2> QED
    BY <2>3, <2>4
<1>4. ASSUME NEW s \in StackThreads, SendEvent(s), callback # NoCallback
      PROVE  EventsInv'
  <2> DEFINE c == delivery[s].conn
             method == delivery[s].method
  <2>1. /\ delivery[s].phase = "send"
        /\ delivery' = [delivery EXCEPT ![s] = [delivery[s] EXCEPT !.phase = "callback"]]
        /\ UNCHANGED <<callback, callStates>>
        /\ delivered' = IF c \in Connections
                        THEN [delivered EXCEPT ![c] = Append(@, EventSent(method))]
                        ELSE delivered
    BY <1>4 DEF SendEvent, Record
  <2>2. /\ delivery'[s].conn = c /\ delivery'[s].method = method
        /\ delivery'[s].phase = "callback"
        /\ c \in Connections => method \in Methods
    BY <1>0, <2>1, DeliveryPhases DEF Deliveries, NoDelivery
  <2> SUFFICES ASSUME NEW d \in Connections PROVE Good(d)
    BY <1>a
  <2>3. CASE d = c
    <3>1. Busy(c)'
      BY <2>2, <2>3 DEF Busy
    <3>2. \A r \in StackThreads : delivery'[r].conn = c => r = s
      BY <1>0, <2>1, <2>2, <2>3 DEF HInv, OneReporter
    <3>3. callStates[c] = StateWritten(method)
      BY <2>1, <2>3 DEF EventsInv, ReportOf
    <3>4. delivered'[c] # <<>> /\ Last(delivered'[c]) = EventSent(method)
      <4>1. EventSent(method) \in EventTypes /\ delivered[c] \in Seq(EventTypes)
        BY <1>0, <2>2, <2>3, MethodTypes
      <4>2. delivered'[c] = Append(delivered[c], EventSent(method))
        BY <1>0, <2>1, <2>3
      <4> QED
        BY <4>1, <4>2, LastAppended
    <3> QED
      BY <1>4, <2>1, <2>2, <2>3, <3>1, <3>2, <3>3, <3>4 DEF ReportOf
  <2>4. CASE d # c
    <3>1. delivered'[d] = delivered[d]
      BY <1>0, <2>1, <2>4
    <3> QED
      BY <1>0, <2>1, <2>2, <2>4, <3>1, OthersKeepEvents
  <2> QED
    BY <2>3, <2>4
<1>5. ASSUME NEW s \in StackThreads,
             \/ SendEvent(s) /\ callback = NoCallback
             \/ CallbackReturns(s)
      PROVE  EventsInv'
  <2> DEFINE c == delivery[s].conn
             method == delivery[s].method
  <2>1. /\ delivery[s].phase = "callback" \/ callback = NoCallback
        /\ delivery' = [delivery EXCEPT ![s] = NoDelivery]
        /\ UNCHANGED <<callback, callStates, delivered>>
    BY <1>5 DEF SendEvent, CallbackReturns
  <2> SUFFICES ASSUME NEW d \in Connections PROVE Good(d)
    BY <1>a
  <2>2. delivery'[s].conn # d
    BY <1>0, <2>1 DEF NoDelivery
  <2>3. CASE d = c
    <3>1. \A r \in StackThreads : delivery'[r].conn # d
      BY <1>0, <2>1, <2>2, <2>3 DEF HInv, OneReporter
    <3>2. CASE callback = NoCallback
      BY <2>1, <3>1, <3>2 DEF EventsInv, Match
    <3>3. CASE delivery[s].phase = "callback"
      <4>1. /\ callStates[c] = StateWritten(method)
            /\ Last(delivered[c]) = EventSent(method)
            /\ delivered[c] # <<>>
        BY <2>3, <3>3 DEF EventsInv, ReportOf
      <4>2. method \in Methods
        BY <1>0, <2>3, DeliveryPhases
      <4>3. Match(d)'
        BY <2>1, <2>3, <4>1, <4>2, EventCarriesState DEF Match
      <4>4. callback # NoCallback
        BY <2>3, <4>1 DEF EventsInv
      <4> QED
        BY <2>1, <2>3, <3>1, <4>3, <4>4
    <3> QED
      BY <2>1, <3>2, <3>3
  <2>4. CASE d # c
    BY <1>0, <2>1, <2>2, <2>4, OthersKeepEvents
  <2> QED
    BY <2>3, <2>4
<1>6. ASSUME NEW c \in Connections, ConnectionDeleted(c) PROVE EventsInv'
  <2>1. /\ delivered' = [delivered EXCEPT ![c] = <<>>]
        /\ UNCHANGED <<callback, callStates, delivery>>
        /\ ~Busy(c)
    BY <1>6 DEF ConnectionDeleted
  <2>2. ASSUME NEW d \in Connections PROVE delivered'[d] = IF d = c THEN <<>> ELSE delivered[d]
    BY <1>0, <2>1
  <2> SUFFICES ASSUME NEW d \in Connections PROVE Good(d)
    BY <1>a
  <2> QED
    BY <2>1, <2>2 DEF EventsInv, Match, ReportOf, Busy
<1>7. ASSUME NEW cb \in Callbacks, SetEventCallback(cb) PROVE EventsInv'
  <2>1. callback' # NoCallback /\ UNCHANGED <<callStates, delivery, delivered>>
    BY <1>7, HandlerArgsAssumption DEF SetEventCallback
  <2> QED
    BY <2>1 DEF EventsInv, Match, ReportOf, Busy
<1>8. CASE UNCHANGED handlerVars
  BY <1>8 DEF handlerVars, EventsInv, Match, ReportOf, Busy
<1> QED
  BY <1>1, <1>2, <1>3, <1>4, <1>5, <1>6, <1>7, <1>8 DEF HandlerNext, StackStep, Deliver

(* What the application was told last about a connection is what the map   *)
(* says of it once nobody reports on it, with any number of threads of the *)
(* stack between the two locked regions (h323_event_handler.cpp:116-127,   *)
(* 161-174).                                                               *)
THEOREM EventsMatch == HandlerSpec => []EventsMatchStates
<1>1. EventsInv => EventsMatchStates
  BY DEF EventsInv, Match, EventsMatchStates
<1> QED
  BY <1>1, HandlerInvariance, EventsInitInv, EventsNextInv, PTL DEF HandlerSpec

-----------------------------------------------------------------------------
(* The callback that runs is there: none is called before one is set, and  *)
(* none is taken away.                                                     *)
CalledIsThere ==
    \A s \in StackThreads : delivery[s].phase = "callback" => callback # NoCallback

(* sendEvent looks at callback_ and calls it under one lock.               *)
LEMMA CalledThere == HandlerSpec => []CalledIsThere
<1>1. HandlerInit => CalledIsThere
  BY DEF HandlerInit, CalledIsThere, NoDelivery
<1>2. HInv /\ CalledIsThere /\ [HandlerNext]_handlerVars => CalledIsThere'
  <2> SUFFICES ASSUME HInv, CalledIsThere, [HandlerNext]_handlerVars,
                      NEW s \in StackThreads, delivery'[s].phase = "callback"
               PROVE  callback' # NoCallback
    BY DEF CalledIsThere
  <2>0. delivery \in [StackThreads -> Deliveries]
    BY DEF HInv, HandlerTypeOK
  <2>1. ASSUME NEW r \in StackThreads, NEW new, delivery' = [delivery EXCEPT ![r] = new],
               new.phase # "callback", callback' = callback
        PROVE  callback' # NoCallback
    BY <2>0, <2>1 DEF CalledIsThere
  <2>a. NoDelivery.phase # "callback"
    BY DEF NoDelivery
  <2>2. ASSUME NEW r \in StackThreads, StackStep(r) PROVE callback' # NoCallback
    <3>1. \E m, c, p : /\ delivery' = [delivery EXCEPT ![r] = [method |-> m, conn |-> c, phase |-> p]]
                       /\ p # "callback" /\ callback' = callback
      BY <2>2 DEF StackStep, StackCalls, StackReportsGatekeeper
    <3>2. PICK m, c, p : /\ delivery' = [delivery EXCEPT ![r] = [method |-> m, conn |-> c, phase |-> p]]
                         /\ p # "callback" /\ callback' = callback
      BY <3>1
    <3>3. [method |-> m, conn |-> c, phase |-> p].phase # "callback"
      BY <3>2
    <3> QED
      BY <2>1, <3>2, <3>3
  <2>3. ASSUME NEW r \in StackThreads, UpdateState(r) PROVE callback' # NoCallback
    <3>1. [delivery[r] EXCEPT !.phase = "send"].phase # "callback"
      BY <2>0 DEF Deliveries, NoDelivery
    <3> QED
      BY <2>1, <2>3, <3>1 DEF UpdateState
  <2>4. ASSUME NEW r \in StackThreads, SendEvent(r) PROVE callback' # NoCallback
    <3>1. CASE callback = NoCallback
      BY <2>1, <2>a, <2>4, <3>1 DEF SendEvent
    <3>2. CASE callback # NoCallback
      BY <2>4, <3>2 DEF SendEvent
    <3> QED
      BY <3>1, <3>2
  <2>5. ASSUME NEW r \in StackThreads, CallbackReturns(r) PROVE callback' # NoCallback
    BY <2>1, <2>a, <2>5 DEF CallbackReturns
  <2>6. ASSUME NEW c \in Connections, ConnectionDeleted(c) PROVE callback' # NoCallback
    BY <2>6 DEF ConnectionDeleted, CalledIsThere
  <2>7. ASSUME NEW cb \in Callbacks, SetEventCallback(cb) PROVE callback' # NoCallback
    BY <2>7, HandlerArgsAssumption DEF SetEventCallback
  <2>8. CASE UNCHANGED handlerVars
    BY <2>8 DEF handlerVars, CalledIsThere
  <2> QED
    BY <2>2, <2>3, <2>4, <2>5, <2>6, <2>7, <2>8 DEF HandlerNext, Deliver
<1> QED
  BY <1>1, <1>2, HandlerInvariance, PTL DEF HandlerSpec
=============================================================================
