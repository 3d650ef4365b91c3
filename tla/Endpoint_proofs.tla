--------------------------- MODULE Endpoint_proofs ---------------------------
(***************************************************************************)
(* What holds of Endpoint, H323Endpoint and the event handler together,    *)
(* for any number of application and stack threads, callbacks and calls:   *)
(* the handler behaves as it does on its own, the three mutexes are held   *)
(* by whom they should be, no call is overwritten, the layers agree on the *)
(* callback, and what is needed for the mutexes not to meet.               *)
(***************************************************************************)
EXTENDS Endpoint, H323EventHandler_proofs, FiniteSetTheorems

(* The requests in progress.                                               *)
PendingRequests ==
    [op : Operations, layer : Layers,
     arg : {NoArg} \cup Callbacks \cup (0..MaxCalls),
     at : {"lockE", "lockH", "lockV", "relockH", "return"}, ok : BOOLEAN]

(* Dialling: makeCalls that have not been given an id.                     *)
Dialling == {t \in Pending("makeCall") : request[t].at # "return"}

-----------------------------------------------------------------------------
(* The inductive invariant.  First, of one request: where it is fits its   *)
(* class and its operation, ...                                            *)
Placed(r) ==
    /\ r.at \in {"lockE", "return"} => r.layer = "Endpoint"
    /\ r.at = "lockV" => r.op = "setEventCallback"
    /\ r.at = "relockH" => r.op = "shutdown"
    /\ r.op = "setEventCallback" => r.arg \in Callbacks

(* ... what Endpoint checked before it called H323Endpoint still holds,    *)
(* and H323Endpoint is initialized before Endpoint says so, ...            *)
Checked(r) ==
    r.layer = "Endpoint" /\ r.at # "lockE" =>
        /\ r.op \notin {"initialize", "setEventCallback"} => initialized
        /\ r.op = "initialize" /\ r.at = "return" => h323Initialized

(* ... a call that H323Endpoint made has a number that Endpoint has not    *)
(* seen, and Endpoint has yet to count it, ...                             *)
Numbered(r) ==
    r.op = "makeCall" /\ r.at = "return" =>
        /\ r.ok
        /\ r.arg \in 0..(h323TotalCalls - 1)
        /\ r.arg \notin activeCalls
        /\ totalCalls < h323TotalCalls

(* ... and Endpoint passes down the callback it has.                       *)
PassesCallback(r) ==
    r.layer = "Endpoint" /\ r.op = "setEventCallback" /\ r.at = "lockH"
        => r.arg = eventCallback

(* The mutexes: their holders are in the methods they protect.             *)
Holds(t) ==
    /\ endpointMutex = t <=> /\ request[t].layer = "Endpoint"
                             /\ request[t].at \notin {"idle", "lockE"}
    /\ h323Mutex = t <=> request[t].at \in {"lockV", "relockH"}

RequestsOK ==
    /\ request \in [AllThreads -> Requests]
    /\ \A t \in AllThreads :
          /\ Placed(request[t])
          /\ Checked(request[t])
          /\ Numbered(request[t])
          /\ PassesCallback(request[t])
          /\ Holds(t)

(* Of the two classes: Endpoint is the one that knows less.                *)
LayersOK ==
    /\ h323Initialized \in BOOLEAN /\ initialized \in BOOLEAN
    /\ initialized => h323Initialized
    /\ h323TotalCalls \in Nat /\ totalCalls \in 0..h323TotalCalls
    /\ activeCalls \subseteq 0..(h323TotalCalls - 1)
    /\ IsFiniteSet(activeCalls) /\ Cardinality(activeCalls) <= totalCalls
    /\ h323Callback \in Callbacks \cup {NoCallback}
    /\ eventCallback \in Callbacks \cup {NoCallback}

(* Every makeCall that has no id yet will find one below the bound.        *)
CallsBounded ==
    /\ IsFiniteSet(Pending("makeCall"))
    /\ h323TotalCalls + Cardinality(Dialling) <= MaxCalls

EInv == RequestsOK /\ LayersOK /\ CallsBounded

-----------------------------------------------------------------------------
(* No thread is the one that stands for nobody.                            *)
LEMMA NobodyIsNoThread == \A t \in AllThreads : t # NoThread
BY HandlerThreadsAssumption, AppThreadsAssumption DEF AllThreads

(* A request that moves on keeps the rest of itself.                       *)
LEMMA MovesOn ==
    ASSUME NEW r \in PendingRequests,
           NEW x \in {"lockE", "lockH", "lockV", "relockH", "return"}
    PROVE  LET n == [r EXCEPT !.at = x]
           IN  /\ n \in Requests /\ n.at = x
               /\ n.op = r.op /\ n.layer = r.layer /\ n.arg = r.arg /\ n.ok = r.ok
BY DEF PendingRequests, Requests

(* One that returns to Endpoint takes an argument and a value along.       *)
LEMMA ReturnsWith ==
    ASSUME NEW r \in PendingRequests,
           NEW arg \in {NoArg} \cup Callbacks \cup (0..MaxCalls), NEW ok \in BOOLEAN
    PROVE  LET n == [r EXCEPT !.at = "return", !.arg = arg, !.ok = ok]
           IN  /\ n \in Requests /\ n.at = "return"
               /\ n.op = r.op /\ n.layer = r.layer /\ n.arg = arg /\ n.ok = ok
BY DEF PendingRequests, Requests

(* Anything that is somewhere is a request in progress.                    *)
LEMMA PlacedIsPending ==
    ASSUME NEW r \in Requests
    PROVE  /\ r.at = "idle" <=> r = NoRequest
           /\ r # NoRequest <=> r \in PendingRequests
           /\ r.op # "none" <=> r # NoRequest
           /\ r.layer # "none" <=> r # NoRequest
BY DEF Requests, PendingRequests, NoRequest, Operations, Layers

(* No request asks nothing of the invariant.                               *)
LEMMA NoRequestOK ==
    /\ NoRequest \in Requests
    /\ Placed(NoRequest) /\ Checked(NoRequest) /\ Numbered(NoRequest)
    /\ PassesCallback(NoRequest)
BY DEF Requests, NoRequest, Placed, Checked, Numbered, PassesCallback

(* As long as no makeCall is added and none is counted, the bound stays.   *)
LEMMA BoundStays ==
    ASSUME CallsBounded, h323TotalCalls \in Nat, h323TotalCalls' = h323TotalCalls,
           Dialling' \subseteq Dialling, Pending("makeCall")' \subseteq Pending("makeCall")
    PROVE  CallsBounded'
<1>1. IsFiniteSet(Dialling)
  BY FS_Subset DEF CallsBounded, Dialling
<1>2. /\ IsFiniteSet(Dialling') /\ Cardinality(Dialling') <= Cardinality(Dialling)
      /\ Cardinality(Dialling) \in Nat /\ Cardinality(Dialling') \in Nat
  BY <1>1, FS_Subset, FS_CardinalityType
<1>3. IsFiniteSet(Pending("makeCall")')
  BY FS_Subset DEF CallsBounded
<1>4. h323TotalCalls + Cardinality(Dialling) <= MaxCalls /\ MaxCalls \in Nat
  BY EndpointArgsAssumption DEF CallsBounded
<1>5. h323TotalCalls' + Cardinality(Dialling') <= MaxCalls
  BY <1>2, <1>4
<1> QED
  BY <1>3, <1>5 DEF CallsBounded

(* When one thread's request changes, the bound stays unless that is a     *)
(* makeCall.                                                               *)
LEMMA OneRequestChanges ==
    ASSUME EInv, NEW t \in AllThreads, NEW new,
           request' = [request EXCEPT ![t] = new],
           h323TotalCalls' = h323TotalCalls,
           new.op = "makeCall" => /\ request[t].op = "makeCall"
                                  /\ new.at = "return" \/ request[t].at # "return"
    PROVE  CallsBounded'
<1>1. request \in [AllThreads -> Requests]
  BY DEF EInv, RequestsOK
<1>2. \A u \in AllThreads : request'[u] = IF u = t THEN new ELSE request[u]
  BY <1>1
<1>3. Pending("makeCall")' \subseteq Pending("makeCall")
  BY <1>2 DEF Pending
<1>4. Dialling' \subseteq Dialling
  BY <1>2, <1>3 DEF Dialling, Pending
<1> QED
  BY <1>3, <1>4, BoundStays DEF EInv, LayersOK

-----------------------------------------------------------------------------
(* A step of one thread leaves the others' requests as they should be: it  *)
(* changes what they rely on only with the mutex that protects it.         *)
LEMMA OneThreadSteps ==
    ASSUME EInv, NEW t \in AllThreads, NEW new \in Requests,
           request' = [request EXCEPT ![t] = new],
           initialized => initialized',
           h323Initialized => h323Initialized',
           h323TotalCalls' \in Nat, h323TotalCalls <= h323TotalCalls',
           \/ UNCHANGED <<eventCallback, activeCalls, totalCalls>>
           \/ endpointMutex \in {NoThread, t},
           \A u \in AllThreads \ {t} :
              /\ endpointMutex' = u <=> endpointMutex = u
              /\ h323Mutex' = u <=> h323Mutex = u,
           Placed(request[t])', Checked(request[t])', Numbered(request[t])',
           PassesCallback(request[t])', Holds(t)'
    PROVE  RequestsOK'
<1>0. /\ request \in [AllThreads -> Requests]
      /\ h323TotalCalls \in Nat /\ totalCalls \in Nat
  BY DEF EInv, RequestsOK, LayersOK
<1>1. request' \in [AllThreads -> Requests]
  BY <1>0
<1>2. ASSUME NEW u \in AllThreads, u # t
      PROVE  /\ Placed(request[u])' /\ Checked(request[u])'
             /\ Numbered(request[u])' /\ PassesCallback(request[u])'
             /\ Holds(u)'
  <2> DEFINE r == request[u]
  <2>1. request'[u] = r /\ u # NoThread
    BY <1>0, <1>2, NobodyIsNoThread
  <2>2. Placed(r) /\ Checked(r) /\ Numbered(r) /\ PassesCallback(r) /\ Holds(u)
    BY DEF EInv, RequestsOK
  <2>3. Placed(request[u])'
    BY <2>1, <2>2 DEF Placed
  <2>4. Checked(request[u])'
    BY <2>1, <2>2 DEF Checked
  <2>5. endpointMutex \in {NoThread, t} =>
            r.layer # "Endpoint" \/ r.at \in {"idle", "lockE"}
    BY <1>2, <2>1, <2>2 DEF Holds
  <2>6. Numbered(request[u])'
    <3>1. CASE endpointMutex \in {NoThread, t}
      <4>1. r.at # "return"
        BY <2>2, <2>5, <3>1 DEF Placed
      <4> QED
        BY <2>1, <4>1 DEF Numbered
    <3>2. CASE UNCHANGED <<eventCallback, activeCalls, totalCalls>>
      BY <1>0, <2>1, <2>2, <3>2 DEF Numbered
    <3> QED
      BY <3>1, <3>2
  <2>7. PassesCallback(request[u])'
    BY <2>1, <2>2, <2>5 DEF PassesCallback
  <2>8. Holds(u)'
    <3>1. (endpointMutex' = u <=> endpointMutex = u) /\ (h323Mutex' = u <=> h323Mutex = u)
      BY <1>2
    <3> QED
      BY <2>1, <2>2, <3>1 DEF Holds
  <2> QED
    BY <2>3, <2>4, <2>6, <2>7, <2>8
<1> QED
  BY <1>1, <1>2 DEF RequestsOK

(* A request begins at the first mutex of its class.                       *)
LEMMA RequestStep ==
    ASSUME EInv, NEW t \in AllThreads, NEW op \in Operations, NEW layer \in AppLayers,
           NEW arg \in Arguments(op), Request(t, op, layer, arg)
    PROVE  EInv'
<1> DEFINE new == NewRequest(op, layer, arg)
<1>0. /\ request \in [AllThreads -> Requests] /\ request[t] = NoRequest
      /\ request' = [request EXCEPT ![t] = new]
      /\ UNCHANGED <<h323Vars, endpointVars>>
  BY DEF EInv, RequestsOK, Request
<1>1. layer \in Layers /\ MaxCalls \in Nat
  BY EndpointArgsAssumption
<1>2. /\ arg \in {NoArg} \cup Callbacks \cup (0..MaxCalls)
      /\ op = "setEventCallback" => arg \in Callbacks
  BY <1>1 DEF Arguments
<1>3. /\ new \in Requests /\ new.op = op /\ new.layer = layer /\ new.arg = arg
      /\ new.at = IF layer = "Endpoint" THEN "lockE" ELSE "lockH"
  BY <1>1, <1>2 DEF NewRequest, Requests
<1>4. request'[t] = new
  BY <1>0
<1> HIDE DEF new
<1>5. RequestsOK'
  <2>1. Holds(t)'
    <3>1. Holds(t) /\ request[t].at = "idle"
      BY <1>0 DEF EInv, RequestsOK, NoRequest
    <3> QED
      BY <1>0, <1>3, <1>4, <3>1 DEF Holds, h323Vars, endpointVars, NoRequest
  <2>2. /\ Placed(request[t])' /\ Checked(request[t])' /\ Numbered(request[t])'
        /\ PassesCallback(request[t])'
    BY <1>2, <1>3, <1>4 DEF Placed, Checked, Numbered, PassesCallback
  <2>3. /\ UNCHANGED <<initialized, h323Initialized, h323Mutex, endpointMutex>>
        /\ UNCHANGED <<eventCallback, activeCalls, totalCalls>>
        /\ h323TotalCalls' \in Nat /\ h323TotalCalls <= h323TotalCalls'
    BY <1>0 DEF EInv, LayersOK, h323Vars, endpointVars
  <2> QED
    BY <1>0, <1>3, <2>1, <2>2, <2>3, OneThreadSteps
<1>6. LayersOK'
  BY <1>0 DEF EInv, LayersOK, h323Vars, endpointVars
<1>7. CallsBounded'
  <2>1. CASE op # "makeCall"
    BY <1>0, <1>3, <2>1, OneRequestChanges DEF h323Vars
  <2>2. CASE op = "makeCall"
    <3>1. h323TotalCalls + Cardinality(Pending("makeCall")) < MaxCalls
      BY <2>2 DEF Request, MayRequest
    <3>2. /\ IsFiniteSet(Pending("makeCall")) /\ IsFiniteSet(Dialling)
          /\ Cardinality(Dialling) <= Cardinality(Pending("makeCall"))
      BY FS_Subset DEF EInv, CallsBounded, Dialling
    <3>3. \A u \in AllThreads : request'[u] = IF u = t THEN new ELSE request[u]
      BY <1>0
    <3>4. Pending("makeCall")' = Pending("makeCall") \cup {t}
      BY <1>3, <2>2, <3>3 DEF Pending
    <3>5. Dialling' = Dialling \cup {t}
      BY <1>3, <2>2, <3>3, <3>4 DEF Dialling, Pending
    <3>6. /\ IsFiniteSet(Pending("makeCall")')
          /\ Cardinality(Dialling') <= Cardinality(Dialling) + 1
          /\ Cardinality(Dialling') \in Nat /\ Cardinality(Dialling) \in Nat
          /\ Cardinality(Pending("makeCall")) \in Nat
      <4>1. Cardinality(Dialling) \in Nat /\ Cardinality(Pending("makeCall")) \in Nat
        BY <3>2, FS_CardinalityType
      <4>2. IsFiniteSet(Pending("makeCall")')
        BY <3>2, <3>4, FS_AddElement
      <4>3. /\ IsFiniteSet(Dialling')
            /\ Cardinality(Dialling') =
                  IF t \in Dialling THEN Cardinality(Dialling) ELSE Cardinality(Dialling) + 1
        BY <3>2, <3>5, FS_AddElement
      <4> QED
        BY <4>1, <4>2, <4>3
    <3>7. h323TotalCalls \in Nat /\ h323TotalCalls' = h323TotalCalls
      BY <1>0 DEF EInv, LayersOK, h323Vars
    <3>8. h323TotalCalls' + Cardinality(Dialling') <= MaxCalls
      BY <1>1, <3>1, <3>2, <3>6, <3>7
    <3> QED
      BY <3>6, <3>8 DEF CallsBounded
  <2> QED
    BY <2>1, <2>2
<1> QED
  BY <1>5, <1>6, <1>7 DEF EInv

(* Endpoint's mutex is taken for what does not return at once.             *)
LEMMA EnterEndpointStep ==
    ASSUME EInv, NEW t \in AllThreads, EnterEndpoint(t)
    PROVE  EInv'
<1> DEFINE r == request[t]
<1>0. /\ request \in [AllThreads -> Requests]
      /\ r \in Requests /\ r.at = "lockE" /\ endpointMutex = NoThread
      /\ UNCHANGED <<h323Vars, initialized, totalCalls>>
  BY DEF EInv, RequestsOK, EnterEndpoint
<1>1. /\ Placed(r) /\ Checked(r) /\ Holds(t) /\ r.layer = "Endpoint"
      /\ t # NoThread
  BY <1>0, NobodyIsNoThread DEF EInv, RequestsOK, Placed
<1>2. r \in PendingRequests
  BY <1>0, PlacedIsPending
<1>a. /\ UNCHANGED <<initialized, h323Initialized, h323Mutex>>
      /\ endpointMutex = NoThread
      /\ h323TotalCalls' \in Nat /\ h323TotalCalls <= h323TotalCalls'
  BY <1>0 DEF EInv, LayersOK, h323Vars
<1>3. CASE EarlyReturn(r.op, r.arg)
  <2>1. /\ request' = [request EXCEPT ![t] = NoRequest]
        /\ UNCHANGED <<endpointMutex, activeCalls, eventCallback>>
    BY <1>3 DEF EnterEndpoint
  <2>2. request'[t] = NoRequest
    BY <1>0, <2>1
  <2>3. Holds(t)'
    BY <1>0, <1>1, <2>1, <2>2 DEF Holds, h323Vars, NoRequest
  <2>4. /\ Placed(request[t])' /\ Checked(request[t])' /\ Numbered(request[t])'
        /\ PassesCallback(request[t])'
    BY <2>2 DEF NoRequest, Placed, Checked, Numbered, PassesCallback
  <2>5. RequestsOK'
    BY <1>a, <2>1, <2>3, <2>4, NoRequestOK, OneThreadSteps
  <2>6. LayersOK'
    BY <1>0, <2>1 DEF EInv, LayersOK, h323Vars
  <2>7. CallsBounded'
    BY <1>0, <2>1, OneRequestChanges DEF h323Vars, NoRequest
  <2> QED
    BY <2>5, <2>6, <2>7 DEF EInv
<1>4. CASE ~EarlyReturn(r.op, r.arg)
  <2> DEFINE new == [r EXCEPT !.at = "lockH"]
  <2>1. /\ request' = [request EXCEPT ![t] = new]
        /\ endpointMutex' = t
        /\ activeCalls' = IF r.op = "shutdown" THEN {} ELSE activeCalls
        /\ eventCallback' = IF r.op = "setEventCallback" THEN r.arg ELSE eventCallback
    BY <1>4 DEF EnterEndpoint
  <2>2. /\ new \in Requests /\ new.at = "lockH"
        /\ new.op = r.op /\ new.layer = r.layer /\ new.arg = r.arg
    BY <1>2, MovesOn
  <2>3. request'[t] = new
    BY <1>0, <2>1
  <2> HIDE DEF new
  <2>4. Holds(t)'
    BY <1>0, <1>1, <2>1, <2>2, <2>3 DEF Holds, h323Vars
  <2>5. Placed(request[t])' /\ Numbered(request[t])' /\ PassesCallback(request[t])'
    BY <1>1, <2>1, <2>2, <2>3 DEF Placed, Numbered, PassesCallback
  <2>6. Checked(request[t])'
    BY <1>0, <1>4, <2>2, <2>3 DEF Checked, EarlyReturn
  <2>7. RequestsOK'
    <3>1. \A u \in AllThreads \ {t} : endpointMutex' = u <=> endpointMutex = u
      BY <1>a, <1>1, <2>1, NobodyIsNoThread
    <3> QED
      BY <1>a, <2>1, <2>2, <2>4, <2>5, <2>6, <3>1, OneThreadSteps
  <2>8. LayersOK'
    <3>1. eventCallback' \in Callbacks \cup {NoCallback}
      BY <1>1, <2>1 DEF EInv, LayersOK, Placed
    <3>2. /\ activeCalls' \subseteq 0..(h323TotalCalls - 1)
          /\ IsFiniteSet(activeCalls') /\ Cardinality(activeCalls') <= totalCalls
      <4>1. /\ activeCalls \subseteq 0..(h323TotalCalls - 1)
            /\ IsFiniteSet(activeCalls) /\ Cardinality(activeCalls) <= totalCalls
            /\ 0 <= totalCalls
        BY DEF EInv, LayersOK
      <4>2. activeCalls' = {} \/ activeCalls' = activeCalls
        BY <2>1
      <4> QED
        BY <4>1, <4>2, FS_EmptySet
    <3> QED
      BY <1>0, <3>1, <3>2 DEF EInv, LayersOK, h323Vars
  <2>9. CallsBounded'
    BY <1>0, <2>1, <2>2, OneRequestChanges DEF h323Vars
  <2> QED
    BY <2>7, <2>8, <2>9 DEF EInv
<1> QED
  BY <1>3, <1>4

(* What ReturnWith makes of a request: Endpoint takes it back, or it is    *)
(* over.                                                                   *)
LEMMA Returned ==
    ASSUME request \in [AllThreads -> Requests], NEW t \in AllThreads,
           request[t] # NoRequest,
           NEW arg \in {NoArg} \cup Callbacks \cup (0..MaxCalls), NEW ok \in BOOLEAN,
           ReturnWith(t, arg, ok)
    PROVE  /\ request' = [request EXCEPT ![t] = request'[t]]
           /\ request'[t] \in Requests
           /\ \/ /\ request[t].layer = "Endpoint" /\ request'[t].layer = "Endpoint"
                 /\ request'[t].at = "return" /\ request'[t].op = request[t].op
                 /\ request'[t].arg = arg /\ request'[t].ok = ok
              \/ request[t].layer # "Endpoint" /\ request'[t] = NoRequest
<1> DEFINE r == request[t]
           n == [r EXCEPT !.at = "return", !.arg = arg, !.ok = ok]
<1>0. r \in PendingRequests
  BY PlacedIsPending
<1>1. CASE r.layer = "Endpoint"
  <2>1. /\ n \in Requests /\ n.at = "return" /\ n.op = r.op /\ n.layer = r.layer
        /\ n.arg = arg /\ n.ok = ok
    BY <1>0 DEF PendingRequests, Requests
  <2>2. request' = [request EXCEPT ![t] = n]
    BY <1>1 DEF ReturnWith
  <2> HIDE DEF n
  <2>3. request'[t] = n
    BY <2>2
  <2> QED
    BY <1>1, <2>1, <2>2, <2>3
<1>2. CASE r.layer # "Endpoint"
  <2>1. request' = [request EXCEPT ![t] = NoRequest]
    BY <1>2 DEF ReturnWith
  <2> QED
    BY <1>2, <2>1, NoRequestOK
<1> QED
  BY <1>1, <1>2

(* A method of H323Endpoint that makes no call ends.                       *)
LEMMA ReturnsStep ==
    ASSUME EInv, NEW t \in AllThreads, NEW ok \in BOOLEAN,
           request[t].at \in {"lockH", "lockV"}, request[t].op # "makeCall",
           Return(t, ok),
           h323Mutex' = IF h323Mutex = t THEN NoThread ELSE h323Mutex,
           h323Initialized' = (h323Initialized \/ request[t].op = "initialize"),
           h323Callback' \in Callbacks \cup {NoCallback},
           UNCHANGED <<h323TotalCalls, endpointVars>>
    PROVE  EInv'
<1> DEFINE r == request[t]
           new == request'[t]
<1>0. /\ request \in [AllThreads -> Requests] /\ r \in Requests
      /\ Placed(r) /\ Checked(r) /\ Holds(t) /\ t # NoThread
      /\ h323Initialized \in BOOLEAN
  BY NobodyIsNoThread DEF EInv, RequestsOK, LayersOK
<1>1. r \in PendingRequests
  BY <1>0, PlacedIsPending DEF NoRequest
<1>2. r.arg \in {NoArg} \cup Callbacks \cup (0..MaxCalls)
  BY <1>1 DEF PendingRequests
<1>3. r # NoRequest /\ ReturnWith(t, r.arg, ok)
  BY DEF NoRequest, Return
<1>4. /\ request' = [request EXCEPT ![t] = new] /\ new \in Requests
      /\ \/ /\ r.layer = "Endpoint" /\ new.at = "return" /\ new.op = r.op
            /\ new.layer = "Endpoint" /\ new.arg = r.arg
         \/ r.layer # "Endpoint" /\ new = NoRequest
  BY <1>0, <1>2, <1>3, Returned
<1> HIDE DEF new
<1>5. /\ UNCHANGED <<initialized, activeCalls, totalCalls, eventCallback, endpointMutex>>
      /\ h323Initialized' \in BOOLEAN
      /\ h323Initialized => h323Initialized'
      /\ h323TotalCalls' \in Nat /\ h323TotalCalls' = h323TotalCalls
      /\ h323TotalCalls <= h323TotalCalls'
  BY <1>0 DEF EInv, LayersOK, endpointVars
<1>6. RequestsOK'
  <2>1. Holds(t)'
    BY <1>0, <1>4, <1>5 DEF new, Holds, NoRequest
  <2>2. Placed(request[t])' /\ Numbered(request[t])' /\ PassesCallback(request[t])'
    BY <1>0, <1>4, <1>5 DEF new, NoRequest, Placed, Numbered, PassesCallback
  <2>4. Checked(request[t])'
    <3>1. CASE r.layer = "Endpoint"
      <4>1. /\ r.op \notin {"initialize", "setEventCallback"} => initialized'
            /\ r.op = "initialize" => h323Initialized'
        BY <1>0, <1>5, <3>1 DEF Checked
      <4> QED
        BY <1>4, <3>1, <4>1 DEF new, Checked
    <3>2. CASE r.layer # "Endpoint"
      BY <1>4, <3>2 DEF new, Checked, NoRequest
    <3> QED
      BY <3>1, <3>2
  <2>3. \A u \in AllThreads \ {t} : h323Mutex' = u <=> h323Mutex = u
    BY NobodyIsNoThread
  <2> QED
    BY <1>4, <1>5, <2>1, <2>2, <2>3, <2>4, OneThreadSteps
<1>7. LayersOK'
  BY <1>5 DEF EInv, LayersOK
<1>8. CallsBounded'
  <2>1. new.op # "makeCall"
    BY <1>4 DEF NoRequest
  <2> QED
    BY <1>4, <1>5, <2>1, OneRequestChanges
<1> QED
  BY <1>6, <1>7, <1>8 DEF EInv

(* A call gets the next number, which Endpoint cannot have seen.  Below    *)
(* Endpoint it does not fail.                                              *)
LEMMA MakeCallStep ==
    ASSUME EInv, NEW t \in AllThreads, H323MakeCall(t), UNCHANGED endpointVars
    PROVE  EInv'
<1> DEFINE r == request[t]
           new == request'[t]
           ok == h323Initialized
<1>0. /\ request \in [AllThreads -> Requests] /\ r \in Requests
      /\ Placed(r) /\ Checked(r) /\ Holds(t) /\ t # NoThread
      /\ h323Initialized \in BOOLEAN /\ initialized \in BOOLEAN
      /\ initialized => h323Initialized
      /\ h323TotalCalls \in Nat /\ totalCalls \in 0..h323TotalCalls
      /\ activeCalls \subseteq 0..(h323TotalCalls - 1)
  BY NobodyIsNoThread DEF EInv, RequestsOK, LayersOK
<1>1. /\ r.op = "makeCall" /\ r.at = "lockH"
      /\ h323TotalCalls' = IF ok THEN h323TotalCalls + 1 ELSE h323TotalCalls
      /\ UNCHANGED <<h323Mutex, h323Initialized, h323Callback>>
      /\ UNCHANGED <<initialized, activeCalls, totalCalls, eventCallback, endpointMutex>>
  BY DEF H323MakeCall, EnterH323, InRequest, endpointVars
<1>2. r \in PendingRequests
  BY <1>0, <1>1, PlacedIsPending DEF NoRequest
<1>3. ASSUME r.layer = "Endpoint" PROVE ok
  <2>1. initialized
    BY <1>0, <1>1, <1>3 DEF Checked
  <2> QED
    BY <1>0, <2>1
<1>a. /\ IsFiniteSet(Dialling) /\ t \in Dialling
      /\ Cardinality(Dialling) \in Nat /\ Cardinality(Dialling) >= 1
      /\ IsFiniteSet(Pending("makeCall"))
      /\ h323TotalCalls + Cardinality(Dialling) <= MaxCalls
      /\ MaxCalls \in Nat
  <2>1. IsFiniteSet(Dialling) /\ IsFiniteSet(Pending("makeCall"))
    BY FS_Subset DEF EInv, CallsBounded, Dialling
  <2>2. t \in Dialling
    BY <1>0, <1>1 DEF Dialling, Pending
  <2>3. Cardinality(Dialling) \in Nat /\ Cardinality(Dialling) # 0
    BY <2>1, <2>2, FS_EmptySet, FS_CardinalityType
  <2> QED
    BY <2>1, <2>2, <2>3, EndpointArgsAssumption DEF EInv, CallsBounded
<1>4. h323TotalCalls \in 0..MaxCalls /\ r.arg \in {NoArg} \cup Callbacks \cup (0..MaxCalls)
  BY <1>0, <1>a, <1>2 DEF PendingRequests
<1>5. /\ request' = [request EXCEPT ![t] = new] /\ new \in Requests
      /\ \/ /\ r.layer = "Endpoint" /\ new.at = "return" /\ new.op = r.op
            /\ new.layer = "Endpoint" /\ new.arg = h323TotalCalls /\ new.ok = TRUE
         \/ r.layer # "Endpoint" /\ new = NoRequest
  <2>1. r # NoRequest
    BY <1>1 DEF NoRequest
  <2>2. CASE ok
    <3>1. ReturnWith(t, h323TotalCalls, TRUE)
      BY <2>2 DEF H323MakeCall
    <3> QED
      BY <1>0, <1>4, <2>1, <3>1, Returned
  <2>3. CASE ~ok
    <3>1. ReturnWith(t, r.arg, FALSE)
      BY <2>3 DEF H323MakeCall, Return
    <3> QED
      BY <1>0, <1>3, <1>4, <2>1, <2>3, <3>1, Returned
  <2> QED
    BY <2>2, <2>3
<1>6. h323Initialized => h323Initialized'
  BY <1>1
<1> HIDE DEF new
<1>7. h323TotalCalls' \in Nat /\ h323TotalCalls <= h323TotalCalls'
  BY <1>0, <1>1
<1>8. RequestsOK'
  <2>1. Holds(t)'
    BY <1>0, <1>1, <1>5 DEF new, Holds, NoRequest
  <2>2. Placed(request[t])' /\ Checked(request[t])' /\ PassesCallback(request[t])'
    BY <1>0, <1>1, <1>5 DEF new, NoRequest, Placed, Checked, PassesCallback
  <2>3. Numbered(request[t])'
    <3>1. CASE r.layer = "Endpoint"
      <4>1. h323TotalCalls' = h323TotalCalls + 1
        BY <1>1, <1>3, <3>1
      <4>2. h323TotalCalls \in 0..(h323TotalCalls' - 1) /\ totalCalls < h323TotalCalls'
        BY <1>0, <4>1
      <4>3. h323TotalCalls \notin activeCalls
        BY <1>0
      <4> QED
        BY <1>1, <1>5, <3>1, <4>2, <4>3 DEF new, Numbered
    <3>2. CASE r.layer # "Endpoint"
      BY <1>5, <3>2 DEF new, NoRequest, Numbered
    <3> QED
      BY <3>1, <3>2
  <2> QED
    BY <1>1, <1>5, <1>6, <1>7, <2>1, <2>2, <2>3, OneThreadSteps
<1>9. LayersOK'
  <2>1. totalCalls' \in 0..h323TotalCalls' /\ activeCalls' \subseteq 0..(h323TotalCalls' - 1)
    BY <1>0, <1>1
  <2> QED
    BY <1>1, <1>7, <2>1 DEF EInv, LayersOK
<1>10. CallsBounded'
  <2>1. CASE ~ok
    <3>1. new.op # "makeCall"
      BY <1>3, <1>5, <2>1 DEF NoRequest
    <3> QED
      BY <1>1, <1>5, <2>1, <3>1, OneRequestChanges
  <2>2. CASE ok
    <3>1. \A u \in AllThreads : request'[u] = IF u = t THEN new ELSE request[u]
      BY <1>0, <1>5
    <3>2. new.op = "makeCall" => new.at = "return"
      BY <1>5 DEF NoRequest
    <3>3. Dialling' \subseteq Dialling \ {t}
      BY <3>1, <3>2 DEF Dialling, Pending
    <3>4. Pending("makeCall")' \subseteq Pending("makeCall")
      BY <1>1, <3>1 DEF Pending
    <3>5. /\ IsFiniteSet(Dialling \ {t})
          /\ Cardinality(Dialling \ {t}) = Cardinality(Dialling) - 1
      BY <1>a, FS_RemoveElement
    <3>6. IsFiniteSet(Dialling') /\ Cardinality(Dialling') <= Cardinality(Dialling) - 1
      BY <3>3, <3>5, FS_Subset
    <3>7. IsFiniteSet(Pending("makeCall")')
      BY <1>a, <3>4, FS_Subset
    <3>8. Cardinality(Dialling') \in Nat
      BY <3>6, FS_CardinalityType
    <3>9. h323TotalCalls' + Cardinality(Dialling') <= MaxCalls
      BY <1>0, <1>1, <1>a, <2>2, <3>6, <3>8
    <3> QED
      BY <3>7, <3>9 DEF CallsBounded
  <2> QED
    BY <2>1, <2>2
<1> QED
  BY <1>8, <1>9, <1>10 DEF EInv

(* setEventCallback and shutdown go on to another mutex with h323Mutex.    *)
LEMMA NextMutexStep ==
    ASSUME EInv, NEW t \in AllThreads, h323Mutex = NoThread, h323Mutex' = t,
           \/ InRequest(t, "setEventCallback", "lockH")
              /\ request' = [request EXCEPT ![t].at = "lockV"]
           \/ InRequest(t, "shutdown", "lockH")
              /\ request' = [request EXCEPT ![t].at = "relockH"],
           h323Callback' \in Callbacks \cup {NoCallback},
           UNCHANGED <<h323Initialized, h323TotalCalls, endpointVars>>
    PROVE  EInv'
<1> DEFINE r == request[t]
           new == request'[t]
<1>0. /\ request \in [AllThreads -> Requests] /\ r \in Requests
      /\ Placed(r) /\ Checked(r) /\ Holds(t) /\ t # NoThread
  BY NobodyIsNoThread DEF EInv, RequestsOK
<1>1. r \in PendingRequests
  BY <1>0, PlacedIsPending DEF NoRequest, InRequest
<1>2. /\ request' = [request EXCEPT ![t] = new] /\ r.at = "lockH"
      /\ \/ r.op = "setEventCallback" /\ new = [r EXCEPT !.at = "lockV"]
         \/ r.op = "shutdown" /\ new = [r EXCEPT !.at = "relockH"]
  BY <1>0 DEF InRequest
<1>3. /\ new \in Requests /\ new.op = r.op /\ new.layer = r.layer /\ new.arg = r.arg
      /\ \/ r.op = "setEventCallback" /\ new.at = "lockV"
         \/ r.op = "shutdown" /\ new.at = "relockH"
  <2> DEFINE Moved(x) == [r EXCEPT !.at = x]
  <2>1. ASSUME NEW x \in {"lockV", "relockH"}
        PROVE  /\ Moved(x) \in Requests /\ Moved(x).at = x /\ Moved(x).op = r.op
               /\ Moved(x).layer = r.layer /\ Moved(x).arg = r.arg
    BY <1>1 DEF PendingRequests, Requests
  <2>2. \/ r.op = "setEventCallback" /\ new = Moved("lockV")
        \/ r.op = "shutdown" /\ new = Moved("relockH")
    BY <1>2
  <2> HIDE DEF Moved, new, r
  <2> QED
    BY <2>1, <2>2
<1> HIDE DEF new
<1>4. /\ UNCHANGED <<initialized, activeCalls, totalCalls, eventCallback, endpointMutex>>
      /\ h323Initialized' = h323Initialized
      /\ h323Initialized => h323Initialized'
      /\ h323TotalCalls' \in Nat /\ h323TotalCalls' = h323TotalCalls
      /\ h323TotalCalls <= h323TotalCalls'
  BY DEF EInv, LayersOK, endpointVars
<1>5. RequestsOK'
  <2>1. Holds(t)'
    BY <1>0, <1>2, <1>3, <1>4 DEF new, Holds
  <2>2. /\ Placed(request[t])' /\ Checked(request[t])' /\ Numbered(request[t])'
        /\ PassesCallback(request[t])'
    BY <1>0, <1>2, <1>3, <1>4 DEF new, Placed, Checked, Numbered, PassesCallback
  <2>3. \A u \in AllThreads \ {t} : h323Mutex' = u <=> h323Mutex = u
    BY NobodyIsNoThread
  <2> QED
    BY <1>2, <1>3, <1>4, <2>1, <2>2, <2>3, OneThreadSteps
<1>6. LayersOK'
  BY <1>4 DEF EInv, LayersOK
<1>7. CallsBounded'
  BY <1>2, <1>3, <1>4, OneRequestChanges
<1> QED
  BY <1>5, <1>6, <1>7 DEF EInv

(* Back in Endpoint, with its mutex held since before: it counts a call    *)
(* and keeps it under a number that is not in the map, or drops one.       *)
LEMMA ReturnFromEndpointStep ==
    ASSUME EInv, NEW t \in AllThreads, ReturnFromEndpoint(t)
    PROVE  EInv'
<1> DEFINE r == request[t]
<1>0. /\ request \in [AllThreads -> Requests] /\ r.at = "return"
      /\ Placed(r) /\ Checked(r) /\ Numbered(r) /\ Holds(t) /\ t # NoThread
      /\ initialized \in BOOLEAN
      /\ initialized => h323Initialized
      /\ h323TotalCalls \in Nat /\ totalCalls \in 0..h323TotalCalls
      /\ activeCalls \subseteq 0..(h323TotalCalls - 1)
      /\ IsFiniteSet(activeCalls) /\ Cardinality(activeCalls) <= totalCalls
  BY NobodyIsNoThread DEF EInv, RequestsOK, LayersOK, ReturnFromEndpoint
<1>1. r.layer = "Endpoint" /\ endpointMutex = t
  BY <1>0 DEF Placed, Holds
<1>2. /\ initialized' = (initialized \/ (r.op = "initialize" /\ r.ok))
      /\ endpointMutex' = NoThread
      /\ request' = [request EXCEPT ![t] = NoRequest]
      /\ UNCHANGED <<h323Mutex, h323Initialized, h323TotalCalls, h323Callback, eventCallback>>
  BY <1>1 DEF ReturnFromEndpoint, h323Vars
<1>3. \/ r.op = "makeCall" /\ activeCalls' = activeCalls \cup {r.arg}
         /\ totalCalls' = totalCalls + 1
      \/ activeCalls' \subseteq activeCalls /\ totalCalls' = totalCalls
  BY <1>0 DEF ReturnFromEndpoint, Numbered
<1>4. request'[t] = NoRequest
  BY <1>0, <1>2
<1>5. /\ initialized' \in BOOLEAN
      /\ initialized => initialized'
      /\ initialized' => h323Initialized
  <2>1. r.op = "initialize" => h323Initialized
    BY <1>0, <1>1 DEF Checked
  <2> QED
    BY <1>0, <1>2, <2>1
<1>6. RequestsOK'
  <2>1. Holds(t)'
    BY <1>0, <1>2, <1>4 DEF Holds, NoRequest
  <2>2. /\ Placed(request[t])' /\ Checked(request[t])' /\ Numbered(request[t])'
        /\ PassesCallback(request[t])'
    BY <1>4 DEF NoRequest, Placed, Checked, Numbered, PassesCallback
  <2>3. \A u \in AllThreads \ {t} : endpointMutex' = u <=> endpointMutex = u
    BY <1>1, <1>2, NobodyIsNoThread
  <2>4. h323TotalCalls' \in Nat /\ h323TotalCalls <= h323TotalCalls'
    BY <1>0, <1>2
  <2> QED
    BY <1>1, <1>2, <1>5, <2>1, <2>2, <2>3, <2>4, NoRequestOK, OneThreadSteps
<1>7. LayersOK'
  <2>1. /\ totalCalls' \in 0..h323TotalCalls /\ activeCalls' \subseteq 0..(h323TotalCalls - 1)
        /\ IsFiniteSet(activeCalls') /\ Cardinality(activeCalls') <= totalCalls'
    <3>1. CASE r.op = "makeCall" /\ activeCalls' = activeCalls \cup {r.arg}
               /\ totalCalls' = totalCalls + 1
      <4>1. /\ r.arg \in 0..(h323TotalCalls - 1) /\ r.arg \notin activeCalls
            /\ totalCalls < h323TotalCalls
        BY <1>0, <3>1 DEF Numbered
      <4>2. /\ IsFiniteSet(activeCalls')
            /\ Cardinality(activeCalls') = Cardinality(activeCalls) + 1
        BY <1>0, <3>1, <4>1, FS_AddElement
      <4>3. Cardinality(activeCalls) \in Nat
        BY <1>0, FS_CardinalityType
      <4>4. totalCalls' \in 0..h323TotalCalls /\ Cardinality(activeCalls') <= totalCalls'
        BY <1>0, <3>1, <4>1, <4>2, <4>3
      <4>5. activeCalls' \subseteq 0..(h323TotalCalls - 1)
        BY <1>0, <3>1, <4>1
      <4> QED
        BY <4>2, <4>4, <4>5
    <3>2. CASE activeCalls' \subseteq activeCalls /\ totalCalls' = totalCalls
      <4>1. IsFiniteSet(activeCalls') /\ Cardinality(activeCalls') <= Cardinality(activeCalls)
        BY <1>0, <3>2, FS_Subset
      <4>2. Cardinality(activeCalls) \in Nat /\ Cardinality(activeCalls') \in Nat
        BY <1>0, <4>1, FS_CardinalityType
      <4>3. totalCalls' \in 0..h323TotalCalls /\ Cardinality(activeCalls') <= totalCalls'
        BY <1>0, <3>2, <4>1, <4>2
      <4> QED
        BY <1>0, <3>2, <4>1, <4>3
    <3> QED
      BY <1>3, <3>1, <3>2
  <2>2. /\ h323Initialized' \in BOOLEAN
        /\ initialized' => h323Initialized'
        /\ h323TotalCalls' = h323TotalCalls
        /\ h323Callback' \in Callbacks \cup {NoCallback}
        /\ eventCallback' \in Callbacks \cup {NoCallback}
    <3>1. /\ h323Initialized \in BOOLEAN /\ h323Callback \in Callbacks \cup {NoCallback}
          /\ eventCallback \in Callbacks \cup {NoCallback}
      BY DEF EInv, LayersOK
    <3>2. /\ h323Initialized' = h323Initialized /\ h323TotalCalls' = h323TotalCalls
          /\ h323Callback' = h323Callback /\ eventCallback' = eventCallback
      BY <1>2
    <3> QED
      BY <1>5, <3>1, <3>2
  <2> QED
    BY <1>0, <1>5, <2>1, <2>2 DEF LayersOK
<1>8. CallsBounded'
  BY <1>2, OneRequestChanges DEF NoRequest
<1> QED
  BY <1>6, <1>7, <1>8 DEF EInv

(* The handler's own steps touch nothing of this.                          *)
LEMMA HandlerOnlyStep ==
    ASSUME EInv, UNCHANGED <<h323Vars, request, endpointVars>>
    PROVE  EInv'
<1>1. /\ RequestsOK' /\ LayersOK'
  BY DEF EInv, RequestsOK, LayersOK, Placed, Checked, Numbered, PassesCallback, Holds,
         h323Vars, endpointVars
<1>2. Dialling' = Dialling /\ Pending("makeCall")' = Pending("makeCall")
  BY DEF Dialling, Pending
<1>3. CallsBounded'
  BY <1>2 DEF EInv, CallsBounded, h323Vars
<1> QED
  BY <1>1, <1>3 DEF EInv

-----------------------------------------------------------------------------
(* Nothing is asked for, held or known at the start.                       *)
LEMMA EInitInv == Init => EInv
<1> SUFFICES ASSUME Init PROVE EInv
  OBVIOUS
<1>1. request = [t \in AllThreads |-> NoRequest]
  BY DEF Init, H323Init
<1>2. ASSUME NEW t \in AllThreads
      PROVE  /\ request[t] = NoRequest
             /\ Holds(t)
  BY <1>1, NobodyIsNoThread DEF Init, H323Init, Holds, NoRequest
<1>3. RequestsOK
  <2>1. request \in [AllThreads -> Requests]
    BY <1>1, NoRequestOK
  <2> QED
    BY <1>2, <2>1, NoRequestOK DEF RequestsOK
<1>4. LayersOK
  <2>1. /\ activeCalls = {} /\ totalCalls = 0 /\ h323TotalCalls = 0
        /\ initialized = FALSE /\ h323Initialized = FALSE
        /\ h323Callback = NoCallback /\ eventCallback = NoCallback
    BY DEF Init, H323Init
  <2>2. IsFiniteSet(activeCalls) /\ Cardinality(activeCalls) = 0
    BY <2>1, FS_EmptySet
  <2>3. totalCalls \in 0..h323TotalCalls /\ activeCalls \subseteq 0..(h323TotalCalls - 1)
    BY <2>1
  <2>4. Cardinality(activeCalls) <= totalCalls
    BY <2>1, <2>2
  <2>5. h323TotalCalls \in Nat
    BY <2>1
  <2> QED
    BY <2>1, <2>2, <2>3, <2>4, <2>5 DEF LayersOK
<1>5. CallsBounded
  <2>1. Pending("makeCall") = {} /\ Dialling = {}
    BY <1>2 DEF Pending, Dialling, NoRequest
  <2> QED
    BY <2>1, FS_EmptySet, EndpointArgsAssumption DEF Init, H323Init, CallsBounded
<1> QED
  BY <1>3, <1>4, <1>5 DEF EInv

(* Every step inside H323Endpoint keeps the invariant.                     *)
LEMMA H323StepInv ==
    ASSUME EInv, NEW t \in AllThreads, H323Step(t), UNCHANGED endpointVars
    PROVE  EInv'
<1>0. /\ t # NoThread
      /\ h323Initialized \in BOOLEAN
      /\ h323Callback \in Callbacks \cup {NoCallback}
      /\ Placed(request[t]) /\ Holds(t)
  BY NobodyIsNoThread DEF EInv, RequestsOK, LayersOK
<1>1. CASE H323Initialize(t)
  BY <1>0, <1>1, ReturnsStep DEF H323Initialize, EnterH323, InRequest
<1>2. CASE H323Gatekeeper(t)
  <2>1. GatekeeperRequired \in BOOLEAN
    BY ConfigAssumption
  <2>2. PICK ok \in BOOLEAN : Return(t, ok)
    BY <1>0, <1>2, <2>1 DEF H323Gatekeeper
  <2>3. /\ request[t].at = "lockH" /\ request[t].op \notin {"makeCall", "initialize"}
        /\ h323Mutex = NoThread
        /\ UNCHANGED h323Vars
    BY <1>2 DEF H323Gatekeeper, EnterH323, InRequest
  <2> QED
    BY <1>0, <2>2, <2>3, ReturnsStep DEF h323Vars
<1>3. CASE H323MakeCall(t)
  BY <1>3, MakeCallStep
<1>4. CASE H323UseCall(t)
  <2>1. Return(t, FALSE)
    BY <1>4 DEF H323UseCall, GetConnection
  <2>2. /\ request[t].at = "lockH" /\ request[t].op \notin {"makeCall", "initialize"}
        /\ UNCHANGED h323Vars
        /\ h323Mutex = NoThread
    BY <1>4 DEF H323UseCall, EnterH323, InRequest
  <2> QED
    BY <1>0, <2>1, <2>2, ReturnsStep DEF h323Vars
<1>5. CASE H323GetActiveCalls(t)
  BY <1>0, <1>5, ReturnsStep DEF H323GetActiveCalls, EnterH323, InRequest, h323Vars
<1>6. CASE H323SetEventCallback(t)
  <2>1. /\ InRequest(t, "setEventCallback", "lockH") /\ h323Mutex = NoThread
        /\ h323Callback' = request[t].arg
        /\ UNCHANGED <<h323Initialized, h323TotalCalls>>
    BY <1>6 DEF H323SetEventCallback, EnterH323
  <2>2. h323Callback' \in Callbacks \cup {NoCallback}
    BY <1>0, <2>1 DEF Placed, InRequest
  <2>3. CASE h323Initialized
    <3>1. h323Mutex' = t /\ request' = [request EXCEPT ![t].at = "lockV"]
      BY <1>6, <2>3 DEF H323SetEventCallback
    <3> QED
      BY <2>1, <2>2, <3>1, NextMutexStep
  <2>4. CASE ~h323Initialized
    <3>1. h323Mutex' = h323Mutex /\ Return(t, TRUE)
      BY <1>6, <2>4 DEF H323SetEventCallback
    <3> QED
      BY <1>0, <2>1, <2>2, <3>1, ReturnsStep DEF InRequest
  <2> QED
    BY <2>3, <2>4
<1>7. CASE H323InstallCallback(t)
  BY <1>0, <1>7, ReturnsStep DEF H323InstallCallback, InRequest
<1>8. CASE H323Shutdown(t)
  <2>1. /\ InRequest(t, "shutdown", "lockH") /\ h323Mutex = NoThread
        /\ UNCHANGED <<h323Initialized, h323TotalCalls, h323Callback>>
    BY <1>8 DEF H323Shutdown, EnterH323
  <2>2. CASE h323Initialized
    <3>1. h323Mutex' = t /\ request' = [request EXCEPT ![t].at = "relockH"]
      BY <1>8, <2>2 DEF H323Shutdown
    <3> QED
      BY <1>0, <2>1, <3>1, NextMutexStep
  <2>3. CASE ~h323Initialized
    <3>1. h323Mutex' = h323Mutex /\ Return(t, TRUE)
      BY <1>8, <2>3 DEF H323Shutdown
    <3> QED
      BY <1>0, <2>1, <3>1, ReturnsStep DEF InRequest
  <2> QED
    BY <2>2, <2>3
<1> QED
  BY <1>1, <1>2, <1>3, <1>4, <1>5, <1>6, <1>7, <1>8 DEF H323Step

(* Every step of the three layers together keeps the invariant.            *)
LEMMA ENextInv == EInv /\ [Next]_vars => EInv'
<1> SUFFICES ASSUME EInv, [Next]_vars PROVE EInv'
  OBVIOUS
<1>1. ASSUME NEW t \in AllThreads, NEW op \in Operations, NEW layer \in AppLayers,
             NEW arg \in Arguments(op), Request(t, op, layer, arg)
      PROVE  EInv'
  BY <1>1, RequestStep
<1>2. ASSUME NEW t \in AllThreads, Proceed(t) PROVE EInv'
  BY <1>2, EnterEndpointStep, H323StepInv, ReturnFromEndpointStep DEF Proceed
<1>3. CASE HandlerStep
  BY <1>3, HandlerOnlyStep DEF HandlerStep
<1>4. ASSUME NEW s \in StackThreads, EndCallback(s) PROVE EInv'
  BY <1>4, HandlerOnlyStep DEF EndCallback
<1>5. CASE UNCHANGED vars
  BY <1>5, HandlerOnlyStep DEF vars
<1> QED
  BY <1>1, <1>2, <1>3, <1>4, <1>5 DEF Next

(* So it always holds.                                                     *)
LEMMA EInvariance == Spec => []EInv
BY EInitInv, ENextInv, PTL DEF Spec

-----------------------------------------------------------------------------
(* A step of the layers above reaches the handler only as                  *)
(* setEventCallback, with a callback.                                      *)
LEMMA HandlerStepsOnly ==
    ASSUME EInv, [Next]_vars
    PROVE  [HandlerNext]_handlerVars
<1>1. ASSUME NEW t \in AllThreads, H323Step(t) PROVE [HandlerNext]_handlerVars
  <2>1. CASE H323InstallCallback(t)
    <3>1. request[t].arg \in Callbacks /\ SetEventCallback(request[t].arg)
      BY <2>1 DEF H323InstallCallback, InRequest, EInv, RequestsOK, Placed
    <3> QED
      BY <3>1 DEF HandlerNext
  <2>2. CASE ~H323InstallCallback(t)
    BY <1>1, <2>2 DEF H323Step, H323Initialize, H323Gatekeeper, H323MakeCall, H323UseCall,
         H323GetActiveCalls, H323SetEventCallback, H323Shutdown
  <2> QED
    BY <2>1, <2>2
<1>2. ASSUME NEW t \in AllThreads, Proceed(t) PROVE [HandlerNext]_handlerVars
  BY <1>1, <1>2 DEF Proceed, EnterEndpoint, ReturnFromEndpoint
<1>3. CASE HandlerStep
  BY <1>3 DEF HandlerStep, HandlerNext
<1>4. ASSUME NEW s \in StackThreads, EndCallback(s) PROVE [HandlerNext]_handlerVars
  BY <1>4 DEF EndCallback, HandlerNext
<1>5. CASE UNCHANGED vars
  BY <1>5 DEF vars
<1>6. ASSUME NEW t, NEW op, NEW layer, NEW arg, Request(t, op, layer, arg)
      PROVE  [HandlerNext]_handlerVars
  BY <1>6 DEF Request
<1> QED
  BY <1>2, <1>3, <1>4, <1>5, <1>6 DEF Next

(* The composition implements the handler: put under the two singletons,   *)
(* with callbacks that call them, the event handler behaves as one that    *)
(* the application calls directly, so that all that is proved of it alone  *)
(* holds here (h323_endpoint.cpp:270-279, h323_event_handler.cpp:21-25).   *)
THEOREM RefinesHandler == Spec => HandlerSpec
<1>1. Init => HandlerInit
  BY DEF Init
<1>2. EInv /\ [Next]_vars => [HandlerNext]_handlerVars
  BY HandlerStepsOnly
<1> QED
  BY <1>1, <1>2, EInvariance, PTL DEF Spec, HandlerSpec

(* Endpoint's, H323Endpoint's and the handler's variables have their       *)
(* types, and each mutex is held by exactly the thread that is inside the  *)
(* methods it protects (endpoint.cpp:63-183, h323_endpoint.cpp:62-279).    *)
THEOREM EndpointTypes == Spec => []EndpointTypeOK
<1>1. EInv /\ HInv => EndpointTypeOK
  <2> SUFFICES ASSUME EInv, HInv PROVE EndpointTypeOK
    OBVIOUS
  <2>1. Cardinality(Dialling) \in Nat
    BY FS_Subset, FS_CardinalityType DEF EInv, CallsBounded, Dialling
  <2>2. h323TotalCalls \in 0..MaxCalls /\ totalCalls \in 0..MaxCalls
    BY <2>1, EndpointArgsAssumption DEF EInv, CallsBounded, LayersOK
  <2>3. activeCalls \subseteq 0..MaxCalls
    BY <2>2, EndpointArgsAssumption DEF EInv, LayersOK
  <2>4. HandlerTypeOK
    BY DEF HInv
  <2> QED
    BY <2>2, <2>3, <2>4 DEF EInv, LayersOK, RequestsOK, Holds, EndpointTypeOK
<1> QED
  BY <1>1, EInvariance, RefinesHandler, HandlerInvariance, PTL

(* An id that makeCall brings to Endpoint names no call of its map, also   *)
(* when others call H323Endpoint directly, and the calls counted are at    *)
(* least those kept (endpoint.cpp:123-124).                                *)
THEOREM NoneOverwritten == Spec => []NoCallOverwritten
<1>1. EInv => NoCallOverwritten
  BY DEF EInv, RequestsOK, LayersOK, Numbered, NoCallOverwritten, InRequest
<1> QED
  BY <1>1, EInvariance, PTL

-----------------------------------------------------------------------------
(* What a step can do to the passing on of a callback.  It adds a request  *)
(* for it, ...                                                             *)
AsksToSet(t) ==
    /\ request[t] = NoRequest /\ MaySetCallback
    /\ request'[t].op = "setEventCallback" /\ request'[t].at \in {"lockE", "lockH"}
    /\ \A u \in AllThreads \ {t} : request'[u] = request[u]
    /\ UNCHANGED <<callback, h323Callback, h323Initialized>>

(* ... or leaves it alone: it changes no callback and adds no request for  *)
(* one, one that waits for the handler goes on waiting, and one that is    *)
(* over does not begin again, ...                                          *)
KeepsCallbacks ==
    /\ UNCHANGED <<callback, h323Callback>>
    /\ h323Initialized => h323Initialized'
    /\ \A t \in AllThreads :
          /\ request'[t].at = "lockV" <=> request[t].at = "lockV"
          /\ request'[t].at = "lockV" => request'[t] = request[t]
          /\ request'[t].op = "setEventCallback" =>
                /\ request[t].op = "setEventCallback"
                /\ request[t].at = "return" => request'[t].at = "return"

(* ... or is one of the two that set a callback.                           *)
LEMMA CallbackSteps ==
    ASSUME EInv, [Next]_vars
    PROVE  \/ KeepsCallbacks
           \/ \E t \in AllThreads :
                 \/ AsksToSet(t)
                 \/ H323SetEventCallback(t) /\ UNCHANGED endpointVars
                 \/ H323InstallCallback(t) /\ UNCHANGED endpointVars
<1>0. request \in [AllThreads -> Requests]
  BY DEF EInv, RequestsOK
<1>a. ASSUME NEW t \in AllThreads, request[t].at # "lockV",
             UNCHANGED <<callback, h323Callback>>, h323Initialized => h323Initialized',
             NEW new, request' = [request EXCEPT ![t] = new], new.at # "lockV",
             new.op = "setEventCallback" => /\ request[t].op = "setEventCallback"
                                            /\ request[t].at # "return"
      PROVE  KeepsCallbacks
  BY <1>0, <1>a DEF KeepsCallbacks
<1>b. NoRequest.at # "lockV" /\ NoRequest.op # "setEventCallback"
  BY DEF NoRequest
<1>1. ASSUME NEW t \in AllThreads, NEW op, NEW layer, NEW arg, Request(t, op, layer, arg)
      PROVE  KeepsCallbacks \/ AsksToSet(t)
  <2> DEFINE new == NewRequest(op, layer, arg)
  <2>1. new.at \in {"lockE", "lockH"} /\ new.op = op
    BY DEF NewRequest
  <2>2. /\ request' = [request EXCEPT ![t] = new] /\ request[t] = NoRequest
        /\ UNCHANGED <<callback, h323Callback, h323Initialized>>
        /\ op = "setEventCallback" => MaySetCallback
    BY <1>1 DEF Request, MayRequest, handlerVars, h323Vars
  <2> HIDE DEF new
  <2>3. CASE op = "setEventCallback"
    BY <1>0, <2>1, <2>2, <2>3 DEF AsksToSet
  <2>4. CASE op # "setEventCallback"
    BY <1>a, <1>b, <2>1, <2>2, <2>4
  <2> QED
    BY <2>3, <2>4
<1>2. ASSUME NEW t \in AllThreads, EnterEndpoint(t) PROVE KeepsCallbacks
  <2> DEFINE entered == [request[t] EXCEPT !.at = "lockH"]
  <2>1. entered.at # "lockV" /\ entered.op = request[t].op /\ request[t].at = "lockE"
    <3>1. request[t] \in PendingRequests
      BY <1>0, <1>2, PlacedIsPending DEF EnterEndpoint, NoRequest
    <3> QED
      BY <1>2, <3>1 DEF PendingRequests, EnterEndpoint
  <2>2. \E new \in {NoRequest, entered} : request' = [request EXCEPT ![t] = new]
    BY <1>2 DEF EnterEndpoint
  <2>3. UNCHANGED <<callback, h323Callback, h323Initialized>>
    BY <1>2 DEF EnterEndpoint, handlerVars, h323Vars
  <2> HIDE DEF entered
  <2> QED
    BY <1>a, <1>b, <2>1, <2>2, <2>3
<1>3. ASSUME NEW t \in AllThreads, ReturnFromEndpoint(t) PROVE KeepsCallbacks
  BY <1>3, <1>a, <1>b DEF ReturnFromEndpoint, handlerVars, h323Vars
<1>4. ASSUME NEW t \in AllThreads, H323Step(t),
             ~H323SetEventCallback(t), ~H323InstallCallback(t)
      PROVE  KeepsCallbacks
  <2>1. /\ request[t].at = "lockH" /\ request[t].op # "setEventCallback"
        /\ UNCHANGED <<callback, h323Callback>>
        /\ h323Initialized => h323Initialized'
        /\ \/ \E arg \in {request[t].arg, h323TotalCalls}, ok \in BOOLEAN : ReturnWith(t, arg, ok)
           \/ request' = [request EXCEPT ![t].at = "relockH"]
    <3>1. h323Initialized \in BOOLEAN /\ GatekeeperRequired \in BOOLEAN
      BY ConfigAssumption DEF EInv, LayersOK
    <3> QED
      BY <1>4, <3>1 DEF H323Step, H323Initialize, H323Gatekeeper, H323MakeCall, H323UseCall,
         GetConnection, H323GetActiveCalls, H323Shutdown, EnterH323, InRequest, Return,
         h323Vars, handlerVars
  <2>2. request[t] \in PendingRequests
    BY <1>0, <2>1, PlacedIsPending DEF NoRequest
  <2>3. CASE request' = [request EXCEPT ![t].at = "relockH"]
    <3>1. /\ [request[t] EXCEPT !.at = "relockH"].at # "lockV"
          /\ [request[t] EXCEPT !.at = "relockH"].op # "setEventCallback"
      BY <2>1, <2>2 DEF PendingRequests
    <3> QED
      BY <1>a, <2>1, <2>3, <3>1
  <2>4. ASSUME NEW arg, NEW ok, ReturnWith(t, arg, ok) PROVE KeepsCallbacks
    <3> DEFINE returned == [request[t] EXCEPT !.at = "return", !.arg = arg, !.ok = ok]
    <3>1. returned.at # "lockV" /\ returned.op # "setEventCallback"
      BY <2>1, <2>2 DEF PendingRequests
    <3>2. \E new \in {NoRequest, returned} : request' = [request EXCEPT ![t] = new]
      BY <2>4 DEF ReturnWith
    <3> HIDE DEF returned
    <3> QED
      BY <1>a, <1>b, <2>1, <3>1, <3>2
  <2> QED
    BY <2>1, <2>3, <2>4
<1>5. ASSUME UNCHANGED <<request, callback, h323Callback, h323Initialized>>
      PROVE  KeepsCallbacks
  BY <1>5 DEF KeepsCallbacks
<1>6. CASE HandlerStep
  BY <1>5, <1>6 DEF HandlerStep, StackStep, StackCalls, StackReportsGatekeeper, Deliver,
     UpdateState, SendEvent, ConnectionDeleted, h323Vars
<1>7. ASSUME NEW s \in StackThreads, EndCallback(s) PROVE KeepsCallbacks
  BY <1>5, <1>7 DEF EndCallback, CallbackReturns, h323Vars
<1>8. CASE UNCHANGED vars
  BY <1>5, <1>8 DEF vars, handlerVars, h323Vars
<1> QED
  BY <1>1, <1>2, <1>3, <1>4, <1>6, <1>7, <1>8 DEF Next, Proceed

(* The two that set a callback: H323Endpoint has it first and passes it on *)
(* once there is a handler, ...                                            *)
LEMMA SetStep ==
    ASSUME EInv, NEW t \in AllThreads, H323SetEventCallback(t), h323Initialized
    PROVE  /\ InRequest(t, "setEventCallback", "lockH")
           /\ InRequest(t, "setEventCallback", "lockV")'
           /\ request'[t].arg = request[t].arg /\ request[t].arg \in Callbacks
           /\ h323Callback' = request[t].arg
           /\ callback' = callback /\ h323Initialized'
           /\ \A u \in AllThreads \ {t} :
                 request'[u] = request[u] /\ request[u].at # "lockV"
<1> DEFINE new == [request[t] EXCEPT !.at = "lockV"]
<1>0. /\ request \in [AllThreads -> Requests] /\ Placed(request[t])
      /\ \A u \in AllThreads : Holds(u) /\ u # NoThread
  BY NobodyIsNoThread DEF EInv, RequestsOK
<1>1. /\ InRequest(t, "setEventCallback", "lockH") /\ h323Mutex = NoThread
      /\ h323Callback' = request[t].arg
      /\ request' = [request EXCEPT ![t] = new]
      /\ callback' = callback /\ h323Initialized'
  BY DEF H323SetEventCallback, EnterH323, handlerVars
<1>2. request[t] \in PendingRequests
  BY <1>0, <1>1, PlacedIsPending DEF NoRequest, InRequest
<1>3. new.at = "lockV" /\ new.op = "setEventCallback" /\ new.arg = request[t].arg
  BY <1>1, <1>2 DEF InRequest, PendingRequests
<1> HIDE DEF new
<1>4. request'[t] = new /\ \A u \in AllThreads \ {t} : request'[u] = request[u]
  BY <1>0, <1>1
<1>5. \A u \in AllThreads : request[u].at # "lockV"
  BY <1>0, <1>1 DEF Holds
<1>6. request[t].arg \in Callbacks
  BY <1>0, <1>1 DEF Placed, InRequest
<1> QED
  BY <1>1, <1>3, <1>4, <1>5, <1>6 DEF InRequest

(* ... and holds its mutex until the handler has it.                       *)
LEMMA InstallStep ==
    ASSUME EInv, NEW t \in AllThreads, H323InstallCallback(t)
    PROVE  /\ InRequest(t, "setEventCallback", "lockV") /\ mutex = NoThread
           /\ request'[t].at \in {"idle", "return"}
           /\ request'[t].op \in {"none", "setEventCallback"}
           /\ callback' = request[t].arg /\ request[t].arg \in Callbacks
           /\ UNCHANGED <<h323Callback, h323Initialized>>
           /\ \A u \in AllThreads \ {t} :
                 request'[u] = request[u] /\ request[u].at # "lockV"
<1> DEFINE returned == [request[t] EXCEPT !.at = "return", !.arg = request[t].arg, !.ok = TRUE]
<1>0. /\ request \in [AllThreads -> Requests] /\ Placed(request[t])
      /\ \A u \in AllThreads : Holds(u) /\ u # NoThread
  BY NobodyIsNoThread DEF EInv, RequestsOK
<1>1. /\ InRequest(t, "setEventCallback", "lockV")
      /\ callback' = request[t].arg /\ mutex = NoThread
      /\ UNCHANGED <<h323Callback, h323Initialized>>
      /\ \E new \in {NoRequest, returned} : request' = [request EXCEPT ![t] = new]
  BY DEF H323InstallCallback, SetEventCallback, Return, ReturnWith
<1>2. request[t] \in PendingRequests
  BY <1>0, <1>1, PlacedIsPending DEF NoRequest, InRequest
<1>3. returned.at = "return" /\ returned.op = "setEventCallback"
  BY <1>1, <1>2 DEF InRequest, PendingRequests
<1> HIDE DEF returned
<1>4. /\ request'[t] \in {NoRequest, returned}
      /\ \A u \in AllThreads \ {t} : request'[u] = request[u]
  BY <1>0, <1>1
<1>5. \A u \in AllThreads \ {t} : request[u].at # "lockV"
  BY <1>0, <1>1 DEF Holds, InRequest
<1>6. request[t].arg \in Callbacks
  BY <1>0, <1>1 DEF Placed, InRequest
<1> QED
  BY <1>1, <1>3, <1>4, <1>5, <1>6 DEF NoRequest

-----------------------------------------------------------------------------
(* The inductive invariant for CallbackInstalled.  There is a handler      *)
(* whenever a callback is set, and h323Mutex is held while the handler has *)
(* yet to get the one that H323Endpoint has.                               *)
InstallInv ==
    /\ \A t \in AllThreads :
          /\ request[t].op = "setEventCallback" => h323Initialized
          /\ request[t].at = "lockV" => request[t].arg = h323Callback
    /\ (\A t \in AllThreads : request[t].at # "lockV") => callback = h323Callback

(* Every step keeps it if the callback is set after initialize only.       *)
LEMMA InstallNextInv ==
    ASSUME EarlyCallback = FALSE, EInv, InstallInv, [Next]_vars
    PROVE  InstallInv'
<1>0. \A t \in AllThreads : Placed(request[t])
  BY DEF EInv, RequestsOK
<1>1. CASE KeepsCallbacks
  BY <1>1 DEF KeepsCallbacks, InstallInv
<1>2. ASSUME NEW t \in AllThreads, AsksToSet(t) PROVE InstallInv'
  <2>1. h323Initialized'
    BY <1>2 DEF AsksToSet, MaySetCallback
  <2>2. request[t].at # "lockV" /\ request'[t].at # "lockV"
    BY <1>2 DEF AsksToSet, NoRequest
  <2> QED
    BY <1>2, <2>1, <2>2 DEF AsksToSet, InstallInv
<1>3. ASSUME NEW t \in AllThreads, H323SetEventCallback(t) PROVE InstallInv'
  <2>1. h323Initialized
    BY <1>3 DEF H323SetEventCallback, EnterH323, InRequest, InstallInv
  <2> QED
    BY <1>3, <2>1, SetStep DEF InRequest, InstallInv
<1>4. ASSUME NEW t \in AllThreads, H323InstallCallback(t) PROVE InstallInv'
  <2>1. /\ request[t].arg = h323Callback /\ h323Initialized
        /\ request[t].op = "setEventCallback" /\ request[t].at = "lockV"
    BY <1>4 DEF H323InstallCallback, InRequest, InstallInv
  <2>2. request'[t].at # "lockV"
    BY <1>4, InstallStep
  <2> QED
    BY <1>4, <2>1, <2>2, InstallStep DEF InstallInv
<1> QED
  BY <1>1, <1>2, <1>3, <1>4, CallbackSteps

(* The handler has the callback that was set last, through whichever class *)
(* and by however many threads, whenever H323Endpoint is between methods:  *)
(* provided that callbacks are set after initialize, for one that is set   *)
(* before it never reaches the handler (h323_endpoint.cpp:67-79, 270-279). *)
THEOREM Installed ==
    ASSUME EarlyCallback = FALSE
    PROVE  Spec => []CallbackInstalled
<1>1. Init => InstallInv
  BY DEF Init, HandlerInit, H323Init, InstallInv, NoRequest
<1>2. EInv /\ InstallInv /\ [Next]_vars => InstallInv'
  BY InstallNextInv
<1>3. EInv /\ InstallInv => CallbackInstalled
  <2> SUFFICES ASSUME EInv, InstallInv, h323Mutex = NoThread PROVE callback = h323Callback
    BY DEF CallbackInstalled
  <2>1. \A t \in AllThreads : request[t].at # "lockV"
    BY NobodyIsNoThread DEF EInv, RequestsOK, Holds
  <2> QED
    BY <2>1 DEF InstallInv
<1> QED
  BY <1>1, <1>2, <1>3, EInvariance, PTL DEF Spec

(* The two classes change their callback together: the one passed down is  *)
(* the one Endpoint has, since its mutex is held from one to the other     *)
(* (endpoint.cpp:177-183).                                                 *)
THEOREM CallbacksAgreed == Spec => CallbacksAgree
<1> DEFINE Passed == \A t \in AllThreads :
              /\ request[t].layer = "Endpoint"
              /\ InRequest(t, "setEventCallback", "lockH")
              /\ request'[t].at # "lockH"
              => h323Callback' = eventCallback
<1>1. EInv /\ [Next]_vars => [Passed]_vars
  <2> SUFFICES ASSUME EInv, Next, NEW t \in AllThreads,
                      request[t].layer = "Endpoint",
                      InRequest(t, "setEventCallback", "lockH"),
                      request'[t].at # "lockH"
               PROVE  h323Callback' = eventCallback
    OBVIOUS
  <2>0. request \in [AllThreads -> Requests] /\ PassesCallback(request[t])
    BY DEF EInv, RequestsOK
  <2>1. /\ request[t].arg = eventCallback /\ request[t].at = "lockH"
        /\ request[t].op = "setEventCallback"
    BY <2>0 DEF PassesCallback, InRequest
  <2>2. ASSUME NEW u \in AllThreads, NEW new, request' = [request EXCEPT ![u] = new]
        PROVE  u = t
    BY <2>0, <2>1, <2>2
  <2>3. ASSUME NEW u \in AllThreads, NEW op, NEW layer, NEW arg, Request(u, op, layer, arg)
        PROVE  FALSE
    <3>1. u = t
      BY <2>2, <2>3 DEF Request
    <3> QED
      BY <2>1, <2>3, <3>1 DEF Request, NoRequest
  <2>4. ASSUME NEW u \in AllThreads, EnterEndpoint(u) PROVE FALSE
    <3>1. u = t
      BY <2>2, <2>4 DEF EnterEndpoint
    <3> QED
      BY <2>1, <2>4, <3>1 DEF EnterEndpoint
  <2>5. ASSUME NEW u \in AllThreads, ReturnFromEndpoint(u) PROVE FALSE
    <3>1. u = t
      BY <2>2, <2>5 DEF ReturnFromEndpoint
    <3> QED
      BY <2>1, <2>5, <3>1 DEF ReturnFromEndpoint
  <2>6. ASSUME NEW u \in AllThreads, H323Step(u) PROVE H323SetEventCallback(t)
    <3>1. u = t
      BY <2>2, <2>6 DEF H323Step, H323Initialize, H323Gatekeeper, H323MakeCall, H323UseCall,
         H323GetActiveCalls, H323SetEventCallback, H323InstallCallback, H323Shutdown,
         Return, ReturnWith
    <3> QED
      BY <2>1, <2>6, <3>1 DEF H323Step, H323Initialize, H323Gatekeeper, H323MakeCall, H323UseCall,
         H323GetActiveCalls, H323InstallCallback, H323Shutdown, EnterH323, InRequest
  <2>7. ASSUME UNCHANGED request PROVE FALSE
    BY <2>1, <2>7
  <2>8. H323SetEventCallback(t)
    BY <2>3, <2>4, <2>5, <2>6, <2>7 DEF Next, Proceed, HandlerStep, EndCallback
  <2> QED
    BY <2>1, <2>8 DEF H323SetEventCallback
<1> QED
  BY <1>1, EInvariance, PTL DEF Spec, CallbacksAgree

-----------------------------------------------------------------------------
(* The inductive invariant for NoCircularWait, where the callback is set   *)
(* once and nobody calls shutdown.  The one setEventCallback finds no      *)
(* callback anywhere until it has passed h323Mutex, and none in the        *)
(* handler until it gets there: so nobody is in a callback, and holds the  *)
(* handler's mutex, while it waits for that with the other two.            *)
SetOnce ==
    /\ \A t, u \in AllThreads :
          request[t].op = "setEventCallback" /\ request[u].op = "setEventCallback" => t = u
    /\ \A t \in AllThreads :
          /\ InRequest(t, "setEventCallback", "lockE") => h323Callback = NoCallback
          /\ InRequest(t, "setEventCallback", "lockH") => h323Callback = NoCallback
          /\ request[t].at = "lockV" => callback = NoCallback /\ h323Callback # NoCallback
    /\ callback # NoCallback => h323Callback # NoCallback

(* A stack thread makes requests in the callback only.                     *)
RequestsInCallback ==
    \A s \in StackThreads : request[s] # NoRequest => delivery[s].phase = "callback"

NoShutdown == \A t \in AllThreads : request[t].op # "shutdown"

(* Before initialize a callback gets no further than H323Endpoint.         *)
LEMMA SetEarlyStep ==
    ASSUME EInv, NEW t \in AllThreads, H323SetEventCallback(t), ~h323Initialized
    PROVE  /\ InRequest(t, "setEventCallback", "lockH")
           /\ request'[t].at \in {"idle", "return"}
           /\ request'[t].op \in {"none", "setEventCallback"}
           /\ h323Callback' = request[t].arg /\ request[t].arg \in Callbacks
           /\ callback' = callback
           /\ \A u \in AllThreads \ {t} : request'[u] = request[u]
<1> DEFINE returned == [request[t] EXCEPT !.at = "return", !.arg = request[t].arg, !.ok = TRUE]
<1>0. request \in [AllThreads -> Requests] /\ Placed(request[t])
  BY DEF EInv, RequestsOK
<1>1. /\ InRequest(t, "setEventCallback", "lockH")
      /\ h323Callback' = request[t].arg /\ callback' = callback
      /\ \E new \in {NoRequest, returned} : request' = [request EXCEPT ![t] = new]
  BY DEF H323SetEventCallback, EnterH323, Return, ReturnWith, handlerVars
<1>2. request[t] \in PendingRequests
  BY <1>0, <1>1, PlacedIsPending DEF NoRequest, InRequest
<1>3. returned.at = "return" /\ returned.op = "setEventCallback"
  BY <1>1, <1>2 DEF InRequest, PendingRequests
<1> HIDE DEF returned
<1>4. /\ request'[t] \in {NoRequest, returned}
      /\ \A u \in AllThreads \ {t} : request'[u] = request[u]
  BY <1>0, <1>1
<1>5. request[t].arg \in Callbacks
  BY <1>0, <1>1 DEF Placed, InRequest
<1> QED
  BY <1>1, <1>3, <1>4, <1>5 DEF NoRequest

(* Every step keeps SetOnce when a callback may not be set again.          *)
LEMMA SetOnceNextInv ==
    ASSUME ResetCallback = FALSE, EInv, SetOnce, [Next]_vars
    PROVE  SetOnce'
<1>0. \A t \in AllThreads : Placed(request[t]) /\ request[t] \in Requests
  BY DEF EInv, RequestsOK
<1>1. CASE KeepsCallbacks
  <2>1. ASSUME NEW t \in AllThreads, request'[t].op = "setEventCallback",
               request'[t].at \in {"lockE", "lockH"}
        PROVE  h323Callback = NoCallback
    <3>1. request[t].op = "setEventCallback" /\ request[t].at \notin {"return", "lockV"}
      BY <1>1, <2>1 DEF KeepsCallbacks
    <3>2. request[t].at \in {"lockE", "lockH"}
      BY <1>0, <3>1 DEF Placed, Requests, NoRequest
    <3> QED
      BY <3>1, <3>2 DEF SetOnce, InRequest
  <2> QED
    BY <1>1, <2>1 DEF KeepsCallbacks, SetOnce, InRequest
<1>2. ASSUME NEW t \in AllThreads, AsksToSet(t) PROVE SetOnce'
  <2>1. h323Callback = NoCallback /\ \A u \in AllThreads : request[u].op # "setEventCallback"
    BY <1>2 DEF AsksToSet, MaySetCallback, Pending
  <2>2. \A u \in AllThreads : request[u].at # "lockV"
    BY <1>0, <2>1 DEF Placed
  <2>3. UNCHANGED <<callback, h323Callback>>
    BY <1>2 DEF AsksToSet
  <2>4. \A u \in AllThreads : /\ request'[u].at # "lockV"
                              /\ request'[u].op = "setEventCallback" => u = t
    BY <1>2, <2>1, <2>2 DEF AsksToSet
  <2> QED
    BY <2>1, <2>3, <2>4 DEF SetOnce, InRequest
<1>3. ASSUME NEW t \in AllThreads, H323SetEventCallback(t) PROVE SetOnce'
  <2>1. h323Callback = NoCallback /\ request[t].op = "setEventCallback"
    BY <1>3 DEF H323SetEventCallback, EnterH323, InRequest, SetOnce
  <2>2. \A u \in AllThreads \ {t} : request[u].op # "setEventCallback"
    BY <2>1 DEF SetOnce
  <2>3. /\ callback' = callback /\ h323Callback' \in Callbacks
        /\ request'[t].at \in {"idle", "lockV", "return"}
        /\ request'[t].op \in {"none", "setEventCallback"}
        /\ \A u \in AllThreads \ {t} : request'[u] = request[u]
    BY <1>3, SetStep, SetEarlyStep DEF InRequest
  <2>4. callback = NoCallback /\ h323Callback' # NoCallback
    BY <2>1, <2>3, HandlerArgsAssumption DEF SetOnce
  <2>5. \A u \in AllThreads : request'[u].op = "setEventCallback" =>
            u = t /\ request'[u].at \notin {"lockE", "lockH"}
    BY <2>2, <2>3
  <2> QED
    BY <2>3, <2>4, <2>5 DEF SetOnce, InRequest
<1>4. ASSUME NEW t \in AllThreads, H323InstallCallback(t) PROVE SetOnce'
  <2>1. /\ InRequest(t, "setEventCallback", "lockV")
        /\ request'[t].at \in {"idle", "return"}
        /\ UNCHANGED h323Callback
        /\ \A u \in AllThreads \ {t} : request'[u] = request[u] /\ request[u].at # "lockV"
    BY <1>4, InstallStep
  <2>2. h323Callback # NoCallback
    BY <2>1 DEF SetOnce, InRequest
  <2>3. \A u \in AllThreads \ {t} : request[u].op # "setEventCallback"
    BY <2>1 DEF SetOnce, InRequest
  <2>4. \A u \in AllThreads : /\ request'[u].op = "setEventCallback" =>
                                    u = t /\ request'[u].at \notin {"lockE", "lockH"}
                              /\ request'[u].at # "lockV"
    BY <2>1, <2>3
  <2> QED
    BY <2>1, <2>2, <2>4 DEF SetOnce, InRequest
<1> QED
  BY <1>1, <1>2, <1>3, <1>4, CallbackSteps

(* What a step does to the operations in progress: it begins one that the  *)
(* application or the callback performs, ...                               *)
Begins ==
    \E t \in AllThreads, op \in Operations :
        /\ \/ t \in AppThreads /\ op \in AppOperations
           \/ t \in StackThreads /\ op \in CallbackOps /\ delivery[t].phase = "callback"
        /\ request'[t].op = op
        /\ \A u \in AllThreads \ {t} : request'[u] = request[u]
        /\ delivery' = delivery

(* ... or none.                                                            *)
BeginsNone == \A t \in AllThreads : request'[t].op \in {"none", request[t].op}

(* There are no other steps.                                               *)
LEMMA OperationSteps ==
    ASSUME EInv, [Next]_vars
    PROVE  Begins \/ BeginsNone
<1>0. request \in [AllThreads -> Requests]
  BY DEF EInv, RequestsOK
<1>a. ASSUME NEW t \in AllThreads, NEW new, request' = [request EXCEPT ![t] = new],
             new.op \in {"none", request[t].op}
      PROVE  BeginsNone
  BY <1>0, <1>a DEF BeginsNone
<1>b. NoRequest.op = "none"
  BY DEF NoRequest
<1>c. ASSUME NEW t \in AllThreads, request[t].at # "idle",
             \/ request' = [request EXCEPT ![t] = NoRequest]
             \/ \E x : request' = [request EXCEPT ![t].at = x]
             \/ \E arg, ok : ReturnWith(t, arg, ok)
      PROVE  BeginsNone
  <2>0. request[t] \in PendingRequests
    BY <1>0, <1>c, PlacedIsPending DEF NoRequest
  <2>1. ASSUME NEW x, request' = [request EXCEPT ![t].at = x] PROVE BeginsNone
    <3>1. [request[t] EXCEPT !.at = x].op = request[t].op
      BY <2>0 DEF PendingRequests
    <3> QED
      BY <1>a, <2>1, <3>1
  <2>2. ASSUME NEW arg, NEW ok, ReturnWith(t, arg, ok) PROVE BeginsNone
    <3> DEFINE returned == [request[t] EXCEPT !.at = "return", !.arg = arg, !.ok = ok]
    <3>1. returned.op = request[t].op
      BY <2>0 DEF PendingRequests
    <3>2. \E new \in {NoRequest, returned} : request' = [request EXCEPT ![t] = new]
      BY <2>2 DEF ReturnWith
    <3> HIDE DEF returned
    <3> QED
      BY <1>a, <1>b, <3>1, <3>2
  <2> QED
    BY <1>a, <1>b, <1>c, <2>1, <2>2
<1>1. ASSUME NEW t \in AllThreads, NEW op \in Operations, NEW layer \in AppLayers,
             NEW arg \in Arguments(op), Request(t, op, layer, arg)
      PROVE  Begins
  <2>1. NewRequest(op, layer, arg).op = op
    BY DEF NewRequest
  <2>2. /\ request' = [request EXCEPT ![t] = NewRequest(op, layer, arg)]
        /\ \/ t \in AppThreads /\ op \in AppOperations
           \/ t \in StackThreads /\ op \in CallbackOps /\ delivery[t].phase = "callback"
        /\ delivery' = delivery
    BY <1>1 DEF Request, handlerVars
  <2> QED
    BY <1>0, <2>1, <2>2 DEF Begins
<1>2. ASSUME NEW t \in AllThreads, EnterEndpoint(t) \/ ReturnFromEndpoint(t)
      PROVE  BeginsNone
  <2>1. /\ request[t].at # "idle"
        /\ \/ request' = [request EXCEPT ![t] = NoRequest]
           \/ request' = [request EXCEPT ![t].at = "lockH"]
    BY <1>2 DEF EnterEndpoint, ReturnFromEndpoint
  <2> QED
    BY <1>c, <2>1
<1>3. ASSUME NEW t \in AllThreads, H323Step(t) PROVE BeginsNone
  <2>1. /\ request[t].at # "idle"
        /\ \/ \E x : request' = [request EXCEPT ![t].at = x]
           \/ \E arg, ok : ReturnWith(t, arg, ok)
    BY <1>3 DEF H323Step, H323Initialize, H323Gatekeeper, H323MakeCall, H323UseCall,
       H323GetActiveCalls, H323SetEventCallback, H323InstallCallback, H323Shutdown,
       EnterH323, InRequest, Return
  <2> QED
    BY <1>c, <2>1
<1>4. ASSUME request' = request PROVE BeginsNone
  BY <1>4 DEF BeginsNone
<1>5. ASSUME UNCHANGED vars PROVE BeginsNone
  BY <1>4, <1>5 DEF vars
<1>6. ASSUME HandlerStep \/ \E s \in StackThreads : EndCallback(s) PROVE BeginsNone
  BY <1>4, <1>6 DEF HandlerStep, EndCallback
<1> QED
  BY <1>1, <1>2, <1>3, <1>5, <1>6 DEF Next, Proceed

(* A callback returns when its requests are done.                          *)
LEMMA InCallbackNextInv ==
    ASSUME EInv, HInv, RequestsInCallback, [Next]_vars
    PROVE  RequestsInCallback'
<1> SUFFICES ASSUME NEW s \in StackThreads, request'[s] # NoRequest
             PROVE  delivery'[s].phase = "callback"
  BY DEF RequestsInCallback
<1>0. /\ s \in AllThreads /\ s \notin AppThreads
      /\ request' \in [AllThreads -> Requests] /\ request \in [AllThreads -> Requests]
      /\ delivery \in [StackThreads -> Deliveries]
  BY AppThreadsAssumption, ENextInv DEF AllThreads, EInv, RequestsOK, HInv, HandlerTypeOK
<1>1. request'[s].op # "none"
  BY <1>0, PlacedIsPending
<1>2. CASE delivery' = delivery
  BY <1>0, <1>1, <1>2, OperationSteps, PlacedIsPending
     DEF RequestsInCallback, Begins, BeginsNone
<1>3. CASE request' = request
  <2>1. delivery[s].phase = "callback"
    BY <1>3 DEF RequestsInCallback
  <2>2. ASSUME NEW r \in StackThreads, NEW new, r # s,
               delivery' = [delivery EXCEPT ![r] = new]
        PROVE  delivery'[s].phase = "callback"
    BY <1>0, <2>1, <2>2
  <2>3. ASSUME NEW r \in StackThreads, StackStep(r) \/ Deliver(r)
        PROVE  delivery'[s].phase = "callback"
    <3>1. r # s
      BY <2>1, <2>3 DEF StackStep, StackCalls, StackReportsGatekeeper, Idle, NoDelivery, Deliver,
         UpdateState, SendEvent
    <3>2. \E new : delivery' = [delivery EXCEPT ![r] = new]
      BY <2>3 DEF StackStep, StackCalls, StackReportsGatekeeper, Deliver, UpdateState, SendEvent
    <3> QED
      BY <2>2, <3>1, <3>2
  <2>4. ASSUME NEW r \in StackThreads, EndCallback(r) PROVE delivery'[s].phase = "callback"
    <3>1. r # s
      BY <1>3, <2>4 DEF EndCallback
    <3> QED
      BY <2>2, <2>4, <3>1 DEF EndCallback, CallbackReturns
  <2>5. HandlerStep \/ (\E r \in StackThreads : EndCallback(r)) \/ delivery' = delivery
    BY DEF Next, vars, handlerVars, Request, Proceed, EnterEndpoint, ReturnFromEndpoint, H323Step,
       H323Initialize, H323Gatekeeper, H323MakeCall, H323UseCall, H323GetActiveCalls,
       H323SetEventCallback, H323InstallCallback, SetEventCallback, H323Shutdown
  <2> QED
    BY <1>2, <2>3, <2>4, <2>5 DEF HandlerStep, ConnectionDeleted
<1>4. request' = request \/ delivery' = delivery
  BY DEF Next, vars, handlerVars, Request, Proceed, EnterEndpoint, ReturnFromEndpoint, H323Step,
     H323Initialize, H323Gatekeeper, H323MakeCall, H323UseCall, H323GetActiveCalls,
     H323SetEventCallback, H323InstallCallback, SetEventCallback, H323Shutdown, HandlerStep,
     EndCallback
<1> QED
  BY <1>2, <1>3, <1>4

(* Nobody asks for a shutdown who may not.                                 *)
LEMMA NoShutdownNextInv ==
    ASSUME "shutdown" \notin AppOperations \cup CallbackOps, EInv, NoShutdown, [Next]_vars
    PROVE  NoShutdown'
BY OperationSteps DEF NoShutdown, Begins, BeginsNone

-----------------------------------------------------------------------------
(* Waiting, from the bottom up: whoever waits for the handler's mutex with *)
(* h323Mutex held waits for nobody, as no callback is running; so nobody   *)
(* in a set that waits within itself is there, and then nobody is at the   *)
(* mutexes above, and nobody is left to be in the callback for which the   *)
(* stack's other threads wait.                                             *)
LEMMA NobodyWaitsInACircle ==
    ASSUME EInv, HInv, CalledIsThere, SetOnce, RequestsInCallback, NoShutdown
    PROVE  NoCircularWait
<1> SUFFICES ASSUME NEW S \in (SUBSET AllThreads) \ {{}}
             PROVE  \E t \in S : WaitsFor(t) \notin S
  BY DEF NoCircularWait
<1> SUFFICES ASSUME \A t \in S : WaitsFor(t) \in S PROVE FALSE
  OBVIOUS
<1>0. /\ \A t \in S : Placed(request[t]) /\ Holds(t) /\ request[t] \in Requests
      /\ NoThread \notin S
      /\ \A s \in StackThreads : delivery[s] \in Deliveries
  BY NobodyIsNoThread DEF EInv, RequestsOK, HInv, HandlerTypeOK
<1>1. ASSUME NEW t \in S PROVE request[t].at # "lockV"
  <2> SUFFICES ASSUME request[t].at = "lockV" PROVE FALSE
    OBVIOUS
  <2>1. callback = NoCallback
    BY DEF SetOnce
  <2>2. \A s \in StackThreads : mutex # s
    BY <2>1 DEF CalledIsThere, HInv, MutexInCallback
  <2>3. mutex = NoThread
    BY <2>2 DEF HInv, HandlerTypeOK
  <2>4. WaitsFor(t) = mutex
    BY DEF WaitsFor
  <2> QED
    BY <1>0, <2>3, <2>4
<1>2. ASSUME NEW t \in S PROVE request[t].at # "relockH"
  BY <1>0 DEF Placed, NoShutdown
<1>3. ASSUME NEW t \in S PROVE request[t].at # "lockH"
  <2> SUFFICES ASSUME request[t].at = "lockH" PROVE FALSE
    OBVIOUS
  <2>1. WaitsFor(t) = h323Mutex
    BY DEF WaitsFor
  <2> QED
    BY <1>0, <1>1, <1>2, <2>1 DEF Holds
<1>4. ASSUME NEW t \in S, request[t].at \in {"idle", "return"}
      PROVE  /\ t \in StackThreads /\ delivery[t].phase \in {"update", "send"}
             /\ WaitsFor(t) = mutex
  BY <1>0, <1>4 DEF WaitsFor
<1>5. ASSUME NEW t \in S PROVE request[t].at # "return"
  <2> SUFFICES ASSUME request[t].at = "return" PROVE FALSE
    OBVIOUS
  <2>1. t \in StackThreads /\ delivery[t].phase \in {"update", "send"}
    BY <1>4
  <2> QED
    BY <2>1 DEF RequestsInCallback, NoRequest
<1>6. ASSUME NEW t \in S PROVE request[t].at # "lockE"
  <2> SUFFICES ASSUME request[t].at = "lockE" PROVE FALSE
    OBVIOUS
  <2>1. WaitsFor(t) = endpointMutex
    BY DEF WaitsFor
  <2>2. PICK u \in S : endpointMutex = u
    BY <2>1
  <2>3. request[u].at \notin {"idle", "lockE"}
    BY <1>0, <2>2 DEF Holds
  <2> QED
    BY <1>0, <1>1, <1>2, <1>3, <1>5, <2>3 DEF Requests, NoRequest
<1>7. ASSUME NEW t \in S PROVE request[t].at = "idle"
  BY <1>0, <1>1, <1>2, <1>3, <1>5, <1>6 DEF Requests, NoRequest
<1>8. PICK t \in S : TRUE
  OBVIOUS
<1>9. mutex \in S
  BY <1>4, <1>7, <1>8
<1>10. mutex \in StackThreads /\ delivery[mutex].phase \in {"update", "send"}
  BY <1>4, <1>7, <1>9
<1> QED
  BY <1>10 DEF HInv, MutexInCallback

(* The three mutexes are taken from the top down by the application and    *)
(* from the bottom up by a callback, and still no set of threads waits     *)
(* within itself if the callback is set once only and nobody calls         *)
(* shutdown: the thread that would close the circle, in setEventCallback   *)
(* with two mutexes held, is there before the first callback runs          *)
(* (endpoint.cpp:177-183, h323_endpoint.cpp:270-279,                       *)
(* h323_event_handler.cpp:161-166).                                        *)
THEOREM NoDeadlockSetOnce ==
    ASSUME ResetCallback = FALSE, "shutdown" \notin AppOperations \cup CallbackOps
    PROVE  Spec => []NoCircularWait
<1>1. Init => SetOnce /\ RequestsInCallback /\ NoShutdown
  <2> SUFFICES ASSUME Init PROVE SetOnce /\ RequestsInCallback /\ NoShutdown
    OBVIOUS
  <2>1. /\ \A t \in AllThreads : request[t] = NoRequest
        /\ callback = NoCallback
    BY DEF Init, HandlerInit, H323Init
  <2>2. \A t \in AllThreads : request[t].op = "none" /\ request[t].at = "idle"
    BY <2>1 DEF NoRequest
  <2> QED
    BY <2>1, <2>2 DEF SetOnce, RequestsInCallback, NoShutdown, InRequest, AllThreads
<1>2. EInv /\ SetOnce /\ [Next]_vars => SetOnce'
  BY SetOnceNextInv
<1>3. EInv /\ HInv /\ RequestsInCallback /\ [Next]_vars => RequestsInCallback'
  BY InCallbackNextInv
<1>4. EInv /\ NoShutdown /\ [Next]_vars => NoShutdown'
  BY NoShutdownNextInv
<1>5. EInv /\ HInv /\ CalledIsThere /\ SetOnce /\ RequestsInCallback /\ NoShutdown
          => NoCircularWait
  BY NobodyWaitsInACircle
<1> QED
  BY <1>1, <1>2, <1>3, <1>4, <1>5, EInvariance, RefinesHandler, HandlerInvariance, CalledThere, PTL
     DEF Spec
=============================================================================
