------------------------- MODULE CallManager_proofs -------------------------
(* Proofs about CallManager, for every value of its constants.             *)
EXTENDS CallManager, SequenceTheorems, TLAPS

(* What vector::erase leaves: one element less, the later ones moved down. *)
LEMMA RemoveAtProperties ==
    ASSUME NEW S, NEW s \in Seq(S), NEW i \in 1..Len(s)
    PROVE  /\ RemoveAt(s, i) \in Seq(S)
           /\ Len(RemoveAt(s, i)) = Len(s) - 1
           /\ \A j \in 1..(Len(s) - 1) :
                 RemoveAt(s, i)[j] = IF j < i THEN s[j] ELSE s[j + 1]
<1> DEFINE a == SubSeq(s, 1, i - 1)
           b == SubSeq(s, i + 1, Len(s))
<1>1. a \in Seq(S) /\ Len(a) = i - 1 /\ \A j \in 1..(i - 1) : a[j] = s[j]
  OBVIOUS
<1>2. /\ b \in Seq(S)
      /\ Len(b) = Len(s) - i
      /\ \A j \in 1..(Len(s) - i) : b[j] = s[j + i]
  OBVIOUS
<1>3. RemoveAt(s, i) = a \o b
  BY DEF RemoveAt
<1> HIDE DEF a, b
<1>4. /\ a \o b \in Seq(S)
      /\ Len(a \o b) = Len(s) - 1
      /\ \A j \in 1..(Len(s) - 1) :
            (a \o b)[j] = IF j <= i - 1 THEN a[j] ELSE b[j - (i - 1)]
  <2>1. /\ a \o b \in Seq(S)
        /\ Len(a \o b) = Len(a) + Len(b)
        /\ \A j \in 1..(Len(a) + Len(b)) :
              (a \o b)[j] = IF j <= Len(a) THEN a[j] ELSE b[j - Len(a)]
    BY <1>1, <1>2, ConcatProperties, Zenon
  <2>2. Len(a) + Len(b) = Len(s) - 1
    BY <1>1, <1>2
  <2>3. QED
    BY <1>1, <2>1, <2>2
<1>5. ASSUME NEW j \in 1..(Len(s) - 1)
      PROVE  (a \o b)[j] = IF j < i THEN s[j] ELSE s[j + 1]
  <2>1. CASE j < i
    BY <1>1, <1>4, <2>1
  <2>2. CASE ~(j < i)
    <3>1. (a \o b)[j] = b[j - (i - 1)]
      BY <1>4, <2>2
    <3>2. j - (i - 1) \in 1..(Len(s) - i) /\ j - (i - 1) + i = j + 1
      BY <2>2
    <3>3. b[j - (i - 1)] = s[j - (i - 1) + i]
      BY <1>2, <3>2
    <3>4. QED
      BY <2>2, <3>1, <3>2, <3>3
  <2>3. QED
    BY <2>1, <2>2
<1>6. QED
  BY <1>3, <1>4, <1>5

(* A growing number of call objects keeps the lists well-typed.            *)
LEMMA SeqOfMoreCalls ==
    ASSUME NEW n \in Nat, NEW m \in Nat, n <= m, NEW s \in Seq(1..n)
    PROVE  s \in Seq(1..m)
  OBVIOUS

(* The Call operators stay within CallObject.                              *)
LEMMA NewCallType ==
    ASSUME NEW id \in Nat, NEW b \in BOOLEAN
    PROVE  NewCall(id, b) \in CallObject
  BY DEF CallObject, CallState, NewCall

(* The other methods of Call return a call (call.cpp:28-98).               *)
LEMMA CallTypes ==
    ASSUME NEW call \in CallObject
    PROVE  /\ Setup(call) \in CallObject
           /\ Answered(call) \in CallObject
           /\ \A cause \in Nat : Released(call, cause) \in CallObject
           /\ \A s \in CallState : WithState(call, s) \in CallObject
<1>1. Setup(call) \in CallObject
  BY DEF CallObject, CallState, Setup
<1>2. Answered(call) \in CallObject
  BY DEF CallObject, CallState, Answered
<1>3. ASSUME NEW cause \in Nat PROVE Released(call, cause) \in CallObject
  BY DEF CallObject, CallState, Released
<1>4. ASSUME NEW s \in CallState PROVE WithState(call, s) \in CallObject
  BY DEF CallObject, WithState
<1>5. QED
  BY <1>1, <1>2, <1>3, <1>4

-----------------------------------------------------------------------------
(* Type correctness                                                        *)

(* push_back of a new call object keeps all lists of objects well-typed.   *)
LEMMA PushCallType ==
    ASSUME TypeOK, NEW call \in CallObject, PushCall(call)
    PROVE  /\ calls' \in Seq(CallObject)
           /\ Len(calls') = Len(calls) + 1
           /\ activeCalls' \in Seq(CallRefs')
           /\ completedCalls \in Seq(CallRefs')
           /\ totalCalls' \in Nat
           /\ handles \subseteq CallRefs'
<1>1. calls' \in Seq(CallObject) /\ Len(calls') = Len(calls) + 1
  BY DEF TypeOK, PushCall
<1>2. CallRefs \subseteq CallRefs' /\ Len(calls) + 1 \in CallRefs'
  BY <1>1 DEF TypeOK, CallRefs
<1>3. activeCalls \in Seq(CallRefs') /\ completedCalls \in Seq(CallRefs')
  BY <1>2, SeqMonotonic DEF TypeOK
<1>4. activeCalls' \in Seq(CallRefs')
  BY <1>2, <1>3 DEF PushCall
<1>5. QED
  BY <1>1, <1>2, <1>3, <1>4 DEF TypeOK, PushCall

(* A method of one call object changes that object only.                   *)
LEMMA OneCallType ==
    ASSUME TypeOK, NEW c \in CallRefs, NEW call \in CallObject,
           calls' = [calls EXCEPT ![c] = call]
    PROVE  calls' \in Seq(CallObject) /\ Len(calls') = Len(calls)
  BY ExceptSeq DEF TypeOK, CallRefs

(* The elements of a list of calls are calls.                              *)
LEMMA ListRange ==
    ASSUME NEW S, NEW list \in Seq(S)
    PROVE  /\ Range(list) = {list[i] : i \in 1..Len(list)}
           /\ Range(list) \subseteq S
<1>1. DOMAIN list = 1..Len(list)
  OBVIOUS
<1>2. QED
  BY <1>1 DEF Range

(* A list of references refers to calls only.                              *)
LEMMA ListRangeType ==
    TypeOK => /\ Range(activeCalls) \subseteq CallRefs
              /\ Range(completedCalls) \subseteq CallRefs
  BY ListRange DEF TypeOK

(* An element a client or a list refers to is a call object.               *)
LEMMA CallsType ==
    ASSUME TypeOK, NEW c \in CallRefs
    PROVE  calls[c] \in CallObject
  BY DEF TypeOK, CallRefs

(* The manager is constructed with values of the right types.              *)
LEMMA TypeCorrectInit == Init => TypeOK
<1> SUFFICES ASSUME Init PROVE TypeOK
  OBVIOUS
<1>1. Len(calls) = 0 /\ \A S : << >> \in Seq(S)
  BY EmptySeq DEF Init
<1>2. NoLoop \in Loop
  BY DEF NoLoop, Loop
<1>3. QED
  BY <1>1, <1>2, LimitsAssumption DEF Init, TypeOK, CallStats

(* A thread owns the mutex exactly while a method of its is unfinished,    *)
(* and between release() and push_back no callback runs, so that the       *)
(* element the loop stands at stays where it is.                           *)
OwnerInv ==
    /\ owner = NoThread <=> (~loop.running /\ dialling = 0)
    /\ loop.released => /\ loop.running /\ ~loop.notifying
                        /\ loop.pos <= Len(activeCalls)

(* A thread that enters the manager finds no call released and not moved.  *)
LEMMA EntryOutsideMove ==
    ASSUME OwnerInv, NEW t \in Threads, NEW m, MayEnter(t, m)
    PROVE  ~loop.released
  BY DEF OwnerInv, MayEnter, InCallback

(* Every method, callback step and client step keeps the types.            *)
LEMMA TypeCorrectStep ==
    ASSUME TypeOK, OwnerInv, [Next]_vars
    PROVE  TypeOK'
<1> USE LimitsAssumption, CallArgsAssumption
<1>1. ASSUME NEW t \in Threads, NEW max \in Limits, SetMaxCalls(t, max)
      PROVE  TypeOK'
  BY <1>1 DEF TypeOK, SetMaxCalls, control, CallRefs
<1>2. ASSUME NEW t \in Threads, NEW b \in BOOLEAN,
             SetCallStateCallback(t, b)
      PROVE  TypeOK'
  BY <1>2 DEF TypeOK, SetCallStateCallback, control, CallRefs
<1>3. ASSUME NEW t \in Threads, StartListening(t) PROVE TypeOK'
  BY <1>3 DEF TypeOK, StartListening, control, CallRefs
<1>4. ASSUME NEW t \in Threads, StopListening(t) PROVE TypeOK'
  BY <1>4 DEF TypeOK, StopListening, control, CallRefs
<1>5. ASSUME NEW t \in Threads, StartOutgoingCall(t) PROVE TypeOK'
  <2>1. Setup(NewCall(totalCalls, FALSE)) \in CallObject
    BY NewCallType, CallTypes DEF TypeOK
  <2>2. PushCall(Setup(NewCall(totalCalls, FALSE)))
    BY <1>5 DEF StartOutgoingCall
  <2>3. owner' \in Threads \cup {NoThread} /\ dialling' \in Nat
    BY <1>5 DEF StartOutgoingCall, TypeOK
  <2>4. QED
    BY <1>5, <2>1, <2>2, <2>3, PushCallType DEF StartOutgoingCall, TypeOK
<1>6. ASSUME NEW t \in Threads, NEW id \in AddedIds, NEW s \in ClientStates,
             AddCall(t, id, s)
      PROVE  TypeOK'
  <2>1. WithState(NewCall(id, TRUE), s) \in CallObject
    BY NewCallType, CallTypes
  <2>2. PushCall(WithState(NewCall(id, TRUE), s))
    BY <1>6 DEF AddCall
  <2>3. /\ calls' \in Seq(CallObject)
        /\ Len(calls') = Len(calls) + 1
        /\ activeCalls' \in Seq(CallRefs')
        /\ completedCalls \in Seq(CallRefs')
        /\ totalCalls' \in Nat
        /\ handles \subseteq CallRefs'
    BY <2>1, <2>2, PushCallType
  <2>4. Len(calls) + 1 \in CallRefs'
    BY <2>3 DEF CallRefs, TypeOK
  <2>5. handles' \subseteq CallRefs'
    BY <1>6, <2>3, <2>4 DEF AddCall
  <2>6. QED
    BY <1>6, <2>3, <2>5 DEF AddCall, TypeOK, control
<1>7. ASSUME NEW t \in Threads, NEW i \in 1..Len(activeCalls),
             RemoveCall(t, i)
      PROVE  TypeOK'
  <2>1. activeCalls' \in Seq(CallRefs)
    BY <1>7, RemoveAtProperties DEF RemoveCall, TypeOK
  <2>2. completedCalls' \in Seq(CallRefs)
    BY <1>7 DEF RemoveCall, TypeOK
  <2>3. stats' \in CallStats
    BY <1>7, <2>1, <2>2 DEF RemoveCall, UpdateStats, CallStats, TypeOK
  <2>4. QED
    BY <1>7, <2>1, <2>2, <2>3 DEF RemoveCall, TypeOK, control, CallRefs
<1>8. ASSUME NEW t \in Threads, StopAllCalls(t) PROVE TypeOK'
  <2>1. loop' \in Loop
    <3>1. loop' = [running |-> TRUE, pos |-> 1, end |-> Len(activeCalls),
                   released |-> FALSE, notifying |-> FALSE]
      BY <1>8 DEF StopAllCalls, NoLoop
    <3>2. Len(activeCalls) \in Nat
      BY DEF TypeOK
    <3>3. QED
      BY <3>1, <3>2 DEF Loop
  <2>2. QED
    BY <1>8, <2>1 DEF StopAllCalls, TypeOK, manager, CallRefs
<1>9. ASSUME NEW t \in Threads, NEW c \in CallRefs,
             GetCall(t, calls[c].callId, c)
      PROVE  TypeOK'
  BY <1>9 DEF GetCall, TypeOK, manager, control, CallRefs
<1>10. ASSUME NEW t \in Threads, GetActiveCalls(t) PROVE TypeOK'
  BY <1>10, ListRangeType DEF GetActiveCalls, TypeOK, manager, control, CallRefs
<1>11. ASSUME NEW t \in Threads, GetAllCalls(t) PROVE TypeOK'
  BY <1>11, ListRangeType DEF GetAllCalls, TypeOK, manager, control, CallRefs
<1>12. ASSUME NEW t \in Threads, StopRelease(t) PROVE TypeOK'
  <2>1. CASE loop.pos <= Len(activeCalls)
    <3> DEFINE c == activeCalls[loop.pos]
    <3>1. loop.pos \in 1..Len(activeCalls) /\ c \in CallRefs
      BY <2>1 DEF TypeOK, Loop
    <3>2. Released(calls[c], NormalCallClearing) \in CallObject
      BY <3>1, CallsType, CallTypes DEF NormalCallClearing
    <3>3. calls' \in Seq(CallObject) /\ Len(calls') = Len(calls)
      BY <1>12, <2>1, <3>1, <3>2, OneCallType DEF StopRelease
    <3>4. loop' \in Loop
      BY <1>12, <2>1 DEF StopRelease, TypeOK, Loop
    <3>5. QED
      BY <1>12, <3>3, <3>4 DEF StopRelease, TypeOK, manager, CallRefs
  <2>2. CASE ~(loop.pos <= Len(activeCalls))
    <3>1. loop' \in Loop
      BY <1>12, <2>2 DEF StopRelease, TypeOK, Loop
    <3>2. QED
      BY <1>12, <2>2, <3>1 DEF StopRelease, TypeOK, manager, CallRefs
  <2>3. QED
    BY <2>1, <2>2
<1>20. ASSUME NEW t \in Threads, StopMove(t) PROVE TypeOK'
  <2> DEFINE c == activeCalls[loop.pos]
  <2>1. c \in CallRefs
    BY <1>20 DEF StopMove, OwnerInv, TypeOK, Loop
  <2>2. completedCalls' \in Seq(CallRefs)
    <3>1. completedCalls' = Append(completedCalls, c)
      BY <1>20 DEF StopMove
    <3>2. completedCalls \in Seq(CallRefs)
      BY DEF TypeOK
    <3>3. QED
      BY <2>1, <3>1, <3>2, AppendProperties
  <2>3. loop' \in Loop
    <3>1. /\ loop \in Loop /\ stateCallback \in BOOLEAN
          /\ loop' = [loop EXCEPT !.pos = loop.pos + 1, !.released = FALSE,
                                  !.notifying = stateCallback]
      BY <1>20 DEF StopMove, TypeOK
    <3>2. loop.pos + 1 \in Nat \ {0}
      BY <3>1 DEF Loop
    <3>3. QED
      BY <3>1, <3>2 DEF Loop
  <2>4. QED
    BY <1>20, <2>2, <2>3 DEF StopMove, TypeOK, CallRefs
<1>13. ASSUME NEW t \in Threads, StopEnd(t) PROVE TypeOK'
  <2>1. loop' \in Loop
    BY <1>13 DEF StopEnd, Loop, NoLoop
  <2>2. activeCalls' \in Seq(CallRefs) /\ Len(activeCalls') = 0
    BY <1>13, EmptySeq DEF StopEnd
  <2>3. stats' \in CallStats
    BY <1>13, <2>2 DEF StopEnd, UpdateStats, CallStats, TypeOK
  <2>4. QED
    BY <1>13, <2>1, <2>2, <2>3
    DEF StopEnd, TypeOK, CallRefs, OwnerAfterReturn
<1>14. ASSUME NEW t \in Threads, CallbackReturns(t) PROVE TypeOK'
  <2>1. loop' \in Loop
    BY <1>14 DEF CallbackReturns, Loop, TypeOK
  <2>2. dialling' \in Nat /\ owner' \in Threads \cup {NoThread}
    BY <1>14 DEF CallbackReturns, InCallback, OwnerAfterReturn, TypeOK
  <2>3. QED
    BY <1>14, <2>1, <2>2 DEF CallbackReturns, TypeOK, manager, CallRefs
<1>15. ASSUME NEW c \in handles, CallAnswer(c) PROVE TypeOK'
  <2>1. c \in CallRefs /\ Answered(calls[c]) \in CallObject
    BY CallsType, CallTypes DEF TypeOK
  <2>2. calls' \in Seq(CallObject) /\ Len(calls') = Len(calls)
    BY <1>15, <2>1, OneCallType DEF CallAnswer
  <2>3. QED
    BY <1>15, <2>2 DEF CallAnswer, TypeOK, manager, control, CallRefs
<1>16. ASSUME NEW c \in handles, NEW cause \in Causes, CallRelease(c, cause)
       PROVE  TypeOK'
  <2>1. c \in CallRefs /\ Released(calls[c], cause) \in CallObject
    BY CallsType, CallTypes DEF TypeOK
  <2>2. calls' \in Seq(CallObject) /\ Len(calls') = Len(calls)
    BY <1>16, <2>1, OneCallType DEF CallRelease
  <2>3. QED
    BY <1>16, <2>2 DEF CallRelease, TypeOK, manager, control, CallRefs
<1>17. ASSUME NEW c \in handles, NEW s \in ClientStates, CallSetState(c, s)
       PROVE  TypeOK'
  <2>1. c \in CallRefs /\ WithState(calls[c], s) \in CallObject
    BY CallsType, CallTypes DEF TypeOK
  <2>2. calls' \in Seq(CallObject) /\ Len(calls') = Len(calls)
    BY <1>17, <2>1, OneCallType DEF CallSetState
  <2>3. QED
    BY <1>17, <2>2 DEF CallSetState, TypeOK, manager, control, CallRefs
<1>18. CASE UNCHANGED vars
  BY <1>18 DEF vars, TypeOK, manager, control, CallRefs
<1>19. QED
  BY <1>1, <1>2, <1>3, <1>4, <1>5, <1>6, <1>7, <1>8, <1>9, <1>10, <1>11,
     <1>12, <1>13, <1>14, <1>15, <1>16, <1>17, <1>18, <1>20
  DEF Next, Configure, Enter, Query, Continue, UseHandle

(* Only the owner of the mutex moves a loop, and it hands the mutex back   *)
(* when its outermost method returns.                                      *)
LEMMA OwnerStep ==
    ASSUME TypeOK, OwnerInv, [Next]_vars
    PROVE  OwnerInv'
<1>1. ASSUME UNCHANGED <<owner, dialling, loop>>,
             loop.released => loop.pos <= Len(activeCalls')
      PROVE  OwnerInv'
  BY <1>1 DEF OwnerInv
<1>2. ASSUME NEW t \in Threads, StartOutgoingCall(t) PROVE OwnerInv'
  <2>1. ~loop.released /\ loop' = loop
    BY <1>2, EntryOutsideMove DEF StartOutgoingCall
  <2>2. \/ UNCHANGED <<owner, dialling>>
        \/ owner' = t /\ dialling' = dialling + 1
    BY <1>2 DEF StartOutgoingCall
  <2>3. dialling \in Nat
    BY DEF TypeOK
  <2>4. QED
    BY <2>1, <2>2, <2>3, ThreadsAssumption DEF OwnerInv
<1>3. ASSUME NEW t \in Threads, NEW id \in AddedIds, NEW s \in ClientStates,
             AddCall(t, id, s)
      PROVE  OwnerInv'
  BY <1>1, <1>3, EntryOutsideMove DEF AddCall, control
<1>4. ASSUME NEW t \in Threads, NEW i \in 1..Len(activeCalls), RemoveCall(t, i)
      PROVE  OwnerInv'
  BY <1>1, <1>4, EntryOutsideMove DEF RemoveCall, control
<1>5. ASSUME NEW t \in Threads, StopAllCalls(t) PROVE OwnerInv'
  BY <1>5, ThreadsAssumption DEF StopAllCalls, OwnerInv, NoLoop
<1>6. ASSUME NEW t \in Threads, StopRelease(t) PROVE OwnerInv'
  BY <1>6 DEF StopRelease, AtElement, OwnerInv, manager, TypeOK, Loop
<1>7. ASSUME NEW t \in Threads, StopMove(t) PROVE OwnerInv'
  BY <1>7 DEF StopMove, OwnerInv, TypeOK, Loop
<1>8. ASSUME NEW t \in Threads, StopEnd(t) PROVE OwnerInv'
  BY <1>8, ThreadsAssumption
  DEF StopEnd, OwnerInv, NoLoop, OwnerAfterReturn, TypeOK
<1>9. ASSUME NEW t \in Threads, CallbackReturns(t) PROVE OwnerInv'
  BY <1>9, ThreadsAssumption
  DEF CallbackReturns, InCallback, OwnerAfterReturn, OwnerInv, manager,
      TypeOK, Loop
<1>10. ASSUME NEW t \in Threads, Configure(t) \/ Query(t) PROVE OwnerInv'
  BY <1>1, <1>10
  DEF Configure, SetMaxCalls, SetCallStateCallback, StartListening,
      StopListening, Query, GetCall, GetActiveCalls, GetAllCalls, manager,
      control, OwnerInv
<1>11. ASSUME UseHandle PROVE OwnerInv'
  BY <1>1, <1>11
  DEF UseHandle, CallAnswer, CallRelease, CallSetState, manager, control,
      OwnerInv
<1>12. CASE UNCHANGED vars
  BY <1>1, <1>12 DEF vars, manager, control, OwnerInv
<1>13. QED
  BY <1>2, <1>3, <1>4, <1>5, <1>6, <1>7, <1>8, <1>9, <1>10, <1>11, <1>12
  DEF Next, Enter, Continue

(* TypeOK: every variable of the manager keeps its type, in particular     *)
(* the vectors hold calls that exist.                                      *)
THEOREM TypeCorrect == Spec => []TypeOK
<1>1. Init => OwnerInv
  BY DEF Init, OwnerInv, NoLoop
<1>2. TypeOK /\ OwnerInv /\ [Next]_vars => TypeOK' /\ OwnerInv'
  BY TypeCorrectStep, OwnerStep
<1>3. QED
  BY <1>1, <1>2, TypeCorrectInit, PTL DEF Spec

-----------------------------------------------------------------------------
(* Conservation of calls                                                   *)

Holds(list, c) == \E k \in 1..Len(list) : list[k] = c

Distinct(list) ==
    \A i, j \in 1..Len(list) : list[i] = list[j] => i = j

(* Who holds the mutex, and where a running loop stands: nothing moves the *)
(* elements of the list a loop walks through.                              *)
MutexInv ==
    /\ OwnerInv
    /\ loop.running => /\ loop.end = Len(activeCalls)
                       /\ loop.pos <= loop.end + 1

(* The strengthening that makes CallsConserved inductive: no list holds a  *)
(* call twice, and the calls in both lists are exactly those the loop has  *)
(* passed.                                                                 *)
ListInv ==
    /\ Distinct(activeCalls)
    /\ Distinct(completedCalls)
    /\ \A c \in CallRefs : Holds(activeCalls, c) \/ Holds(completedCalls, c)
    /\ \A i \in 1..Len(activeCalls) :
          Holds(completedCalls, activeCalls[i])
              <=> (loop.running /\ i < loop.pos)
    /\ Len(activeCalls) + Len(completedCalls) = Len(calls) + InBothLists
    /\ totalCalls = Len(calls)
    /\ totalCalls <= MaxTotal

ConservationInv == TypeOK /\ MutexInv /\ ListInv

(* Only a free mutex, or a callback of startOutgoingCall, lets a thread    *)
(* change the list of active calls.                                        *)
LEMMA EntryOutsideLoop ==
    ASSUME MutexInv, ReleasedCallbackKeepsList,
           NEW t \in Threads,
           NEW m \in {"startOutgoingCall", "addCall", "stopAllCalls",
                      "removeCall"},
           MayEnter(t, m)
    PROVE  ~loop.running
  BY ThreadsAssumption, ReleasedCallbackAssumption
  DEF MutexInv, OwnerInv, ReleasedCallbackKeepsList, MayEnter, CallbackMethods

(* push_back of a new call keeps the two lists duplicate-free and complete *)
(* (call_manager.cpp:63-64, 120-121).                                      *)
LEMMA PushKeepsLists ==
    ASSUME TypeOK, ListInv, ~loop.running, NEW call \in CallObject,
           totalCalls < MaxTotal, PushCall(call), UNCHANGED <<completedCalls, loop>>
    PROVE  ListInv'
<1> DEFINE n == Len(calls) + 1
<1>1. /\ Len(calls') = n
      /\ CallRefs' = CallRefs \cup {n}
      /\ n \notin CallRefs
  BY DEF TypeOK, PushCall, CallRefs
<1>2. /\ Len(activeCalls') = Len(activeCalls) + 1
      /\ activeCalls'[Len(activeCalls) + 1] = n
      /\ \A i \in 1..Len(activeCalls) : activeCalls'[i] = activeCalls[i]
  BY DEF TypeOK, PushCall
<1>3. /\ \A i \in 1..Len(activeCalls) : activeCalls[i] \in CallRefs
      /\ \A i \in 1..Len(completedCalls) : completedCalls[i] \in CallRefs
      /\ Len(activeCalls) \in Nat
  BY DEF TypeOK
<1>4. Distinct(activeCalls')
  BY <1>1, <1>2, <1>3 DEF ListInv, Distinct
<1>5. Distinct(completedCalls)'
  BY DEF ListInv, Distinct
<1>6. \A c \in CallRefs' :
         Holds(activeCalls', c) \/ Holds(completedCalls', c)
  BY <1>1, <1>2, <1>3 DEF ListInv, Holds
<1>7. ASSUME NEW i \in 1..Len(activeCalls')
      PROVE  ~Holds(completedCalls', activeCalls'[i])
  BY <1>1, <1>2, <1>3 DEF ListInv, Holds
<1>8. /\ Len(activeCalls') + Len(completedCalls') = Len(calls') + InBothLists'
      /\ totalCalls' = Len(calls')
      /\ totalCalls' <= MaxTotal
  <2>1. InBothLists = 0 /\ InBothLists' = 0
    BY DEF InBothLists
  <2>2. /\ Len(activeCalls) + Len(completedCalls) = Len(calls)
        /\ totalCalls = Len(calls)
        /\ Len(completedCalls) \in Nat /\ Len(calls) \in Nat
    BY <2>1 DEF ListInv, TypeOK
  <2>3. /\ totalCalls' = totalCalls + 1 /\ completedCalls' = completedCalls
        /\ Len(activeCalls') = Len(activeCalls) + 1
    BY <1>2 DEF PushCall
  <2>4. QED
    BY <1>1, <1>3, <2>1, <2>2, <2>3, LimitsAssumption
<1>9. QED
  BY <1>4, <1>5, <1>6, <1>7, <1>8 DEF ListInv

(* ... and so does removeCall when no loop runs (call_manager.cpp:130-148).*)
LEMMA RemoveKeepsLists ==
    ASSUME TypeOK, ListInv, ~loop.running, NEW t \in Threads,
           NEW i \in 1..Len(activeCalls), RemoveCall(t, i)
    PROVE  ListInv'
<1> DEFINE c == activeCalls[i]
           n == Len(activeCalls)
           k == Len(completedCalls) + 1
<1>1. /\ Len(activeCalls') = n - 1
      /\ \A j \in 1..(n - 1) :
            activeCalls'[j] = IF j < i THEN activeCalls[j]
                                       ELSE activeCalls[j + 1]
  BY RemoveAtProperties DEF RemoveCall, TypeOK
<1>2. /\ Len(completedCalls') = k
      /\ completedCalls'[k] = c
      /\ \A j \in 1..Len(completedCalls) :
            completedCalls'[j] = completedCalls[j]
  BY DEF RemoveCall, TypeOK
<1>3. calls' = calls /\ totalCalls' = totalCalls /\ loop' = loop
  BY DEF RemoveCall, control
<1>4. n \in Nat /\ Len(completedCalls) \in Nat /\ i \in 1..n
  BY DEF TypeOK
<1>5. ~Holds(completedCalls, c)
  BY <1>4 DEF ListInv
<1>6. Distinct(activeCalls')
  BY <1>1, <1>4 DEF ListInv, Distinct
<1>7. Distinct(completedCalls')
  BY <1>2, <1>4, <1>5 DEF ListInv, Distinct, Holds
<1>8. ASSUME NEW d \in CallRefs'
      PROVE  Holds(activeCalls', d) \/ Holds(completedCalls', d)
  <2>1. d \in CallRefs
    BY <1>3 DEF CallRefs
  <2>2. CASE Holds(completedCalls, d)
    BY <1>2, <1>4, <2>2 DEF Holds
  <2>3. CASE d = c
    BY <1>2, <1>4, <2>3 DEF Holds
  <2>4. CASE d # c /\ ~Holds(completedCalls, d)
    <3>1. PICK j \in 1..n : activeCalls[j] = d
      BY <2>1, <2>4 DEF ListInv, Holds
    <3>2. CASE j < i
      BY <1>1, <1>4, <3>1, <3>2 DEF Holds
    <3>3. CASE j > i
      <4>1. j - 1 \in 1..(n - 1) /\ activeCalls'[j - 1] = d
        BY <1>1, <1>4, <3>1, <3>3
      <4>2. QED
        BY <1>1, <4>1 DEF Holds
    <3>4. QED
      BY <1>4, <2>4, <3>1, <3>2, <3>3
  <2>5. QED
    BY <2>2, <2>3, <2>4
<1>9. ASSUME NEW j \in 1..Len(activeCalls')
      PROVE  ~Holds(completedCalls', activeCalls'[j])
  <2>1. PICK m \in 1..n : m # i /\ activeCalls'[j] = activeCalls[m]
    <3>1. CASE j < i
      BY <1>1, <1>4, <3>1
    <3>2. CASE ~(j < i)
      <4>1. j + 1 \in 1..n /\ j + 1 # i /\ activeCalls'[j] = activeCalls[j + 1]
        BY <1>1, <1>4, <3>2
      <4>2. QED
        BY <4>1
    <3>3. QED
      BY <3>1, <3>2
  <2>2. activeCalls[m] # c
    BY <1>4, <2>1 DEF ListInv, Distinct
  <2>3. ~Holds(completedCalls, activeCalls[m])
    BY <2>1 DEF ListInv
  <2>4. QED
    BY <1>2, <1>4, <2>1, <2>2, <2>3 DEF Holds
<1>10. /\ Len(activeCalls') + Len(completedCalls') = Len(calls') + InBothLists'
       /\ totalCalls' = Len(calls')
       /\ totalCalls' <= MaxTotal
  <2>1. InBothLists = 0 /\ InBothLists' = 0
    BY <1>3 DEF InBothLists
  <2>2. /\ n + Len(completedCalls) = Len(calls)
        /\ totalCalls = Len(calls) /\ totalCalls <= MaxTotal
        /\ Len(calls) \in Nat
    BY <2>1 DEF ListInv, TypeOK
  <2>3. QED
    BY <1>1, <1>2, <1>3, <1>4, <2>1, <2>2
<1>11. QED
  BY <1>3, <1>6, <1>7, <1>8, <1>9, <1>10 DEF ListInv

(* The loop moves element number pos, which was not completed before.      *)
LEMMA StopMoveKeepsLists ==
    ASSUME TypeOK, MutexInv, ListInv, NEW t \in Threads, StopMove(t)
    PROVE  ListInv'
<1> DEFINE c == activeCalls[loop.pos]
           n == Len(activeCalls)
           k == Len(completedCalls) + 1
<1>1. /\ loop.running /\ loop.end = n /\ loop.pos \in 1..n
      /\ n \in Nat /\ Len(completedCalls) \in Nat
      /\ loop \in Loop
  BY DEF StopMove, MutexInv, OwnerInv, TypeOK, Loop
<1>2. /\ completedCalls' = Append(completedCalls, c)
      /\ calls' = calls
      /\ loop' = [loop EXCEPT !.pos = loop.pos + 1, !.released = FALSE,
                              !.notifying = stateCallback]
      /\ activeCalls' = activeCalls /\ totalCalls' = totalCalls
  BY <1>1 DEF StopMove
<1>3. /\ Len(completedCalls') = k
      /\ completedCalls'[k] = c
      /\ \A j \in 1..Len(completedCalls) :
            completedCalls'[j] = completedCalls[j]
  BY <1>2 DEF TypeOK
<1>4. Len(calls') = Len(calls) /\ CallRefs' = CallRefs
  BY <1>2 DEF TypeOK, CallRefs
<1>5. loop'.running = TRUE /\ loop'.pos = loop.pos + 1
  BY <1>1, <1>2 DEF Loop
<1>6. ~Holds(completedCalls, c)
  BY <1>1 DEF ListInv
<1>7. Distinct(completedCalls') /\ Distinct(activeCalls')
  BY <1>1, <1>2, <1>3, <1>6 DEF ListInv, Distinct, Holds
<1>8. \A d \in CallRefs' : Holds(activeCalls', d) \/ Holds(completedCalls', d)
  BY <1>1, <1>2, <1>3, <1>4 DEF ListInv, Holds
<1>9. ASSUME NEW i \in 1..Len(activeCalls')
      PROVE  Holds(completedCalls', activeCalls'[i])
                <=> (loop'.running /\ i < loop'.pos)
  <2>1. Holds(completedCalls', activeCalls[i])
          <=> Holds(completedCalls, activeCalls[i]) \/ activeCalls[i] = c
    BY <1>1, <1>3 DEF Holds
  <2>2. activeCalls[i] = c <=> i = loop.pos
    BY <1>1, <1>2 DEF ListInv, Distinct
  <2>3. Holds(completedCalls, activeCalls[i]) <=> i < loop.pos
    BY <1>1, <1>2 DEF ListInv
  <2>4. QED
    BY <1>1, <1>2, <1>5, <2>1, <2>2, <2>3
<1>10. /\ Len(activeCalls') + Len(completedCalls') = Len(calls') + InBothLists'
       /\ totalCalls' = Len(calls')
       /\ totalCalls' <= MaxTotal
  <2>1. InBothLists = loop.pos - 1 /\ InBothLists' = loop.pos
    BY <1>1, <1>5 DEF InBothLists
  <2>2. /\ n + Len(completedCalls) = Len(calls) + InBothLists
        /\ totalCalls = Len(calls)
        /\ totalCalls <= MaxTotal
    BY DEF ListInv
  <2>3. Len(calls) \in Nat /\ loop.pos \in Nat
    BY <1>1 DEF TypeOK
  <2>4. /\ Len(activeCalls') = n
        /\ Len(completedCalls') = Len(completedCalls) + 1
        /\ Len(calls') = Len(calls)
        /\ totalCalls' = totalCalls
    BY <1>2, <1>3, <1>4
  <2> HIDE DEF n, k, c
  <2>5. n + (Len(completedCalls) + 1) = Len(calls) + loop.pos
    BY <1>1, <2>1, <2>2, <2>3
  <2>6. QED
    BY <2>1, <2>2, <2>4, <2>5
<1>11. QED
  BY <1>7, <1>8, <1>9, <1>10 DEF ListInv

(* clear() drops calls that are all completed by then.                     *)
LEMMA StopEndKeepsLists ==
    ASSUME TypeOK, MutexInv, ListInv, NEW t \in Threads, StopEnd(t)
    PROVE  ListInv'
<1>1. /\ loop.running /\ loop.end = Len(activeCalls)
      /\ loop.pos = Len(activeCalls) + 1
  BY DEF StopEnd, MutexInv, TypeOK, Loop
<1>2. /\ Len(activeCalls') = 0 /\ completedCalls' = completedCalls
      /\ calls' = calls /\ totalCalls' = totalCalls
      /\ loop'.running = FALSE
  BY EmptySeq DEF StopEnd, NoLoop
<1>3. \A i \in 1..Len(activeCalls) : Holds(completedCalls, activeCalls[i])
  BY <1>1 DEF ListInv, TypeOK
<1>4. \A d \in CallRefs' : Holds(completedCalls', d)
  <2>1. ASSUME NEW d \in CallRefs
        PROVE  Holds(completedCalls, d)
    <3>1. CASE Holds(activeCalls, d)
      <4>1. PICK i \in 1..Len(activeCalls) : activeCalls[i] = d
        BY <3>1 DEF Holds
      <4>2. QED
        BY <1>3, <4>1
    <3>2. QED
      BY <3>1 DEF ListInv
  <2>2. CallRefs' = CallRefs
    BY <1>2 DEF CallRefs
  <2>3. \A d : Holds(completedCalls', d) <=> Holds(completedCalls, d)
    BY <1>2 DEF Holds
  <2>4. QED
    BY <2>1, <2>2, <2>3, Zenon
<1>5. /\ Len(activeCalls') + Len(completedCalls') = Len(calls') + InBothLists'
      /\ totalCalls' = Len(calls')
      /\ totalCalls' <= MaxTotal
  BY <1>1, <1>2 DEF ListInv, InBothLists, TypeOK
<1>6. QED
  BY <1>2, <1>4, <1>5 DEF ListInv, Distinct

(* Steps that leave the lists and the position of the loop alone.          *)
LEMMA OthersKeepLists ==
    ASSUME ListInv, Len(calls') = Len(calls),
           UNCHANGED <<activeCalls, completedCalls, totalCalls>>,
           UNCHANGED <<loop.running, loop.pos>>
    PROVE  ListInv'
  BY DEF ListInv, Distinct, Holds, CallRefs, InBothLists

(* Clients change what is in a call, never which calls there are.          *)
LEMMA HandlesKeepCalls ==
    ASSUME TypeOK, NEW c \in handles,
           \/ CallAnswer(c)
           \/ \E cause \in Causes : CallRelease(c, cause)
           \/ \E s \in ClientStates : CallSetState(c, s)
    PROVE  Len(calls') = Len(calls) /\ UNCHANGED <<manager, control, handles>>
  BY DEF CallAnswer, CallRelease, CallSetState, TypeOK

-----------------------------------------------------------------------------
(* The inductive invariant holds of the empty manager.                     *)
LEMMA ConservationInit == Init => ConservationInv
<1> SUFFICES ASSUME Init PROVE ConservationInv
  OBVIOUS
<1>1. TypeOK
  BY TypeCorrectInit
<1>2. MutexInv
  BY DEF Init, MutexInv, OwnerInv, NoLoop
<1>3. ListInv
  <2>1. Len(calls) = 0 /\ Len(activeCalls) = 0 /\ Len(completedCalls) = 0
    BY EmptySeq DEF Init
  <2>2. ~loop.running /\ totalCalls = 0
    BY DEF Init, NoLoop
  <2>3. QED
    BY <2>1, <2>2, LimitsAssumption
    DEF ListInv, Distinct, CallRefs, InBothLists
<1>4. QED
  BY <1>1, <1>2, <1>3 DEF ConservationInv

(* Every step keeps it, if the callback of stopAllCalls leaves the list    *)
(* alone.                                                                  *)
LEMMA ConservationStep ==
    ASSUME ReleasedCallbackKeepsList, ConservationInv, [Next]_vars
    PROVE  ConservationInv'
<1>1. TypeOK /\ MutexInv /\ ListInv /\ TypeOK'
  BY TypeCorrectStep DEF ConservationInv, MutexInv
<1>0. OwnerInv'
  BY OwnerStep DEF ConservationInv, MutexInv
<1>2. ASSUME NEW t \in Threads, StartOutgoingCall(t)
      PROVE  MutexInv' /\ ListInv'
  <2>1. ~loop.running
    BY <1>1, <1>2, EntryOutsideLoop DEF StartOutgoingCall
  <2>2. MutexInv'
    BY <1>0, <1>2, <2>1 DEF StartOutgoingCall, MutexInv
  <2>3. /\ Setup(NewCall(totalCalls, FALSE)) \in CallObject
        /\ PushCall(Setup(NewCall(totalCalls, FALSE)))
        /\ totalCalls < MaxTotal
        /\ UNCHANGED <<completedCalls, loop>>
    BY <1>1, <1>2, NewCallType, CallTypes DEF StartOutgoingCall, TypeOK
  <2>4. QED
    BY <1>1, <2>1, <2>2, <2>3, PushKeepsLists
<1>3. ASSUME NEW t \in Threads, NEW id \in AddedIds, NEW s \in ClientStates,
             AddCall(t, id, s)
      PROVE  MutexInv' /\ ListInv'
  <2>1. ~loop.running
    BY <1>1, <1>3, EntryOutsideLoop DEF AddCall
  <2>2. MutexInv'
    BY <1>0, <1>3, <2>1 DEF AddCall, MutexInv, control
  <2>3. /\ WithState(NewCall(id, TRUE), s) \in CallObject
        /\ PushCall(WithState(NewCall(id, TRUE), s))
        /\ totalCalls < MaxTotal
        /\ UNCHANGED <<completedCalls, loop>>
    BY <1>3, NewCallType, CallTypes, CallArgsAssumption DEF AddCall, control
  <2>4. QED
    BY <1>1, <2>1, <2>2, <2>3, PushKeepsLists
<1>4. ASSUME NEW t \in Threads, NEW i \in 1..Len(activeCalls), RemoveCall(t, i)
      PROVE  MutexInv' /\ ListInv'
  <2>1. ~loop.running
    BY <1>1, <1>4, EntryOutsideLoop DEF RemoveCall
  <2>2. MutexInv'
    BY <1>0, <1>4, <2>1 DEF RemoveCall, MutexInv, control
  <2>3. QED
    BY <1>1, <1>4, <2>1, <2>2, RemoveKeepsLists
<1>5. ASSUME NEW t \in Threads, StopAllCalls(t)
      PROVE  MutexInv' /\ ListInv'
  <2>1. ~loop.running
    BY <1>1, <1>5, EntryOutsideLoop DEF StopAllCalls
  <2>2. /\ loop'.running = TRUE /\ loop'.pos = 1
        /\ loop'.end = Len(activeCalls) /\ owner' = t
        /\ UNCHANGED <<calls, activeCalls, completedCalls, totalCalls>>
    BY <1>5 DEF StopAllCalls, NoLoop, manager
  <2>3. MutexInv'
    BY <1>0, <1>1, <2>2 DEF MutexInv, TypeOK
  <2>4. ListInv'
    BY <1>1, <2>1, <2>2
    DEF ListInv, Distinct, Holds, CallRefs, InBothLists, TypeOK
  <2>5. QED
    BY <2>3, <2>4
<1>6. ASSUME NEW t \in Threads, StopRelease(t) PROVE MutexInv' /\ ListInv'
  <2>1. loop.running /\ loop.pos <= loop.end /\ loop.end = Len(activeCalls)
    BY <1>1, <1>6 DEF StopRelease, AtElement, MutexInv
  <2>2. /\ Len(calls') = Len(calls)
        /\ UNCHANGED <<activeCalls, completedCalls, totalCalls>>
        /\ UNCHANGED <<loop.running, loop.pos, loop.end>>
    <3>1. loop.pos <= Len(activeCalls) /\ loop \in Loop
      BY <1>1, <2>1 DEF TypeOK
    <3>2. /\ loop' = [loop EXCEPT !.released = TRUE]
          /\ UNCHANGED <<activeCalls, completedCalls, totalCalls>>
      BY <1>6, <3>1 DEF StopRelease, manager
    <3>3. calls \in Seq(CallObject)
      BY <1>1 DEF TypeOK
    <3>4. Len(calls') = Len(calls)
      BY <1>6, <3>1, <3>3 DEF StopRelease
    <3>5. QED
      BY <3>1, <3>2, <3>4 DEF Loop
  <2>3. QED
    <3>1. MutexInv'
      BY <1>0, <1>1, <2>2 DEF MutexInv
    <3>2. ListInv'
      BY <1>1, <2>2, OthersKeepLists
    <3>3. QED
      BY <3>1, <3>2
<1>14. ASSUME NEW t \in Threads, StopMove(t) PROVE MutexInv' /\ ListInv'
  <2>1. MutexInv'
    <3>1. /\ loop \in Loop /\ loop.running /\ loop.end = Len(activeCalls)
          /\ loop.pos <= loop.end
          /\ UNCHANGED <<activeCalls, owner, dialling>>
      BY <1>1, <1>14 DEF StopMove, MutexInv, OwnerInv, TypeOK
    <3>2. /\ loop'.running /\ loop'.end = loop.end
          /\ loop'.pos = loop.pos + 1
      BY <1>14, <3>1 DEF StopMove, Loop
    <3>3. QED
      BY <1>0, <3>1, <3>2 DEF MutexInv, Loop
  <2>2. QED
    BY <1>1, <1>14, <2>1, StopMoveKeepsLists
<1>7. ASSUME NEW t \in Threads, StopEnd(t) PROVE MutexInv' /\ ListInv'
  <2>1. MutexInv'
    BY <1>0, <1>7 DEF StopEnd, MutexInv, NoLoop
  <2>2. QED
    BY <1>1, <1>7, <2>1, StopEndKeepsLists
<1>8. ASSUME NEW t \in Threads, CallbackReturns(t) PROVE MutexInv' /\ ListInv'
  <2>1. UNCHANGED <<loop.running, loop.pos, loop.end>> /\ UNCHANGED <<calls, manager>>
    BY <1>1, <1>8 DEF CallbackReturns, TypeOK, Loop
  <2>2. MutexInv'
    BY <1>0, <1>1, <2>1 DEF MutexInv, manager
  <2>3. ListInv'
    BY <1>1, <2>1, OthersKeepLists DEF manager
  <2>4. QED
    BY <2>2, <2>3
<1>9. ASSUME Len(calls') = Len(calls),
             UNCHANGED <<activeCalls, completedCalls, totalCalls, control>>
      PROVE  MutexInv' /\ ListInv'
  BY <1>0, <1>1, <1>9, OthersKeepLists DEF MutexInv, control
<1>10. ASSUME NEW t \in Threads, Configure(t) \/ Query(t)
       PROVE  MutexInv' /\ ListInv'
  BY <1>9, <1>10
  DEF Configure, SetMaxCalls, SetCallStateCallback, StartListening,
      StopListening, Query, GetCall, GetActiveCalls, GetAllCalls, manager
<1>11. ASSUME UseHandle PROVE MutexInv' /\ ListInv'
  BY <1>1, <1>9, <1>11, HandlesKeepCalls DEF UseHandle, manager
<1>12. ASSUME UNCHANGED vars PROVE MutexInv' /\ ListInv'
  BY <1>9, <1>12 DEF vars, manager
<1>13. QED
  BY <1>1, <1>2, <1>3, <1>4, <1>5, <1>6, <1>7, <1>8, <1>10, <1>11, <1>12,
     <1>14
  DEF Next, Enter, Continue, ConservationInv

(* It implies the conservation of calls.                                   *)
LEMMA ConservationInvImplies == ConservationInv => CallsConserved
  BY ListRange DEF ConservationInv, ListInv, Holds, CallsConserved, TypeOK

(* CallsConserved: with a callback that does not take calls out of the     *)
(* list stopAllCalls is walking through, no call is ever lost or listed    *)
(* twice, for any number of threads, calls and nested callbacks.           *)
THEOREM Conservation ==
    ASSUME ReleasedCallbackKeepsList
    PROVE  Spec => []CallsConserved
<1>1. Init => ConservationInv
  BY ConservationInit
<1>2. ConservationInv /\ [Next]_vars => ConservationInv'
  BY ConservationStep
<1>3. ConservationInv => CallsConserved
  BY ConservationInvImplies
<1>4. QED
  BY <1>1, <1>2, <1>3, PTL DEF Spec

-----------------------------------------------------------------------------
(* CallManager implements CallRegistry                                     *)

(* The elements of a list are its Range.                                   *)
LEMMA RangeHolds ==
    ASSUME NEW S, NEW list \in Seq(S), NEW c
    PROVE  c \in Range(list) <=> Holds(list, c)
  BY ListRange DEF Holds

(* What a list holds is a call object.                                     *)
LEMMA HeldIsCall ==
    ASSUME TypeOK, NEW d
    PROVE  /\ Holds(activeCalls, d) => d \in CallRefs
           /\ Holds(completedCalls, d) => d \in CallRefs
<1>1. /\ \A i \in 1..Len(activeCalls) : activeCalls[i] \in CallRefs
      /\ \A i \in 1..Len(completedCalls) : completedCalls[i] \in CallRefs
  <2>1. activeCalls \in Seq(CallRefs) /\ completedCalls \in Seq(CallRefs)
    BY DEF TypeOK
  <2>2. QED
    BY <2>1
<1>2. QED
  BY <1>1 DEF Holds

(* No more calls than the bound on them.                                   *)
LEMMA CallRefsBounded ==
    ASSUME TypeOK, ListInv
    PROVE  CallRefs \subseteq 1..MaxTotal
<1>1. Len(calls) = totalCalls /\ totalCalls \in Nat /\ totalCalls <= MaxTotal
  BY DEF TypeOK, ListInv
<1>2. QED
  BY <1>1, LimitsAssumption DEF CallRefs

(* push_back of a new call is Register of the registry.                    *)
LEMMA PushRegisters ==
    ASSUME TypeOK, TypeOK', ListInv, ~loop.running, totalCalls < MaxTotal,
           NEW call \in CallObject, PushCall(call), UNCHANGED completedCalls
    PROVE  Registry!Register(Len(calls) + 1) /\ Len(calls) + 1 \in 1..MaxTotal
<1> DEFINE n == Len(calls) + 1
<1>1. /\ Len(activeCalls') = Len(activeCalls) + 1
      /\ activeCalls'[Len(activeCalls) + 1] = n
      /\ \A i \in 1..Len(activeCalls) : activeCalls'[i] = activeCalls[i]
      /\ Len(activeCalls) \in Nat
  BY DEF TypeOK, PushCall
<1>2. ~Holds(activeCalls, n) /\ ~Holds(completedCalls, n)
  <2>1. Len(calls) \in Nat
    BY DEF TypeOK
  <2>2. n \notin CallRefs
    BY <2>1 DEF CallRefs
  <2>3. QED
    BY <2>2, HeldIsCall
<1>3. \A c : Holds(activeCalls', c) <=> Holds(activeCalls, c) \/ c = n
  BY <1>1 DEF Holds
<1>4. n \in 1..MaxTotal
  <2>1. /\ Len(calls) = totalCalls /\ totalCalls \in Nat
        /\ MaxTotal \in Nat
    BY LimitsAssumption DEF ListInv, TypeOK
  <2>2. QED
    BY <2>1
<1>5. \A d : /\ d \in Range(activeCalls) <=> Holds(activeCalls, d)
             /\ d \in Range(completedCalls) <=> Holds(completedCalls, d)
  BY RangeHolds DEF TypeOK
<1>6. \A d : /\ d \in Range(activeCalls') <=> Holds(activeCalls', d)
             /\ d \in Range(completedCalls') <=> Holds(completedCalls', d)
  BY RangeHolds DEF TypeOK
<1> HIDE DEF n
<1>7. n \notin (Range(activeCalls) \ Range(completedCalls)) \cup Range(completedCalls)
  BY <1>2, <1>5
<1>8. Range(activeCalls') \ Range(completedCalls')
         = (Range(activeCalls) \ Range(completedCalls)) \cup {n}
  BY <1>2, <1>3, <1>5, <1>6
<1>9. Registry!Register(n)
  BY <1>7, <1>8 DEF Registry!Register
<1>10. QED
  BY <1>4, <1>9 DEF n

(* What is true of a step that moves call c from one list to the other.    *)
LEMMA MoveCompletes ==
    ASSUME TypeOK, TypeOK', NEW c,
           Holds(activeCalls, c), ~Holds(completedCalls, c),
           \A d : Holds(completedCalls', d) <=> Holds(completedCalls, d) \/ d = c,
           \A d : d # c => (Holds(activeCalls', d) <=> Holds(activeCalls, d))
    PROVE  Registry!Complete(c)
<1>1. \A d : /\ d \in Range(activeCalls) <=> Holds(activeCalls, d)
             /\ d \in Range(completedCalls) <=> Holds(completedCalls, d)
  BY RangeHolds DEF TypeOK
<1>2. \A d : /\ d \in Range(activeCalls') <=> Holds(activeCalls', d)
             /\ d \in Range(completedCalls') <=> Holds(completedCalls', d)
  BY RangeHolds DEF TypeOK
<1>3. c \in Range(activeCalls) \ Range(completedCalls)
  BY <1>1
<1>4. Range(activeCalls') \ Range(completedCalls')
         = (Range(activeCalls) \ Range(completedCalls)) \ {c}
  BY <1>1, <1>2
<1>5. Range(completedCalls') = Range(completedCalls) \cup {c}
  BY <1>1, <1>2
<1>6. QED
  BY <1>3, <1>4, <1>5 DEF Registry!Complete

(* removeCall is Complete of the call it moves.                            *)
LEMMA RemoveCompletes ==
    ASSUME TypeOK, TypeOK', ListInv, ~loop.running, NEW t \in Threads,
           NEW i \in 1..Len(activeCalls), RemoveCall(t, i)
    PROVE  Registry!Complete(activeCalls[i])
<1> DEFINE c == activeCalls[i]
           n == Len(activeCalls)
<1>1. /\ Len(activeCalls') = n - 1
      /\ \A j \in 1..(n - 1) :
            activeCalls'[j] = IF j < i THEN activeCalls[j]
                                       ELSE activeCalls[j + 1]
  BY RemoveAtProperties DEF RemoveCall, TypeOK
<1>2. /\ Len(completedCalls') = Len(completedCalls) + 1
      /\ completedCalls'[Len(completedCalls) + 1] = c
      /\ \A j \in 1..Len(completedCalls) :
            completedCalls'[j] = completedCalls[j]
      /\ n \in Nat /\ Len(completedCalls) \in Nat
  BY DEF RemoveCall, TypeOK
<1>3. Holds(activeCalls, c) /\ ~Holds(completedCalls, c)
  BY DEF ListInv, Holds
<1>4. \A d : Holds(completedCalls', d) <=> Holds(completedCalls, d) \/ d = c
  BY <1>2 DEF Holds
<1>5. ASSUME NEW d, d # c
      PROVE  Holds(activeCalls', d) <=> Holds(activeCalls, d)
  <2>1. ASSUME NEW j \in 1..Len(activeCalls'), activeCalls'[j] = d
        PROVE  Holds(activeCalls, d)
    <3>1. j \in 1..n /\ j + 1 \in 1..n
      BY <1>1, <1>2
    <3>2. QED
      BY <1>1, <2>1, <3>1 DEF Holds
  <2>2. ASSUME NEW j \in 1..n, activeCalls[j] = d
        PROVE  Holds(activeCalls', d)
    <3>1. CASE j < i
      BY <1>1, <1>2, <2>2, <3>1 DEF Holds
    <3>2. CASE j > i
      <4>1. j - 1 \in 1..(n - 1) /\ activeCalls'[j - 1] = d
        BY <1>1, <1>2, <2>2, <3>2
      <4>2. QED
        BY <1>1, <4>1 DEF Holds
    <3>3. QED
      BY <1>2, <1>5, <2>2, <3>1, <3>2
  <2>3. QED
    BY <2>1, <2>2 DEF Holds
<1> HIDE DEF c
<1>6. QED
  BY <1>3, <1>4, <1>5, MoveCompletes DEF c

(* push_back in the loop is Complete of the call it moves.                 *)
LEMMA StopMoveCompletes ==
    ASSUME TypeOK, TypeOK', MutexInv, ListInv, NEW t \in Threads, StopMove(t)
    PROVE  \E c \in 1..MaxTotal : Registry!Complete(c)
<1> DEFINE c == activeCalls[loop.pos]
<1>1. /\ loop.running /\ loop.pos \in 1..Len(activeCalls)
      /\ Len(completedCalls) \in Nat
  BY DEF StopMove, MutexInv, OwnerInv, TypeOK, Loop
<1>2. /\ completedCalls' = Append(completedCalls, c)
      /\ activeCalls' = activeCalls
  BY <1>1 DEF StopMove
<1>3. Holds(activeCalls, c) /\ ~Holds(completedCalls, c)
  <2>1. Holds(activeCalls, c)
    BY <1>1 DEF Holds
  <2>2. loop.pos \in Nat /\ ~(loop.pos < loop.pos)
    BY <1>1 DEF TypeOK
  <2>3. Holds(completedCalls, c) <=> loop.running /\ loop.pos < loop.pos
    BY <1>1 DEF ListInv
  <2>4. QED
    BY <2>1, <2>2, <2>3
<1>4. \A d : Holds(completedCalls', d) <=> Holds(completedCalls, d) \/ d = c
  <2>1. completedCalls \in Seq(CallRefs) /\ c \in CallRefs
    BY <1>1 DEF TypeOK
  <2>2. /\ Len(completedCalls') = Len(completedCalls) + 1
        /\ completedCalls'[Len(completedCalls) + 1] = c
        /\ \A j \in 1..Len(completedCalls) :
              completedCalls'[j] = completedCalls[j]
    BY <1>2, <2>1, AppendProperties
  <2> HIDE DEF c
  <2>3. QED
    BY <1>1, <2>2 DEF Holds
<1>5. c \in 1..MaxTotal
  BY <1>3, HeldIsCall, CallRefsBounded
<1> HIDE DEF c
<1>6. Registry!Complete(c)
  BY <1>2, <1>3, <1>4, MoveCompletes
<1>7. QED
  BY <1>5, <1>6

(* The final clear() changes nothing the registry can see.                 *)
LEMMA StopEndIsSilent ==
    ASSUME TypeOK, TypeOK', MutexInv, ListInv, NEW t \in Threads, StopEnd(t)
    PROVE  UNCHANGED <<Range(activeCalls) \ Range(completedCalls),
                       Range(completedCalls)>>
<1>1. /\ loop.running /\ loop.end = Len(activeCalls)
      /\ loop.pos = Len(activeCalls) + 1
  BY DEF StopEnd, MutexInv, TypeOK, Loop
<1>2. Len(activeCalls') = 0 /\ completedCalls' = completedCalls
  BY EmptySeq DEF StopEnd
<1>3. \A c : Holds(activeCalls, c) => Holds(completedCalls, c)
  <2>1. \A i \in 1..Len(activeCalls) : Holds(completedCalls, activeCalls[i])
    BY <1>1 DEF ListInv, TypeOK
  <2>2. QED
    BY <2>1 DEF Holds
<1>4. \A c : ~Holds(activeCalls', c)
  BY <1>2 DEF Holds
<1>5. \A d : /\ d \in Range(activeCalls) <=> Holds(activeCalls, d)
             /\ d \in Range(completedCalls) <=> Holds(completedCalls, d)
  BY RangeHolds DEF TypeOK
<1>6. \A d : /\ d \in Range(activeCalls') <=> Holds(activeCalls', d)
             /\ d \in Range(completedCalls') <=> Holds(completedCalls', d)
  BY RangeHolds DEF TypeOK
<1>7. QED
  BY <1>2, <1>3, <1>4, <1>5, <1>6

(* Every step is a step of the registry, or none.                          *)
LEMMA RegistryStep ==
    ASSUME ReleasedCallbackKeepsList, ConservationInv, TypeOK', [Next]_vars
    PROVE  [Registry!RegistryNext]_(Registry!registryVars)
<1>1. TypeOK /\ MutexInv /\ ListInv
  BY DEF ConservationInv
<1>2. ASSUME NEW t \in Threads, StartOutgoingCall(t)
      PROVE  Registry!RegistryNext
  <2>1. ~loop.running
    BY <1>1, <1>2, EntryOutsideLoop DEF StartOutgoingCall
  <2>2. /\ Setup(NewCall(totalCalls, FALSE)) \in CallObject
        /\ PushCall(Setup(NewCall(totalCalls, FALSE)))
        /\ totalCalls < MaxTotal
        /\ UNCHANGED completedCalls
    BY <1>1, <1>2, NewCallType, CallTypes DEF StartOutgoingCall, TypeOK
  <2>3. QED
    BY <1>1, <2>1, <2>2, PushRegisters DEF Registry!RegistryNext
<1>3. ASSUME NEW t \in Threads, NEW id \in AddedIds, NEW s \in ClientStates,
             AddCall(t, id, s)
      PROVE  Registry!RegistryNext
  <2>1. ~loop.running
    BY <1>1, <1>3, EntryOutsideLoop DEF AddCall
  <2>2. /\ WithState(NewCall(id, TRUE), s) \in CallObject
        /\ PushCall(WithState(NewCall(id, TRUE), s))
        /\ totalCalls < MaxTotal
        /\ UNCHANGED completedCalls
    BY <1>3, NewCallType, CallTypes, CallArgsAssumption DEF AddCall
  <2>3. QED
    BY <1>1, <2>1, <2>2, PushRegisters DEF Registry!RegistryNext
<1>4. ASSUME NEW t \in Threads, NEW i \in 1..Len(activeCalls), RemoveCall(t, i)
      PROVE  Registry!RegistryNext
  <2>1. ~loop.running
    BY <1>1, <1>4, EntryOutsideLoop DEF RemoveCall
  <2>2. activeCalls[i] \in 1..MaxTotal
    <3>1. activeCalls[i] \in CallRefs
      BY <1>1, <1>4 DEF TypeOK
    <3>2. QED
      BY <1>1, <3>1, CallRefsBounded
  <2>3. QED
    BY <1>1, <1>4, <2>1, <2>2, RemoveCompletes DEF Registry!RegistryNext
<1>5. ASSUME NEW t \in Threads, StopMove(t)
      PROVE  Registry!RegistryNext
  BY <1>1, <1>5, StopMoveCompletes DEF Registry!RegistryNext
<1>6. ASSUME NEW t \in Threads, StopEnd(t)
      PROVE  UNCHANGED Registry!registryVars
  BY <1>1, <1>6, StopEndIsSilent DEF Registry!registryVars
<1>7. ASSUME UNCHANGED <<activeCalls, completedCalls>>
      PROVE  UNCHANGED Registry!registryVars
  BY <1>7 DEF Registry!registryVars
<1>8. ASSUME NEW t \in Threads, Configure(t) \/ Query(t)
      PROVE  UNCHANGED Registry!registryVars
  BY <1>7, <1>8
  DEF Configure, SetMaxCalls, SetCallStateCallback, StartListening,
      StopListening, Query, GetCall, GetActiveCalls, GetAllCalls, manager
<1>9. ASSUME NEW t \in Threads,
             StopAllCalls(t) \/ StopRelease(t) \/ CallbackReturns(t)
      PROVE  UNCHANGED Registry!registryVars
  BY <1>7, <1>9 DEF StopAllCalls, StopRelease, CallbackReturns, manager
<1>10. ASSUME UseHandle PROVE UNCHANGED Registry!registryVars
  BY <1>1, <1>7, <1>10, HandlesKeepCalls DEF UseHandle, manager
<1>11. ASSUME UNCHANGED vars PROVE UNCHANGED Registry!registryVars
  BY <1>7, <1>11 DEF vars, manager
<1>12. QED
  BY <1>2, <1>3, <1>4, <1>5, <1>6, <1>8, <1>9, <1>10, <1>11
  DEF Next, Enter, Continue

(* RefinesRegistry: with such a callback the manager implements the call   *)
(* registry its clients rely on.                                           *)
THEOREM Refinement ==
    ASSUME ReleasedCallbackKeepsList
    PROVE  Spec => RefinesRegistry
<1>1. Init => Registry!RegistryInit
  <2> SUFFICES ASSUME Init PROVE Registry!RegistryInit
    OBVIOUS
  <2>1. TypeOK /\ Len(activeCalls) = 0 /\ Len(completedCalls) = 0
    BY TypeCorrectInit, EmptySeq DEF Init
  <2>2. Range(activeCalls) = {} /\ Range(completedCalls) = {}
    <3>1. /\ activeCalls \in Seq(CallRefs) /\ completedCalls \in Seq(CallRefs)
      BY <2>1 DEF TypeOK
    <3>2. \A c : ~Holds(activeCalls, c) /\ ~Holds(completedCalls, c)
      BY <2>1 DEF Holds
    <3>3. \A c : c \notin Range(activeCalls) /\ c \notin Range(completedCalls)
      BY <3>1, <3>2, RangeHolds
    <3>4. QED
      BY <3>3
  <2>3. QED
    BY <2>2 DEF Registry!RegistryInit
<1>2. Init => ConservationInv
  BY ConservationInit
<1>3. ConservationInv /\ [Next]_vars => ConservationInv'
  BY ConservationStep
<1>4. ConservationInv /\ [Next]_vars
        => [Registry!RegistryNext]_(Registry!registryVars)
  BY RegistryStep, TypeCorrectStep DEF ConservationInv, MutexInv
<1>5. QED
  BY <1>1, <1>2, <1>3, <1>4, PTL
  DEF Spec, RefinesRegistry, Registry!RegistrySpec

-----------------------------------------------------------------------------
(* The first release decides                                               *)

(* What FirstReleaseWins asks of one step, for call c.                     *)
CauseKept(c) ==
    calls[c].state = "RELEASE_COMPLETE"
      => \/ calls'[c].releaseCause = calls[c].releaseCause
         \/ calls'[c].state # "RELEASE_COMPLETE"

(* release of a released call keeps its cause (call.cpp:67-70).            *)
LEMMA ReleasedKeepsCause ==
    ASSUME TypeOK, NEW c \in CallRefs, NEW d, NEW cause,
           calls' = [calls EXCEPT ![d] = Released(calls[d], cause)]
    PROVE  CauseKept(c)
<1>1. c \in DOMAIN calls
  BY DEF TypeOK, CallRefs
<1>2. calls'[c] = IF c = d THEN Released(calls[d], cause) ELSE calls[c]
  BY <1>1
<1>3. QED
  BY <1>2 DEF CauseKept, Released, CanRelease

(* push_back keeps what is in the calls already there.                     *)
LEMMA PushKeepsCauses ==
    ASSUME TypeOK, NEW c \in CallRefs, NEW call, PushCall(call)
    PROVE  CauseKept(c)
<1>1. calls'[c] = calls[c]
  BY DEF TypeOK, CallRefs, PushCall
<1>2. QED
  BY <1>1 DEF CauseKept

(* No step rewrites the cause of a released call.                          *)
LEMMA CauseStep ==
    ASSUME TypeOK, [Next]_vars, NEW c \in CallRefs
    PROVE  CauseKept(c)
<1>1. ASSUME UNCHANGED calls PROVE CauseKept(c)
  BY <1>1 DEF CauseKept
<1>2. ASSUME NEW t \in Threads, StartOutgoingCall(t) PROVE CauseKept(c)
  BY <1>2, PushKeepsCauses DEF StartOutgoingCall
<1>3. ASSUME NEW t \in Threads, NEW id \in AddedIds, NEW s \in ClientStates,
             AddCall(t, id, s)
      PROVE  CauseKept(c)
  BY <1>3, PushKeepsCauses DEF AddCall
<1>4. ASSUME NEW t \in Threads, StopRelease(t) PROVE CauseKept(c)
  <2>1. CASE loop.pos <= Len(activeCalls)
    <3> DEFINE d == activeCalls[loop.pos]
    <3>1. calls' = [calls EXCEPT ![d] = Released(calls[d], NormalCallClearing)]
      BY <1>4, <2>1 DEF StopRelease
    <3> HIDE DEF d
    <3>2. QED
      BY <3>1, ReleasedKeepsCause
  <2>2. CASE ~(loop.pos <= Len(activeCalls))
    BY <1>1, <1>4, <2>2 DEF StopRelease
  <2>3. QED
    BY <2>1, <2>2
<1>5. ASSUME NEW d \in handles, CallAnswer(d) PROVE CauseKept(c)
  <2>1. c \in DOMAIN calls
    BY DEF TypeOK, CallRefs
  <2>2. calls'[c] = IF c = d THEN Answered(calls[d]) ELSE calls[c]
    BY <1>5, <2>1 DEF CallAnswer
  <2>3. QED
    BY <2>2 DEF CauseKept, Answered, CanAnswer
<1>6. ASSUME NEW d \in handles, NEW cause \in Causes, CallRelease(d, cause)
      PROVE  CauseKept(c)
  BY <1>6, ReleasedKeepsCause DEF CallRelease
<1>7. ASSUME NEW d \in handles, NEW s \in ClientStates, CallSetState(d, s)
      PROVE  CauseKept(c)
  <2>1. c \in DOMAIN calls /\ calls[c] \in CallObject
    BY CallsType DEF TypeOK, CallRefs
  <2>2. calls'[c] = IF c = d THEN WithState(calls[d], s) ELSE calls[c]
    BY <1>7, <2>1 DEF CallSetState
  <2>3. WithState(calls[c], s).releaseCause = calls[c].releaseCause
    BY <2>1 DEF WithState, CallObject
  <2>4. QED
    BY <2>2, <2>3 DEF CauseKept
<1>8. ASSUME NEW t \in Threads,
             \/ Configure(t) \/ Query(t) \/ StopAllCalls(t) \/ StopMove(t)
             \/ StopEnd(t) \/ CallbackReturns(t)
             \/ \E i \in 1..Len(activeCalls) : RemoveCall(t, i)
      PROVE  CauseKept(c)
  BY <1>1, <1>8
  DEF Configure, SetMaxCalls, SetCallStateCallback, StartListening,
      StopListening, Query, GetCall, GetActiveCalls, GetAllCalls,
      StopAllCalls, StopMove, StopEnd, CallbackReturns, RemoveCall
<1>9. CASE UNCHANGED vars
  BY <1>1, <1>9 DEF vars
<1>10. QED
  BY <1>2, <1>3, <1>4, <1>5, <1>6, <1>7, <1>8, <1>9
  DEF Next, Enter, Continue, UseHandle

(* FirstReleaseWins: no step of any thread overwrites the cause of a call  *)
(* that stays released, however stopAllCalls and clients interleave.       *)
THEOREM FirstRelease == Spec => FirstReleaseWins
<1>1. TypeOK /\ [Next]_vars => [\A c \in CallRefs : CauseKept(c)]_vars
  BY CauseStep
<1>2. QED
  BY <1>1, TypeCorrect, PTL DEF Spec, FirstReleaseWins, CauseKept
=============================================================================
