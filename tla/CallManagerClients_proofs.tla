---------------------- MODULE CallManagerClients_proofs ----------------------
(***************************************************************************)
(* What clients of the CallManager can rely on beyond the conservation of  *)
(* calls: statistics, stopped calls, ids and the depth of the recursion.   *)
(***************************************************************************)
EXTENDS CallManager_proofs

(* Each way into completedCalls refreshes the statistics, or leaves a loop *)
(* running that will.                                                      *)
LEMMA StatsStep ==
    ASSUME TypeOK, StatsInSync, [Next]_vars
    PROVE  StatsInSync'
<1>1. ASSUME NEW t \in Threads, NEW i \in 1..Len(activeCalls), RemoveCall(t, i)
      PROVE  StatsInSync'
  BY <1>1 DEF RemoveCall, UpdateStats, StatsInSync
<1>2. ASSUME NEW t \in Threads, StopEnd(t) PROVE StatsInSync'
  BY <1>2 DEF StopEnd, UpdateStats, StatsInSync
<1>3. ASSUME NEW t \in Threads, StopRelease(t) \/ StopMove(t) PROVE StatsInSync'
  BY <1>3 DEF StopRelease, AtElement, StopMove, TypeOK, Loop, StatsInSync
<1>4. ASSUME NEW t \in Threads, StopAllCalls(t) PROVE StatsInSync'
  BY <1>4 DEF StopAllCalls, StatsInSync
<1>5. ASSUME NEW t \in Threads, CallbackReturns(t) PROVE StatsInSync'
  BY <1>5 DEF CallbackReturns, TypeOK, Loop, StatsInSync, manager
<1>6. ASSUME UNCHANGED <<completedCalls, stats, loop>> PROVE StatsInSync'
  BY <1>6 DEF StatsInSync
<1>7. ASSUME NEW t \in Threads,
             \/ StartOutgoingCall(t)
             \/ \E id \in AddedIds, s \in ClientStates : AddCall(t, id, s)
             \/ Configure(t) \/ Query(t)
      PROVE  StatsInSync'
  BY <1>6, <1>7
  DEF StartOutgoingCall, AddCall, Configure, SetMaxCalls, SetCallStateCallback, StartListening,
      StopListening, Query, GetCall, GetActiveCalls, GetAllCalls, manager, control
<1>8. ASSUME UseHandle PROVE StatsInSync'
  BY <1>6, <1>8, HandlesKeepCalls DEF UseHandle, manager, control
<1>9. CASE UNCHANGED vars
  BY <1>6, <1>9 DEF vars, manager, control
<1> QED
  BY <1>1, <1>2, <1>3, <1>4, <1>5, <1>7, <1>8, <1>9 DEF Next, Enter, Continue

(* StatsInSync: whenever no loop is at work the statistics count every     *)
(* completed call, for all callbacks (call_manager.cpp:110, 146).          *)
THEOREM StatsCorrect == Spec => []StatsInSync
<1>1. Init => StatsInSync
  BY EmptySeq DEF Init, StatsInSync
<1>2. TypeOK /\ StatsInSync /\ [Next]_vars => StatsInSync'
  BY StatsStep
<1> QED
  BY <1>1, <1>2, TypeCorrect, PTL DEF Spec

-----------------------------------------------------------------------------
(* Released calls                                                          *)

(* Nothing else completes a call while a loop runs.                        *)
LEMMA OnlyLoopCompletes ==
    ASSUME ReleasedCallbackKeepsList, ConservationInv, Next, loop.running,
           completedCalls' # completedCalls
    PROVE  \E t \in Threads : StopMove(t)
<1>1. ASSUME NEW t \in Threads, NEW i \in 1..Len(activeCalls), RemoveCall(t, i)
      PROVE  FALSE
  BY <1>1, EntryOutsideLoop DEF RemoveCall, ConservationInv
<1>2. ASSUME NEW t \in Threads,
             \/ StartOutgoingCall(t)
             \/ \E id \in AddedIds, s \in ClientStates : AddCall(t, id, s)
             \/ StopAllCalls(t) \/ StopRelease(t) \/ StopEnd(t)
             \/ CallbackReturns(t) \/ Configure(t) \/ Query(t)
      PROVE  completedCalls' = completedCalls
  BY <1>2
  DEF StartOutgoingCall, AddCall, StopAllCalls, StopRelease, StopEnd, CallbackReturns, Configure,
      SetMaxCalls, SetCallStateCallback, StartListening, StopListening, Query, GetCall,
      GetActiveCalls, GetAllCalls, manager
<1>3. ASSUME UseHandle PROVE completedCalls' = completedCalls
  BY <1>3, HandlesKeepCalls DEF UseHandle, manager, ConservationInv
<1> QED
  BY <1>1, <1>2, <1>3 DEF Next, Enter, Continue

(* The inductive invariant under the condition on the callback.            *)
LEMMA ConservationInvariance ==
    ASSUME ReleasedCallbackKeepsList
    PROVE  Spec => []ConservationInv
<1>1. ConservationInv /\ [Next]_vars => ConservationInv'
  BY ConservationStep
<1> QED
  BY <1>1, ConservationInit, PTL DEF Spec

(* A call that is over has a cause on record, and a call the manager knows *)
(* has been set up: release() is refused only when it was called before.   *)
CallCaused(call) ==
    /\ call.state # "NULL_STATE"
    /\ call.state = "RELEASE_COMPLETE" => call.releaseCause # 0

(* What the loop released keeps its cause until it is moved.               *)
CauseInv ==
    /\ \A c \in CallRefs : CallCaused(calls[c])
    /\ loop.released => calls[activeCalls[loop.pos]].releaseCause # 0

(* No call is set up or over but by the methods meant for it; a cause once *)
(* recorded is only replaced by another (call.cpp:28-98).                  *)
LEMMA MethodsKeepCause ==
    ASSUME ClientsEndByRelease, NEW call \in CallObject, CallCaused(call)
    PROVE  /\ CallCaused(Answered(call))
           /\ Answered(call).releaseCause = call.releaseCause
           /\ \A s \in ClientStates :
                 /\ CallCaused(WithState(call, s))
                 /\ WithState(call, s).releaseCause = call.releaseCause
           /\ \A cause \in Causes \cup {NormalCallClearing} :
                 /\ CallCaused(Released(call, cause))
                 /\ Released(call, cause).releaseCause # 0
<1>1. CallCaused(Answered(call)) /\ Answered(call).releaseCause = call.releaseCause
  BY DEF CallCaused, Answered, CallObject
<1>2. ASSUME NEW s \in ClientStates
      PROVE  /\ CallCaused(WithState(call, s))
             /\ WithState(call, s).releaseCause = call.releaseCause
  <2>1. s # "RELEASE_COMPLETE" /\ s # "NULL_STATE"
    BY DEF ClientsEndByRelease
  <2> QED
    BY <2>1 DEF CallCaused, WithState, CallObject
<1>3. ASSUME NEW cause \in Causes \cup {NormalCallClearing}
      PROVE  /\ CallCaused(Released(call, cause))
             /\ Released(call, cause).releaseCause # 0
  <2>1. cause # 0
    BY DEF ClientsEndByRelease, NormalCallClearing
  <2> QED
    BY <2>1 DEF CallCaused, Released, CanRelease, CallObject
<1> QED
  BY <1>1, <1>2, <1>3

(* A method of one call that keeps or records its cause.                   *)
LEMMA OneCallKeepsCauses ==
    ASSUME TypeOK, OwnerInv, CauseInv, NEW d \in CallRefs, NEW call,
           calls' = [calls EXCEPT ![d] = call], CallCaused(call),
           call.releaseCause = calls[d].releaseCause \/ call.releaseCause # 0,
           UNCHANGED activeCalls
    PROVE  /\ \A c \in CallRefs' : CallCaused(calls'[c])
           /\ loop.released => calls'[activeCalls'[loop.pos]].releaseCause # 0
<1>1. /\ CallRefs' = CallRefs
      /\ \A c \in CallRefs : calls'[c] = IF c = d THEN call ELSE calls[c]
  BY DEF TypeOK, CallRefs
<1>2. loop.released => activeCalls[loop.pos] \in CallRefs
  BY DEF OwnerInv, TypeOK, Loop
<1> QED
  BY <1>1, <1>2 DEF CauseInv

(* A new call has been set up and is not over.                             *)
LEMMA PushKeepsCaused ==
    ASSUME TypeOK, CauseInv, ~loop.released, NEW call, PushCall(call), CallCaused(call),
           loop' = loop
    PROVE  CauseInv'
<1>1. /\ Len(calls) \in Nat
      /\ Len(calls') = Len(calls) + 1
      /\ calls'[Len(calls) + 1] = call
      /\ \A c \in CallRefs : calls'[c] = calls[c]
  BY DEF PushCall, TypeOK, CallRefs
<1>2. ASSUME NEW c \in CallRefs' PROVE CallCaused(calls'[c])
  <2>1. c \in CallRefs \/ c = Len(calls) + 1
    BY <1>1, <1>2 DEF CallRefs
  <2> QED
    BY <1>1, <2>1 DEF CauseInv
<1> QED
  BY <1>2 DEF CauseInv

(* Every step keeps the causes.                                            *)
LEMMA CauseInvStep ==
    ASSUME ClientsEndByRelease, TypeOK, OwnerInv, CauseInv, [Next]_vars
    PROVE  CauseInv'
<1>1. ASSUME NEW t \in Threads, StartOutgoingCall(t) PROVE CauseInv'
  <2> DEFINE call == Setup(NewCall(totalCalls, FALSE))
  <2>1. PushCall(call) /\ ~loop.released /\ loop' = loop
    BY <1>1, EntryOutsideMove DEF StartOutgoingCall
  <2>2. CallCaused(call)
    BY DEF CallCaused, Setup, NewCall
  <2> HIDE DEF call
  <2> QED
    BY <2>1, <2>2, PushKeepsCaused
<1>2. ASSUME NEW t \in Threads, NEW id \in AddedIds, NEW s \in ClientStates, AddCall(t, id, s)
      PROVE  CauseInv'
  <2> DEFINE call == WithState(NewCall(id, TRUE), s)
  <2>1. PushCall(call) /\ ~loop.released /\ loop' = loop
    BY <1>2, EntryOutsideMove DEF AddCall, control
  <2>2. CallCaused(call)
    BY DEF CallCaused, WithState, NewCall, ClientsEndByRelease
  <2> HIDE DEF call
  <2> QED
    BY <2>1, <2>2, PushKeepsCaused
<1>3. ASSUME NEW t \in Threads, NEW i \in 1..Len(activeCalls), RemoveCall(t, i)
      PROVE  CauseInv'
  <2>1. ~loop.released /\ UNCHANGED <<calls, loop>>
    BY <1>3, EntryOutsideMove DEF RemoveCall, control
  <2> QED
    BY <2>1 DEF CauseInv, CallRefs
<1>4. ASSUME NEW t \in Threads, StopRelease(t) PROVE CauseInv'
  <2>1. CASE loop.pos <= Len(activeCalls)
    <3> DEFINE d == activeCalls[loop.pos]
               call == Released(calls[d], NormalCallClearing)
    <3>1. d \in CallRefs
      BY <2>1 DEF TypeOK, Loop
    <3>2. /\ calls' = [calls EXCEPT ![d] = call]
          /\ loop' = [loop EXCEPT !.released = TRUE] /\ UNCHANGED activeCalls
      BY <1>4, <2>1 DEF StopRelease, manager
    <3>3. CallCaused(call) /\ call.releaseCause # 0
      <4>1. calls[d] \in CallObject /\ CallCaused(calls[d])
        BY <3>1, CallsType DEF CauseInv
      <4> QED
        BY <4>1, MethodsKeepCause
    <3>4. calls'[d].releaseCause # 0
      BY <3>1, <3>2, <3>3 DEF TypeOK, CallRefs
    <3>5. loop'.pos = loop.pos
      BY <3>2 DEF TypeOK, Loop
    <3>6. \A c \in CallRefs' : CallCaused(calls'[c])
      <4> HIDE DEF call
      <4> QED
        BY <3>1, <3>2, <3>3, OneCallKeepsCauses
    <3> QED
      BY <3>2, <3>4, <3>5, <3>6 DEF CauseInv
  <2>2. CASE ~(loop.pos <= Len(activeCalls))
    <3>1. /\ calls' = calls /\ ~loop.released
          /\ loop' = [loop EXCEPT !.pos = loop.pos + 1]
      BY <1>4, <2>2 DEF StopRelease, AtElement
    <3>2. ~loop'.released
      BY <3>1 DEF TypeOK, Loop
    <3> QED
      BY <3>1, <3>2 DEF CauseInv, CallRefs
  <2> QED
    BY <2>1, <2>2
<1>5. ASSUME UNCHANGED calls, ~loop'.released PROVE CauseInv'
  BY <1>5 DEF CauseInv, CallRefs
<1>6. ASSUME NEW t \in Threads, StopAllCalls(t) \/ StopMove(t) \/ StopEnd(t)
      PROVE  CauseInv'
  <2>1. CASE StopAllCalls(t)
    <3>1. UNCHANGED calls /\ loop'.released = FALSE
      BY <2>1 DEF StopAllCalls, NoLoop
    <3> QED
      BY <1>5, <3>1
  <2>3. CASE StopEnd(t)
    <3>1. UNCHANGED calls /\ loop'.released = FALSE
      BY <2>3 DEF StopEnd, NoLoop
    <3> QED
      BY <1>5, <3>1
  <2>2. CASE StopMove(t)
    BY <1>5, <2>2 DEF StopMove, TypeOK, Loop
  <2> QED
    BY <1>6, <2>1, <2>2, <2>3
<1>7. ASSUME NEW t \in Threads, CallbackReturns(t) PROVE CauseInv'
  <2>1. UNCHANGED <<calls, activeCalls>> /\ UNCHANGED <<loop.released, loop.pos>>
    BY <1>7 DEF CallbackReturns, manager, TypeOK, Loop
  <2> QED
    BY <2>1 DEF CauseInv, CallRefs
<1>8. ASSUME NEW c \in handles, CallAnswer(c) PROVE CauseInv'
  <2>1. c \in CallRefs /\ calls[c] \in CallObject /\ CallCaused(calls[c])
    BY CallsType DEF TypeOK, CauseInv
  <2>2. UNCHANGED <<activeCalls, loop>>
    BY <1>8 DEF CallAnswer, manager, control
  <2> QED
    BY <1>8, <2>1, <2>2, MethodsKeepCause, OneCallKeepsCauses DEF CallAnswer, CauseInv
<1>9. ASSUME NEW c \in handles, NEW cause \in Causes, CallRelease(c, cause)
      PROVE  CauseInv'
  <2>1. c \in CallRefs /\ calls[c] \in CallObject /\ CallCaused(calls[c])
    BY CallsType DEF TypeOK, CauseInv
  <2>2. UNCHANGED <<activeCalls, loop>>
    BY <1>9 DEF CallRelease, manager, control
  <2> QED
    BY <1>9, <2>1, <2>2, MethodsKeepCause, OneCallKeepsCauses DEF CallRelease, CauseInv
<1>10. ASSUME NEW c \in handles, NEW s \in ClientStates, CallSetState(c, s)
       PROVE  CauseInv'
  <2>1. c \in CallRefs /\ calls[c] \in CallObject /\ CallCaused(calls[c])
    BY CallsType DEF TypeOK, CauseInv
  <2>2. UNCHANGED <<activeCalls, loop>>
    BY <1>10 DEF CallSetState, manager, control
  <2> QED
    BY <1>10, <2>1, <2>2, MethodsKeepCause, OneCallKeepsCauses DEF CallSetState, CauseInv
<1>11. ASSUME UNCHANGED <<calls, activeCalls, loop>> PROVE CauseInv'
  BY <1>11 DEF CauseInv, CallRefs
<1>12. ASSUME NEW t \in Threads, Configure(t) \/ Query(t) PROVE CauseInv'
  BY <1>11, <1>12
  DEF Configure, SetMaxCalls, SetCallStateCallback, StartListening, StopListening, Query,
      GetCall, GetActiveCalls, GetAllCalls, manager, control
<1>13. CASE UNCHANGED vars
  BY <1>11, <1>13 DEF vars, manager, control
<1> QED
  BY <1>1, <1>2, <1>3, <1>4, <1>6, <1>7, <1>8, <1>9, <1>10, <1>12, <1>13
  DEF Next, Enter, Continue, UseHandle

(* The call a loop moves is the one it released, and has a cause.          *)
LEMMA MovedCallCaused ==
    ASSUME TypeOK, OwnerInv, CauseInv, NEW t \in Threads, StopMove(t)
    PROVE  calls[Last(completedCalls')].releaseCause # 0
<1> DEFINE c == activeCalls[loop.pos]
<1>1. /\ loop.released /\ c \in CallRefs
      /\ completedCalls' = Append(completedCalls, c)
  BY DEF StopMove, OwnerInv, TypeOK, Loop
<1>2. Last(completedCalls') = c
  BY <1>1 DEF Last, TypeOK
<1> QED
  BY <1>1, <1>2 DEF CauseInv

(* StoppedCallsHaveCause: whatever clients do to a call between the loop's *)
(* release() and its push_back, what stopAllCalls keeps as completed has   *)
(* had its release (call_manager.cpp:95-98).                               *)
THEOREM StoppedCaused ==
    ASSUME ReleasedCallbackKeepsList, ClientsEndByRelease
    PROVE  Spec => StoppedCallsHaveCause
<1>1. Init => CauseInv
  BY EmptySeq DEF Init, CauseInv, NoLoop, CallRefs
<1>2. ConservationInv /\ CauseInv /\ [Next]_vars => CauseInv'
  BY CauseInvStep DEF ConservationInv, MutexInv
<1>3. ConservationInv /\ CauseInv /\ [Next]_vars =>
         [loop.running /\ completedCalls' # completedCalls
             => calls[Last(completedCalls')].releaseCause # 0]_vars
  BY OnlyLoopCompletes, MovedCallCaused DEF ConservationInv, MutexInv
<1> QED
  BY <1>1, <1>2, <1>3, ConservationInvariance, PTL DEF Spec, StoppedCallsHaveCause

-----------------------------------------------------------------------------
(* The depth of the recursion                                              *)

(* Every activation of startOutgoingCall has pushed a call, and the limit  *)
(* in force is one that was set.                                           *)
NestingInv ==
    /\ dialling <= Len(calls)
    /\ maxCalls \in Limits \cup {DefaultMaxCalls}
    /\ NestingBounded

(* Each step that dials has checked the limit; no other adds an activation. *)
LEMMA NestingStep ==
    ASSUME ReleasedCallbackKeepsList, ConservationInv, NestingInv, [Next]_vars
    PROVE  NestingInv'
<1>0. /\ TypeOK /\ MutexInv /\ ListInv
      /\ dialling \in Nat /\ Len(calls) \in Nat /\ Len(activeCalls) \in Nat
      /\ Len(completedCalls) \in Nat
      /\ \A max \in Limits \cup {DefaultMaxCalls} : max \in Nat
  BY LimitsAssumption DEF ConservationInv, TypeOK
<1>1. PICK max \in Limits \cup {DefaultMaxCalls} : dialling <= max + Len(completedCalls)
  BY DEF NestingInv, NestingBounded
<1>2. ASSUME Len(calls') = Len(calls), dialling' <= dialling, dialling' \in Nat,
             Len(completedCalls') \in Nat, Len(completedCalls') >= Len(completedCalls),
             maxCalls' \in Limits \cup {DefaultMaxCalls}
      PROVE  NestingInv'
  <2>1. dialling' <= max + Len(completedCalls')
    BY <1>0, <1>1, <1>2
  <2>2. dialling' <= Len(calls')
    BY <1>0, <1>2 DEF NestingInv
  <2> QED
    BY <1>2, <2>1, <2>2 DEF NestingInv, NestingBounded
<1>3. ASSUME NEW t \in Threads, StartOutgoingCall(t) PROVE NestingInv'
  <2>1. /\ Len(activeCalls) < maxCalls
        /\ calls' = Append(calls, Setup(NewCall(totalCalls, FALSE)))
        /\ dialling' \in {dialling, dialling + 1}
        /\ UNCHANGED <<completedCalls, maxCalls>>
    BY <1>3 DEF StartOutgoingCall, BelowLimit, PushCall
  <2>2. Len(calls') = Len(calls) + 1
    BY <1>0, <2>1 DEF TypeOK
  <2>3. ~loop.running
    BY <1>0, <1>3, EntryOutsideLoop DEF StartOutgoingCall
  <2>4. dialling <= Len(activeCalls) + Len(completedCalls)
    BY <1>0, <2>3 DEF NestingInv, ListInv, InBothLists
  <2>5. maxCalls \in Nat /\ maxCalls \in Limits \cup {DefaultMaxCalls}
    BY <1>0 DEF NestingInv
  <2>6. dialling' <= maxCalls + Len(completedCalls)
    BY <1>0, <2>1, <2>4, <2>5
  <2>7. dialling' <= Len(calls')
    BY <1>0, <2>1, <2>2 DEF NestingInv
  <2> QED
    BY <2>1, <2>5, <2>6, <2>7 DEF NestingInv, NestingBounded
<1>4. ASSUME NEW t \in Threads, NEW id \in AddedIds, NEW s \in ClientStates, AddCall(t, id, s)
      PROVE  NestingInv'
  <2>1. /\ calls' = Append(calls, WithState(NewCall(id, TRUE), s))
        /\ UNCHANGED <<completedCalls, maxCalls, dialling>>
    BY <1>4 DEF AddCall, PushCall, control
  <2>2. Len(calls') = Len(calls) + 1
    BY <1>0, <2>1 DEF TypeOK
  <2>3. dialling' <= Len(calls')
    BY <1>0, <2>1, <2>2 DEF NestingInv
  <2> QED
    BY <2>1, <2>3 DEF NestingInv, NestingBounded
<1>5. ASSUME NEW t \in Threads, NEW i \in 1..Len(activeCalls), RemoveCall(t, i)
      PROVE  NestingInv'
  <2>1. /\ completedCalls' = Append(completedCalls, activeCalls[i])
        /\ UNCHANGED <<calls, maxCalls, dialling>>
    BY <1>5 DEF RemoveCall, control
  <2>2. Len(completedCalls') = Len(completedCalls) + 1
    BY <1>0, <2>1 DEF TypeOK
  <2> QED
    BY <1>0, <1>2, <2>1, <2>2 DEF NestingInv
<1>6. ASSUME NEW t \in Threads, StopMove(t) PROVE NestingInv'
  <2>1. /\ Len(calls') = Len(calls)
        /\ UNCHANGED <<maxCalls, dialling>>
    BY <1>0, <1>6 DEF StopMove, TypeOK
  <2>2. Len(completedCalls') \in {Len(completedCalls), Len(completedCalls) + 1}
    BY <1>0, <1>6 DEF StopMove, TypeOK
  <2> QED
    BY <1>0, <1>2, <2>1, <2>2 DEF NestingInv
<1>7. ASSUME NEW t \in Threads, StopAllCalls(t) \/ StopEnd(t) \/ Query(t)
      PROVE  NestingInv'
  <2>1. UNCHANGED <<calls, completedCalls, maxCalls, dialling>>
    BY <1>7 DEF StopAllCalls, StopEnd, Query, GetCall, GetActiveCalls, GetAllCalls, manager, control
  <2> QED
    BY <1>0, <1>2, <2>1 DEF NestingInv
<1>8. ASSUME NEW t \in Threads, CallbackReturns(t) PROVE NestingInv'
  <2>1. /\ UNCHANGED <<calls, completedCalls, maxCalls>>
        /\ dialling' = dialling \/ (dialling > 0 /\ dialling' = dialling - 1)
    BY <1>8 DEF CallbackReturns, InCallback, manager
  <2> QED
    BY <1>0, <1>2, <2>1 DEF NestingInv
<1>9. ASSUME NEW t \in Threads, Configure(t) PROVE NestingInv'
  <2>1. /\ UNCHANGED <<calls, completedCalls, dialling>>
        /\ maxCalls' = maxCalls \/ maxCalls' \in Limits
    BY <1>9 DEF Configure, SetMaxCalls, SetCallStateCallback, StartListening, StopListening, control
  <2> QED
    BY <1>0, <1>2, <2>1 DEF NestingInv
<1>10. ASSUME UseHandle PROVE NestingInv'
  <2>1. Len(calls') = Len(calls) /\ UNCHANGED <<completedCalls, maxCalls, dialling>>
    BY <1>0, <1>10, HandlesKeepCalls DEF UseHandle, manager, control
  <2> QED
    BY <1>0, <1>2, <2>1 DEF NestingInv
<1>11. CASE UNCHANGED vars
  BY <1>11 DEF vars, manager, control, NestingInv, NestingBounded
<1>12. ASSUME NEW t \in Threads, StopRelease(t) PROVE NestingInv'
  <2>1. Len(calls') = Len(calls)
    BY <1>0, <1>12 DEF StopRelease, TypeOK
  <2>2. UNCHANGED <<completedCalls, maxCalls, dialling>>
    BY <1>12 DEF StopRelease, manager
  <2> QED
    BY <1>0, <1>2, <2>1, <2>2 DEF NestingInv
<1> QED
  BY <1>3, <1>4, <1>5, <1>6, <1>7, <1>8, <1>9, <1>10, <1>11, <1>12 DEF Next, Enter, Continue

(* NestingBounded: callbacks that dial again recurse only as deep as the   *)
(* largest limit and the completed calls allow (call_manager.cpp:50).      *)
THEOREM NestingLimited ==
    ASSUME ReleasedCallbackKeepsList
    PROVE  Spec => []NestingBounded
<1>1. Init => NestingInv
  BY EmptySeq, LimitsAssumption DEF Init, NestingInv, NestingBounded
<1>2. ConservationInv /\ NestingInv /\ [Next]_vars => NestingInv'
  BY NestingStep
<1>3. NestingInv => NestingBounded
  BY DEF NestingInv
<1> QED
  BY <1>1, <1>2, <1>3, ConservationInvariance, PTL DEF Spec
-----------------------------------------------------------------------------
(* Issued ids                                                              *)

(* An added call never has an id that startOutgoingCall may issue.         *)
AddedIdsDiffer == AddedIds \cap 0..(MaxTotal - 1) = {}

(* startOutgoingCall numbers its calls by their position, addCall takes    *)
(* what it is given, and no method of a call changes its id.               *)
IdOrigin(c) ==
    IF calls[c].incoming
    THEN calls[c].callId \in AddedIds
    ELSE calls[c].callId = c - 1 /\ c <= MaxTotal

IdInv == \A c \in CallRefs : IdOrigin(c)

(* A new call fits the numbering.                                          *)
LEMMA PushKeepsIds ==
    ASSUME TypeOK, IdInv, NEW call, PushCall(call),
           \/ call.incoming /\ call.callId \in AddedIds
           \/ /\ ~call.incoming
              /\ call.callId = Len(calls)
              /\ Len(calls) < MaxTotal
    PROVE  IdInv'
<1>1. /\ Len(calls) \in Nat
      /\ Len(calls') = Len(calls) + 1
      /\ calls'[Len(calls) + 1] = call
      /\ \A c \in CallRefs : calls'[c] = calls[c]
  BY DEF PushCall, TypeOK, CallRefs
<1>2. ASSUME NEW c \in CallRefs' PROVE IdOrigin(c)'
  <2>1. CASE c \in CallRefs
    BY <1>1, <2>1 DEF IdInv, IdOrigin
  <2>2. CASE c = Len(calls) + 1
    BY <1>1, <2>2, LimitsAssumption DEF IdOrigin
  <2> QED
    BY <1>1, <1>2, <2>1, <2>2 DEF CallRefs
<1> QED
  BY <1>2 DEF IdInv

(* A method of one call keeps its id and its direction.                    *)
LEMMA OneCallKeepsIds ==
    ASSUME TypeOK, IdInv, NEW d \in CallRefs, NEW call,
           calls' = [calls EXCEPT ![d] = call],
           call.callId = calls[d].callId, call.incoming = calls[d].incoming
    PROVE  IdInv'
<1>1. /\ CallRefs' = CallRefs
      /\ \A c \in CallRefs : calls'[c] = IF c = d THEN call ELSE calls[c]
  BY DEF TypeOK, CallRefs
<1> QED
  BY <1>1 DEF IdInv, IdOrigin

(* The methods of Call change its state and cause only (call.cpp:28-98).   *)
LEMMA MethodsKeepId ==
    ASSUME NEW call \in CallObject, NEW cause, NEW s
    PROVE  /\ Released(call, cause).callId = call.callId
           /\ Released(call, cause).incoming = call.incoming
           /\ Answered(call).callId = call.callId
           /\ Answered(call).incoming = call.incoming
           /\ WithState(call, s).callId = call.callId
           /\ WithState(call, s).incoming = call.incoming
  BY DEF Released, Answered, WithState, CallObject

(* Every step keeps the numbering.                                         *)
LEMMA IdStep ==
    ASSUME TypeOK, ListInv, IdInv, [Next]_vars
    PROVE  IdInv'
<1>1. ASSUME NEW t \in Threads, StartOutgoingCall(t) PROVE IdInv'
  <2> DEFINE call == Setup(NewCall(totalCalls, FALSE))
  <2>1. PushCall(call) /\ Len(calls) < MaxTotal
    BY <1>1 DEF StartOutgoingCall, ListInv
  <2>2. ~call.incoming /\ call.callId = Len(calls)
    BY DEF Setup, NewCall, ListInv
  <2> HIDE DEF call
  <2> QED
    BY <2>1, <2>2, PushKeepsIds
<1>2. ASSUME NEW t \in Threads, NEW id \in AddedIds, NEW s \in ClientStates, AddCall(t, id, s)
      PROVE  IdInv'
  <2> DEFINE call == WithState(NewCall(id, TRUE), s)
  <2>1. PushCall(call)
    BY <1>2 DEF AddCall
  <2>2. call.incoming /\ call.callId \in AddedIds
    BY DEF WithState, NewCall
  <2> HIDE DEF call
  <2> QED
    BY <2>1, <2>2, PushKeepsIds
<1>3. ASSUME NEW t \in Threads, StopRelease(t) PROVE IdInv'
  <2>1. CASE calls' = calls
    BY <2>1 DEF IdInv, IdOrigin, CallRefs
  <2>2. CASE loop.pos <= Len(activeCalls)
    <3> DEFINE d == activeCalls[loop.pos]
               call == Released(calls[d], NormalCallClearing)
    <3>1. d \in CallRefs
      BY <2>2 DEF TypeOK, Loop
    <3>2. calls' = [calls EXCEPT ![d] = call]
      BY <1>3, <2>2 DEF StopRelease
    <3>3. call.callId = calls[d].callId /\ call.incoming = calls[d].incoming
      BY <3>1, CallsType, MethodsKeepId
    <3> HIDE DEF d, call
    <3> QED
      BY <3>1, <3>2, <3>3, OneCallKeepsIds
  <2> QED
    BY <1>3, <2>1, <2>2 DEF StopRelease
<1>4. ASSUME NEW c \in handles, CallAnswer(c) PROVE IdInv'
  <2>1. c \in CallRefs /\ calls[c] \in CallObject
    BY CallsType DEF TypeOK
  <2> QED
    BY <1>4, <2>1, MethodsKeepId, OneCallKeepsIds DEF CallAnswer
<1>5. ASSUME NEW c \in handles, NEW cause \in Causes, CallRelease(c, cause) PROVE IdInv'
  <2>1. c \in CallRefs /\ calls[c] \in CallObject
    BY CallsType DEF TypeOK
  <2> QED
    BY <1>5, <2>1, MethodsKeepId, OneCallKeepsIds DEF CallRelease
<1>6. ASSUME NEW c \in handles, NEW s \in ClientStates, CallSetState(c, s) PROVE IdInv'
  <2>1. c \in CallRefs /\ calls[c] \in CallObject
    BY CallsType DEF TypeOK
  <2> QED
    BY <1>6, <2>1, MethodsKeepId, OneCallKeepsIds DEF CallSetState
<1>7. ASSUME UNCHANGED calls PROVE IdInv'
  BY <1>7 DEF IdInv, IdOrigin, CallRefs
<1>8. ASSUME NEW t \in Threads,
             \/ Configure(t) \/ Query(t) \/ StopAllCalls(t) \/ StopMove(t)
             \/ StopEnd(t) \/ CallbackReturns(t)
             \/ \E i \in 1..Len(activeCalls) : RemoveCall(t, i)
      PROVE  IdInv'
  BY <1>7, <1>8
  DEF Configure, SetMaxCalls, SetCallStateCallback, StartListening, StopListening, Query,
      GetCall, GetActiveCalls, GetAllCalls, StopAllCalls, StopMove, StopEnd, CallbackReturns, RemoveCall
<1>9. CASE UNCHANGED vars
  BY <1>7, <1>9 DEF vars
<1> QED
  BY <1>1, <1>2, <1>3, <1>4, <1>5, <1>6, <1>8, <1>9 DEF Next, Enter, Continue, UseHandle

(* In lists without duplicates, the only call with an id is the first one  *)
(* with it, so getCall finds it.                                           *)
LEMMA UniqueIdResolves ==
    ASSUME TypeOK, ListInv, NEW c \in CallRefs,
           \A d \in CallRefs : calls[d].callId = calls[c].callId => d = c,
           NEW d \in CallRefs
    PROVE  GetCallReturns(calls[c].callId, d) <=> d = c
<1> DEFINE id == calls[c].callId
<1>1. /\ Len(calls) \in Nat
      /\ activeCalls \in Seq(1..Len(calls)) /\ Distinct(activeCalls)
      /\ completedCalls \in Seq(1..Len(calls)) /\ Distinct(completedCalls)
      /\ DOMAIN activeCalls = 1..Len(activeCalls)
      /\ DOMAIN completedCalls = 1..Len(completedCalls)
  BY DEF TypeOK, ListInv, CallRefs
<1>2. GetCallReturns(id, d) => d = c
  BY <1>1 DEF GetCallReturns, FirstWith
<1>3. ASSUME NEW list \in Seq(1..Len(calls)), Distinct(list), Holds(list, c)
      PROVE  \E i \in 1..Len(list) : FirstWith(list, i, id) /\ c = list[i]
  <2>1. /\ \A e \in 1..Len(calls) : calls[e].callId = id => e = c
        /\ calls[c].callId = id
    BY DEF CallRefs
  <2> HIDE DEF id
  <2>2. PICK i \in 1..Len(list) : list[i] = c
    BY <1>3 DEF Holds
  <2>3. ASSUME NEW j \in 1..(i - 1) PROVE calls[list[j]].callId # id
    <3>1. j \in 1..Len(list) /\ j # i
      BY <1>3
    <3>2. list[j] \in 1..Len(calls) /\ list[j] # c
      BY <1>3, <2>2, <3>1 DEF Distinct
    <3> QED
      BY <2>1, <3>2
  <2> QED
    BY <2>1, <2>2, <2>3 DEF FirstWith
<1>4. Holds(activeCalls, c) => GetCallReturns(id, c)
  BY <1>1, <1>3 DEF GetCallReturns
<1>5. ~Holds(activeCalls, c) => GetCallReturns(id, c)
  <2> SUFFICES ASSUME ~Holds(activeCalls, c) PROVE GetCallReturns(id, c)
    OBVIOUS
  <2>1. \A i \in DOMAIN activeCalls : calls[activeCalls[i]].callId # id
    BY <1>1 DEF Holds, CallRefs
  <2>2. \E i \in 1..Len(completedCalls) :
           FirstWith(completedCalls, i, id) /\ c = completedCalls[i]
    BY <1>1, <1>3 DEF ListInv
  <2> QED
    BY <1>1, <2>1, <2>2 DEF GetCallReturns
<1> QED
  BY <1>2, <1>4, <1>5

(* IssuedIdResolves: as long as clients add calls under ids of their own,  *)
(* the id startOutgoingCall returned names that call for ever, whichever   *)
(* of the two lists it is in (call_manager.cpp:56, 150-168).               *)
THEOREM IssuedIdsResolve ==
    ASSUME ReleasedCallbackKeepsList, AddedIdsDiffer
    PROVE  Spec => []IssuedIdResolves
<1>1. Init => IdInv
  BY EmptySeq DEF Init, IdInv, CallRefs
<1>2. ConservationInv /\ IdInv /\ [Next]_vars => IdInv'
  BY IdStep DEF ConservationInv
<1>3. ConservationInv /\ IdInv => IssuedIdResolves
  <2> SUFFICES ASSUME ConservationInv, IdInv, NEW c \in CallRefs, ~calls[c].incoming,
                      NEW d \in CallRefs
               PROVE  GetCallReturns(calls[c].callId, d) <=> d = c
    BY DEF IssuedIdResolves
  <2>1. calls[c].callId = c - 1 /\ c \in 1..MaxTotal
    BY DEF IdInv, IdOrigin, CallRefs, ConservationInv, TypeOK
  <2>2. ASSUME NEW e \in CallRefs, calls[e].callId = calls[c].callId PROVE e = c
    <3>1. CASE calls[e].incoming
      <4>1. c - 1 \in AddedIds
        BY <2>1, <2>2, <3>1 DEF IdInv, IdOrigin
      <4>2. c - 1 \in 0..(MaxTotal - 1)
        BY <2>1, LimitsAssumption
      <4> QED
        BY <4>1, <4>2, AddedIdsDiffer DEF AddedIdsDiffer
    <3>2. CASE ~calls[e].incoming
      BY <2>1, <2>2, <3>2 DEF IdInv, IdOrigin, CallRefs
    <3> QED
      BY <3>1, <3>2
  <2> QED
    BY <2>2, UniqueIdResolves DEF ConservationInv
<1> QED
  BY <1>1, <1>2, <1>3, ConservationInvariance, PTL DEF Spec
=============================================================================
