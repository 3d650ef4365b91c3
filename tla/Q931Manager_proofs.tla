------------------------- MODULE Q931Manager_proofs -------------------------
(***************************************************************************)
(* What holds of the Q931Manager for any number of threads and calls: the  *)
(* types, with the bound on the ids; that the callback sees the state it   *)
(* is told; and that an id is free when createOutgoingCall settles on it.  *)
(***************************************************************************)
EXTENDS Q931Manager, FiniteSetTheorems, TLAPS

(* createOutgoingCalls between their two steps.                            *)
Creating == {t \in Threads : pending[t] # None}

(* Every call in the map was created by one of the createOutgoingCalls     *)
(* that are done: that keeps the size of the map below the bound on ids.   *)
CreationsCounted ==
    /\ IsFiniteSet(Creating)
    /\ Cardinality(Present) + Cardinality(Creating) <= created

(* The callback is told of calls in the map only.                          *)
ToldOfPresent == \A id \in Ids : told[id] # "absent" => id \in Present

QInv ==
    /\ Q931TypeOK
    /\ CreationsCounted
    /\ ToldOfPresent
    /\ CallbackSeesItsState

(* The ids in use are those below the map's size.  A size that was read is *)
(* at most the size when its reader inserts, so that the insertion either  *)
(* hits an id in use or takes the first that is free, and leaves no gap.   *)
IdsInOrder ==
    /\ Present = 0..(Cardinality(Present) - 1)
    /\ \A t \in Threads : pending[t] # None => pending[t] <= Cardinality(Present)

-----------------------------------------------------------------------------
(* calls_ has a size.                                                      *)
LEMMA PresentFinite == IsFiniteSet(Present) /\ Cardinality(Present) \in Nat
<1>1. IsFiniteSet(Ids)
  BY QBoundAssumption, FS_Interval DEF Ids
<1>2. IsFiniteSet(Present)
  BY <1>1, FS_Subset DEF Present
<1> QED
  BY <1>2, FS_CardinalityType

(* The manager starts with an empty map.                                   *)
LEMMA InitInv == Init => QInv /\ IdsInOrder
<1> SUFFICES ASSUME Init PROVE QInv /\ IdsInOrder
  OBVIOUS
<1> USE DEF Init
<1>1. Q931TypeOK
  <2>1. None \notin Ids
    BY QBoundAssumption DEF Ids, None
  <2>2. 0 \in 0..MaxCreated
    BY QBoundAssumption
  <2> QED
    BY <2>1, <2>2 DEF Q931TypeOK, States
<1>2. Present = {} /\ Creating = {}
  BY DEF Present, Creating
<1>3. CreationsCounted
  BY <1>2, FS_EmptySet DEF CreationsCounted
<1>4. ToldOfPresent /\ CallbackSeesItsState
  BY DEF ToldOfPresent, CallbackSeesItsState
<1>5. IdsInOrder
  BY <1>2, FS_EmptySet DEF IdsInOrder
<1> QED
  BY <1>1, <1>3, <1>4, <1>5 DEF QInv

-----------------------------------------------------------------------------
(* The size is read: one more creation is under way, and its id is none    *)
(* that is in use.                                                         *)
LEMMA ReadsSizeStep ==
    ASSUME QInv, IdsInOrder, NEW t \in Threads, CreateReadsSize(t)
    PROVE  QInv' /\ IdsInOrder' /\ pending'[t] \notin Present'
<1> DEFINE n == Cardinality(Present)
<1>0. /\ pending \in [Threads -> Ids \cup {None}] /\ created \in 0..MaxCreated
      /\ IsFiniteSet(Creating) /\ n + Cardinality(Creating) <= created
      /\ n \in Nat /\ Cardinality(Creating) \in Nat /\ MaxCreated \in Nat
  BY PresentFinite, QBoundAssumption, FS_CardinalityType DEF QInv, Q931TypeOK, CreationsCounted
<1>1. /\ pending[t] = None /\ created < MaxCreated
      /\ pending' = [pending EXCEPT ![t] = n]
      /\ created' = created + 1
      /\ UNCHANGED <<infos, stateCallback, owner, inCallback, told>>
  BY DEF CreateReadsSize
<1>2. n \in Ids
  <2>1. n <= MaxCreated - 1
    BY <1>0, <1>1
  <2> QED
    BY <1>0, <2>1 DEF Ids
<1>3. Q931TypeOK'
  BY <1>0, <1>1, <1>2 DEF QInv, Q931TypeOK
<1>4. Present' = Present
  BY <1>1 DEF Present
<1>5. CreationsCounted'
  <2>1. n # None
    BY <1>0 DEF None
  <2>2. Creating' = Creating \cup {t} /\ t \notin Creating
    BY <1>0, <1>1, <2>1 DEF Creating
  <2>3. IsFiniteSet(Creating') /\ Cardinality(Creating') = Cardinality(Creating) + 1
    BY <1>0, <2>2, FS_AddElement
  <2>4. Cardinality(Present') + Cardinality(Creating') <= created'
    BY <1>0, <1>1, <1>4, <2>3
  <2> QED
    BY <2>3, <2>4 DEF CreationsCounted
<1>6. ToldOfPresent' /\ CallbackSeesItsState'
  BY <1>1, <1>4 DEF QInv, ToldOfPresent, CallbackSeesItsState
<1>7. IdsInOrder'
  <2>1. Present' = 0..(Cardinality(Present') - 1)
    BY <1>4 DEF IdsInOrder
  <2>2. ASSUME NEW r \in Threads, pending'[r] # None PROVE pending'[r] <= Cardinality(Present')
    BY <1>0, <1>1, <1>4, <2>2 DEF IdsInOrder
  <2> QED
    BY <2>1, <2>2 DEF IdsInOrder
<1>8. pending'[t] \notin Present'
  <2>1. pending'[t] = n /\ Present' = 0..(n - 1)
    BY <1>0, <1>1, <1>4 DEF IdsInOrder
  <2> QED
    BY <1>0, <2>1
<1> QED
  BY <1>3, <1>5, <1>6, <1>7, <1>8 DEF QInv

(* What is inserted is the id that was read: one in use, or the first that *)
(* is free.                                                                *)
LEMMA InsertsStep ==
    ASSUME QInv, IdsInOrder, NEW t \in Threads, CreateInserts(t)
    PROVE  QInv' /\ IdsInOrder'
<1> DEFINE n == Cardinality(Present)
           id == pending[t]
<1>0. /\ pending \in [Threads -> Ids \cup {None}] /\ created \in 0..MaxCreated
      /\ infos \in [Ids -> States]
      /\ IsFiniteSet(Creating) /\ n + Cardinality(Creating) <= created
      /\ n \in Nat /\ Cardinality(Creating) \in Nat /\ MaxCreated \in Nat
      /\ IsFiniteSet(Present)
  BY PresentFinite, QBoundAssumption, FS_CardinalityType DEF QInv, Q931TypeOK, CreationsCounted
<1>1. /\ pending[t] # None /\ owner = NoThread
      /\ infos' = [infos EXCEPT ![id] = "CALL_INITIATED"]
      /\ pending' = [pending EXCEPT ![t] = None]
      /\ UNCHANGED <<stateCallback, owner, inCallback, created, told>>
  BY DEF CreateInserts
<1>2. id \in Ids
  BY <1>0, <1>1
<1>3. inCallback = None
  BY <1>1 DEF QInv, Q931TypeOK
<1>4. Q931TypeOK'
  BY <1>0, <1>1, <1>2 DEF QInv, Q931TypeOK, States
<1>5. Present' = Present \cup {id}
  BY <1>0, <1>1, <1>2 DEF Present
<1>6. Cardinality(Present') = IF id \in Present THEN n ELSE n + 1
  BY <1>0, <1>5, FS_AddElement
<1>7. CreationsCounted'
  <2>1. Creating' = Creating \ {t} /\ t \in Creating
    BY <1>0, <1>1 DEF Creating
  <2>2. IsFiniteSet(Creating') /\ Cardinality(Creating') = Cardinality(Creating) - 1
    BY <1>0, <2>1, FS_RemoveElement
  <2>3. Cardinality(Present') \in Nat /\ Cardinality(Present') <= n + 1
    BY <1>0, <1>6
  <2>4. Cardinality(Present') + Cardinality(Creating') <= created'
    BY <1>0, <1>1, <2>2, <2>3
  <2> QED
    BY <2>2, <2>4 DEF CreationsCounted
<1>8. ToldOfPresent'
  BY <1>1, <1>5 DEF QInv, ToldOfPresent
<1>9. CallbackSeesItsState'
  BY <1>1, <1>3 DEF CallbackSeesItsState
<1>10. id \in Nat /\ id <= n /\ Present = 0..(n - 1)
  BY <1>1, <1>2 DEF IdsInOrder, Ids
<1>11. Present' = 0..(Cardinality(Present') - 1)
  <2>1. CASE id < n
    <3>1. id \in Present
      BY <1>0, <1>10, <2>1
    <3>2. Present' = Present /\ Cardinality(Present') = n
      BY <1>5, <1>6, <3>1
    <3> QED
      BY <1>10, <3>2
  <2>2. CASE id = n
    <3>1. id \notin Present
      BY <1>0, <1>10, <2>2
    <3>2. Cardinality(Present') = n + 1
      BY <1>6, <3>1
    <3>3. 0..((n + 1) - 1) = 0..(n - 1) \cup {n}
      BY <1>0
    <3> QED
      BY <1>5, <1>10, <2>2, <3>2, <3>3
  <2> QED
    BY <1>0, <1>10, <2>1, <2>2
<1>12. ASSUME NEW r \in Threads, pending'[r] # None PROVE pending'[r] <= Cardinality(Present')
  <2>1. pending'[r] = pending[r] /\ pending[r] # None
    BY <1>0, <1>1, <1>12
  <2>2. pending[r] <= n /\ pending[r] \in Int
    BY <1>0, <2>1, QBoundAssumption DEF IdsInOrder, Ids
  <2>3. Cardinality(Present') \in Nat /\ n <= Cardinality(Present')
    BY <1>0, <1>6
  <2> QED
    BY <1>0, <2>1, <2>2, <2>3
<1> QED
  BY <1>4, <1>7, <1>8, <1>9, <1>11, <1>12 DEF QInv, IdsInOrder

(* A method that gives a call of the map a new state, and may tell.        *)
LEMMA ChangesStateStep ==
    ASSUME QInv, NEW t \in Threads, NEW id \in Present, NEW state \in States,
           state # "absent", owner = NoThread,
           infos' = [infos EXCEPT ![id] = state],
           \/ UpdateCallState(t, id, state)
           \/ UNCHANGED <<owner, inCallback, told>>,
           UNCHANGED <<stateCallback, pending, created>>
    PROVE  /\ QInv'
           /\ Present' = Present
<1>0. /\ infos \in [Ids -> States] /\ told \in [Ids -> States] /\ id \in Ids
      /\ inCallback = None
  BY DEF QInv, Q931TypeOK, Present
<1>1. id # None
  BY <1>0 DEF Ids, None
<1>2. t # NoThread
  BY QThreadsAssumption
<1>3. Present' = Present
  BY <1>0 DEF Present
<1>4. Q931TypeOK'
  BY <1>0, <1>1, <1>2 DEF QInv, Q931TypeOK, UpdateCallState
<1>5. CreationsCounted'
  <2>1. Creating' = Creating
    BY DEF Creating
  <2> QED
    BY <1>3, <2>1 DEF QInv, CreationsCounted
<1>6. ToldOfPresent'
  BY <1>0, <1>3 DEF QInv, ToldOfPresent, UpdateCallState
<1>7. CallbackSeesItsState'
  BY <1>0, <1>1 DEF CallbackSeesItsState, UpdateCallState
<1> QED
  BY <1>3, <1>4, <1>5, <1>6, <1>7 DEF QInv

(* The steps that leave the map, the ids and what was told alone.          *)
LEMMA QuietStep ==
    ASSUME QInv, UNCHANGED <<infos, pending, created, told>>,
           \/ UNCHANGED <<owner, inCallback>> /\ stateCallback' \in BOOLEAN
           \/ owner' = NoThread /\ inCallback' = None /\ UNCHANGED stateCallback
    PROVE  /\ QInv'
           /\ Present' = Present
<1>1. Present' = Present /\ Creating' = Creating
  BY DEF Present, Creating
<1>2. Q931TypeOK'
  BY DEF QInv, Q931TypeOK
<1> QED
  BY <1>1, <1>2 DEF QInv, CreationsCounted, ToldOfPresent, CallbackSeesItsState

-----------------------------------------------------------------------------
(* A step of a thread that uses calls.                                     *)
LEMMA UseCallStep ==
    ASSUME QInv, NEW t \in Threads, UseCall(t)
    PROVE  QInv' /\ Present' = Present /\ pending' = pending
<1>1. ASSUME NEW id \in Ids, AnswerCall(t, id) \/ RejectCall(t, id) \/ ReleaseCall(t, id)
      PROVE  QInv' /\ Present' = Present /\ pending' = pending
  <2>1. PICK state \in {"CALL_ACTIVE", "RELEASE_COMPLETE"} :
           /\ infos' = [infos EXCEPT ![id] = state]
           /\ \/ UpdateCallState(t, id, state)
              \/ UNCHANGED <<owner, inCallback, told>>
    BY <1>1 DEF AnswerCall, RejectCall, ReleaseCall
  <2>2. /\ id \in Present /\ owner = NoThread
        /\ UNCHANGED <<stateCallback, pending, created>>
    BY <1>1 DEF AnswerCall, RejectCall, ReleaseCall, MayEnter
  <2>3. QInv' /\ Present' = Present
    BY <2>1, <2>2, ChangesStateStep DEF States
  <2> QED
    BY <2>2, <2>3
<1>2. ASSUME NEW callback \in BOOLEAN, SetCallStateCallback(t, callback)
      PROVE  QInv' /\ Present' = Present /\ pending' = pending
  BY <1>2, QuietStep DEF SetCallStateCallback
<1> QED
  BY <1>1, <1>2 DEF UseCall

(* What a step keeps, and that an id it settles on is free.                *)
LEMMA NextInv ==
    ASSUME QInv, IdsInOrder, [Next]_vars
    PROVE  /\ QInv' /\ IdsInOrder'
           /\ \A t \in Threads :
                 pending[t] = None /\ pending'[t] # None => pending'[t] \notin Present
<1> DEFINE Free == \A t \in Threads :
                     pending[t] = None /\ pending'[t] # None => pending'[t] \notin Present
<1>0. pending \in [Threads -> Ids \cup {None}]
  BY DEF QInv, Q931TypeOK
<1>1. ASSUME NEW t \in Threads, CreateReadsSize(t) PROVE QInv' /\ IdsInOrder' /\ Free
  <2>1. QInv' /\ IdsInOrder' /\ pending'[t] \notin Present'
    BY <1>1, ReadsSizeStep
  <2>2. Present' = Present /\ \A r \in Threads \ {t} : pending'[r] = pending[r]
    BY <1>0, <1>1 DEF CreateReadsSize, Present
  <2> QED
    BY <2>1, <2>2
<1>2. ASSUME NEW t \in Threads, CreateInserts(t) PROVE QInv' /\ IdsInOrder' /\ Free
  <2>1. QInv' /\ IdsInOrder'
    BY <1>2, InsertsStep
  <2>2. \A r \in Threads : pending'[r] = pending[r] \/ pending'[r] = None
    BY <1>0, <1>2 DEF CreateInserts
  <2> QED
    BY <2>1, <2>2
<1>3. ASSUME QInv', Present' = Present, pending' = pending PROVE QInv' /\ IdsInOrder' /\ Free
  BY <1>3 DEF IdsInOrder
<1>4. ASSUME NEW t \in Threads, UseCall(t) PROVE QInv' /\ IdsInOrder' /\ Free
  BY <1>3, <1>4, UseCallStep
<1>5. ASSUME NEW t \in Threads, CallbackReturns(t) PROVE QInv' /\ IdsInOrder' /\ Free
  <2>1. QInv' /\ Present' = Present /\ pending' = pending
    BY <1>5, QuietStep DEF CallbackReturns
  <2> QED
    BY <1>3, <2>1
<1>6. CASE UNCHANGED vars
  <2>1. QInv' /\ Present' = Present /\ pending' = pending
    BY <1>6, QuietStep DEF vars, QInv, Q931TypeOK
  <2> QED
    BY <1>3, <2>1
<1> QED
  BY <1>1, <1>2, <1>4, <1>5, <1>6 DEF Next

(* What every step keeps always holds.                                     *)
LEMMA Invariance == Spec => [](QInv /\ IdsInOrder)
<1>1. QInv /\ IdsInOrder /\ [Next]_vars => QInv' /\ IdsInOrder'
  BY NextInv
<1> QED
  BY <1>1, InitInv, PTL DEF Spec

-----------------------------------------------------------------------------
(* All variables keep their types; in particular an id that is read from   *)
(* the map's size stays below the number of creations (q931.cpp:20).       *)
THEOREM Q931TypeCorrect == Spec => []Q931TypeOK
<1>1. QInv => Q931TypeOK
  BY DEF QInv
<1> QED
  BY <1>1, Invariance, PTL

(* The callback finds in the map what it is told (q931.cpp:46-47, 80-82).  *)
THEOREM CallbackConsistent == Spec => []CallbackSeesItsState
<1>1. QInv => CallbackSeesItsState
  BY DEF QInv
<1> QED
  BY <1>1, Invariance, PTL

(* However many threads create calls, the id a createOutgoingCall settles  *)
(* on is that of no call in the map (q931.cpp:20, 74-83): a call it        *)
(* overwrites (q931.cpp:30) was created after that.                        *)
THEOREM ChosenUnused == Spec => ChosenIdUnused
<1>1. QInv /\ IdsInOrder /\ [Next]_vars =>
         [\A t \in Threads :
             pending[t] = None /\ pending'[t] # None => pending'[t] \notin Present]_vars
  BY NextInv
<1> QED
  BY <1>1, Invariance, PTL DEF Spec, ChosenIdUnused
=============================================================================
