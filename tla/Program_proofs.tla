--------------------------- MODULE Program_proofs ---------------------------
(***************************************************************************)
(* What the Logger promises holds of the program, for every set of command *)
(* lines, any number of signals, and wherever they are delivered.  First,  *)
(* of the Logger whatever a program does with it: its invariant, that it   *)
(* implements LogStream, and that its entries stay in order.               *)
(***************************************************************************)
EXTENDS Program, CliParser_proofs, SequenceTheorems

(* Whatever a program may do with the Logger.                              *)
LoggerNext ==
    \/ \E newLevel \in {"INFO", "NONE"}, file \in {"none", "open"} : Setup(newLevel, file)
    \/ \E f \in Frames : LogCall(f) \/ LogStep(f)
    \/ WorkerStep
    \/ ShutdownBegin \/ ShutdownStep

(* The inductive invariant.  A worker that has not left runs with running_ *)
(* set; one that has left was asked to, with everything due printed; the   *)
(* file and the join come after that; and what is due is among what was    *)
(* accepted.                                                               *)
WorkerLeftInTime ==
    worker = "exited" => stopRequested /\ Len(written) >= due

ShutdownInOrder ==
    /\ worker \notin {"none", "exited"} => running
    /\ joined => worker = "exited"
    /\ closing = "close" \/ logFile = "closed" => joined

DueAccepted == stopRequested => due <= Len(written) + Len(Pending)

LInv == LoggerTypeOK /\ WorkerLeftInTime /\ ShutdownInOrder /\ DueAccepted

-----------------------------------------------------------------------------
(* Sequences of entries, as Pending combines them.                         *)
LEMMA PendingAppend ==
    ASSUME NEW S, NEW a \in S, NEW q \in Seq(S), NEW e \in S
    PROVE  <<a>> \o Append(q, e) = Append(<<a>> \o q, e)
OBVIOUS

(* The entry in hand comes first.                                          *)
LEMMA PendingHead ==
    ASSUME NEW S, NEW a \in S, NEW q \in Seq(S)
    PROVE  /\ <<a>> \o q \in Seq(S) /\ <<a>> \o q # <<>>
           /\ Len(<<a>> \o q) = Len(q) + 1
           /\ Head(<<a>> \o q) = a /\ Tail(<<a>> \o q) = q
OBVIOUS

(* Popping moves the first entry of the queue into the hand.               *)
LEMMA PendingPop ==
    ASSUME NEW S, NEW q \in Seq(S), q # <<>>
    PROVE  /\ Head(q) \in S /\ Tail(q) \in Seq(S)
           /\ <<Head(q)>> \o Tail(q) = q
OBVIOUS

(* Pending, with and without an entry in hand.                             *)
LEMMA PendingCases ==
    ASSUME LoggerTypeOK
    PROVE  /\ Pending \in Seq(Entries)
           /\ worker # "write" => Pending = queue
           /\ worker = "write" => /\ Pending # <<>> /\ Len(Pending) = Len(queue) + 1
                                  /\ Head(Pending) = inHand /\ Tail(Pending) = queue
<1>1. CASE worker = "write"
  BY <1>1, PendingHead DEF Pending, LoggerTypeOK
<1>2. CASE worker # "write"
  BY <1>2 DEF Pending, LoggerTypeOK
<1> QED
  BY <1>1, <1>2
-----------------------------------------------------------------------------
(* A step that prints nothing, accepts nothing and stops nothing.          *)
LEMMA QuietStep ==
    ASSUME LInv, LoggerTypeOK',
           UNCHANGED <<written, stopRequested, due, joined>>,
           Pending' = Pending
    PROVE  /\ DueAccepted'
           /\ UNCHANGED Stream!streamVars
BY DEF LInv, DueAccepted, Stream!streamVars

StreamStep == Stream!StreamNext \/ UNCHANGED Stream!streamVars

(* instance() and init(); a log() of a dropped entry is no more.           *)
LEMMA SetupStep ==
    ASSUME LInv, NEW newLevel \in {"INFO", "NONE"}, NEW file \in {"none", "open"},
           Setup(newLevel, file)
    PROVE  LInv' /\ StreamStep
<1> USE DEF Setup, Instance, closingVars, logVars
<1>1. LoggerTypeOK'
  BY DEF LInv, LoggerTypeOK, Entries
<1>2. Pending' = Pending
  BY DEF Pending
<1>3. WorkerLeftInTime' /\ ShutdownInOrder'
  BY DEF LInv, WorkerLeftInTime, ShutdownInOrder
<1> QED
  BY <1>1, <1>2, <1>3, QuietStep DEF LInv, StreamStep

(* log() is entered, or returns at once because of the level.              *)
LEMMA LogCallStep ==
    ASSUME LInv, NEW f \in Frames, LogCall(f)
    PROVE  LInv' /\ StreamStep
<1> USE DEF LogCall, Instance, closingVars, settings
<1>1. LoggerTypeOK'
  BY LoggerArgsAssumption DEF LInv, LoggerTypeOK, Entries
<1>2. Pending' = Pending
  BY DEF Pending
<1>3. WorkerLeftInTime' /\ ShutdownInOrder'
  BY DEF LInv, WorkerLeftInTime, ShutdownInOrder
<1> QED
  BY <1>1, <1>2, <1>3, QuietStep DEF LInv, StreamStep

(* log() at the queue: the push accepts the entry.                         *)
LEMMA LogLockStep ==
    ASSUME LInv, NEW f \in Frames, LogLock(f) \/ LogNotify(f)
    PROVE  LInv' /\ StreamStep
<1> USE DEF LogLock, LogNotify, Notify, closingVars, settings
<1>0. notified' \in BOOLEAN
  BY DEF LInv, LoggerTypeOK
<1>1. LoggerTypeOK'
  <2>1. CASE LogLock(f)
    BY <2>1, <1>0, LoggerArgsAssumption DEF LInv, LoggerTypeOK, Entries
  <2>2. CASE LogNotify(f)
    BY <2>2, <1>0, LoggerArgsAssumption DEF LInv, LoggerTypeOK, Entries
  <2> QED
    BY <2>1, <2>2
<1>2. Pending' = Pending
  BY DEF Pending
<1>3. WorkerLeftInTime' /\ ShutdownInOrder'
  BY DEF LInv, WorkerLeftInTime, ShutdownInOrder
<1> QED
  BY <1>1, <1>2, <1>3, QuietStep DEF LInv, StreamStep

(* The push is where an entry is accepted.                                 *)
LEMMA LogPushStep ==
    ASSUME LInv, NEW f \in Frames, LogPush(f)
    PROVE  LInv' /\ StreamStep
<1> USE DEF LogPush, closingVars, settings
<1> DEFINE entry == <<f, accepted[f] + 1>>
<1>0. entry \in Entries /\ queue \in Seq(Entries)
  BY DEF LInv, LoggerTypeOK, Entries
<1>1. LoggerTypeOK'
  BY <1>0, LoggerArgsAssumption DEF LInv, LoggerTypeOK
<1>2. Pending' = Append(Pending, entry)
  <2>1. CASE worker = "write"
    BY <1>0, <2>1, PendingAppend DEF LInv, LoggerTypeOK, Pending
  <2>2. CASE worker # "write"
    BY <1>0, <2>2 DEF Pending
  <2> QED
    BY <2>1, <2>2
<1>3. Pending \in Seq(Entries)
  BY PendingCases DEF LInv
<1>4. WorkerLeftInTime' /\ ShutdownInOrder'
  BY DEF LInv, WorkerLeftInTime, ShutdownInOrder
<1>5. Len(Pending') = Len(Pending) + 1 /\ Pending'[Len(Pending')] = entry
  BY <1>0, <1>2, <1>3
<1>6. DueAccepted'
  BY <1>3, <1>5 DEF LInv, LoggerTypeOK, DueAccepted
<1>7. Stream!Accept
  BY <1>0, <1>2, <1>5 DEF Stream!Accept
<1> QED
  BY <1>1, <1>4, <1>6, <1>7 DEF LInv, StreamStep, Stream!StreamNext

-----------------------------------------------------------------------------
(* backgroundThread: the steps that move no entry ...                      *)
LEMMA WorkerQuietStep ==
    ASSUME LInv, UNCHANGED <<running, settings, closingVars, logVars>>,
           \/ WorkerTest \/ WorkerLock \/ WorkerCheck \/ WorkerSleep
           \/ WorkerNotified \/ WorkerTimesOut \/ WorkerRelock \/ WorkerLeave
    PROVE  LInv' /\ StreamStep
<1> USE DEF WorkerTest, WorkerLock, WorkerCheck, WorkerSleep, WorkerNotified,
            WorkerTimesOut, WorkerRelock, WorkerLeave, WorkerLocks,
            settings, closingVars, logVars
<1>1. LoggerTypeOK'
  <2>1. CASE WorkerTest \/ WorkerCheck
    BY <2>1, LoggerArgsAssumption DEF LInv, LoggerTypeOK, Entries
  <2>2. CASE WorkerLock \/ WorkerNotified \/ WorkerTimesOut \/ WorkerRelock
    BY <2>2, LoggerArgsAssumption DEF LInv, LoggerTypeOK, Entries
  <2>3. CASE WorkerSleep \/ WorkerLeave
    BY <2>3, LoggerArgsAssumption DEF LInv, LoggerTypeOK, Entries
  <2> QED
    BY <2>1, <2>2, <2>3
<1>2. Pending' = Pending
  BY DEF Pending
<1>3. WorkerLeftInTime'
  <2>1. CASE worker = "drain" /\ queue = <<>> /\ stopRequested
    <3>1. Pending = <<>>
      BY <2>1, PendingCases DEF LInv
    <3> QED
      BY <2>1, <3>1 DEF LInv, LoggerTypeOK, WorkerLeftInTime, DueAccepted
  <2>2. CASE ~(worker = "drain" /\ queue = <<>> /\ stopRequested)
    BY <2>2 DEF LInv, WorkerLeftInTime, ShutdownInOrder
  <2> QED
    BY <2>1, <2>2
<1>4. ShutdownInOrder'
  BY DEF LInv, ShutdownInOrder
<1> QED
  BY <1>1, <1>2, <1>3, <1>4, QuietStep DEF LInv, StreamStep

(* ... and the two that do.                                                *)
LEMMA WorkerPopStep ==
    ASSUME LInv, UNCHANGED <<running, settings, closingVars, logVars>>, WorkerPop
    PROVE  LInv' /\ StreamStep
<1> USE DEF WorkerPop, settings, closingVars, logVars
<1>0. Head(queue) \in Entries /\ Tail(queue) \in Seq(Entries)
      /\ <<Head(queue)>> \o Tail(queue) = queue
  BY PendingPop DEF LInv, LoggerTypeOK
<1>1. LoggerTypeOK'
  BY <1>0, LoggerArgsAssumption DEF LInv, LoggerTypeOK
<1>2. Pending' = Pending
  BY <1>0, PendingCases DEF LInv, Pending
<1>3. WorkerLeftInTime' /\ ShutdownInOrder'
  BY DEF LInv, WorkerLeftInTime, ShutdownInOrder
<1> QED
  BY <1>1, <1>2, <1>3, QuietStep DEF LInv, StreamStep

(* The entry in hand is the first that is pending; printing outputs it.    *)
LEMMA WorkerWriteStep ==
    ASSUME LInv, UNCHANGED <<running, settings, closingVars, logVars>>, WorkerWrite
    PROVE  LInv' /\ StreamStep
<1> USE DEF WorkerWrite, settings, closingVars, logVars
<1>0. inHand \in Entries /\ written \in Seq(Entries) /\ queue \in Seq(Entries)
  BY DEF LInv, LoggerTypeOK
<1>1. LoggerTypeOK'
  BY <1>0, LoggerArgsAssumption DEF LInv, LoggerTypeOK
<1>2. /\ Pending' = queue /\ Pending # <<>> /\ Len(Pending) = Len(queue) + 1
      /\ Head(Pending) = inHand /\ Tail(Pending) = queue
  BY <1>1, PendingCases DEF LInv, Pending, LoggerTypeOK
<1>3. WorkerLeftInTime' /\ ShutdownInOrder'
  BY DEF LInv, WorkerLeftInTime, ShutdownInOrder
<1>4. Len(written') = Len(written) + 1
  BY <1>0
<1>5. DueAccepted'
  BY <1>0, <1>2, <1>4 DEF LInv, LoggerTypeOK, DueAccepted
<1>6. Stream!Output
  BY <1>2 DEF Stream!Output
<1> QED
  BY <1>1, <1>3, <1>5, <1>6 DEF LInv, StreamStep, Stream!StreamNext

-----------------------------------------------------------------------------
(* shutdown()                                                              *)
LEMMA ShutdownBeginStep ==
    ASSUME LInv, ShutdownBegin
    PROVE  LInv' /\ StreamStep
<1> USE DEF ShutdownBegin, workerVars, settings, logVars
<1>0. /\ Pending \in Seq(Entries) /\ Pending' = Pending
      /\ Len(written) \in Nat /\ Len(Pending) \in Nat
  BY PendingCases DEF LInv, LoggerTypeOK, Pending
<1>1. due' \in Nat
  BY <1>0 DEF LInv, LoggerTypeOK
<1>2. LoggerTypeOK'
  BY <1>1 DEF LInv, LoggerTypeOK, Entries
<1>3. WorkerLeftInTime'
  BY DEF LInv, WorkerLeftInTime
<1>4. ShutdownInOrder' /\ DueAccepted'
  BY <1>0 DEF LInv, ShutdownInOrder, DueAccepted
<1>5. StreamStep
  BY <1>0 DEF StreamStep, Stream!StreamNext, Stream!Stop, Stream!streamVars, LInv, LoggerTypeOK
<1> QED
  BY <1>2, <1>3, <1>4, <1>5 DEF LInv

(* shutdown joins the worker before it closes the file.                    *)
LEMMA ShutdownGoesOn ==
    ASSUME LInv, ShutdownStep
    PROVE  LInv' /\ StreamStep
<1> USE DEF workerVars, settings, logVars
<1>1. CASE ShutdownNotify \/ ShutdownClose
  <2> USE <1>1 DEF ShutdownNotify, Notify, ShutdownClose
  <2>0. notified' \in BOOLEAN
    BY DEF LInv, LoggerTypeOK
  <2>1. LoggerTypeOK'
    <3>1. CASE ShutdownNotify
      BY <2>0, <3>1 DEF LInv, LoggerTypeOK, Entries
    <3>2. CASE ShutdownClose
      BY <2>0, <3>2 DEF LInv, LoggerTypeOK, Entries
    <3> QED
      BY <3>1, <3>2
  <2>2. Pending' = Pending
    BY DEF Pending
  <2>3. WorkerLeftInTime' /\ ShutdownInOrder'
    BY DEF LInv, WorkerLeftInTime, ShutdownInOrder
  <2> QED
    BY <2>1, <2>2, <2>3, QuietStep DEF LInv, StreamStep
<1>2. CASE ShutdownJoin
  <2> USE <1>2 DEF ShutdownJoin
  <2>1. LoggerTypeOK'
    BY DEF LInv, LoggerTypeOK, Entries
  <2>2. Pending' = Pending
    BY DEF Pending
  <2>3. worker = "exited" /\ stopRequested /\ Len(written) >= due
    BY DEF LInv, WorkerLeftInTime, ShutdownInOrder
  <2>4. WorkerLeftInTime' /\ ShutdownInOrder' /\ DueAccepted'
    BY <2>2, <2>3 DEF LInv, WorkerLeftInTime, ShutdownInOrder, DueAccepted
  <2>5. Stream!Close
    BY <2>2, <2>3 DEF Stream!Close
  <2> QED
    BY <2>1, <2>4, <2>5 DEF LInv, StreamStep, Stream!StreamNext
<1> QED
  BY <1>1, <1>2 DEF ShutdownStep

-----------------------------------------------------------------------------
(* Every step of the Logger keeps the invariant, and is one of LogStream.  *)
LEMMA LoggerInitInv == LoggerInit => LInv /\ Stream!StreamInit
<1> SUFFICES ASSUME LoggerInit PROVE LInv /\ Stream!StreamInit
  OBVIOUS
<1> USE DEF LoggerInit
<1>1. LoggerTypeOK
  <2>1. phase \in [Frames -> {"idle", "lock", "push", "notify"}] /\ accepted \in [Frames -> Nat]
    OBVIOUS
  <2>2. queueMutex = "worker" <=> worker \in {"check", "sleep", "drain"}
    OBVIOUS
  <2>3. \A f \in Frames : queueMutex = f <=> phase[f] = "push"
    BY LoggerArgsAssumption
  <2>4. queue \in Seq(Entries) /\ written \in Seq(Entries)
    OBVIOUS
  <2> QED
    BY <2>1, <2>2, <2>3, <2>4 DEF LoggerTypeOK
<1>2. Pending = <<>>
  BY <1>1, PendingCases
<1>3. WorkerLeftInTime /\ ShutdownInOrder /\ DueAccepted
  BY DEF WorkerLeftInTime, ShutdownInOrder, DueAccepted
<1> QED
  BY <1>1, <1>2, <1>3 DEF LInv, Stream!StreamInit

(* Every use of the Logger keeps the invariant and is a step of the stream. *)
LEMMA LoggerNextInv ==
    ASSUME LInv, [LoggerNext]_loggerVars
    PROVE  LInv' /\ StreamStep
<1>1. CASE UNCHANGED loggerVars
  <2> USE <1>1 DEF loggerVars
  <2>1. LoggerTypeOK'
    BY DEF LInv, LoggerTypeOK, Entries
  <2>2. Pending' = Pending
    BY DEF Pending
  <2>3. WorkerLeftInTime' /\ ShutdownInOrder'
    BY DEF LInv, WorkerLeftInTime, ShutdownInOrder
  <2> QED
    BY <2>1, <2>2, <2>3, QuietStep DEF LInv, StreamStep
<1>2. CASE \E newLevel \in {"INFO", "NONE"}, file \in {"none", "open"} : Setup(newLevel, file)
  BY <1>2, SetupStep
<1>3. CASE \E f \in Frames : LogCall(f) \/ LogStep(f)
  BY <1>3, LogCallStep, LogLockStep, LogPushStep DEF LogStep
<1>4. CASE WorkerStep
  BY <1>4, WorkerQuietStep, WorkerPopStep, WorkerWriteStep DEF WorkerStep
<1>5. CASE ShutdownBegin \/ ShutdownStep
  BY <1>5, ShutdownBeginStep, ShutdownGoesOn
<1> QED
  BY <1>1, <1>2, <1>3, <1>4, <1>5 DEF LoggerNext

(* What the invariant says of the worker and the file.                     *)
LEMMA LInvImplies == LInv => WorkerGoneBeforeClose /\ DrainedBeforeClose
BY DEF LInv, WorkerLeftInTime, ShutdownInOrder, WorkerGoneBeforeClose, DrainedBeforeClose,
       LoggerTypeOK

-----------------------------------------------------------------------------
(* The last entry of a longer sequence, and the others.                    *)
LEMMA LongerSequence ==
    ASSUME NEW S, NEW s \in Seq(S), NEW e \in S
    PROVE  /\ Append(s, e) \in Seq(S)
           /\ Len(Append(s, e)) = Len(s) + 1
           /\ \A i \in 1..Len(s) : Append(s, e)[i] = s[i]
           /\ Append(s, e)[Len(s) + 1] = e
OBVIOUS

(* What is in a sequence, by its places.                                   *)
LEMMA RangeByPlaces ==
    ASSUME NEW S, NEW s \in Seq(S)
    PROVE  /\ \A i \in 1..Len(s) : s[i] \in Range(s) /\ s[i] \in S
           /\ \A x \in Range(s) : \E i \in 1..Len(s) : x = s[i]
<1>1. DOMAIN s = 1..Len(s) /\ \A i \in 1..Len(s) : s[i] \in S
  OBVIOUS
<1> QED
  BY <1>1, Zenon DEF Range

(* One entry more in it.                                                   *)
LEMMA RangeOfLonger ==
    ASSUME NEW S, NEW s \in Seq(S), NEW e \in S
    PROVE  Range(Append(s, e)) = Range(s) \cup {e}
<1> DEFINE t == Append(s, e)
<1>1. /\ t \in Seq(S) /\ Len(t) = Len(s) + 1 /\ Len(s) \in Nat
      /\ \A i \in 1..Len(s) : t[i] = s[i]
      /\ t[Len(s) + 1] = e
  BY LongerSequence
<1>2. /\ \A x \in Range(s) : \E i \in 1..Len(s) : x = s[i]
      /\ \A i \in 1..Len(s) : s[i] \in Range(s)
  BY RangeByPlaces
<1>3. /\ \A x \in Range(t) : \E i \in 1..Len(t) : x = t[i]
      /\ \A i \in 1..Len(t) : t[i] \in Range(t)
  BY <1>1, RangeByPlaces
<1> HIDE DEF t
<1>4. ASSUME NEW x \in Range(t) PROVE x \in Range(s) \cup {e}
  <2>1. PICK i \in 1..Len(t) : x = t[i]
    BY <1>3
  <2> QED
    BY <1>1, <1>2, <2>1
<1>5. ASSUME NEW x \in Range(s) PROVE x \in Range(t)
  <2>1. PICK i \in 1..Len(s) : x = s[i]
    BY <1>2
  <2> QED
    BY <1>1, <1>3, <2>1
<1>6. e \in Range(t)
  BY <1>1, <1>3
<1>7. Range(t) = Range(s) \cup {e}
  BY <1>4, <1>5, <1>6
<1> QED
  BY <1>7 DEF t

(* An entry that goes from the head of one sequence to the end of another. *)
LEMMA Moved ==
    ASSUME NEW S, NEW s \in Seq(S), NEW p \in Seq(S), p # <<>>
    PROVE  Append(s, Head(p)) \o Tail(p) = s \o p
OBVIOUS

(* Nothing but a push changes what was ever queued.                        *)
LEMMA OnlyPushAdds ==
    ASSUME LInv, [LoggerNext]_loggerVars
    PROVE  \/ Everything' = Everything /\ accepted' = accepted
           \/ \E f \in Frames : LogPush(f)
<1>0. /\ Pending \in Seq(Entries) /\ written \in Seq(Entries)
      /\ queue \in Seq(Entries) /\ inHand \in Entries \cup {NoEntry}
      /\ worker = "write" => Pending # <<>> /\ Head(Pending) = inHand /\ Tail(Pending) = queue
  BY PendingCases DEF LInv, LoggerTypeOK
<1> SUFFICES ASSUME ~ \E f \in Frames : LogPush(f)
             PROVE  Everything' = Everything /\ accepted' = accepted
  OBVIOUS
<1>1. CASE WorkerStep /\ WorkerWrite
  <2>1. written' = Append(written, inHand) /\ Pending' = queue /\ accepted' = accepted
    BY <1>0, <1>1 DEF WorkerStep, WorkerWrite, Pending, logVars
  <2> QED
    BY <1>0, <1>1, <2>1, Moved DEF WorkerWrite, Everything
<1>2. CASE WorkerStep /\ WorkerPop
  <2>1. Pending' = Pending
    BY <1>0, <1>2, PendingPop DEF WorkerPop, Pending
  <2> QED
    BY <1>2, <2>1 DEF WorkerStep, WorkerPop, Everything, logVars
<1>3. CASE WorkerStep /\ ~WorkerWrite /\ ~WorkerPop
  <2>1. written' = written /\ Pending' = Pending /\ accepted' = accepted
    BY <1>3 DEF WorkerStep, WorkerTest, WorkerLock, WorkerCheck, WorkerSleep,
                WorkerNotified, WorkerTimesOut, WorkerRelock, WorkerLeave, WorkerLocks,
                Pending, logVars
  <2> QED
    BY <2>1 DEF Everything
<1>4. CASE ~WorkerStep
  <2>1. written' = written /\ Pending' = Pending /\ accepted' = accepted
    BY <1>4 DEF LoggerNext, loggerVars, Setup, Instance, LogCall, LogStep, LogLock, LogNotify,
                ShutdownBegin, ShutdownStep, ShutdownNotify, ShutdownJoin, ShutdownClose,
                Pending, logVars, workerVars, closingVars, settings
  <2> QED
    BY <2>1 DEF Everything
<1> QED
  BY <1>1, <1>2, <1>3, <1>4

(* A push adds the next entry of its frame at the end.                     *)
LEMMA PushAdds ==
    ASSUME LInv, NEW f \in Frames, LogPush(f)
    PROVE  /\ <<f, accepted[f] + 1>> \in Entries
           /\ Everything' = Append(Everything, <<f, accepted[f] + 1>>)
           /\ accepted' = [accepted EXCEPT ![f] = accepted[f] + 1]
<1> DEFINE entry == <<f, accepted[f] + 1>>
<1>0. /\ entry \in Entries /\ queue \in Seq(Entries) /\ written \in Seq(Entries)
      /\ worker = "write" => inHand \in Entries
      /\ Pending \in Seq(Entries)
  BY PendingCases DEF LInv, LoggerTypeOK, Entries
<1>1. queue' = Append(queue, entry) /\ UNCHANGED <<written, worker, inHand>>
  BY DEF LogPush
<1> HIDE DEF entry
<1>2. Pending' = Append(Pending, entry)
  <2>1. CASE worker = "write"
    BY <1>0, <1>1, <2>1, PendingAppend DEF Pending
  <2>2. CASE worker # "write"
    BY <1>0, <1>1, <2>2 DEF Pending
  <2> QED
    BY <2>1, <2>2
<1>3. Everything' = Append(Everything, entry)
  BY <1>0, <1>1, <1>2 DEF Everything
<1>4. accepted' = [accepted EXCEPT ![f] = accepted[f] + 1]
  BY DEF LogPush
<1> QED
  BY <1>0, <1>3, <1>4 DEF entry

(* With one more entry, numbered next, the order is kept.                  *)
LEMMA PushInOrder ==
    ASSUME LInv, OutputInOrder, NEW f \in Frames, LogPush(f)
    PROVE  OutputInOrder'
<1> DEFINE all == Everything
           entry == <<f, accepted[f] + 1>>
           all2 == Append(all, entry)
<1>0. /\ accepted \in [Frames -> Nat] /\ all \in Seq(Entries) /\ entry \in Entries
  BY PendingCases, PushAdds DEF LInv, LoggerTypeOK, Everything
<1>1. Everything' = all2 /\ accepted' = [accepted EXCEPT ![f] = accepted[f] + 1]
  BY PushAdds
<1>2. /\ all2 \in Seq(Entries) /\ Len(all2) = Len(all) + 1 /\ Len(all) \in Nat
      /\ \A i \in 1..Len(all) : all2[i] = all[i]
      /\ all2[Len(all) + 1] = entry
  BY <1>0, LongerSequence
<1>3. entry[1] = f /\ entry[2] = accepted[f] + 1
  OBVIOUS
<1>4. \A i \in 1..Len(all) : all[i] \in Entries /\ all[i] \in Range(all)
  BY <1>0, RangeByPlaces
<1>5. Range(all2) = Range(all) \cup {entry}
  BY <1>0, RangeOfLonger
<1> HIDE DEF all, all2, entry
<1>6. \A g \in Frames :
          {e \in Range(all2) : e[1] = g} = {<<g, n>> : n \in 1..accepted'[g]}
  <2> SUFFICES ASSUME NEW g \in Frames
               PROVE  {e \in Range(all2) : e[1] = g} = {<<g, n>> : n \in 1..accepted'[g]}
    OBVIOUS
  <2>1. {e \in Range(all) : e[1] = g} = {<<g, n>> : n \in 1..accepted[g]}
    BY DEF OutputInOrder, all
  <2>2. CASE g = f
    <3>1. accepted'[g] = accepted[g] + 1 /\ accepted[g] \in Nat
      BY <1>0, <1>1, <2>2
    <3>2. 1..accepted'[g] = 1..accepted[g] \cup {accepted[g] + 1}
      BY <3>1
    <3>3. entry = <<g, accepted[g] + 1>>
      BY <2>2 DEF entry
    <3>4. {e \in Range(all2) : e[1] = g} = {e \in Range(all) : e[1] = g} \cup {entry}
      BY <1>3, <1>5, <2>2
    <3> QED
      BY <2>1, <3>2, <3>3, <3>4
  <2>3. CASE g # f
    <3>1. accepted'[g] = accepted[g]
      BY <1>0, <1>1, <2>3
    <3>2. {e \in Range(all2) : e[1] = g} = {e \in Range(all) : e[1] = g}
      BY <1>3, <1>5, <2>3
    <3> QED
      BY <2>1, <3>1, <3>2
  <2> QED
    BY <2>2, <2>3
<1>7. \A i, j \in 1..Len(all2) : i < j /\ all2[i][1] = all2[j][1] => all2[i][2] < all2[j][2]
  <2> SUFFICES ASSUME NEW i \in 1..Len(all2), NEW j \in 1..Len(all2),
                      i < j, all2[i][1] = all2[j][1]
               PROVE  all2[i][2] < all2[j][2]
    OBVIOUS
  <2>1. i \in 1..Len(all) /\ all2[i] = all[i]
    BY <1>2
  <2>2. CASE j \in 1..Len(all)
    BY <1>2, <2>1, <2>2 DEF OutputInOrder, all
  <2>3. CASE j = Len(all) + 1
    <3>1. all[i][1] = f /\ all[i] \in Range(all)
      BY <1>2, <1>3, <1>4, <2>1, <2>3
    <3>2. PICK n \in 1..accepted[f] : all[i] = <<f, n>>
      BY <3>1 DEF OutputInOrder, all
    <3> QED
      BY <1>0, <1>2, <1>3, <2>1, <2>3, <3>2
  <2> QED
    BY <1>2, <2>2, <2>3
<1> QED
  BY <1>1, <1>6, <1>7 DEF OutputInOrder

(* Whatever uses the Logger keeps the order.                               *)
LEMMA OrderKept ==
    ASSUME LInv, OutputInOrder, [LoggerNext]_loggerVars
    PROVE  OutputInOrder'
<1>1. CASE Everything' = Everything /\ accepted' = accepted
  BY <1>1 DEF OutputInOrder
<1>2. CASE \E f \in Frames : LogPush(f)
  BY <1>2, PushInOrder
<1> QED
  BY <1>1, <1>2, OnlyPushAdds

(* Nothing is queued at first.                                             *)
LEMMA OrderInit == LoggerInit => OutputInOrder
<1> SUFFICES ASSUME LoggerInit PROVE OutputInOrder
  OBVIOUS
<1>1. Everything = <<>> /\ Len(Everything) = 0
  BY DEF LoggerInit, Everything, Pending
<1>2. Range(Everything) = {}
  BY <1>1 DEF Range
<1>3. \A f \in Frames : accepted[f] = 0
  BY DEF LoggerInit
<1> QED
  BY <1>1, <1>2, <1>3 DEF OutputInOrder

-----------------------------------------------------------------------------
(* The level main() hands to init() is one an INFO entry can tell.         *)
LEMMA LogLevelType == LogLevel \in {"INFO", "NONE"}
BY DEF LogLevel

(* A step of the main thread uses the Logger as LoggerNext allows.         *)
LEMMA MainUsesLogger ==
    ASSUME MainStep
    PROVE  [LoggerNext]_loggerVars
<1>0. "main" \in Frames /\ Files \subseteq {"none", "open"}
  BY ProgramAssumption, LoggerArgsAssumption
<1>1. CASE MainParse \/ CommandEnds \/ MainTerminates
  BY <1>1 DEF MainParse, CommandEnds, MainTerminates
<1>2. CASE MainInit
  <2>1. PICK file \in Files \cup {"none"} : Setup(LogLevel, file)
    BY <1>2 DEF MainInit
  <2> QED
    BY <1>0, <2>1, LogLevelType DEF LoggerNext
<1>3. ASSUME NEW at, NEW next, MainSays(at, next)
      PROVE  LoggerNext
  BY <1>0, <1>3 DEF MainSays, LoggerNext
<1>4. CASE CommandSays
  BY <1>0, <1>4 DEF CommandSays, LoggerNext
<1>5. CASE MainShutdown \/ MainExits
  BY <1>5 DEF MainShutdown, MainExits, LoggerNext
<1>6. CASE MainLogger
  BY <1>0, <1>6 DEF MainLogger, LoggerNext
<1> QED
  BY <1>1, <1>2, <1>3, <1>4, <1>5, <1>6 DEF MainStep

(* So does any step of the program.                                        *)
LEMMA ProgramUsesLogger ==
    ASSUME [Next]_vars
    PROVE  [LoggerNext]_loggerVars
<1>0. "handler" \in Frames
  BY ProgramAssumption
<1>1. CASE UNCHANGED vars
  BY <1>1 DEF vars
<1>2. CASE MainStep
  BY <1>2, MainUsesLogger
<1>3. CASE WorkerThread
  BY <1>3 DEF WorkerThread, LoggerNext
<1>4. CASE \E t \in {"main", "worker"} : SignalArrives(t)
  BY <1>0, <1>4 DEF SignalArrives, LoggerNext
<1>5. CASE HandlerStep
  BY <1>0, <1>5 DEF HandlerStep, LoggerNext
<1>6. CASE HandlerReturns
  BY <1>6 DEF HandlerReturns
<1> QED
  BY <1>1, <1>2, <1>3, <1>4, <1>5, <1>6 DEF Next

(* The program keeps what every user of the Logger keeps.                  *)
LEMMA LoggerInvariance == Spec => []LInv
<1>1. Init => LInv
  BY LoggerInitInv DEF Init
<1>2. LInv /\ [Next]_vars => LInv'
  BY ProgramUsesLogger, LoggerNextInv
<1> QED
  BY <1>1, <1>2, PTL DEF Spec

-----------------------------------------------------------------------------
(* The program's log is the one LogStream promises: every entry any thread *)
(* or signal handler got into the queue is printed in turn, and those from *)
(* before shutdown() are printed before it joins (logging.cpp:39-109).     *)
THEOREM LogImplemented == Spec => ImplementsLog
<1>1. Init => Stream!StreamInit
  BY LoggerInitInv DEF Init
<1>2. LInv /\ [Next]_vars => [Stream!StreamNext]_(Stream!streamVars)
  BY ProgramUsesLogger, LoggerNextInv DEF StreamStep
<1> QED
  BY <1>1, <1>2, LoggerInvariance, PTL DEF Spec, ImplementsLog, Stream!StreamSpec

(* shutdown() closes the file and clears running_ only when the worker is  *)
(* gone, for every command line, signal and file.                          *)
THEOREM WorkerGone == Spec => []WorkerGoneBeforeClose
<1>1. LInv => WorkerGoneBeforeClose
  BY LInvImplies
<1> QED
  BY <1>1, LoggerInvariance, PTL

(* What was logged before shutdown() is printed when the worker is joined. *)
THEOREM Drained == Spec => []DrainedBeforeClose
<1>1. LInv => DrainedBeforeClose
  BY LInvImplies
<1> QED
  BY <1>1, LoggerInvariance, PTL

(* Every entry queued is there once, in its frame's order, whatever the    *)
(* threads and the signal handler do (logging.cpp:39-109).                 *)
THEOREM InOrder == Spec => []OutputInOrder
<1>1. Init => OutputInOrder
  BY OrderInit DEF Init
<1>2. LInv /\ OutputInOrder /\ [Next]_vars => OutputInOrder'
  BY ProgramUsesLogger, OrderKept
<1> QED
  BY <1>1, <1>2, LoggerInvariance, PTL DEF Spec

-----------------------------------------------------------------------------
(* A step of the program that is none of the parser's leaves the parser    *)
(* alone.                                                                  *)
LEMMA ProgramUsesParser ==
    ASSUME [Next]_vars
    PROVE  [ParserStep]_parserVars
<1>1. CASE UNCHANGED vars
  BY <1>1 DEF vars, programVars
<1>2. CASE MainStep
  BY <1>2 DEF MainStep, MainParse, MainInit, MainSays, CommandSays, CommandEnds, MainShutdown,
              MainExits, MainTerminates, MainLogger, programVars
<1>3. CASE WorkerThread \/ HandlerStep \/ HandlerReturns
  BY <1>3 DEF WorkerThread, HandlerStep, HandlerReturns, programVars
<1>4. CASE \E t \in {"main", "worker"} : SignalArrives(t)
  BY <1>4 DEF SignalArrives, programVars
<1> QED
  BY <1>1, <1>2, <1>3, <1>4 DEF Next

(* So the program reads its command line as CliParser says.                *)
LEMMA ParserInvariance == Spec => []CliInv
<1>1. Init => CliInv
  BY CliInvInit DEF Init
<1>2. CliInv /\ [Next]_vars => CliInv'
  BY ProgramUsesParser, CliInvStep
<1> QED
  BY <1>1, <1>2, PTL DEF Spec

(* main() is where it may be; beyond the parser it is there to run a       *)
(* command.                                                                *)
MainInv ==
    /\ mainPc \in {"parse", "init", "starting", "command", "interrupted",
                   "cleaning", "shutdown", "goodbye", "exit", "destroying",
                   "terminated", "aborted"}
    /\ mainPc \notin {"parse", "exit", "destroying", "terminated", "aborted"} => outcome = "run"
    /\ said \in 0..4
    /\ shutdownRequested \in BOOLEAN
    /\ interrupted \in {"main", "worker", "nobody"}
    /\ signals \in 0..MaxSignals

(* A command that runs logs a known number of times.                       *)
LEMMA LogsOfType == \A c \in Range(CommandTypes) : LogsOf(c) \in 0..4
<1>1. Range(CommandTypes) \subseteq {"CALL", "LISTEN", "LOAD", "FUZZ", "REGISTER", "INFO"}
  BY DEF Range, CommandTypes
<1>2. LogsOf("CALL") = 3 /\ LogsOf("LISTEN") = 3 /\ LogsOf("REGISTER") = 3
  BY DEF LogsOf
<1>3. LogsOf("LOAD") = 4 /\ LogsOf("FUZZ") = 4
  BY DEF LogsOf
<1>4. LogsOf("INFO") = 0
  BY DEF LogsOf
<1> QED
  BY <1>1, <1>2, <1>3, <1>4

(* Every step of the program keeps that.                                   *)
LEMMA MainInvStep ==
    ASSUME MainInv, CliInv, [Next]_vars
    PROVE  MainInv'
<1>1. CASE MainParse
  <2>1. /\ mainPc' \in {"parse", "aborted", "init", "exit"}
        /\ mainPc' = "init" => outcome' = "run"
    BY <1>1 DEF MainParse
  <2> QED
    BY <1>1, <2>1 DEF MainInv, MainParse, signalVars
<1>2. CASE MainInit
  BY <1>2 DEF MainInv, MainInit, MainAt, parserVars, signalVars
<1>3. ASSUME NEW at \in {"starting", "interrupted", "cleaning", "goodbye"},
             NEW next \in {"command", "cleaning", "shutdown", "exit"}, MainSays(at, next)
      PROVE  MainInv'
  BY <1>3 DEF MainInv, MainSays, MainAt, parserVars, signalVars
<1>4. CASE CommandSays
  <2>1. config.type \in Range(CommandTypes)
    BY <1>4, CliInvSays DEF CommandSays, MainAt, MainInv, CliTypeOK, RunsOnlyValid
  <2>2. LogsOf(config.type) \in 0..4 /\ said < LogsOf(config.type) /\ said' = said + 1
    BY <1>4, <2>1, LogsOfType DEF CommandSays
  <2>3. said' \in 0..4
    BY <2>2 DEF MainInv
  <2> QED
    BY <1>4, <2>3 DEF MainInv, CommandSays, parserVars, signalVars
<1>5. CASE CommandEnds
  BY <1>5 DEF MainInv, CommandEnds, MainAt, parserVars, signalVars
<1>6. CASE MainShutdown
  BY <1>6 DEF MainInv, MainShutdown, MainAt, parserVars, signalVars
<1>7. CASE MainExits \/ MainTerminates
  BY <1>7 DEF MainInv, MainExits, MainTerminates, MainAt, parserVars, signalVars
<1>8. CASE MainLogger \/ WorkerThread \/ HandlerStep
  BY <1>8 DEF MainInv, MainLogger, WorkerThread, HandlerStep, programVars, parserVars, signalVars
<1>9. ASSUME NEW t \in {"main", "worker"}, SignalArrives(t)
      PROVE  MainInv'
  <2>1. signals' \in 0..MaxSignals
    BY <1>9, ProgramAssumption DEF MainInv, SignalArrives
  <2> QED
    BY <1>9, <2>1 DEF MainInv, SignalArrives, programVars, parserVars
<1>10. CASE HandlerReturns
  BY <1>10 DEF MainInv, HandlerReturns, programVars, parserVars
<1>11. CASE UNCHANGED vars
  BY <1>11 DEF MainInv, vars, programVars, parserVars, signalVars
<1>12. CASE MainStep
  BY <1>1, <1>2, <1>3, <1>4, <1>5, <1>6, <1>7, <1>8, <1>12 DEF MainStep
<1> QED
  BY <1>8, <1>9, <1>10, <1>11, <1>12 DEF Next

(* Every variable of the program keeps its type: the Logger's mutex is     *)
(* held where the code locks it, a size fits, and a command logs no more   *)
(* than it says (main.cpp:19-24, 91-196; logging.cpp:20-109).              *)
THEOREM ProgramTypes == Spec => []ProgramTypeOK
<1>1. Init => MainInv
  <2>1. 0 \in 0..4 /\ 0 \in 0..MaxSignals
    BY ProgramAssumption
  <2> QED
    BY <2>1, Zenon DEF Init, MainInv
<1>2. MainInv /\ CliInv /\ [Next]_vars => MainInv'
  BY MainInvStep
<1>3. LInv /\ CliInv /\ MainInv => ProgramTypeOK
  BY DEF LInv, CliInv, MainInv, ProgramTypeOK
<1> QED
  BY <1>1, <1>2, <1>3, LoggerInvariance, ParserInvariance, PTL DEF Spec
=============================================================================
