------------------------------- MODULE Logger -------------------------------
(***************************************************************************)
(* The asynchronous Logger of src/src/utils/logging.cpp: log() puts an     *)
(* entry into a queue, a worker thread takes entries out and prints them,  *)
(* shutdown() stops the worker and closes the file.                        *)
(*                                                                         *)
(* Whoever calls log() is a frame: a thread, or a signal handler that runs *)
(* on top of one.  Steps are the accesses to what is shared: the queue is  *)
(* locked, stopRequested_, running_ and the condition variable are not.    *)
(* Time is left out except for the timeout of wait_for, which may strike   *)
(* whenever the worker waits.                                              *)
(***************************************************************************)
EXTENDS Integers, Sequences, SequencesExt

CONSTANTS
    Frames,      \* who calls log()
    Files        \* what fopen may give init(): "none", "open"

ASSUME LoggerArgsAssumption ==
    /\ "worker" \notin Frames /\ "free" \notin Frames
    /\ Files \subseteq {"none", "open"}

VARIABLES
    worker,         \* where backgroundThread is; "none" before the Logger exists
    queueMutex,     \* who holds queueMutex_, or "free"
    queue,          \* queue_
    inHand,         \* the entry the worker has popped and not printed yet
    written,        \* the entries printed, in order
    notified,       \* whether cv_ was notified since the worker went to wait
    stopRequested,  \* stopRequested_
    running,        \* running_
    joined,         \* whether worker_ was joined
    level,          \* level_, as far as an INFO entry can tell
    logFile,        \* file_: "none", "open", or "closed" by shutdown
    closing,        \* where a running shutdown is
    phase,          \* where a frame's log() is
    accepted,       \* how many entries of a frame were ever queued
    due             \* entries accepted when shutdown was first called

loggerVars == <<worker, queueMutex, queue, inHand, written, notified,
                stopRequested, running, joined, level, logFile, closing,
                phase, accepted, due>>
workerVars == <<worker, queueMutex, queue, inHand, written, notified>>
settings == <<level, logFile>>
closingVars == <<stopRequested, joined, closing, due>>
logVars == <<phase, accepted>>

(* An entry: its frame, and the how-manieth of that frame it is.           *)
NoEntry == <<>>

LoggerInit ==
    /\ worker = "none"
    /\ queueMutex = "free"
    /\ queue = <<>>
    /\ inHand = NoEntry
    /\ written = <<>>
    /\ notified = FALSE
    /\ stopRequested = FALSE
    /\ running = FALSE
    /\ joined = FALSE
    /\ level = "INFO"
    /\ logFile = "none"
    /\ closing = "idle"
    /\ phase = [f \in Frames |-> "idle"]
    /\ accepted = [f \in Frames |-> 0]
    /\ due = 0

(* What is accepted and not printed.                                       *)
Pending == (IF worker = "write" THEN <<inHand>> ELSE <<>>) \o queue

(* Logger::instance(): the first use makes the Logger and starts the       *)
(* worker.                                                                 *)
Instance ==
    /\ worker' = IF worker = "none" THEN "test" ELSE worker
    /\ running' = (running \/ worker = "none")

(* Logger::init                                                            *)
Setup(newLevel, file) ==
    /\ Instance
    /\ level' = newLevel
    /\ logFile' = file
    /\ UNCHANGED <<queueMutex, queue, inHand, written, notified, closingVars,
                   logVars>>

-----------------------------------------------------------------------------
(* log() of an INFO entry                                                  *)

(* An entry below the level is dropped here.                               *)
LogCall(f) ==
    /\ phase[f] = "idle"
    /\ Instance
    /\ phase' = [phase EXCEPT ![f] = IF level = "INFO" THEN "lock" ELSE "idle"]
    /\ UNCHANGED <<queueMutex, queue, inHand, written, notified, settings,
                   closingVars, accepted>>

LogLock(f) ==
    /\ phase[f] = "lock"
    /\ queueMutex = "free"
    /\ queueMutex' = f
    /\ phase' = [phase EXCEPT ![f] = "push"]
    /\ UNCHANGED <<worker, queue, inHand, written, notified, running,
                   settings, closingVars, accepted>>

(* Bug variant: a stack instead of a queue.                                *)
LogPushInFront(f) ==
    /\ phase[f] = "push"
    /\ queue' = <<<<f, accepted[f] + 1>>>> \o queue
    /\ accepted' = [accepted EXCEPT ![f] = @ + 1]
    /\ queueMutex' = "free"
    /\ phase' = [phase EXCEPT ![f] = "notify"]
    /\ UNCHANGED <<worker, inHand, written, notified, running, settings,
                   closingVars>>

LogPush(f) ==
    /\ phase[f] = "push"
    /\ queue' = Append(queue, <<f, accepted[f] + 1>>)
    /\ accepted' = [accepted EXCEPT ![f] = @ + 1]
    /\ queueMutex' = "free"
    /\ phase' = [phase EXCEPT ![f] = "notify"]
    /\ UNCHANGED <<worker, inHand, written, notified, running, settings,
                   closingVars>>

(* notify_one is lost unless the worker is waiting at this moment.         *)
Notify == notified' = (notified \/ worker = "waiting")

LogNotify(f) ==
    /\ phase[f] = "notify"
    /\ Notify
    /\ phase' = [phase EXCEPT ![f] = "idle"]
    /\ UNCHANGED <<worker, queueMutex, queue, inHand, written, running,
                   settings, closingVars, accepted>>

LogStep(f) == LogLock(f) \/ LogPush(f) \/ LogNotify(f)

-----------------------------------------------------------------------------
(* backgroundThread                                                        *)

WorkerLocks(from, to) ==
    /\ worker = from
    /\ queueMutex = "free"
    /\ queueMutex' = "worker"
    /\ worker' = to

(* The loop condition, read without the mutex.                             *)
WorkerTest ==
    /\ worker = "test"
    /\ worker' = IF running \/ queue # <<>> THEN "lock" ELSE "exited"
    /\ UNCHANGED <<queueMutex, queue, inHand, written, notified>>

WorkerLock ==
    /\ WorkerLocks("lock", "check")
    /\ UNCHANGED <<queue, inHand, written, notified>>

(* Bug variant: a stop request ends the thread at once.                    *)
WorkerCheckStopsAtOnce ==
    /\ worker = "check"
    /\ worker' = CASE stopRequested -> "exited"
                   [] queue # <<>>  -> "drain"
                   [] OTHER         -> "sleep"
    /\ queueMutex' = IF stopRequested THEN "free" ELSE queueMutex
    /\ UNCHANGED <<queue, inHand, written, notified>>

(* The predicate of wait_for ...                                           *)
WorkerCheck ==
    /\ worker = "check"
    /\ worker' = IF queue # <<>> \/ stopRequested THEN "drain" ELSE "sleep"
    /\ UNCHANGED <<queueMutex, queue, inHand, written, notified>>

(* ... which is FALSE: wait, and let the mutex go, in one step.            *)
WorkerSleep ==
    /\ worker = "sleep"
    /\ worker' = "waiting"
    /\ notified' = FALSE
    /\ queueMutex' = "free"
    /\ UNCHANGED <<queue, inHand, written>>

WorkerNotified ==
    /\ notified
    /\ WorkerLocks("waiting", "check")
    /\ UNCHANGED <<queue, inHand, written, notified>>

(* Bug variant: wait instead of wait_for.                                  *)
WorkerNeverTimesOut == FALSE /\ UNCHANGED workerVars

WorkerTimesOut ==
    /\ WorkerLocks("waiting", "drain")
    /\ UNCHANGED <<queue, inHand, written, notified>>

(* Bug variant: the mutex is kept while the entry is printed.              *)
WorkerPopHoldsLock ==
    /\ worker = "drain" /\ queue # <<>>
    /\ inHand' = Head(queue)
    /\ queue' = Tail(queue)
    /\ worker' = "write"
    /\ UNCHANGED <<queueMutex, written, notified>>

(* Bug variant: front() without pop().                                     *)
WorkerPopKeeps ==
    /\ worker = "drain" /\ queue # <<>>
    /\ inHand' = Head(queue)
    /\ queueMutex' = "free"
    /\ worker' = "write"
    /\ UNCHANGED <<queue, written, notified>>

WorkerPop ==
    /\ worker = "drain" /\ queue # <<>>
    /\ inHand' = Head(queue)
    /\ queue' = Tail(queue)
    /\ queueMutex' = "free"
    /\ worker' = "write"
    /\ UNCHANGED <<written, notified>>

WorkerWrite ==
    /\ worker = "write"
    /\ written' = Append(written, inHand)
    /\ inHand' = NoEntry
    /\ worker' = "relock"
    /\ UNCHANGED <<queueMutex, queue, notified>>

WorkerRelock ==
    /\ WorkerLocks("relock", "drain")
    /\ UNCHANGED <<queue, inHand, written, notified>>

(* Bug variant: an empty queue ends the thread.                            *)
WorkerLeaveForGood ==
    /\ worker = "drain" /\ queue = <<>>
    /\ queueMutex' = "free"
    /\ worker' = "exited"
    /\ UNCHANGED <<queue, inHand, written, notified>>

WorkerLeave ==
    /\ worker = "drain" /\ queue = <<>>
    /\ queueMutex' = "free"
    /\ worker' = IF stopRequested THEN "exited" ELSE "test"
    /\ UNCHANGED <<queue, inHand, written, notified>>

WorkerStep ==
    /\ \/ WorkerTest \/ WorkerLock \/ WorkerCheck \/ WorkerSleep
       \/ WorkerNotified \/ WorkerTimesOut \/ WorkerPop \/ WorkerWrite
       \/ WorkerRelock \/ WorkerLeave
    /\ UNCHANGED <<running, settings, closingVars, logVars>>

-----------------------------------------------------------------------------
(* shutdown()                                                              *)

(* stopRequested_ = true, without the mutex.                               *)
ShutdownBegin ==
    /\ closing = "idle"
    /\ stopRequested' = TRUE
    /\ due' = IF stopRequested THEN due ELSE Len(written) + Len(Pending)
    /\ closing' = "notify"
    /\ UNCHANGED <<workerVars, running, settings, joined, logVars>>

ShutdownNotify ==
    /\ closing = "notify"
    /\ Notify
    /\ closing' = "join"
    /\ UNCHANGED <<worker, queueMutex, queue, inHand, written, running,
                   settings, stopRequested, joined, due, logVars>>

(* Bug variant: the worker is not waited for.                              *)
ShutdownDetach ==
    /\ closing = "join"
    /\ joined' = TRUE
    /\ closing' = "close"
    /\ UNCHANGED <<workerVars, running, settings, stopRequested, due, logVars>>

(* join(), unless an earlier shutdown joined.                              *)
ShutdownJoin ==
    /\ closing = "join"
    /\ worker = "exited" \/ joined
    /\ joined' = TRUE
    /\ closing' = "close"
    /\ UNCHANGED <<workerVars, running, settings, stopRequested, due, logVars>>

ShutdownClose ==
    /\ closing = "close"
    /\ logFile' = IF logFile = "open" THEN "closed" ELSE logFile
    /\ running' = FALSE
    /\ closing' = "idle"
    /\ UNCHANGED <<workerVars, level, stopRequested, joined, due, logVars>>

ShutdownStep == ShutdownNotify \/ ShutdownJoin \/ ShutdownClose

-----------------------------------------------------------------------------
Entries == Frames \X (Nat \ {0})

(* Type invariant; queueMutex_ is held where the code's locks say so.      *)
LoggerTypeOK ==
    /\ worker \in {"none", "test", "lock", "check", "sleep", "waiting",
                   "drain", "write", "relock", "exited"}
    /\ queue \in Seq(Entries) /\ written \in Seq(Entries)
    /\ inHand \in Entries \cup {NoEntry}
    /\ worker = "write" => inHand \in Entries
    /\ notified \in BOOLEAN /\ stopRequested \in BOOLEAN
    /\ running \in BOOLEAN /\ joined \in BOOLEAN
    /\ level \in {"INFO", "NONE"}
    /\ logFile \in {"none", "open", "closed"}
    /\ closing \in {"idle", "notify", "join", "close"}
    /\ phase \in [Frames -> {"idle", "lock", "push", "notify"}]
    /\ accepted \in [Frames -> Nat] /\ due \in Nat
    /\ queueMutex \in Frames \cup {"free", "worker"}
    /\ queueMutex = "worker" <=> worker \in {"check", "sleep", "drain"}
    /\ \A f \in Frames : queueMutex = f <=> phase[f] = "push"

(* Everything ever queued: printed, in hand or still queued.               *)
Everything == written \o Pending

(* What was queued is there exactly once: nothing is lost or printed       *)
(* twice, and each frame's entries stay in their order, whenever the       *)
(* worker lets the mutex go to print (logging.cpp:72-108).                 *)
OutputInOrder ==
    /\ \A f \in Frames :
          {e \in Range(Everything) : e[1] = f} = {<<f, n>> : n \in 1..accepted[f]}
    /\ \A i, j \in 1..Len(Everything) :
          i < j /\ Everything[i][1] = Everything[j][1] => Everything[i][2] < Everything[j][2]

(* Everything logged before shutdown() was called is printed before it     *)
(* closes the file (logging.cpp:39-57, 72-108): the request is not guarded *)
(* by the mutex, and the worker must not take it for "stop now".           *)
DrainedBeforeClose ==
    joined => Len(written) >= due

(* Neither does the worker print to a file that shutdown has closed, nor   *)
(* does it read queue_ without the mutex because running_ is already       *)
(* cleared (logging.cpp:44-56, 60, 75-97): both wait for it to be gone.    *)
WorkerGoneBeforeClose ==
    logFile = "closed" \/ (worker # "none" /\ ~running) => worker = "exited"

(* The Logger implements the log that LogStream promises.                  *)
Stream == INSTANCE LogStream WITH
    Entries <- Entries, pending <- Pending, printed <- written,
    stopping <- stopRequested, demanded <- due, closed <- joined
=============================================================================
