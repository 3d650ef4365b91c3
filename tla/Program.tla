------------------------------ MODULE Program ------------------------------
(***************************************************************************)
(* The h323p program of src/src/main.cpp: the main thread, which parses    *)
(* its command line as CliParser does, the handler of SIGINT and SIGTERM,  *)
(* and the Logger they share.                                              *)
(*                                                                         *)
(* The handler logs.  It runs on top of the thread the signal is delivered *)
(* to - any thread of the process - which stands still until it returns.   *)
(***************************************************************************)
EXTENDS Logger, CliParser

CONSTANTS
    MaxSignals,       \* bound on the signals delivered
    SignalsAnywhere   \* also to a thread that holds the Logger's mutex?

ASSUME ProgramAssumption ==
    /\ Frames = {"main", "handler"}
    /\ MaxSignals \in Nat
    /\ SignalsAnywhere \in BOOLEAN

VARIABLES
    mainPc,             \* where main() is
    said,               \* LOG_INFOs done by the execute function
    shutdownRequested,  \* g_shutdown_requested
    interrupted,        \* the thread the signal handler runs on, or "nobody"
    signals             \* signals delivered so far

programVars == <<mainPc, said, parserVars>>
signalVars == <<shutdownRequested, interrupted, signals>>
vars == <<loggerVars, programVars, signalVars>>

(* The LOG_INFOs of an execute function before its waiting loop.           *)
LogsOf(c) ==
    CASE c \in {"CALL", "LISTEN", "REGISTER"} -> 3
      [] c \in {"LOAD", "FUZZ"}               -> 4
      [] c = "INFO"                           -> 0

(* Commands that wait for the signal and for nothing else.                 *)
EndlessCommands == {"LISTEN", "LOAD", "FUZZ"}

Init ==
    /\ LoggerInit
    /\ ParserInit
    /\ mainPc = "parse"
    /\ said = 0
    /\ shutdownRequested = FALSE
    /\ interrupted = "nobody"
    /\ signals = 0

-----------------------------------------------------------------------------
(* main() is at pc, and not inside the Logger or a signal handler.         *)
MainAt(pc) ==
    /\ mainPc = pc
    /\ phase["main"] = "idle"
    /\ closing = "idle"
    /\ interrupted # "main"

(* One argument, or what main() decides in the end.                        *)
MainParse ==
    /\ MainAt("parse")
    /\ ParserStep
    /\ mainPc' = CASE outcome' = "none"  -> "parse"
                   [] outcome' = "crash" -> "aborted"
                   [] outcome' = "run"   -> "init"
                   [] OTHER              -> "exit"
    /\ UNCHANGED <<loggerVars, said, signalVars>>

(* What level_ is to an INFO entry.                                        *)
LogLevel ==
    CASE config.quiet                                       -> "NONE"
      [] config.verbose /\ ~config.quiet                    -> "INFO"
      [] ~config.verbose /\ ~config.quiet                   ->
            IF config.logLevel \in {"warn", "error"} THEN "NONE" ELSE "INFO"

MainInit ==
    /\ MainAt("init")
    /\ \E file \in IF config.logFile = "" THEN {"none"} ELSE Files : Setup(LogLevel, file)
    /\ mainPc' = "starting"
    /\ UNCHANGED <<said, parserVars, signalVars>>

(* A LOG_INFO of main() itself.                                            *)
MainSays(pc, next) ==
    /\ MainAt(pc)
    /\ LogCall("main")
    /\ mainPc' = next
    /\ UNCHANGED <<said, parserVars, signalVars>>

CommandSays ==
    /\ MainAt("command") /\ said < LogsOf(config.type)
    /\ LogCall("main")
    /\ said' = said + 1
    /\ UNCHANGED <<mainPc, parserVars, signalVars>>

(* The loop that waits for the flag; call gives up after half a second.    *)
CommandEnds ==
    /\ MainAt("command") /\ said = LogsOf(config.type)
    /\ config.type \in EndlessCommands => shutdownRequested
    /\ mainPc' = IF config.type = "CALL" /\ shutdownRequested
                 THEN "interrupted" ELSE "cleaning"
    /\ UNCHANGED <<loggerVars, said, parserVars, signalVars>>

MainShutdown ==
    /\ MainAt("shutdown")
    /\ ShutdownBegin
    /\ mainPc' = "goodbye"
    /\ UNCHANGED <<said, parserVars, signalVars>>

(* Static destruction: ~Logger, if there ever was one, shuts down again.   *)
MainExits ==
    /\ MainAt("exit")
    /\ IF worker = "none"
       THEN mainPc' = "terminated" /\ UNCHANGED loggerVars
       ELSE mainPc' = "destroying" /\ ShutdownBegin
    /\ UNCHANGED <<said, parserVars, signalVars>>

MainTerminates ==
    /\ MainAt("destroying")
    /\ mainPc' = "terminated"
    /\ UNCHANGED <<loggerVars, said, parserVars, signalVars>>

(* The steps of log() and shutdown() on the main thread.                   *)
MainLogger ==
    /\ interrupted # "main"
    /\ LogStep("main") \/ ShutdownStep
    /\ UNCHANGED <<programVars, signalVars>>

MainStep ==
    \/ MainParse \/ MainInit
    \/ MainSays("starting", "command")
    \/ CommandSays \/ CommandEnds
    \/ MainSays("interrupted", "cleaning")
    \/ MainSays("cleaning", "shutdown")
    \/ MainShutdown
    \/ MainSays("goodbye", "exit")
    \/ MainExits \/ MainTerminates
    \/ MainLogger

-----------------------------------------------------------------------------
WorkerThread ==
    /\ interrupted # "worker"
    /\ WorkerStep
    /\ UNCHANGED <<programVars, signalVars>>

CanInterrupt(t) ==
    /\ t = "main" => mainPc # "terminated"
    /\ t = "worker" => worker \notin {"none", "exited"}
    /\ SignalsAnywhere \/ queueMutex # t

(* signalHandler up to its LOG_INFO.                                       *)
SignalArrives(t) ==
    /\ signals < MaxSignals
    /\ interrupted = "nobody"
    /\ mainPc # "terminated"
    /\ CanInterrupt(t)
    /\ signals' = signals + 1
    /\ shutdownRequested' = TRUE
    /\ interrupted' = t
    /\ LogCall("handler")
    /\ UNCHANGED programVars

HandlerStep ==
    /\ LogStep("handler")
    /\ UNCHANGED <<programVars, signalVars>>

HandlerReturns ==
    /\ interrupted # "nobody"
    /\ phase["handler"] = "idle"
    /\ interrupted' = "nobody"
    /\ UNCHANGED <<loggerVars, programVars, shutdownRequested, signals>>

(* Nothing moves any more once the process is aborted.                     *)
Alive == mainPc # "aborted"

Next ==
    /\ Alive
    /\ \/ MainStep
       \/ WorkerThread
       \/ \E t \in {"main", "worker"} : SignalArrives(t)
       \/ HandlerStep
       \/ HandlerReturns

Spec == Init /\ [][Next]_vars

(* Every thread that can run runs.  The queue's mutex is never refused for *)
(* ever: between two rounds the worker waits up to 100 ms without it.      *)
FairSpec ==
    /\ Spec
    /\ SF_vars(Alive /\ MainStep)
    /\ SF_vars(Alive /\ WorkerThread)
    /\ SF_vars(Alive /\ HandlerStep)
    /\ WF_vars(Alive /\ HandlerReturns)

-----------------------------------------------------------------------------
(* Type invariant.                                                         *)
ProgramTypeOK ==
    /\ LoggerTypeOK
    /\ mainPc \in {"parse", "init", "starting", "command", "interrupted",
                   "cleaning", "shutdown", "goodbye", "exit", "destroying",
                   "terminated", "aborted"}
    /\ CliTypeOK
    /\ said \in 0..4
    /\ shutdownRequested \in BOOLEAN
    /\ interrupted \in {"main", "worker", "nobody"}
    /\ signals \in 0..MaxSignals

(* A signal, or a command that needs none, ends the program, unless a      *)
(* malformed number has aborted it: shutdown()                             *)
(* does not wait for ever for a worker that missed its notification, nor   *)
(* the handler for a mutex (main.cpp:19-24, 196; logging.cpp:39-48, 63-67).*)
ProgramEnds ==
    shutdownRequested \/ mainPc = "cleaning" ~> mainPc \in {"terminated", "aborted"}

(* An entry queued while the program runs its command is printed, whether  *)
(* or not the program ever shuts the Logger down.                          *)
QueueDrains ==
    queue # <<>> /\ ~stopRequested ~> queue = <<>> \/ mainPc = "aborted"

(* The program's log is the one LogStream promises: entries of all frames  *)
(* in the order they were queued, none lost or doubled, and those from     *)
(* before shutdown() printed before it returns (logging.cpp:39-109).       *)
ImplementsLog == Stream!StreamSpec
=============================================================================
