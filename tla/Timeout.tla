------------------------------ MODULE Timeout ------------------------------
(***************************************************************************)
(* executeWithTimeout and tryExecuteWithTimeout of                         *)
(* src/src/utils/timeout.hpp: an operation runs on a thread of its own,    *)
(* made by std::async, and the caller waits for its future until a         *)
(* deadline.  The destructor of such a future joins the thread, so that    *)
(* the caller leaves a timed-out call only when the operation is over.     *)
(*                                                                         *)
(* Time is left out: a deadline may pass whenever the operation still runs.*)
(***************************************************************************)
EXTENDS Integers, Sequences

VARIABLES
    operations,   \* one element per call: its operation, running or ended
    caller,       \* where the caller is
    verdict,      \* what the call answers with, once that is decided
    variant       \* which of the two families of functions is called

timeoutVars == <<operations, caller, verdict, variant>>

Running == "running"

(* How an operation ends: it returns, or throws a std::exception or        *)
(* something else.                                                         *)
Endings == {"done", "error", "alien"}

(* "unlaunched": std::async itself has thrown.                             *)
OperationStates == {Running, "unlaunched"} \cup Endings

(* "empty" is std::nullopt or false; the last two are exceptions.          *)
Verdicts == {"none", "value", "empty", "exception", "alien"}

Current == operations[Len(operations)]

TimeoutInit ==
    /\ operations = <<>>
    /\ caller = "idle"
    /\ verdict = "none"
    /\ variant \in {"execute", "tryExecute"}

Launch ==
    /\ caller = "idle"
    /\ operations' = Append(operations, Running)
    /\ caller' = "waiting"
    /\ UNCHANGED <<verdict, variant>>

(* Bug variant: a thread that could not be made is waited for.             *)
LaunchFailsUnnoticed ==
    /\ caller = "idle"
    /\ operations' = Append(operations, "unlaunched")
    /\ caller' = "waiting"
    /\ UNCHANGED <<verdict, variant>>

(* No thread is to be had.  std::async is outside of the try block, in     *)
(* both variants.                                                          *)
LaunchFails ==
    /\ caller = "idle"
    /\ operations' = Append(operations, "unlaunched")
    /\ verdict' = "exception"
    /\ caller' = "returned"
    /\ UNCHANGED variant

(* The operation's thread.                                                 *)
OperationEnds(k, ending) ==
    /\ operations[k] = Running
    /\ operations' = [operations EXCEPT ![k] = ending]
    /\ UNCHANGED <<caller, verdict, variant>>

(* future.get() answers, or throws what the operation threw.               *)
Answer(ending) ==
    CASE ending = "done"  -> "value"
      [] ending = "error" -> IF variant = "tryExecute" THEN "empty" ELSE "exception"
      [] ending = "alien" -> "alien"

WaitReady ==
    /\ caller = "waiting"
    /\ Current \in Endings
    /\ verdict' = Answer(Current)
    /\ caller' = "returned"
    /\ UNCHANGED <<operations, variant>>

(* Bug variant: the future is not destroyed, so that nothing joins.        *)
WaitTimesOutDetached ==
    /\ caller = "waiting"
    /\ Current = Running
    /\ verdict' = "empty"
    /\ caller' = "returned"
    /\ UNCHANGED <<operations, variant>>

WaitTimesOut ==
    /\ caller = "waiting"
    /\ Current = Running
    /\ verdict' = "empty"
    /\ caller' = "leaving"
    /\ UNCHANGED <<operations, variant>>

(* The future's destructor.  What the operation returns now is dropped.    *)
Leave ==
    /\ caller = "leaving"
    /\ Current \in Endings
    /\ caller' = "returned"
    /\ UNCHANGED <<operations, verdict, variant>>

CallerStep == WaitReady \/ WaitTimesOut \/ Leave

OperationStep ==
    \E k \in 1..Len(operations), ending \in Endings : OperationEnds(k, ending)

TimeoutTypeOK ==
    /\ operations \in Seq(OperationStates)
    /\ caller \in {"idle", "waiting", "leaving", "returned"}
    /\ verdict \in Verdicts
    /\ variant \in {"execute", "tryExecute"}
    /\ caller \in {"waiting", "leaving"} => operations # <<>>
=============================================================================
