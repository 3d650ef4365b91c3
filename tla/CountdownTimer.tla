-------------------------- MODULE CountdownTimer --------------------------
(***************************************************************************)
(* CountdownTimer of src/src/utils/timer.cpp: its users' calls, and the    *)
(* thread that waits for the countdown and runs the callback.  mutex_ is a *)
(* std::mutex: whoever locks it a second time waits for itself (undefined, *)
(* and a wait in the libraries the build may use).                         *)
(*                                                                         *)
(* Time is left out: the countdown may end at any moment.  ElapsedTimer,   *)
(* one time point without a thread, has nothing to model.                  *)
(***************************************************************************)
CONSTANT Users   \* the threads that use the timer; neither "free" nor "timer"

VARIABLES
    mutex,      \* the owner of mutex_, or "free"
    running,    \* running_
    callback,   \* whether callback_ is set
    thread,     \* thread_: "none", or where it is
    op,         \* the method a user calls
    pc          \* where in it the user is

vars == <<mutex, running, callback, thread, op, pc>>

(* The destructor is a stop.  The last two are isExpired and remaining.    *)
Operations == {"start", "stop", "reset", "query"}

Init ==
    /\ mutex = "free"
    /\ running = FALSE
    /\ callback = FALSE
    /\ thread = "none"
    /\ op = [u \in Users |-> "query"]
    /\ pc = [u \in Users |-> "idle"]

-----------------------------------------------------------------------------
Goto(u, place) == pc' = [pc EXCEPT ![u] = place]

Call(u, operation) ==
    /\ pc[u] = "idle"
    /\ op' = [op EXCEPT ![u] = operation]
    /\ Goto(u, CASE operation = "start"             -> "enter"
                 [] operation \in {"stop", "reset"} -> "stop"
                 [] operation = "query"             -> "query")
    /\ UNCHANGED <<mutex, running, callback, thread>>

(* start() locks, and calls stop().                                        *)
StartLocks(u) ==
    /\ pc[u] = "enter" /\ mutex = "free"
    /\ mutex' = u
    /\ Goto(u, "stop")
    /\ UNCHANGED <<running, callback, thread, op>>

(* stop(), called by itself, by reset() or by start().                     *)
StopClears(u) ==
    /\ pc[u] = "stop" /\ mutex = "free"
    /\ running' = FALSE
    /\ Goto(u, "join")
    /\ UNCHANGED <<mutex, callback, thread, op>>

StopJoins(u) ==
    /\ pc[u] = "join" /\ thread \in {"none", "ended"}
    /\ thread' = "none"
    /\ Goto(u, IF op[u] = "stop" THEN "idle" ELSE op[u])
    /\ UNCHANGED <<mutex, running, callback, op>>

StartArms(u) ==
    /\ pc[u] = "start"
    /\ running' = TRUE
    /\ callback' \in BOOLEAN
    /\ thread' = IF callback' THEN "sleeping" ELSE thread
    /\ mutex' = "free"
    /\ Goto(u, "idle")
    /\ UNCHANGED op

ResetClears(u) ==
    /\ pc[u] = "reset" /\ mutex = "free"
    /\ running' = FALSE
    /\ Goto(u, "idle")
    /\ UNCHANGED <<mutex, callback, thread, op>>

Query(u) ==
    /\ pc[u] = "query" /\ mutex = "free"
    /\ Goto(u, "idle")
    /\ UNCHANGED <<mutex, running, callback, thread, op>>

UserStep(u) ==
    \/ StartLocks(u) \/ StopClears(u) \/ StopJoins(u)
    \/ StartArms(u) \/ ResetClears(u) \/ Query(u)

-----------------------------------------------------------------------------
(* The thread start() makes.                                               *)
CountdownEnds ==
    /\ thread = "sleeping"
    /\ thread' = "locking"
    /\ UNCHANGED <<mutex, running, callback, op, pc>>

CallbackBegins ==
    /\ thread = "locking" /\ mutex = "free"
    /\ IF running /\ callback THEN mutex' = "timer" /\ thread' = "callback"
                              ELSE thread' = "ended" /\ UNCHANGED mutex
    /\ UNCHANGED <<running, callback, op, pc>>

CallbackEnds ==
    /\ thread = "callback"
    /\ mutex' = "free"
    /\ thread' = "ended"
    /\ UNCHANGED <<running, callback, op, pc>>

ThreadStep == CountdownEnds \/ CallbackBegins \/ CallbackEnds

Next ==
    \/ \E u \in Users : UserStep(u) \/ \E o \in Operations : Call(u, o)
    \/ ThreadStep

(* Every thread runs, and gets the mutex if it is free again and again.    *)
Spec ==
    /\ Init /\ [][Next]_vars
    /\ \A u \in Users : SF_vars(UserStep(u))
    /\ SF_vars(ThreadStep)

-----------------------------------------------------------------------------
(* Who calls start() gets back from it: the countdown runs (timer.hpp:47). *)
StartReturns == \A u \in Users : op[u] = "start" ~> pc[u] = "idle"
=============================================================================
