----------------------------- MODULE LogStream -----------------------------
(***************************************************************************)
(* What the Logger promises to whoever calls log(), without threads, mutex *)
(* or condition variable: entries are printed one by one in the order they *)
(* were accepted, and before the log is closed everything that had been    *)
(* accepted when it was asked to stop has been printed.                    *)
(***************************************************************************)
EXTENDS Integers, Sequences

CONSTANT Entries

VARIABLES
    pending,    \* accepted and not printed yet
    printed,
    stopping,   \* whether the log was asked to stop
    demanded,   \* how many entries had been accepted then
    closed

streamVars == <<pending, printed, stopping, demanded, closed>>

StreamInit ==
    /\ pending = <<>>
    /\ printed = <<>>
    /\ stopping = FALSE
    /\ demanded = 0
    /\ closed = FALSE

(* Some entry, put behind the others.                                      *)
Accept ==
    /\ Len(pending') = Len(pending) + 1
    /\ pending'[Len(pending')] \in Entries
    /\ pending' = Append(pending, pending'[Len(pending')])
    /\ UNCHANGED <<printed, stopping, demanded, closed>>

Output ==
    /\ pending # <<>>
    /\ printed' = Append(printed, Head(pending))
    /\ pending' = Tail(pending)
    /\ UNCHANGED <<stopping, demanded, closed>>

Stop ==
    /\ ~stopping
    /\ stopping' = TRUE
    /\ demanded' = Len(printed) + Len(pending)
    /\ UNCHANGED <<pending, printed, closed>>

Close ==
    /\ stopping
    /\ Len(printed) >= demanded
    /\ closed' = TRUE
    /\ UNCHANGED <<pending, printed, stopping, demanded>>

StreamNext == Accept \/ Output \/ Stop \/ Close

StreamSpec == StreamInit /\ [][StreamNext]_streamVars
=============================================================================
