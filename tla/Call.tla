-------------------------------- MODULE Call --------------------------------
(***************************************************************************)
(* One call object of src/src/core/call.cpp.  Every method of Call runs    *)
(* under the object's own mutex from its first statement to its return, so *)
(* a method is one step: each operator below maps the record that stands   *)
(* for a call before the method to the record after it.                    *)
(*                                                                         *)
(* Time points, byte counters, addresses and the destination are left out: *)
(* no guard of the class reads them.                                       *)
(***************************************************************************)
EXTENDS Integers

(* enum class CallState *)
CallState ==
    {"NULL_STATE", "CALL_INITIATED", "CALL_RECEIVED", "CALL_PRESENTED",
     "CALL_PROCEEDING", "CALL_DELIVERED", "CALL_ALERTING", "CALL_ACTIVE",
     "RELEASE_REQUEST", "RELEASE_INDICATION", "RELEASE_COMPLETE",
     "ERROR_STATE"}

(* ReleaseCause::NORMAL_CALL_CLEARING, the argument of release(16) *)
NormalCallClearing == 16

(* The id "call-<n>" is the number n. *)
CallObject ==
    [callId : Nat, incoming : BOOLEAN, state : CallState, releaseCause : Nat]

(* Call::Call *)
NewCall(id, isIncoming) ==
    [callId |-> id, incoming |-> isIncoming,
     state |-> "NULL_STATE", releaseCause |-> 0]

(* Call::setup: refused unless the call is still in NULL_STATE *)
Setup(call) ==
    IF call.state = "NULL_STATE"
    THEN [call EXCEPT !.state = "CALL_INITIATED"]
    ELSE call

(* Call::answer: refused unless the call is ringing *)
CanAnswer(call) == call.state \in {"CALL_RECEIVED", "CALL_ALERTING"}

Answered(call) ==
    IF CanAnswer(call) THEN [call EXCEPT !.state = "CALL_ACTIVE"] ELSE call

(* Call::release: refused before setup and after the first release *)
CanRelease(call) == call.state \notin {"RELEASE_COMPLETE", "NULL_STATE"}

ReleasedUnguarded(call, cause) ==
    [call EXCEPT !.state = "RELEASE_COMPLETE", !.releaseCause = cause]

Released(call, cause) ==
    IF CanRelease(call)
    THEN [call EXCEPT !.state = "RELEASE_COMPLETE", !.releaseCause = cause]
    ELSE call

(* Call::setState: no guard at all, any state may follow any state *)
WithState(call, s) == [call EXCEPT !.state = s]
=============================================================================
