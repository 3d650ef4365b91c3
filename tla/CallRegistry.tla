---------------------------- MODULE CallRegistry ----------------------------
(***************************************************************************)
(* What a client may count on about the calls it handed to CallManager,    *)
(* with locks, callbacks, lists and loops hidden: a call that was started  *)
(* or added is live until it is completed, it is completed once, and a     *)
(* completed call stays on record.  No call ever disappears.               *)
(***************************************************************************)
CONSTANT Calls

VARIABLES live, done

registryVars == <<live, done>>

RegistryInit == live = {} /\ done = {}

(* startOutgoingCall and addCall *)
Register(c) ==
    /\ c \notin live \cup done
    /\ live' = live \cup {c}
    /\ UNCHANGED done

(* removeCall, and each iteration of stopAllCalls *)
Complete(c) ==
    /\ c \in live
    /\ live' = live \ {c}
    /\ done' = done \cup {c}

RegistryNext == \E c \in Calls : Register(c) \/ Complete(c)

RegistrySpec == RegistryInit /\ [][RegistryNext]_registryVars
=============================================================================
