------------------------------- MODULE Retry -------------------------------
(***************************************************************************)
(* retryWithBackoff and simpleRetry of src/src/utils/retry.hpp.  What they *)
(* repeat is an operation with a timeout, as in src/STAGE2.md: what a call *)
(* of Timeout answers or throws covers what any function can do.           *)
(*                                                                         *)
(* size_t and the milliseconds' long long keep a width, SizeMax and        *)
(* LongMax.  Doubles are exact fractions: the backoff multiplier counts    *)
(* halves, the jitter factor 0.75 + r / 2000 two-thousandths.              *)
(***************************************************************************)
EXTENDS Timeout

CONSTANTS
    MaxRetries,   \* values of config.maxRetries
    BaseDelays,   \* values of config.baseDelay
    Backoffs,     \* values of config.backoffMultiplier, in halves
    MaxDelays,    \* values of config.maxDelay
    Rands,        \* values of rand() % 1000
    SizeMax,      \* the largest size_t
    LongMax       \* the largest long long

ASSUME RetryAssumption ==
    /\ SizeMax \in Nat /\ LongMax \in Nat
    /\ MaxRetries \subseteq 0..SizeMax
    /\ BaseDelays \subseteq 0..LongMax /\ MaxDelays \subseteq 0..LongMax
    /\ Backoffs \subseteq Nat
    /\ Rands \subseteq 0..999

VARIABLES
    config,         \* the RetryConfig
    pc,             \* where retryWithBackoff is
    attempt,        \* attempts that have failed
    currentDelay,   \* the delay before jitter and cap
    delays,         \* what it slept between the attempts, so far
    result          \* what it returns

retryVars == <<config, pc, attempt, currentDelay, delays, result>>
vars == <<timeoutVars, retryVars>>

(* simpleRetry is the case of a fixed delay.                               *)
SimpleConfig(maxRetries, delay) ==
    [maxRetries |-> maxRetries, baseDelay |-> delay, backoff |-> 2,
     maxDelay |-> delay, jitter |-> FALSE]

Configs ==
    [maxRetries : MaxRetries, baseDelay : BaseDelays, backoff : Backoffs,
     maxDelay : MaxDelays, jitter : BOOLEAN]
    \cup {SimpleConfig(n, delay) : n \in MaxRetries, delay \in BaseDelays}

Init ==
    /\ TimeoutInit
    /\ config \in Configs
    /\ pc = "loop"
    /\ attempt = 0
    /\ currentDelay = config.baseDelay
    /\ delays = <<>>
    /\ result = "none"

-----------------------------------------------------------------------------
LongMin == -LongMax - 1

(* static_cast<long long>(n / d) cuts the fraction off.  A value that does *)
(* not fit is undefined: x86-64 gives the smallest, arm64 the nearest.     *)
ToLong(n, d) ==
    LET quotient == IF n >= 0 THEN n \div d ELSE -((-n) \div d)
    IN  IF quotient \in LongMin..LongMax THEN {quotient} ELSE {LongMin, LongMax}

Jittered(delay) ==
    IF config.jitter THEN UNION {ToLong(delay * (1500 + r), 2000) : r \in Rands}
                     ELSE {delay}

Capped(delay) == IF delay > config.maxDelay THEN config.maxDelay ELSE delay

(* Bug variant: capped before the jitter is added.                         *)
SleepTimesCappedFirst == Jittered(Capped(currentDelay))

SleepTimes == {Capped(delay) : delay \in Jittered(currentDelay)}

Grown == ToLong(currentDelay * config.backoff, 2)

-----------------------------------------------------------------------------
(* Bug variant: the attempts are counted to maxRetries, not one further.   *)
AttemptsLeftExclusive(n) == n < config.maxRetries

AttemptsLeft(n) == n <= config.maxRetries

Attempt ==
    /\ pc = "loop" /\ AttemptsLeft(attempt)
    /\ Launch \/ LaunchFails
    /\ pc' = "func"
    /\ UNCHANGED <<config, attempt, currentDelay, delays, result>>

(* Bug variant: nothing is returned after the loop.                        *)
GiveUpSilently ==
    /\ pc = "loop" /\ ~AttemptsLeft(attempt)
    /\ pc' = "returned"
    /\ UNCHANGED <<timeoutVars, config, attempt, currentDelay, delays, result>>

GiveUp ==
    /\ pc = "loop" /\ ~AttemptsLeft(attempt)
    /\ pc' = "returned"
    /\ result' = "false"
    /\ UNCHANGED <<timeoutVars, config, attempt, currentDelay, delays>>

(* func() has returned, or thrown.                                         *)
FuncAnswers(answers) ==
    /\ pc = "func" /\ caller = "returned" /\ verdict \in answers
    /\ caller' = "idle"
    /\ verdict' = "none"
    /\ UNCHANGED <<operations, variant, config>>

Succeed ==
    /\ FuncAnswers({"value"})
    /\ pc' = "returned"
    /\ result' = "true"
    /\ UNCHANGED <<attempt, currentDelay, delays>>

(* Only std::exception is caught.                                          *)
Escape ==
    /\ FuncAnswers({"alien"})
    /\ pc' = "returned"
    /\ result' = "exception"
    /\ UNCHANGED <<attempt, currentDelay, delays>>

(* The attempt counts; if there is another one, sleep first.               *)
Fail ==
    /\ FuncAnswers({"empty", "exception"})
    /\ attempt' = IF attempt = SizeMax THEN 0 ELSE attempt + 1
    /\ IF AttemptsLeft(attempt')
       THEN /\ pc' = "sleep"
            /\ \E delay \in SleepTimes : delays' = Append(delays, delay)
       ELSE pc' = "loop" /\ UNCHANGED delays
    /\ UNCHANGED <<currentDelay, result>>

WakeUp ==
    /\ pc = "sleep"
    /\ currentDelay' \in Grown
    /\ pc' = "loop"
    /\ UNCHANGED <<timeoutVars, config, attempt, delays, result>>

-----------------------------------------------------------------------------
RetryStep ==
    \/ Attempt \/ GiveUp \/ Succeed \/ Escape \/ Fail \/ WakeUp
    \/ CallerStep /\ UNCHANGED retryVars

Next ==
    \/ RetryStep
    \/ OperationStep /\ UNCHANGED retryVars

Spec == Init /\ [][Next]_vars

(* The caller runs, and an operation ends some day.  Without the latter    *)
(* no call returns, whatever its timeout is.                               *)
FairSpec == Spec /\ WF_vars(RetryStep) /\ WF_vars(OperationStep /\ UNCHANGED retryVars)

-----------------------------------------------------------------------------
(* Type invariant.                                                         *)
RetryTypeOK ==
    /\ TimeoutTypeOK
    /\ config \in Configs
    /\ pc \in {"loop", "func", "sleep", "returned"}
    /\ attempt \in 0..SizeMax
    /\ currentDelay \in LongMin..LongMax
    /\ delays \in Seq(LongMin..LongMax)
    /\ result \in {"none", "true", "false", "exception"}
    /\ pc = "returned" <=> result # "none"

(* An operation that outlived its timeout never overlaps with the next     *)
(* attempt, and none is left when the call returns: what the function has  *)
(* captured by reference is still there (timeout.hpp:52-58, retry.hpp:57). *)
NoOrphanedOperation ==
    /\ \A k \in 1..Len(operations) : operations[k] = Running => k = Len(operations)
    /\ caller \in {"idle", "returned"} =>
          \A k \in 1..Len(operations) : operations[k] # Running

(* true is the answer of an attempt that succeeded in time, false comes    *)
(* after exactly maxRetries + 1 attempts, and at no moment are there more; *)
(* attempts that could not even be launched count (retry.hpp:52-102).  Of  *)
(* SIZE_MAX retries the loop never counts past the end.                    *)
ResultEarned ==
    /\ result = "true" => Current = "done"
    /\ config.maxRetries < SizeMax =>
          /\ Len(operations) <= config.maxRetries + 1
          /\ result = "false" => Len(operations) = config.maxRetries + 1

(* A delay that grows n times by a whole multiplier, exactly.              *)
Plain(base, multiplier) ==
    LET delay[n \in Nat] == IF n = 0 THEN base ELSE delay[n - 1] * multiplier
    IN  delay

(* The k-th sleep lies around baseDelay * backoff^(k-1), within the jitter *)
(* of a quarter, and never exceeds maxDelay: the cap acts on what is slept *)
(* and not on what grows, as long as it fits (retry.hpp:75-96).           *)
BackoffFollowed ==
    config.backoff % 2 = 0 =>
        \A k \in 1..Len(delays) :
            LET plain == Plain(config.baseDelay, config.backoff \div 2)[k - 1]
                low   == IF config.jitter THEN (3 * plain) \div 4 ELSE plain
                high  == IF config.jitter THEN (5 * plain) \div 4 ELSE plain
            IN  high <= LongMax => delays[k] \in Capped(low)..Capped(high)

(* The call returns, however its attempts fail (retry.hpp:52-102).         *)
RetryEnds == <>(pc = "returned")
=============================================================================
