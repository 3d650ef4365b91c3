---------------------------- MODULE Retry_proofs ----------------------------
(***************************************************************************)
(* What holds of a retried operation for every configuration: that no      *)
(* attempt outlives its turn, that the answer is earned, and that the      *)
(* delays back off as they should.                                         *)
(***************************************************************************)
EXTENDS Retry, WellFoundedInduction, TLAPS

(* The inductive invariant: where the loop stands and where the call with  *)
(* a timeout stands go together, ...                                       *)
InStep == pc = "func" <=> caller # "idle"

(* ... an answer that is a value comes from an operation that ended well,  *)
ValueEarned ==
    /\ caller = "returned" /\ verdict = "value" => operations # <<>> /\ Current = "done"
    /\ result = "true" => operations # <<>> /\ Current = "done"
    /\ pc # "returned" => result = "none"
    /\ caller = "leaving" => verdict = "empty"

(* and attempts are counted, the one under way not yet.                    *)
AttemptsCounted ==
    config.maxRetries < SizeMax =>
        /\ pc \in {"loop", "sleep"} => Len(operations) = attempt /\ attempt <= config.maxRetries + 1
        /\ pc = "func" => Len(operations) = attempt + 1 /\ attempt <= config.maxRetries
        /\ pc = "sleep" => attempt <= config.maxRetries
        /\ Len(operations) <= config.maxRetries + 1
        /\ result = "false" => Len(operations) = config.maxRetries + 1

IInv ==
    /\ RetryTypeOK
    /\ InStep
    /\ NoOrphanedOperation
    /\ ValueEarned
    /\ AttemptsCounted

-----------------------------------------------------------------------------
(* What is computed in milliseconds stays within long long.                *)
LEMMA LongFits ==
    ASSUME NEW n, NEW d, NEW q \in ToLong(n, d)
    PROVE  q \in LongMin..LongMax
<1>1. LongMin \in LongMin..LongMax /\ LongMax \in LongMin..LongMax
  BY RetryAssumption DEF LongMin
<1> QED
  BY <1>1 DEF ToLong

(* What a configuration is.                                                *)
LEMMA ConfigType ==
    ASSUME config \in Configs
    PROVE  /\ config.maxRetries \in 0..SizeMax
           /\ config.baseDelay \in 0..LongMax
           /\ config.maxDelay \in 0..LongMax
           /\ config.jitter \in BOOLEAN
<1>1. CASE config \in [maxRetries : MaxRetries, baseDelay : BaseDelays, backoff : Backoffs,
                       maxDelay : MaxDelays, jitter : BOOLEAN]
  <2>1. /\ config.maxRetries \in MaxRetries /\ config.baseDelay \in BaseDelays
        /\ config.maxDelay \in MaxDelays /\ config.jitter \in BOOLEAN
    BY <1>1
  <2>2. config.maxRetries \in 0..SizeMax
    BY <2>1, RetryAssumption
  <2>3. config.baseDelay \in 0..LongMax
    BY <2>1, RetryAssumption
  <2>4. config.maxDelay \in 0..LongMax
    BY <2>1, RetryAssumption
  <2> QED
    BY <2>1, <2>2, <2>3, <2>4
<1>2. CASE \E n \in MaxRetries, delay \in BaseDelays : config = SimpleConfig(n, delay)
  BY <1>2, RetryAssumption DEF SimpleConfig
<1> QED
  BY <1>1, <1>2 DEF Configs

(* So does every sleep: the cap is one of them.                            *)
LEMMA SleepFits ==
    ASSUME config \in Configs, currentDelay \in LongMin..LongMax,
           NEW delay \in SleepTimes
    PROVE  delay \in LongMin..LongMax
<1>1. PICK j \in Jittered(currentDelay) : delay = Capped(j)
  BY DEF SleepTimes
<1>2. j \in LongMin..LongMax
  BY LongFits DEF Jittered
<1>3. config.maxDelay \in LongMin..LongMax
  BY ConfigType, RetryAssumption DEF LongMin
<1> QED
  BY <1>1, <1>2, <1>3 DEF Capped

-----------------------------------------------------------------------------
(* The initial states.                                                     *)
LEMMA InitInv == Init => IInv
<1> SUFFICES ASSUME Init PROVE IInv
  OBVIOUS
<1> USE DEF Init, TimeoutInit
<1>1. config.maxRetries \in 0..SizeMax /\ config.baseDelay \in 0..LongMax
  BY ConfigType
<1>2. currentDelay \in LongMin..LongMax
  BY <1>1, RetryAssumption DEF LongMin
<1>3. RetryTypeOK
  BY <1>1, <1>2, RetryAssumption DEF RetryTypeOK, TimeoutTypeOK, Verdicts, LongMin
<1>4. InStep /\ NoOrphanedOperation /\ ValueEarned
  BY DEF InStep, NoOrphanedOperation, ValueEarned
<1>5. AttemptsCounted
  BY <1>1, RetryAssumption DEF AttemptsCounted
<1> QED
  BY <1>3, <1>4, <1>5 DEF IInv
-----------------------------------------------------------------------------
(* The steps of a call with a timeout that are none of the loop's.         *)
LEMMA TimeoutStep ==
    ASSUME IInv, UNCHANGED retryVars,
           CallerStep \/ OperationStep
    PROVE  IInv'
<1> USE DEF retryVars
<1>0. /\ operations \in Seq(OperationStates) /\ caller \in {"idle", "waiting", "leaving", "returned"}
      /\ verdict \in Verdicts /\ variant \in {"execute", "tryExecute"}
      /\ caller \in {"waiting", "leaving"} => operations # <<>>
  BY DEF IInv, RetryTypeOK, TimeoutTypeOK
<1>1. ASSUME WaitReady PROVE IInv'
  <2> USE <1>1 DEF WaitReady
  <2>1. Answer(Current) \in Verdicts /\ (Answer(Current) = "value" => Current = "done")
    BY DEF Answer, Verdicts, Endings
  <2>2. RetryTypeOK'
    BY <1>0, <2>1 DEF IInv, RetryTypeOK, TimeoutTypeOK, Configs, ToLong, LongMin
  <2>3. Current # Running /\ Len(operations) \in 1..Len(operations)
    BY <1>0 DEF Endings, Running
  <2>4. NoOrphanedOperation'
    BY <1>0, <2>3 DEF IInv, NoOrphanedOperation, Current
  <2>5. InStep' /\ ValueEarned' /\ AttemptsCounted'
    BY <1>0, <2>1 DEF IInv, InStep, ValueEarned, AttemptsCounted, Current
  <2> QED
    BY <2>2, <2>4, <2>5 DEF IInv
<1>2. ASSUME WaitTimesOut PROVE IInv'
  <2> USE <1>2 DEF WaitTimesOut
  <2>2. RetryTypeOK'
    BY <1>0 DEF IInv, RetryTypeOK, TimeoutTypeOK, Verdicts, Configs
  <2>4. NoOrphanedOperation'
    BY <1>0 DEF IInv, NoOrphanedOperation
  <2>5. InStep' /\ ValueEarned' /\ AttemptsCounted'
    BY <1>0 DEF IInv, InStep, ValueEarned, AttemptsCounted, Current
  <2> QED
    BY <2>2, <2>4, <2>5 DEF IInv
<1>3. ASSUME Leave PROVE IInv'
  <2> USE <1>3 DEF Leave
  <2>2. RetryTypeOK'
    BY <1>0 DEF IInv, RetryTypeOK, TimeoutTypeOK, Configs
  <2>3. Current # Running
    BY DEF Endings, Running
  <2>4. NoOrphanedOperation'
    BY <1>0, <2>3 DEF IInv, NoOrphanedOperation, Current
  <2>5. InStep' /\ AttemptsCounted'
    BY <1>0 DEF IInv, InStep, AttemptsCounted
  <2>6. ValueEarned'
    BY <1>0, <2>3 DEF IInv, ValueEarned, Current
  <2> QED
    BY <2>2, <2>4, <2>5, <2>6 DEF IInv
<1>4. ASSUME NEW k \in 1..Len(operations), NEW ending \in Endings,
             OperationEnds(k, ending)
      PROVE  IInv'
  <2> USE <1>4 DEF OperationEnds
  <2>1. /\ operations' \in Seq(OperationStates) /\ Len(operations') = Len(operations)
        /\ \A l \in 1..Len(operations) : operations'[l] = IF l = k THEN ending ELSE operations[l]
        /\ ending # Running
    BY <1>0 DEF OperationStates, Endings, Running
  <2>2. RetryTypeOK'
    BY <1>0, <2>1 DEF IInv, RetryTypeOK, TimeoutTypeOK, Configs
  <2>3. NoOrphanedOperation'
    BY <1>0, <2>1 DEF IInv, NoOrphanedOperation
  <2>4. InStep' /\ AttemptsCounted'
    BY <1>0, <2>1 DEF IInv, InStep, AttemptsCounted
  <2>5. operations # <<>> => operations' # <<>> /\ Len(operations) \in 1..Len(operations)
    BY <1>0, <2>1
  <2>6. operations # <<>> /\ Current = "done" => Current' = "done"
    BY <1>0, <2>1, <2>5 DEF Current, Running
  <2>7. ValueEarned'
    BY <1>0, <2>5, <2>6 DEF IInv, ValueEarned
  <2> QED
    BY <2>2, <2>3, <2>4, <2>7 DEF IInv
<1> QED
  BY <1>1, <1>2, <1>3, <1>4 DEF CallerStep, OperationStep
-----------------------------------------------------------------------------
(* The steps of the loop.                                                  *)
LEMMA AttemptStep ==
    ASSUME IInv, Attempt
    PROVE  IInv'
<1> USE DEF Attempt
<1>0. /\ operations \in Seq(OperationStates) /\ caller = "idle"
      /\ attempt \in Nat /\ config.maxRetries \in 0..SizeMax /\ SizeMax \in Nat
      /\ \A k \in 1..Len(operations) : operations[k] # Running
      /\ result = "none"
  BY ConfigType, RetryAssumption
  DEF IInv, RetryTypeOK, TimeoutTypeOK, InStep, NoOrphanedOperation, ValueEarned
<1>1. PICK state \in {Running, "unlaunched"} :
          /\ operations' = Append(operations, state)
          /\ caller' = IF state = Running THEN "waiting" ELSE "returned"
          /\ verdict' = IF state = Running THEN verdict ELSE "exception"
          /\ variant' = variant
  BY DEF Launch, LaunchFails, Running
<1>2. /\ operations' \in Seq(OperationStates) /\ operations' # <<>>
      /\ Len(operations') = Len(operations) + 1
      /\ \A k \in 1..Len(operations) : operations'[k] = operations[k]
      /\ operations'[Len(operations) + 1] = state
  BY <1>0, <1>1 DEF OperationStates
<1>3. RetryTypeOK'
  BY <1>0, <1>1, <1>2 DEF IInv, RetryTypeOK, TimeoutTypeOK, Verdicts, Configs
<1>4. NoOrphanedOperation'
  BY <1>0, <1>1, <1>2 DEF NoOrphanedOperation, Running
<1>5. InStep'
  BY <1>1 DEF InStep
<1>6. ValueEarned'
  BY <1>0, <1>1, <1>2 DEF IInv, ValueEarned
<1>7. AttemptsCounted'
  BY <1>0, <1>2 DEF IInv, AttemptsCounted, AttemptsLeft
<1> QED
  BY <1>3, <1>4, <1>5, <1>6, <1>7 DEF IInv

(* false is the answer when no attempt is left.                            *)
LEMMA GiveUpStep ==
    ASSUME IInv, GiveUp
    PROVE  IInv'
<1> USE DEF GiveUp, timeoutVars
<1>0. /\ operations \in Seq(OperationStates) /\ attempt \in Nat
      /\ config.maxRetries \in 0..SizeMax /\ SizeMax \in Nat
  BY ConfigType, RetryAssumption DEF IInv, RetryTypeOK, TimeoutTypeOK
<1>1. RetryTypeOK'
  BY DEF IInv, RetryTypeOK, TimeoutTypeOK, Configs
<1>2. NoOrphanedOperation' /\ InStep'
  BY DEF IInv, NoOrphanedOperation, InStep
<1>3. ValueEarned'
  BY DEF IInv, ValueEarned, Current
<1>4. AttemptsCounted'
  BY <1>0 DEF IInv, AttemptsCounted, AttemptsLeft
<1> QED
  BY <1>1, <1>2, <1>3, <1>4 DEF IInv

(* The call with a timeout is over: no operation runs.                     *)
LEMMA FuncAnswered ==
    ASSUME IInv, NEW answers, FuncAnswers(answers)
    PROVE  /\ operations \in Seq(OperationStates)
           /\ attempt \in 0..SizeMax
           /\ config.maxRetries \in 0..SizeMax /\ SizeMax \in Nat
           /\ TimeoutTypeOK'
           /\ NoOrphanedOperation'
           /\ result = "none"
<1> USE DEF FuncAnswers
<1>1. TimeoutTypeOK'
  BY DEF IInv, RetryTypeOK, TimeoutTypeOK, Verdicts
<1>2. NoOrphanedOperation'
  BY DEF IInv, NoOrphanedOperation
<1> QED
  BY <1>1, <1>2, ConfigType, RetryAssumption
  DEF IInv, RetryTypeOK, TimeoutTypeOK, ValueEarned

(* true and an escaping exception end the loop.                            *)
LEMMA AnswerStep ==
    ASSUME IInv, Succeed \/ Escape
    PROVE  IInv'
<1> USE DEF Succeed, Escape, FuncAnswers
<1>1. PICK answers : FuncAnswers(answers)
  OBVIOUS
<1>2. RetryTypeOK'
  BY <1>1, FuncAnswered DEF IInv, RetryTypeOK, Configs
<1>3. InStep' /\ ValueEarned'
  BY DEF IInv, InStep, ValueEarned, Current
<1>4. AttemptsCounted'
  BY <1>1, FuncAnswered DEF IInv, AttemptsCounted
<1> QED
  BY <1>1, <1>2, <1>3, <1>4, FuncAnswered DEF IInv

(* A failed attempt is counted, and sleeps if there is another.            *)
LEMMA FailStep ==
    ASSUME IInv, Fail
    PROVE  IInv'
<1> USE DEF Fail
<1>0. FuncAnswers({"empty", "exception"})
  OBVIOUS
<1>1. delays' \in Seq(LongMin..LongMax)
  <2>1. CASE UNCHANGED delays
    BY <2>1 DEF IInv, RetryTypeOK
  <2>2. CASE \E delay \in SleepTimes : delays' = Append(delays, delay)
    <3>1. PICK delay \in SleepTimes : delays' = Append(delays, delay)
      BY <2>2
    <3>2. delay \in LongMin..LongMax
      BY SleepFits DEF IInv, RetryTypeOK
    <3> QED
      BY <3>1, <3>2 DEF IInv, RetryTypeOK
  <2> QED
    BY <2>1, <2>2
<1>2. attempt' \in 0..SizeMax
  BY <1>0, FuncAnswered
<1>3. RetryTypeOK'
  <2>1. TimeoutTypeOK' /\ result' = "none"
    BY <1>0, FuncAnswered
  <2>2. (config \in Configs)' /\ pc' \in {"loop", "sleep"} /\ (currentDelay \in LongMin..LongMax)'
    BY <1>0 DEF IInv, RetryTypeOK, FuncAnswers, Configs
  <2> QED
    BY <1>1, <1>2, <2>1, <2>2 DEF RetryTypeOK
<1>4. InStep' /\ ValueEarned'
  BY <1>0, FuncAnswered DEF IInv, InStep, ValueEarned, FuncAnswers
<1>5. AttemptsCounted'
  <2>1. pc = "func" /\ config' = config /\ operations' = operations /\ pc' \in {"loop", "sleep"}
    BY <1>0 DEF FuncAnswers
  <2>2. pc' = "sleep" => attempt' <= config.maxRetries
    BY <1>0 DEF AttemptsLeft, FuncAnswers
  <2> QED
    BY <1>0, <2>1, <2>2, FuncAnswered DEF IInv, AttemptsCounted
<1> QED
  BY <1>0, <1>3, <1>4, <1>5, FuncAnswered DEF IInv

(* After the sleep the delay grows, within long long.                      *)
LEMMA WakeUpStep ==
    ASSUME IInv, WakeUp
    PROVE  IInv'
<1> USE DEF WakeUp, timeoutVars
<1>1. currentDelay' \in LongMin..LongMax
  BY LongFits DEF Grown
<1>2. RetryTypeOK'
  BY <1>1 DEF IInv, RetryTypeOK, TimeoutTypeOK, Configs
<1>3. NoOrphanedOperation' /\ InStep' /\ ValueEarned'
  BY DEF IInv, NoOrphanedOperation, InStep, ValueEarned, Current
<1>4. AttemptsCounted'
  BY DEF IInv, AttemptsCounted
<1> QED
  BY <1>2, <1>3, <1>4 DEF IInv

-----------------------------------------------------------------------------
(* The invariant holds for every set of configurations.                    *)
LEMMA Invariance == Spec => []IInv
<1>1. ASSUME IInv, [Next]_vars PROVE IInv'
  <2>1. CASE UNCHANGED vars
    BY <1>1, <2>1
    DEF vars, timeoutVars, retryVars, IInv, RetryTypeOK, TimeoutTypeOK, Configs,
        NoOrphanedOperation, InStep, ValueEarned, AttemptsCounted, Current
  <2>2. CASE (CallerStep \/ OperationStep) /\ UNCHANGED retryVars
    BY <1>1, <2>2, TimeoutStep
  <2>3. CASE Attempt
    BY <1>1, <2>3, AttemptStep
  <2>4. CASE GiveUp
    BY <1>1, <2>4, GiveUpStep
  <2>5. CASE Succeed \/ Escape
    BY <1>1, <2>5, AnswerStep
  <2>6. CASE Fail
    BY <1>1, <2>6, FailStep
  <2>7. CASE WakeUp
    BY <1>1, <2>7, WakeUpStep
  <2> QED
    BY <1>1, <2>1, <2>2, <2>3, <2>4, <2>5, <2>6, <2>7 DEF Next, RetryStep
<1> QED
  BY <1>1, InitInv, PTL DEF Spec

(* Whatever times out and whenever it ends, an operation is over before    *)
(* the next one is launched and before the call returns.                   *)
THEOREM NoneOrphaned == Spec => []NoOrphanedOperation
<1>1. IInv => NoOrphanedOperation
  BY DEF IInv
<1> QED
  BY <1>1, Invariance, PTL

(* For every number of retries below SIZE_MAX: true is an attempt's        *)
(* success, false the failure of exactly maxRetries + 1 attempts.          *)
THEOREM AnswerEarned == Spec => []ResultEarned
<1>1. IInv => ResultEarned
  BY DEF IInv, ResultEarned, ValueEarned, AttemptsCounted
<1> QED
  BY <1>1, Invariance, PTL

-----------------------------------------------------------------------------
(* The least of some numbers.                                              *)
LEMMA LeastNumber ==
    ASSUME NEW S \in SUBSET Nat, S # {}
    PROVE  \E m \in S : \A n \in S : m <= n
<1> DEFINE R == {pair \in Nat \X Nat : pair[1] < pair[2]}
<1>1. IsWellFoundedOn(R, Nat)
  BY NatLessThanWellFounded DEF OpToRel
<1>2. PICK m \in S : \A n \in S : <<n, m>> \notin R
  BY <1>1, WFMin, Zenon
<1>3. ASSUME NEW n \in S PROVE m <= n
  <2>1. ~(n < m)
    BY <1>2
  <2> QED
    BY <2>1
<1> QED
  BY <1>2, <1>3

(* A delay that grows m times, and what it is on the way.                  *)
Growing(base, multiplier, m, r) ==
    r = [n \in 0..m |-> IF n = 0 THEN base ELSE r[n - 1] * multiplier]

(* There is one however often it grows, ...                                *)
LEMMA GrowingExists ==
    ASSUME NEW base, NEW multiplier, NEW m \in Nat
    PROVE  \E r : Growing(base, multiplier, m, r)
<1> DEFINE Fails == {l \in Nat : ~ \E r : Growing(base, multiplier, l, r)}
<1> SUFFICES ASSUME Fails # {} PROVE FALSE
  OBVIOUS
<1>1. PICK l \in Fails : \A k \in Fails : l <= k
  BY LeastNumber
<1>2. CASE l = 0
  <2> DEFINE r == [n \in 0..0 |-> base]
  <2>1. r = [n \in 0..0 |-> IF n = 0 THEN base ELSE r[n - 1] * multiplier]
    OBVIOUS
  <2>2. Growing(base, multiplier, 0, r)
    BY <2>1 DEF Growing
  <2> QED
    BY <1>1, <1>2, <2>2
<1>3. CASE l # 0
  <2>1. l - 1 \in Nat /\ l - 1 \notin Fails
    BY <1>1, <1>3
  <2>2. PICK r : Growing(base, multiplier, l - 1, r)
    BY <2>1
  <2> DEFINE s == [n \in 0..l |-> IF n = l THEN r[l - 1] * multiplier ELSE r[n]]
  <2>3. \A n \in 0..(l - 1) : s[n] = r[n]
    BY <2>1
  <2>4. ASSUME NEW n \in 0..l
        PROVE  s[n] = IF n = 0 THEN base ELSE s[n - 1] * multiplier
    <3>1. CASE n = l
      <4>1. n # 0 /\ n - 1 \in 0..(l - 1)
        BY <1>3, <3>1
      <4> QED
        BY <2>3, <3>1, <4>1
    <3>2. CASE n # l
      <4>1. n \in 0..(l - 1) /\ (n # 0 => n - 1 \in 0..(l - 1))
        BY <3>2
      <4>2. r[n] = IF n = 0 THEN base ELSE r[n - 1] * multiplier
        BY <2>2, <4>1 DEF Growing
      <4> QED
        BY <2>3, <4>1, <4>2
    <3> QED
      BY <3>1, <3>2
  <2>5. s = [n \in 0..l |-> IF n = 0 THEN base ELSE s[n - 1] * multiplier]
    BY <2>4
  <2>6. Growing(base, multiplier, l, s)
    BY <2>5 DEF Growing
  <2> QED
    BY <1>1, <2>6
<1> QED
  BY <1>2, <1>3

(* ... and they agree as far as they go: the first place where two did not *)
(* would follow one where they do.                                         *)
LEMMA GrowingAgree ==
    ASSUME NEW base, NEW multiplier, NEW l \in Nat, NEW m \in Nat, NEW r, NEW s,
           Growing(base, multiplier, l, r), Growing(base, multiplier, m, s),
           NEW k \in Nat, k <= l, k <= m
    PROVE  r[k] = s[k]
<1> DEFINE Differ == {n \in Nat : n <= l /\ n <= m /\ r[n] # s[n]}
<1> SUFFICES ASSUME Differ # {} PROVE FALSE
  OBVIOUS
<1>1. PICK n \in Differ : \A j \in Differ : n <= j
  BY LeastNumber
<1>2. n \in 0..l /\ n \in 0..m /\ r[n] # s[n]
  BY <1>1
<1>3. /\ r[n] = IF n = 0 THEN base ELSE r[n - 1] * multiplier
      /\ s[n] = IF n = 0 THEN base ELSE s[n - 1] * multiplier
  BY <1>2 DEF Growing
<1>4. n # 0
  BY <1>2, <1>3
<1>5. n - 1 \in Nat /\ n - 1 <= l /\ n - 1 <= m /\ ~(n <= n - 1)
  BY <1>2, <1>4
<1>6. r[n - 1] = s[n - 1]
  BY <1>1, <1>5
<1> QED
  BY <1>2, <1>3, <1>4, <1>6

(* So Plain is what its definition says.                                   *)
LEMMA PlainEquation ==
    ASSUME NEW base, NEW multiplier
    PROVE  /\ Plain(base, multiplier)[0] = base
           /\ \A n \in Nat :
                 Plain(base, multiplier)[n + 1] = Plain(base, multiplier)[n] * multiplier
<1> DEFINE Piece(m) == CHOOSE r : Growing(base, multiplier, m, r)
           g == [n \in Nat |-> Piece(n)[n]]
<1>1. \A m \in Nat : Growing(base, multiplier, m, Piece(m))
  BY GrowingExists
<1> HIDE DEF Piece
<1>2. ASSUME NEW n \in Nat
      PROVE  g[n] = IF n = 0 THEN base ELSE g[n - 1] * multiplier
  <2>1. n \in 0..n /\ Growing(base, multiplier, n, Piece(n))
    BY <1>1
  <2>2. Piece(n)[n] = IF n = 0 THEN base ELSE Piece(n)[n - 1] * multiplier
    BY <2>1 DEF Growing
  <2>3. n # 0 => Piece(n)[n - 1] = Piece(n - 1)[n - 1]
    <3> SUFFICES ASSUME n # 0 PROVE Piece(n)[n - 1] = Piece(n - 1)[n - 1]
      OBVIOUS
    <3>1. n - 1 \in Nat /\ n - 1 <= n /\ n - 1 <= n - 1
      OBVIOUS
    <3>2. Growing(base, multiplier, n - 1, Piece(n - 1))
      BY <1>1, <3>1
    <3> QED
      BY <2>1, <3>1, <3>2, GrowingAgree
  <2>4. n # 0 => g[n - 1] = Piece(n - 1)[n - 1]
    OBVIOUS
  <2> QED
    BY <2>2, <2>3, <2>4
<1>3. g = [n \in Nat |-> IF n = 0 THEN base ELSE g[n - 1] * multiplier]
  BY <1>2
<1> HIDE DEF g
<1>4. Plain(base, multiplier) =
         [n \in Nat |-> IF n = 0 THEN base ELSE Plain(base, multiplier)[n - 1] * multiplier]
  BY <1>3 DEF Plain
<1>5. Plain(base, multiplier)[0] = base
  BY <1>4
<1>6. ASSUME NEW n \in Nat
      PROVE  Plain(base, multiplier)[n + 1] = Plain(base, multiplier)[n] * multiplier
  <2>1. n + 1 \in Nat /\ n + 1 # 0 /\ (n + 1) - 1 = n
    OBVIOUS
  <2> QED
    BY <1>4, <2>1
<1> QED
  BY <1>5, <1>6

(* It is a number of milliseconds, ...                                     *)
LEMMA PlainType ==
    ASSUME NEW base \in Nat, NEW multiplier \in Nat, NEW n \in Nat
    PROVE  Plain(base, multiplier)[n] \in Nat
<1> DEFINE Fails == {k \in Nat : Plain(base, multiplier)[k] \notin Nat}
<1> SUFFICES ASSUME Fails # {} PROVE FALSE
  OBVIOUS
<1>1. PICK k \in Fails : \A j \in Fails : k <= j
  BY LeastNumber
<1>2. k \in Nat /\ k # 0
  BY <1>1, PlainEquation
<1>3. k - 1 \in Nat /\ ~(k <= k - 1) /\ (k - 1) + 1 = k
  BY <1>2
<1>4. Plain(base, multiplier)[k - 1] \in Nat
  BY <1>1, <1>3
<1>5. Plain(base, multiplier)[k] = Plain(base, multiplier)[k - 1] * multiplier
  BY <1>3, PlainEquation
<1>6. \A x \in Nat, y \in Nat : x * y \in Nat
  OBVIOUS
<1> QED
  BY <1>1, <1>4, <1>5, <1>6

(* ... which fits if it does after it has grown once more.                 *)
LEMMA PlainBefore ==
    ASSUME NEW limit \in Nat, NEW base \in 0..limit, NEW multiplier \in Nat, NEW n \in Nat,
           Plain(base, multiplier)[n + 1] <= limit
    PROVE  Plain(base, multiplier)[n] <= limit
<1>0. base \in Nat
  OBVIOUS
<1>1. Plain(base, multiplier)[n] \in Nat
  BY <1>0, PlainType
<1>2. Plain(base, multiplier)[n + 1] = Plain(base, multiplier)[n] * multiplier
  BY PlainEquation
<1>3. CASE multiplier # 0
  <2>1. \A x \in Nat, y \in Nat : y # 0 => x <= x * y
    <3> SUFFICES ASSUME NEW x \in Nat, NEW y \in Nat, y # 0 PROVE x <= x * y
      OBVIOUS
    <3>1. y - 1 \in Nat /\ y = (y - 1) + 1
      OBVIOUS
    <3>2. \A z \in Nat : x * z \in Nat /\ x * (z + 1) = x * z + x
      OBVIOUS
    <3>3. x * (y - 1) \in Nat /\ x * y = x * (y - 1) + x
      BY <3>1, <3>2
    <3> QED
      BY <3>3
  <2> QED
    BY <1>1, <1>2, <1>3, <2>1
<1>4. CASE multiplier = 0
  <2>1. CASE n = 0
    BY <2>1, PlainEquation
  <2>2. CASE n # 0
    <3>1. n - 1 \in Nat /\ (n - 1) + 1 = n
      BY <2>2
    <3>2. Plain(base, multiplier)[n] = Plain(base, multiplier)[n - 1] * 0
      BY <1>4, <3>1, PlainEquation
    <3>3. Plain(base, multiplier)[n - 1] \in Nat
      BY <1>0, <3>1, PlainType
    <3> QED
      BY <3>2, <3>3
  <2> QED
    BY <2>1, <2>2
<1> QED
  BY <1>3, <1>4

(* What a quarter of jitter leaves of a delay.                             *)
QuarterLow(d) == (3 * d) \div 4

QuarterHigh(d) == (5 * d) \div 4

(* A delay that fits stays within a quarter of itself.                     *)
LEMMA JitterWithin ==
    ASSUME config.jitter, NEW d \in Nat, QuarterHigh(d) <= LongMax,
           NEW q \in Jittered(d)
    PROVE  q \in QuarterLow(d)..QuarterHigh(d)
<1>0. PICK r \in Rands : q \in ToLong(d * (1500 + r), 2000)
  BY DEF Jittered
<1> r \in 0..999
  BY RetryAssumption
<1> DEFINE y == d * (1500 + r)
<1>1. y \in Nat /\ 1500 * d <= y /\ y <= 2500 * d
  <2>1. d * r \in Nat /\ y = 1500 * d + d * r
    OBVIOUS
  <2>2. d * (999 - r) \in Nat /\ d * r + d * (999 - r) = 999 * d
    <3>1. 999 - r \in Nat
      OBVIOUS
    <3> QED
      BY <3>1
  <2> HIDE DEF y
  <2> QED
    BY <2>1, <2>2
<1> HIDE DEF y
<1>2. y \div 2000 \in Nat /\ QuarterLow(d) <= y \div 2000 /\ y \div 2000 <= QuarterHigh(d)
  BY <1>1 DEF QuarterLow, QuarterHigh
<1>3. y \div 2000 \in LongMin..LongMax
  <2>1. QuarterHigh(d) \in Int
    BY DEF QuarterHigh
  <2> QED
    BY <1>2, <2>1, RetryAssumption DEF LongMin
<1>4. q = y \div 2000
  BY <1>0, <1>1, <1>3 DEF ToLong, y
<1>5. QuarterLow(d) \in Int /\ QuarterHigh(d) \in Int
  BY DEF QuarterLow, QuarterHigh
<1> QED
  BY <1>2, <1>4, <1>5

(* So does what is slept, up to the cap.                                   *)
LEMMA SleepWithin ==
    ASSUME config \in Configs, currentDelay \in Nat,
           NEW low, NEW high,
           low = IF config.jitter THEN QuarterLow(currentDelay) ELSE currentDelay,
           high = IF config.jitter THEN QuarterHigh(currentDelay) ELSE currentDelay,
           high <= LongMax,
           NEW delay \in SleepTimes
    PROVE  delay \in Capped(low)..Capped(high)
<1>1. PICK j \in Jittered(currentDelay) : delay = Capped(j)
  BY DEF SleepTimes
<1>2. low \in Int /\ high \in Int /\ j \in low..high
  <2>1. CASE config.jitter
    <3>1. QuarterHigh(currentDelay) <= LongMax
      BY <2>1
    <3>2. j \in QuarterLow(currentDelay)..QuarterHigh(currentDelay)
      BY <2>1, <3>1, <1>1, JitterWithin
    <3>3. QuarterLow(currentDelay) \in Int /\ QuarterHigh(currentDelay) \in Int
      BY DEF QuarterLow, QuarterHigh
    <3> QED
      BY <2>1, <3>2, <3>3
  <2>2. CASE ~config.jitter
    BY <2>2 DEF Jittered
  <2> QED
    BY <2>1, <2>2
<1>3. config.maxDelay \in Int
  BY ConfigType
<1> QED
  BY <1>1, <1>2, <1>3 DEF Capped

(* A whole multiplier is half the number of halves.                        *)
LEMMA WholeMultiplier ==
    ASSUME config \in Configs, config.backoff % 2 = 0
    PROVE  /\ config.backoff \div 2 \in Nat
           /\ config.backoff = 2 * (config.backoff \div 2)
<1>1. config.backoff \in Nat
  <2>1. config.backoff \in Backoffs \cup {2}
    BY DEF Configs, SimpleConfig
  <2>2. \A b \in Backoffs \cup {2} : b \in Nat
    BY RetryAssumption
  <2> QED
    BY <2>1, <2>2, Zenon
<1> QED
  BY <1>1

(* Grown by it, a delay that fits is what Plain says.                      *)
LEMMA GrownExactly ==
    ASSUME config \in Configs, config.backoff % 2 = 0, currentDelay \in Nat,
           currentDelay * (config.backoff \div 2) <= LongMax
    PROVE  Grown = {currentDelay * (config.backoff \div 2)}
<1> DEFINE y == currentDelay * (config.backoff \div 2)
<1>1. config.backoff \div 2 \in Nat /\ config.backoff = 2 * (config.backoff \div 2)
  BY WholeMultiplier
<1>2. y \in Nat
  BY <1>1
<1>3. currentDelay * config.backoff = 2 * y
  <2>1. \A x \in Nat, m \in Nat : x * (2 * m) = 2 * (x * m)
    OBVIOUS
  <2> QED
    BY <1>1, <2>1
<1> HIDE DEF y
<1>4. 2 * y >= 0 /\ (2 * y) \div 2 = y
  BY <1>2
<1>5. y \in LongMin..LongMax
  BY <1>2, RetryAssumption DEF LongMin, y
<1> QED
  BY <1>3, <1>4, <1>5 DEF Grown, ToLong, y

-----------------------------------------------------------------------------
(* What the delay grows to, and how often it has grown.                    *)
PlainDelay(n) == Plain(config.baseDelay, config.backoff \div 2)[n]

Growths == IF pc = "sleep" THEN Len(delays) - 1 ELSE Len(delays)

(* The delay is exact as long as it fits.                                  *)
GrowthExact ==
    /\ pc = "sleep" => delays # <<>>
    /\ config.backoff % 2 = 0 /\ PlainDelay(Growths) <= LongMax =>
          currentDelay = PlainDelay(Growths)

BackInv ==
    /\ GrowthExact
    /\ BackoffFollowed

(* What PlainDelay is for a configuration.                                 *)
LEMMA PlainDelayType ==
    ASSUME config \in Configs, config.backoff % 2 = 0, NEW n \in Nat
    PROVE  /\ PlainDelay(n) \in Nat
           /\ PlainDelay(n + 1) = PlainDelay(n) * (config.backoff \div 2)
           /\ PlainDelay(n + 1) <= LongMax => PlainDelay(n) <= LongMax
<1>1. config.backoff \div 2 \in Nat
  BY WholeMultiplier
<1>2. config.baseDelay \in 0..LongMax /\ LongMax \in Nat
  BY ConfigType, RetryAssumption
<1>3. config.baseDelay \in Nat
  BY <1>2
<1>4. PlainDelay(n) \in Nat
  BY <1>1, <1>3, PlainType DEF PlainDelay
<1>5. PlainDelay(n + 1) = PlainDelay(n) * (config.backoff \div 2)
  BY PlainEquation DEF PlainDelay
<1>6. PlainDelay(n + 1) <= LongMax => PlainDelay(n) <= LongMax
  BY <1>1, <1>2, PlainBefore DEF PlainDelay
<1> QED
  BY <1>4, <1>5, <1>6

(* One sleep of BackoffFollowed.                                           *)
Followed(k, delay) ==
    LET plain == PlainDelay(k - 1)
        low   == IF config.jitter THEN QuarterLow(plain) ELSE plain
        high  == IF config.jitter THEN QuarterHigh(plain) ELSE plain
    IN  high <= LongMax => delay \in Capped(low)..Capped(high)

(* BackoffFollowed, sleep by sleep.                                        *)
LEMMA FollowedOneByOne ==
    BackoffFollowed <=>
        (config.backoff % 2 = 0 => \A k \in 1..Len(delays) : Followed(k, delays[k]))
BY DEF BackoffFollowed, Followed, PlainDelay, QuarterLow, QuarterHigh

(* The same after a step that leaves the configuration alone.              *)
LEMMA FollowedOneByOneNext ==
    ASSUME UNCHANGED config
    PROVE  BackoffFollowed' <=>
               (config.backoff % 2 = 0 => \A k \in 1..Len(delays') : Followed(k, delays'[k]))
BY DEF BackoffFollowed, Followed, PlainDelay, QuarterLow, QuarterHigh, Capped

(* The next sleep is as it should be.                                      *)
LEMMA NextFollowed ==
    ASSUME config \in Configs, config.backoff % 2 = 0, NEW n \in Nat,
           PlainDelay(n) <= LongMax => currentDelay = PlainDelay(n),
           NEW delay \in SleepTimes
    PROVE  Followed(n + 1, delay)
<1> DEFINE plain == PlainDelay(n)
           low   == IF config.jitter THEN QuarterLow(plain) ELSE plain
           high  == IF config.jitter THEN QuarterHigh(plain) ELSE plain
<1>1. plain \in Nat
  BY PlainDelayType
<1> HIDE DEF plain
<1>2. SUFFICES ASSUME high <= LongMax PROVE delay \in Capped(low)..Capped(high)
  <2>1. (n + 1) - 1 = n
    OBVIOUS
  <2> QED
    BY <2>1 DEF Followed, plain
<1>3. plain <= QuarterHigh(plain) /\ QuarterHigh(plain) \in Int
  BY <1>1 DEF QuarterHigh
<1>4. plain <= LongMax
  <2>1. CASE config.jitter
    <3>1. QuarterHigh(plain) <= LongMax
      BY <1>2, <2>1
    <3> QED
      BY <1>1, <1>3, <3>1, RetryAssumption
  <2>2. CASE ~config.jitter
    BY <1>2, <2>2
  <2> QED
    BY <2>1, <2>2
<1>5. currentDelay = plain
  BY <1>4 DEF plain
<1>6. /\ currentDelay \in Nat
      /\ low = IF config.jitter THEN QuarterLow(currentDelay) ELSE currentDelay
      /\ high = IF config.jitter THEN QuarterHigh(currentDelay) ELSE currentDelay
  BY <1>1, <1>5
<1> HIDE DEF low, high
<1> QED
  BY <1>2, <1>6, SleepWithin

-----------------------------------------------------------------------------
(* Before the first attempt nothing has grown.                             *)
LEMMA InitBack == Init => BackInv
<1> SUFFICES ASSUME Init PROVE BackInv
  OBVIOUS
<1>1. delays = <<>> /\ pc = "loop" /\ currentDelay = config.baseDelay
  BY DEF Init
<1>2. Growths = 0
  BY <1>1 DEF Growths
<1>3. PlainDelay(0) = config.baseDelay
  BY PlainEquation DEF PlainDelay
<1>4. GrowthExact
  BY <1>1, <1>2, <1>3 DEF GrowthExact
<1>5. BackoffFollowed
  BY <1>1 DEF BackoffFollowed
<1> QED
  BY <1>4, <1>5 DEF BackInv

(* A step that neither sleeps nor wakes up changes nothing of it.          *)
LEMMA OtherBack ==
    ASSUME BackInv, UNCHANGED <<config, currentDelay, delays>>,
           UNCHANGED pc \/ (pc # "sleep" /\ pc' # "sleep")
    PROVE  BackInv'
<1>1. Growths' = Growths
  BY DEF Growths
<1>2. \A n : PlainDelay(n)' = PlainDelay(n)
  BY DEF PlainDelay
<1>3. GrowthExact'
  BY <1>1, <1>2 DEF BackInv, GrowthExact, PlainDelay
<1>4. BackoffFollowed'
  BY DEF BackInv, BackoffFollowed, Capped
<1> QED
  BY <1>3, <1>4 DEF BackInv

(* A sleep is taken from the delay that has grown so far.                  *)
LEMMA FailBack ==
    ASSUME IInv, BackInv, Fail
    PROVE  BackInv'
<1> USE DEF Fail, FuncAnswers
<1>1. CASE UNCHANGED delays /\ pc' = "loop"
  BY <1>1, OtherBack
<1>2. CASE pc' = "sleep" /\ \E delay \in SleepTimes : delays' = Append(delays, delay)
  <2>1. PICK delay \in SleepTimes : delays' = Append(delays, delay)
    BY <1>2
  <2>2. config \in Configs /\ delays \in Seq(LongMin..LongMax) /\ config' = config
    BY DEF IInv, RetryTypeOK
  <2>3. /\ Len(delays) \in Nat /\ Len(delays') = Len(delays) + 1 /\ delays' # <<>>
        /\ \A k \in 1..Len(delays) : delays'[k] = delays[k]
        /\ delays'[Len(delays) + 1] = delay
    BY <2>1, <2>2
  <2>4. Growths = Len(delays) /\ Growths' = Len(delays)
    BY <1>2, <2>3 DEF Growths
  <2>5. GrowthExact'
    <3>1. PlainDelay(Growths)' = PlainDelay(Growths)
      BY <2>2, <2>4 DEF PlainDelay
    <3> QED
      BY <2>2, <2>3, <3>1 DEF BackInv, GrowthExact
  <2>6. ASSUME config.backoff % 2 = 0, NEW k \in 1..Len(delays')
        PROVE  Followed(k, delays'[k])
    <3>1. CASE k \in 1..Len(delays)
      <4>1. Followed(k, delays[k])
        BY <2>6, <3>1, FollowedOneByOne DEF BackInv
      <4> QED
        BY <2>3, <3>1, <4>1
    <3>2. CASE k = Len(delays) + 1
      <4>1. PlainDelay(Len(delays)) <= LongMax => currentDelay = PlainDelay(Len(delays))
        BY <2>4, <2>6 DEF BackInv, GrowthExact
      <4>2. Followed(Len(delays) + 1, delay)
        BY <2>2, <2>3, <2>6, <4>1, NextFollowed
      <4> QED
        BY <2>3, <3>2, <4>2
    <3> QED
      BY <2>3, <3>1, <3>2
  <2>7. BackoffFollowed'
    BY <2>2, <2>6, FollowedOneByOneNext
  <2> QED
    BY <2>5, <2>7 DEF BackInv
<1> QED
  BY <1>1, <1>2

(* Waking up, it grows: exactly, if what it grows to fits.                 *)
LEMMA WakeUpBack ==
    ASSUME IInv, BackInv, WakeUp
    PROVE  BackInv'
<1> USE DEF WakeUp
<1> DEFINE n == Len(delays) - 1
<1>1. config \in Configs /\ delays \in Seq(LongMin..LongMax)
  BY DEF IInv, RetryTypeOK
<1>2. delays # <<>>
  BY DEF BackInv, GrowthExact
<1>3. n \in Nat /\ Len(delays) = n + 1 /\ Growths = n
  BY <1>1, <1>2 DEF Growths
<1>4. Growths' = n + 1
  BY <1>3 DEF Growths
<1> HIDE DEF n
<1>5. GrowthExact'
  <2>1. PlainDelay(Growths)' = PlainDelay(n + 1)
    BY <1>4 DEF PlainDelay
  <2>2. ASSUME config.backoff % 2 = 0, PlainDelay(n + 1) <= LongMax
        PROVE  currentDelay' = PlainDelay(n + 1)
    <3>1. /\ PlainDelay(n) \in Nat /\ PlainDelay(n) <= LongMax
          /\ PlainDelay(n + 1) = PlainDelay(n) * (config.backoff \div 2)
      BY <1>1, <1>3, <2>2, PlainDelayType
    <3>2. currentDelay = PlainDelay(n)
      BY <1>3, <2>2, <3>1 DEF BackInv, GrowthExact
    <3>3. /\ currentDelay \in Nat
          /\ currentDelay * (config.backoff \div 2) <= LongMax
      BY <2>2, <3>1, <3>2
    <3>4. Grown = {currentDelay * (config.backoff \div 2)}
      BY <1>1, <2>2, <3>3, GrownExactly
    <3>5. currentDelay' = currentDelay * (config.backoff \div 2)
      BY <3>4
    <3> QED
      BY <3>1, <3>2, <3>5
  <2> QED
    BY <2>1, <2>2 DEF GrowthExact
<1>6. BackoffFollowed'
  BY DEF BackInv, BackoffFollowed, Capped
<1> QED
  BY <1>5, <1>6 DEF BackInv

(* For every base delay, whole multiplier, cap and jitter: each sleep is   *)
(* within a quarter of the base delay grown as often as it should be, up   *)
(* to the cap, as long as that fits a long long (retry.hpp:75-96).         *)
THEOREM BackoffExact == Spec => []BackoffFollowed
<1>1. ASSUME IInv, BackInv, [Next]_vars PROVE BackInv'
  <2>1. CASE UNCHANGED vars
    BY <1>1, <2>1, OtherBack DEF vars, retryVars
  <2>2. CASE UNCHANGED retryVars
    BY <1>1, <2>2, OtherBack DEF retryVars
  <2>3. CASE Attempt \/ GiveUp
    BY <1>1, <2>3, OtherBack DEF Attempt, GiveUp
  <2>4. CASE Succeed \/ Escape
    BY <1>1, <2>4, OtherBack DEF Succeed, Escape, FuncAnswers
  <2>5. CASE Fail
    BY <1>1, <2>5, FailBack
  <2>6. CASE WakeUp
    BY <1>1, <2>6, WakeUpBack
  <2> QED
    BY <1>1, <2>1, <2>2, <2>3, <2>4, <2>5, <2>6 DEF Next, RetryStep
<1>2. BackInv => BackoffFollowed
  BY DEF BackInv
<1> QED
  BY <1>1, <1>2, InitBack, Invariance, PTL DEF Spec
=============================================================================
