---------------------------- MODULE RetrierProofs ----------------------------
(***************************************************************************)
(* What Execute promises, for every policy: the contract the pool is       *)
(* modelled with, the number of its attempts, how it stops, and, for every *)
(* width of a Duration, how long it sleeps between attempts.               *)
(***************************************************************************)
EXTENDS Retrier, ListFacts

\* The part of the state the promises are about, without the delays.
Shape ==
    /\ policy \in PolicyType
    /\ ctxDone \in BOOLEAN
    /\ pc \in {"start", "check", "call", "op", "sleep", "done"}
    /\ attempt \in Nat
    /\ cache \in CacheClass
    /\ tried \in Seq(WarmErr)
    /\ ret \in WarmErr \cup {"none"}

\* A result is settled when Execute returns, and stays what it was.
Contract ==
    pc = "done" => /\ ret \in WarmErr
                   /\ ret = "nil" => cache # "none"
                   /\ ret = "ctx" => ctxDone

\* An attempt begun late was allowed before the context was done.
Lateness ==
    /\ late \in 0..1
    /\ ~ctxDone \/ pc \in {"start", "call"} => late = 0

Retryable(errs) == \A i \in 1..Len(errs) : errs[i] \notin {"nil", "permanent"}

\* One attempt for each round of the loop, all of them failed while it goes on.
Counting ==
    /\ pc # "start" => attempt < policy.maxAttempts
    /\ pc \in {"start", "check", "call", "op"} => Len(tried) = attempt
    /\ pc = "sleep" => Len(tried) = attempt + 1 /\ attempt + 1 < policy.maxAttempts
    /\ pc # "done" => Retryable(tried)
    /\ pc = "start" => attempt = 0
    /\ AttemptsAsConfigured

\* The sleep that goes on was computed for this attempt of this policy.
Delayed ==
    /\ pc # "start" => policy.factor.num > 0
    /\ delay \in Durations
    /\ pc = "sleep" => delay \in Delays(attempt)

RetryInv == Shape /\ Contract /\ Lateness /\ Counting
-----------------------------------------------------------------------------
(* Delays.                                                                 *)

IsPower(b, n, p) == p = [i \in 0..n |-> IF i = 0 THEN 1 ELSE b * p[i - 1]]

LEMMA PowerExists ==
    ASSUME NEW b \in Nat, NEW n \in Nat
    PROVE  \E p : IsPower(b, n, p)
<1> DEFINE S == {m \in Nat : \E p : IsPower(b, m, p)}
<1>1. 0 \in S
  <2>1. IsPower(b, 0, [i \in 0..0 |-> 1])
    BY DEF IsPower
  <2>2. QED
    BY <2>1
<1>2. ASSUME NEW m \in Nat, m \in S
      PROVE  m + 1 \in S
  <2>1. PICK p : IsPower(b, m, p)
    BY <1>2
  <2> DEFINE q == [i \in 0..(m + 1) |-> IF i = 0 THEN 1 ELSE b * p[i - 1]]
  <2>2. \A i \in 0..m : i \in 0..(m + 1) /\ q[i] = p[i]
    <3>1. \A i \in 0..m : p[i] = IF i = 0 THEN 1 ELSE b * p[i - 1]
      BY <2>1 DEF IsPower
    <3>2. 0..m \subseteq 0..(m + 1)
      OBVIOUS
    <3>3. QED
      BY <3>1, <3>2
  <2>3. \A i \in 0..(m + 1) : i # 0 => i - 1 \in 0..m
    OBVIOUS
  <2>4. \A i \in 0..(m + 1) : i # 0 => q[i - 1] = p[i - 1]
    BY <2>2, <2>3
  <2>5. IsPower(b, m + 1, q)
    BY <2>4 DEF IsPower
  <2>6. QED
    BY <2>5
<1>3. QED
  BY <1>1, <1>2, Induction

LEMMA PowerIsPositive ==
    ASSUME NEW b \in Nat \ {0}, NEW n \in Nat
    PROVE  Power(b, n) \in Nat \ {0}
<1> DEFINE h == CHOOSE p : IsPower(b, n, p)
<1>1. IsPower(b, n, h)
  BY PowerExists
<1>2. Power(b, n) = h[n]
  BY DEF Power, IsPower
<1> HIDE DEF h
<1>3. \A i \in 0..n : h[i] = IF i = 0 THEN 1 ELSE b * h[i - 1]
  BY <1>1 DEF IsPower
<1> DEFINE S == {m \in Nat : m <= n => h[m] \in Nat \ {0}}
<1>4. 0 \in S
  <2>1. h[0] = 1
    BY <1>3
  <2>2. QED
    BY <2>1
<1>5. ASSUME NEW m \in Nat, m \in S
      PROVE  m + 1 \in S
  <2>1. SUFFICES ASSUME m + 1 <= n
                 PROVE  h[m + 1] \in Nat \ {0}
    OBVIOUS
  <2>2. m + 1 \in 0..n /\ m + 1 # 0 /\ (m + 1) - 1 = m /\ h[m] \in Nat \ {0}
    BY <1>5, <2>1
  <2>3. h[m + 1] = b * h[m]
    BY <1>3, <2>2
  <2>4. \A x, y \in Nat \ {0} : x * y \in Nat \ {0}
    OBVIOUS
  <2>5. QED
    BY <2>2, <2>3, <2>4
<1>6. n \in S
  <2> HIDE DEF S
  <2>1. QED
    BY <1>4, <1>5, Induction
<1>7. QED
  BY <1>2, <1>6

LEMMA Division ==
    ASSUME NEW x \in Nat, NEW y \in Nat \ {0}
    PROVE  x \div y \in Nat
OBVIOUS

LEMMA PolicyNumbers ==
    ASSUME policy \in PolicyType, policy.factor.num > 0, NEW n \in Nat
    PROVE  /\ Product(n) \in Int /\ MaxDuration \in Nat /\ Rounding \in Nat
           /\ policy.maxDelay \in Durations /\ policy.jitter \in Durations
<1>1. /\ policy.base \in Int /\ MaxDuration \in Nat /\ Rounding \in Nat
      /\ policy.maxDelay \in Durations /\ policy.jitter \in Durations
      /\ policy.factor.num \in Nat \ {0} /\ policy.factor.den \in Nat \ {0}
  BY RetrierAssumption DEF PolicyType, Fractions, Durations
<1> DEFINE top == policy.base * Power(policy.factor.num, n)
           bottom == Power(policy.factor.den, n)
<1>2. Power(policy.factor.num, n) \in Nat /\ bottom \in Nat \ {0}
  BY <1>1, PowerIsPositive
<1>3. \A a, b \in Int : a * b \in Int
  OBVIOUS
<1>4. top \in Int
  BY <1>1, <1>2, <1>3
<1>5. Product(n) = IF top >= 0 THEN top \div bottom ELSE -((-top) \div bottom)
  BY DEF Product
<1> HIDE DEF top, bottom
<1>6. CASE top >= 0
  <2>1. top \div bottom \in Nat
    BY <1>2, <1>4, <1>6, Division
  <2>2. QED
    BY <1>1, <1>5, <1>6, <2>1
<1>7. CASE ~(top >= 0)
  <2>1. -top \in Nat
    BY <1>4, <1>7
  <2>2. (-top) \div bottom \in Nat
    BY <1>2, <2>1, Division
  <2>3. QED
    BY <1>1, <1>5, <1>7, <2>2
<1>8. QED
  BY <1>6, <1>7

\* What computeDelay returns is a Duration, and where nothing overflows it is
\* the capped product with less than the jitter on top.
LEMMA DelayBounds ==
    ASSUME policy \in PolicyType, policy.factor.num > 0, NEW n \in Nat, NEW x \in Delays(n)
    PROVE  /\ x \in Durations
           /\ LET least == Product(n) - Rounding
                  most == Product(n) + Rounding
                  latest == Capped(most) + LargestJitter
              IN  {least, most, latest} \subseteq Durations =>
                    Capped(least) <= x /\ x <= latest
<1> DEFINE product == Product(n)
           least == product - Rounding
           most == product + Rounding
           spread == LargestJitter
<1>1. /\ product \in Int /\ Rounding \in Nat /\ MaxDuration \in Nat /\ MaxDuration > 0
      /\ policy.maxDelay \in Durations /\ policy.jitter \in Durations
  BY PolicyNumbers, RetrierAssumption
<1>2. PICK d \in Products(n), j \in 0..spread : x = Wrap(Capped(d) + j)
  BY DEF Delays
<1>3. PICK y \in least..most : d \in ToDuration(y)
  BY <1>2 DEF Products
<1> HIDE DEF product
<1>4. d \in Durations /\ (y \in Durations => d = y)
  BY <1>1, <1>3 DEF ToDuration, Durations
<1>5. spread \in 0..MaxDuration /\ spread < MaxDuration
  BY <1>1 DEF LargestJitter, Durations
<1>6. Capped(d) \in Durations
  BY <1>1, <1>4 DEF Capped, Durations
<1>7. Capped(least) \in Int /\ Capped(most) \in Int
  BY <1>1 DEF Capped, Durations
<1>8. d \in least..most => Capped(least) <= Capped(d) /\ Capped(d) <= Capped(most)
  BY <1>1 DEF Capped, Durations
<1> HIDE DEF spread
<1>9. x \in Durations
  BY <1>1, <1>2, <1>5, <1>6 DEF Wrap, Durations
<1>10. ASSUME {least, most, Capped(most) + spread} \subseteq Durations
       PROVE  Capped(least) <= x /\ x <= Capped(most) + spread
  <2>1. d \in least..most
    BY <1>1, <1>3, <1>4, <1>10 DEF Durations
  <2>2. Capped(least) <= Capped(d) /\ Capped(d) <= Capped(most)
    BY <1>8, <2>1
  <2>3. Capped(d) + j <= MaxDuration
    BY <1>1, <1>2, <1>5, <1>6, <1>7, <1>10, <2>2 DEF Durations
  <2>4. x = Capped(d) + j
    BY <1>1, <1>2, <1>5, <1>6, <2>3 DEF Wrap, Durations
  <2>5. QED
    BY <1>1, <1>2, <1>5, <1>6, <1>7, <2>2, <2>4 DEF Durations
<1>11. QED
  BY <1>9, <1>10 DEF spread, product
-----------------------------------------------------------------------------
(* The invariant.                                                          *)

LEMMA RetryInit == Init => RetryInv
<1> SUFFICES ASSUME Init PROVE RetryInv
  OBVIOUS
<1>1. Shape
  <2>1. policy \in PolicyType
    BY RetrierAssumption DEF Init, PolicyType
  <2>2. tried \in Seq(WarmErr)
    BY DEF Init
  <2>3. QED
    BY <2>1, <2>2 DEF Init, Shape, CacheClass
<1>2. Contract /\ Lateness
  BY DEF Init, Contract, Lateness
<1>3. Counting
  BY DEF Init, Counting, Retryable, AttemptsAsConfigured
<1>4. QED
  BY <1>1, <1>2, <1>3 DEF RetryInv

\* The request returned: Execute leaves the loop or goes to sleep.
LEMMA OpReturnKeeps == RetryInv /\ OpReturn => RetryInv'
<1> SUFFICES ASSUME RetryInv, OpReturn PROVE RetryInv'
  OBVIOUS
<1> USE DEF RetryInv
<1>1. PICK r \in WarmReturns :
        /\ tried' = Append(tried, r.err)
        /\ cache' = IF r.cache = "none" THEN cache ELSE r.cache
        /\ \/ StopsRetrying(r.err) /\ Return(r.err) /\ UNCHANGED delay
           \/ /\ ~StopsRetrying(r.err)
              /\ delay' \in Delays(attempt)
              /\ pc' = "sleep" /\ UNCHANGED ret
  BY DEF OpReturn
<1>2. /\ r.err \in WarmErr /\ r.cache \in CacheClass
      /\ r.err = "nil" => r.cache # "none"
      /\ r.err = "ctx" => ctxDone
  BY DEF WarmReturns, Result
<1>3. pc = "op" /\ UNCHANGED <<policy, ctxDone, attempt, late>>
  BY DEF OpReturn
<1>4. /\ tried' \in Seq(WarmErr) /\ Len(tried') = attempt + 1
      /\ tried'[attempt + 1] = r.err
      /\ \A i \in 1..attempt : tried'[i] \notin {"nil", "permanent"}
  BY <1>1, <1>2, <1>3 DEF Shape, Counting, Retryable
<1>5. /\ attempt \in Nat /\ policy.maxAttempts \in Int
      /\ attempt < policy.maxAttempts
  BY <1>3 DEF Shape, Counting, PolicyType
<1>6. CASE StopsRetrying(r.err) /\ Return(r.err)
  <2>1. Shape' /\ Contract' /\ Lateness'
    BY <1>1, <1>2, <1>3, <1>4, <1>6 DEF Shape, Contract, Lateness, Return
  <2>2. r.err \in {"nil", "permanent"} \/ attempt + 1 = policy.maxAttempts
    BY <1>5, <1>6 DEF StopsRetrying, LastAttempt
  <2>3. AttemptsAsConfigured'
    <3>1. /\ pc' = "done" /\ ret' = r.err /\ tried' # <<>>
          /\ tried'[Len(tried')] = ret' /\ policy' = policy
      BY <1>3, <1>4, <1>5, <1>6 DEF Return
    <3>2. \A i \in 1..(Len(tried') - 1) : tried'[i] \notin {"nil", "permanent"}
      BY <1>4, <1>5
    <3>3. QED
      BY <1>4, <1>5, <2>2, <3>1, <3>2 DEF AttemptsAsConfigured, LastTried
  <2>4. Counting'
    BY <1>3, <1>5, <1>6, <2>3 DEF Counting, Return
  <2>5. QED
    BY <2>1, <2>4
<1>7. CASE ~StopsRetrying(r.err) /\ pc' = "sleep" /\ UNCHANGED ret
  <2>1. Shape' /\ Contract' /\ Lateness'
    BY <1>1, <1>2, <1>3, <1>4, <1>7 DEF Shape, Contract, Lateness
  <2>2. r.err \notin {"nil", "permanent"} /\ attempt + 1 < policy.maxAttempts
    BY <1>5, <1>7 DEF StopsRetrying, LastAttempt
  <2>3. Retryable(tried')
    BY <1>4, <1>5, <2>2 DEF Retryable
  <2>4. Counting'
    BY <1>3, <1>4, <1>5, <1>7, <2>2, <2>3 DEF Counting, AttemptsAsConfigured
  <2>5. QED
    BY <2>1, <2>4
<1>8. QED
  BY <1>1, <1>6, <1>7

LEMMA RetryStep == RetryInv /\ [Next]_vars => RetryInv'
<1> SUFFICES ASSUME RetryInv, [Next]_vars PROVE RetryInv'
  OBVIOUS
<1> USE DEF RetryInv
<1>1. CASE Cancel
  BY <1>1 DEF Cancel, Shape, Contract, Lateness, Counting, AttemptsAsConfigured, LastTried
<1>2. CASE Normalise
  <2> DEFINE attempts == IF policy.maxAttempts < 1 THEN 1 ELSE policy.maxAttempts
             growth == IF policy.factor.num <= 0 THEN [num |-> 2, den |-> 1]
                       ELSE policy.factor
  <2>1. attempts \in Int /\ attempts >= 1 /\ growth \in Fractions
    BY DEF Shape, PolicyType, Fractions
  <2>2. policy' = [policy EXCEPT !.maxAttempts = attempts, !.factor = growth]
    BY <1>2 DEF Normalise
  <2> HIDE DEF attempts, growth
  <2>3. policy' \in PolicyType /\ policy'.maxAttempts = attempts
    BY <2>1, <2>2 DEF Shape, PolicyType
  <2>4. /\ policy' \in PolicyType /\ policy'.maxAttempts >= 1
        /\ pc = "start" /\ pc' = "check"
        /\ UNCHANGED <<ctxDone, attempt, cache, ret, tried, late>>
    BY <1>2, <2>1, <2>3 DEF Normalise
  <2>5. Shape' /\ Contract' /\ Lateness'
    BY <2>4 DEF Shape, Contract, Lateness
  <2>6. Counting'
    BY <2>4 DEF Shape, PolicyType, Counting, AttemptsAsConfigured
  <2>7. QED
    BY <2>5, <2>6
<1>3. CASE Check
  <2>1. Shape' /\ Contract' /\ Lateness'
    BY <1>3 DEF Check, Return, Shape, Contract, Lateness, WarmErr
  <2>2. CASE ctxDone
    <3>1. /\ pc = "check" /\ pc' = "done" /\ ret' = "ctx" /\ ctxDone'
          /\ UNCHANGED <<policy, attempt, tried>>
      BY <1>3, <2>2 DEF Check, Return
    <3>2. /\ attempt \in Nat /\ policy.maxAttempts \in Int
          /\ Len(tried) = attempt /\ attempt < policy.maxAttempts
          /\ Retryable(tried)
      BY <3>1 DEF Shape, Counting, PolicyType
    <3>3. AttemptsAsConfigured'
      BY <3>1, <3>2 DEF AttemptsAsConfigured, Retryable
    <3>4. QED
      BY <2>1, <3>1, <3>2, <3>3 DEF Counting
  <2>3. CASE ~ctxDone
    <3>1. Counting'
      BY <1>3, <2>3 DEF Check, Return, Counting, AttemptsAsConfigured
    <3>2. QED
      BY <2>1, <3>1
  <2>4. QED
    BY <2>2, <2>3
<1>4. CASE Call
  <2>1. Shape' /\ Contract' /\ Lateness'
    BY <1>4 DEF Call, Shape, Contract, Lateness
  <2>2. Counting'
    BY <1>4 DEF Call, Counting, AttemptsAsConfigured
  <2>3. QED
    BY <2>1, <2>2
<1>5. CASE NextAttempt
  <2>1. Shape' /\ Contract' /\ Lateness'
    BY <1>5 DEF NextAttempt, Shape, Contract, Lateness
  <2>2. Counting'
    BY <1>5 DEF NextAttempt, Shape, PolicyType, Counting, AttemptsAsConfigured
  <2>3. QED
    BY <2>1, <2>2
<1>6. CASE SleepCancelled
  <2>1. Shape' /\ Contract' /\ Lateness'
    BY <1>6 DEF SleepCancelled, Return, Shape, Contract, Lateness, WarmErr
  <2>2. /\ pc = "sleep" /\ pc' = "done" /\ ret' = "ctx" /\ ctxDone'
        /\ UNCHANGED <<policy, attempt, tried>>
    BY <1>6 DEF SleepCancelled, Return
  <2>3. /\ attempt \in Nat /\ policy.maxAttempts \in Int
        /\ Len(tried) = attempt + 1 /\ attempt + 1 < policy.maxAttempts
        /\ Retryable(tried)
    BY <2>2 DEF Shape, Counting, PolicyType
  <2>4. AttemptsAsConfigured'
    BY <2>2, <2>3 DEF AttemptsAsConfigured, Retryable
  <2>5. QED
    BY <2>1, <2>2, <2>3, <2>4 DEF Counting
<1>7. CASE OpReturn
  BY <1>7, OpReturnKeeps
<1>8. CASE UNCHANGED vars
  BY <1>8 DEF vars, Shape, Contract, Lateness, Counting, AttemptsAsConfigured, LastTried
<1>9. QED
  BY <1>1, <1>2, <1>3, <1>4, <1>5, <1>6, <1>7, <1>8
  DEF Next, OwnStep, NoSleep, TimerFires, Ended

LEMMA DelayedStep == RetryInv /\ Delayed /\ [Next]_vars => Delayed'
<1> SUFFICES ASSUME RetryInv, Delayed, [Next]_vars PROVE Delayed'
  OBVIOUS
<1>1. policy \in PolicyType /\ attempt \in Nat
  BY DEF RetryInv, Shape
<1>2. CASE Normalise
  <2>1. pc' = "check" /\ delay' = delay
    BY <1>2 DEF Normalise
  <2>2. policy'.factor.num > 0
    BY <1>1, <1>2 DEF Normalise, PolicyType, Fractions
  <2>3. QED
    BY <2>1, <2>2 DEF Delayed, Durations
<1>3. CASE OpReturn
  <2>1. pc = "op" /\ UNCHANGED <<policy, attempt>>
    BY <1>3 DEF OpReturn
  <2>2. \/ UNCHANGED delay /\ pc' = "done"
        \/ delay' \in Delays(attempt) /\ pc' = "sleep"
    BY <1>3 DEF OpReturn, Return
  <2>3. policy.factor.num > 0
    BY <2>1 DEF Delayed
  <2>4. delay' \in Durations
    BY <1>1, <2>2, <2>3, DelayBounds DEF Delayed
  <2>5. Delays(attempt)' = Delays(attempt)
    BY <2>1 DEF Delays, Products, Product, Capped, LargestJitter
  <2>6. QED
    BY <2>1, <2>2, <2>3, <2>4, <2>5 DEF Delayed, Durations
<1>4. CASE UNCHANGED <<policy, delay>> /\ pc # "start" /\ pc' # "sleep"
  BY <1>4 DEF Delayed, Durations
<1>5. CASE UNCHANGED <<policy, delay, pc, attempt>>
  <2>1. Delays(attempt)' = Delays(attempt)
    BY <1>5 DEF Delays, Products, Product, Capped, LargestJitter
  <2>2. QED
    BY <1>5, <2>1 DEF Delayed, Durations
<1>6. QED
  BY <1>2, <1>3, <1>4, <1>5
  DEF Next, Cancel, OwnStep, Check, Call, Return, NextAttempt, NoSleep, SleepCancelled,
      TimerFires, Ended, vars

LEMMA DelayedInit == Init => Delayed
BY RetrierAssumption DEF Init, Delayed, Durations

LEMMA RetryInvariant == Spec => [](RetryInv /\ Delayed)
BY RetryInit, RetryStep, DelayedInit, DelayedStep, PTL DEF Spec

\* The types, at every width of a Duration: a conversion out of range and a
\* sum that wraps stay inside it.
THEOREM RetrierTypeCorrect == Spec => []TypeOK
<1>1. RetryInv /\ Delayed => TypeOK
  BY DEF RetryInv, Shape, PolicyType, Lateness, Counting, Delayed, TypeOK
<1>2. QED
  BY <1>1, RetryInvariant, PTL

\* The sleep before a retry is the documented one, for every policy, fractional
\* factors and negative durations included, whose product and sum fit a
\* Duration, to within the rounding of the product.
THEOREM BackoffIsDocumented == Spec => []BackoffAsDocumented
<1>1. RetryInv /\ Delayed => BackoffAsDocumented
  <2> SUFFICES ASSUME RetryInv, Delayed, pc = "sleep"
               PROVE  BackoffAsDocumented
    BY DEF BackoffAsDocumented
  <2>1. policy \in PolicyType /\ attempt \in Nat /\ policy.factor.num > 0 /\ delay \in Delays(attempt)
    BY DEF RetryInv, Shape, Delayed
  <2>2. QED
    BY <2>1, DelayBounds DEF BackoffAsDocumented
<1>2. QED
  BY <1>1, RetryInvariant, PTL

\* Whatever a request returns and whenever the context is done, what Execute
\* hands to the pool is one of the results the pool is modelled with.
THEOREM ExecuteKeepsContract == Spec => []ExecuteContract
<1>1. RetryInv => ExecuteContract
  BY DEF RetryInv, Shape, Contract, ExecuteContract, Returns, Result, CacheClass
<1>2. QED
  BY <1>1, RetryInvariant, PTL

\* No policy makes more attempts than maxAttempts, retries what is settled,
\* or returns another error than its last attempt's or the context's.
THEOREM AttemptsCorrect == Spec => []AttemptsAsConfigured
<1>1. RetryInv => AttemptsAsConfigured
  BY DEF RetryInv, Counting
<1>2. QED
  BY <1>1, RetryInvariant, PTL

\* At most one attempt of a job begins after its context is done.
THEOREM CancelEndsAttempts == Spec => []CancelStopsAttempts
<1>1. RetryInv => CancelStopsAttempts
  BY DEF RetryInv, Lateness, CancelStopsAttempts
<1>2. QED
  BY <1>1, RetryInvariant, PTL
=============================================================================
