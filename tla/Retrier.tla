------------------------------ MODULE Retrier ------------------------------
(***************************************************************************)
(* ExponentialBackoff.Execute for one job: attempts of Client.Warm with a  *)
(* jittered exponential sleep between them, under a context that may be    *)
(* done at any moment.  Durations keep a width: time.Duration is a signed  *)
(* integer, scaled down to -(MaxDuration + 1)..MaxDuration.  The factor, a *)
(* float64, is a fraction.                                                 *)
(***************************************************************************)
EXTENDS Integers, Sequences, Outcome

CONSTANTS
    Policies,     \* the retry configurations a run is tried with
    MaxDuration,  \* largest time.Duration
    Rounding      \* how far a float product may lie from the exact one

Durations == -(MaxDuration + 1)..MaxDuration

Fractions == [num : Int, den : Nat \ {0}]

\* Neither flags nor Validate refuse a negative duration.
PolicyType == [maxAttempts : Int, base : Durations, maxDelay : Durations,
               jitter : Durations, factor : Fractions]

ASSUME RetrierAssumption ==
    /\ MaxDuration \in Nat \ {0}
    /\ Rounding \in Nat
    /\ Policies \subseteq PolicyType

VARIABLES
    policy,    \* the retrier's fields
    ctxDone,
    pc,        \* where Execute is
    attempt,   \* the loop variable
    cache,     \* cache class of lastResult, "none" while it is nil
    delay,     \* what computeDelay returned
    ret,       \* what Execute returned
    tried,     \* history: the errors of the attempts so far
    late       \* history: attempts begun after the context was done

vars == <<policy, ctxDone, pc, attempt, cache, delay, ret, tried, late>>

Init ==
    /\ policy \in Policies
    /\ ctxDone = FALSE
    /\ pc = "start"
    /\ attempt = 0
    /\ cache = "none"
    /\ delay = 0
    /\ ret = "none"
    /\ tried = <<>>
    /\ late = 0

Cancel ==
    /\ pc # "done" /\ ~ctxDone
    /\ ctxDone' = TRUE
    /\ UNCHANGED <<policy, pc, attempt, cache, delay, ret, tried, late>>

Return(err) == pc' = "done" /\ ret' = err

\* The clamps at the top of Execute.
Normalise ==
    /\ pc = "start"
    /\ policy' = [policy EXCEPT !.maxAttempts = IF @ < 1 THEN 1 ELSE @,
                                !.factor = IF @.num <= 0 THEN [num |-> 2, den |-> 1] ELSE @]
    /\ pc' = "check"
    /\ UNCHANGED <<ctxDone, attempt, cache, delay, ret, tried, late>>

\* Plausible bug: the context is only looked at while sleeping.
CheckNothing ==
    /\ pc = "check"
    /\ pc' = "call" /\ UNCHANGED ret
    /\ UNCHANGED <<policy, ctxDone, attempt, cache, delay, tried, late>>

\* Plausible bug: a cancelled call that made no attempt reports no error.
CheckForgives ==
    /\ pc = "check"
    /\ IF ctxDone THEN Return("nil") ELSE pc' = "call" /\ UNCHANGED ret
    /\ UNCHANGED <<policy, ctxDone, attempt, cache, delay, tried, late>>

\* The loop's own condition ends nothing: the last attempt breaks out before.
Check ==
    /\ pc = "check"
    /\ IF ctxDone THEN Return("ctx") ELSE pc' = "call" /\ UNCHANGED ret
    /\ UNCHANGED <<policy, ctxDone, attempt, cache, delay, tried, late>>

Call ==
    /\ pc = "call"
    /\ pc' = "op"
    /\ late' = late + IF ctxDone THEN 1 ELSE 0
    /\ UNCHANGED <<policy, ctxDone, attempt, cache, delay, ret, tried>>

\* math.Pow of an exponent that is a loop variable.
Power(b, n) == LET p[i \in 0..n] == IF i = 0 THEN 1 ELSE b * p[i - 1] IN p[n]

\* base * factor ^ attempt as a conversion cuts it, towards zero.
Product(n) ==
    LET top == policy.base * Power(policy.factor.num, n)
        bottom == Power(policy.factor.den, n)
    IN  IF top >= 0 THEN top \div bottom ELSE -((-top) \div bottom)

\* The conversion of a float64 to a Duration: out of range, the result is
\* the smallest value or the largest, depending on the architecture.
ToDuration(x) == IF x \in Durations THEN {x} ELSE {-(MaxDuration + 1), MaxDuration}

\* time.Duration(float64(BaseDelay) * exp).
Products(n) ==
    UNION {ToDuration(x) : x \in (Product(n) - Rounding)..(Product(n) + Rounding)}

\* Signed addition of the given width, to which the jitter only adds.
Wrap(x) == IF x > MaxDuration THEN x - 2 * (MaxDuration + 1) ELSE x

Capped(d) == IF policy.maxDelay > 0 /\ d > policy.maxDelay THEN policy.maxDelay ELSE d

LargestJitter == IF policy.jitter > 0 THEN policy.jitter - 1 ELSE 0

\* Plausible bug: the cap is applied to the base and not to the product.
DelaysUncapped(n) == {Wrap(d + j) : d \in Products(n), j \in 0..LargestJitter}

\* computeDelay: base * factor ^ attempt, capped when there is a cap, plus a
\* jitter in [0, jitter).
Delays(n) == {Wrap(Capped(d) + j) : d \in Products(n), j \in 0..LargestJitter}

\* What one Warm call may give: a response with every success and final or
\* transient status, none with a transport error, and the context's error
\* only when the context is done.
WarmReturns ==
    {r \in Result : /\ r.err = "nil" => r.cache # "none"
                    /\ r.err \in {"ctx", "timeout"} => r.cache = "none"
                    /\ r.err = "ctx" => ctxDone}

\* Plausible bug: the loop stops one attempt late.
LastAttemptLate == attempt = policy.maxAttempts

LastAttempt == attempt = policy.maxAttempts - 1

\* Plausible bug: a final status is retried like any other.
StopsRetryingPermanent(err) == err = "nil" \/ LastAttempt

\* The loop leaves with this error: nil, permanent, or out of attempts.
StopsRetrying(err) == err \in {"nil", "permanent"} \/ LastAttempt

OpReturn ==
    /\ pc = "op"
    /\ \E r \in WarmReturns :
         /\ tried' = Append(tried, r.err)
         /\ cache' = IF r.cache = "none" THEN cache ELSE r.cache
         /\ \/ StopsRetrying(r.err) /\ Return(r.err) /\ UNCHANGED delay
            \/ /\ ~StopsRetrying(r.err)
               /\ delay' \in Delays(attempt)
               /\ pc' = "sleep" /\ UNCHANGED ret
    /\ UNCHANGED <<policy, ctxDone, attempt, late>>

NextAttempt ==
    /\ pc = "sleep"
    /\ pc' = "check"
    /\ attempt' = attempt + 1
    /\ UNCHANGED <<policy, ctxDone, cache, delay, ret, tried, late>>

NothingToWait == delay <= 0

\* sleepCtx with nothing to wait for.
NoSleep == NothingToWait /\ ~ctxDone /\ NextAttempt

\* Plausible bug: t.Stop() is called at once instead of deferred.
TimerStopped == FALSE /\ NextAttempt

\* sleepCtx's select: the timer fires, possibly just when the context does ...
TimerFires == ~NothingToWait /\ NextAttempt

\* Plausible bug: a plain time.Sleep instead of the select.
SleepUninterrupted ==
    /\ pc = "sleep" /\ ctxDone /\ NothingToWait
    /\ Return("ctx")
    /\ UNCHANGED <<policy, ctxDone, attempt, cache, delay, tried, late>>

\* ... or the context's branch is taken.
SleepCancelled ==
    /\ pc = "sleep" /\ ctxDone
    /\ Return("ctx")
    /\ UNCHANGED <<policy, ctxDone, attempt, cache, delay, tried, late>>

Ended == pc = "done" /\ UNCHANGED vars

\* What Execute does by itself, without the request or the clock.
OwnStep == Normalise \/ Check \/ Call \/ NoSleep \/ SleepCancelled

Next == Cancel \/ OwnStep \/ OpReturn \/ TimerFires \/ Ended

Spec == Init /\ [][Next]_vars

FairSpec == Spec /\ WF_vars(OwnStep)
-----------------------------------------------------------------------------
(* Properties.                                                             *)

\* The types of the variables.
TypeOK ==
    /\ policy \in PolicyType
    /\ ctxDone \in BOOLEAN
    /\ pc \in {"start", "check", "call", "op", "sleep", "done"}
    /\ attempt \in Nat /\ (pc # "start" => attempt < policy.maxAttempts)
    /\ cache \in CacheClass
    /\ delay \in Durations
    /\ ret \in WarmErr \cup {"none"}
    /\ tried \in Seq(WarmErr)
    /\ late \in Nat

LastTried == tried[Len(tried)]

\* The number of attempts, and the error returned, are those the policy asks
\* for: only errors that may be retried are, never more often than
\* maxAttempts, fewer only if an attempt settled it or the context did, and
\* the error is the last attempt's or the context's.
AttemptsAsConfigured ==
    pc = "done" =>
        /\ Len(tried) <= policy.maxAttempts
        /\ \A i \in 1..(Len(tried) - 1) : tried[i] \notin {"nil", "permanent"}
        /\ \/ /\ tried # <<>> /\ ret = LastTried
              /\ ret \in {"nil", "permanent"} \/ Len(tried) = policy.maxAttempts
           \/ ctxDone /\ ret = "ctx"

\* At most the attempt whose ctx.Err() test was already passed begins after
\* the context is done.
CancelStopsAttempts == late <= 1

\* What the pool relies on (Pool!ExecReturn): success comes with a response,
\* and the context's error with a context that is done.
ExecuteContract ==
    pc = "done" => [err |-> ret, cache |-> cache] \in Returns(ctxDone)

\* "Delay = BaseDelay * Factor^attempt, capped at MaxDelay, plus uniform
\* jitter in [0, Jitter)" (docs/ARCHITECTURE.md): as long as product and sum
\* fit a Duration, a failed attempt is retried neither sooner nor later, but
\* for the rounding of the product.
BackoffAsDocumented ==
    LET least == Product(attempt) - Rounding
        most == Product(attempt) + Rounding
        latest == Capped(most) + LargestJitter
    IN  pc = "sleep" /\ {least, most, latest} \subseteq Durations =>
            Capped(least) <= delay /\ delay <= latest

\* Execute never "blocks past cancellation" (docs/ARCHITECTURE.md): once the
\* context is done it returns, however long the sleep, if its requests end.
CancelReturns == []<>(pc # "op") => (ctxDone ~> pc = "done")

\* If requests end, Execute returns: a timer is set for whatever there is to
\* wait for, and the runtime lets a timer that is set fire.
Terminates == WF_vars(TimerFires) /\ []<>(pc # "op") => <>(pc = "done")
=============================================================================
