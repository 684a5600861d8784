------------------------------ MODULE Throttle ------------------------------
(***************************************************************************)
(* internal/http/throttle.go under the callers of Client.Warm: the token   *)
(* bucket every request waits on, the slots of its host, and the adaptive  *)
(* slowdown, whose recovery goroutine races with the callers that extend   *)
(* it.                                                                     *)
(*                                                                         *)
(* Time is counted in ticks and kept relative: the age of the last refill, *)
(* the ticks left of a timer or of a deadline.  Tokens are counted in      *)
(* fractions, Unit of them to a token, so that the rates are whole numbers *)
(* per tick.  A goroutine may run late: nothing forces it before a tick.   *)
(***************************************************************************)
EXTENDS Integers, FiniteSets

CONSTANTS
    Callers,      \* goroutines calling Warm, one request at a time each
    Hosts,
    MaxPerHost,   \* max_conns_per_host
    Unit,         \* fractions of a token
    Capacity,     \* burst, in fractions
    BaseRate,     \* rate_limit_rps, in fractions per tick
    SlowRate,     \* BaseRate times the slowdown factor
    SlowTicks,    \* adaptive_slowdown_duration
    MaxNap,       \* the 250 ms cap of one sleep of Wait
    MaxAge,       \* bound: from this age on a refill fills the bucket
    Loops         \* bound: recoverLoop goroutines that may overlap

ASSUME ThrottleAssumption ==
    /\ IsFiniteSet(Callers) /\ IsFiniteSet(Loops)
    /\ MaxPerHost \in Nat \ {0}
    /\ Unit \in Nat \ {0} /\ Capacity \in Nat /\ Capacity >= Unit
    /\ SlowRate \in Nat \ {0} /\ BaseRate \in Nat /\ SlowRate <= BaseRate
    /\ SlowTicks \in Nat \ {0} /\ MaxNap \in Nat \ {0}
    /\ MaxAge \in Nat /\ MaxAge * SlowRate >= Capacity

VARIABLES
    ctxDone,
    tokens,    \* tokenBucket.tokens
    age,       \* ticks since tokenBucket.lastFilled
    slow,      \* tokenBucket.multiplier is the slowdown factor
    slots,     \* per host, how many of its slots are taken
    window,    \* throttleUntil: Idle, or the ticks left of the slowdown
    pc,        \* where each caller is
    host,      \* the host of its request
    left,      \* ticks left of its timer, or of the deadline it computed
    loop,      \* where each recovery goroutine is, "off" when there is none
    nap,       \* ticks left of its sleep
    valid,     \* throttleUntil is still the value it loaded
    excess     \* history: fractions granted beyond BaseRate (a leaky bucket)

bucketVars == <<tokens, age, slow>>
callerVars == <<pc, host, left>>
loopVars == <<loop, nap, valid>>
vars == <<ctxDone, bucketVars, slots, window, callerVars, loopVars, excess>>

Idle == -1
InFlight == {"do", "swap", "slow", "release"}

Init ==
    /\ ctxDone = FALSE
    /\ tokens = Capacity /\ age = 0 /\ slow = FALSE
    /\ slots = [h \in Hosts |-> 0]
    /\ window = Idle
    /\ pc = [c \in Callers |-> "idle"]
    /\ host \in [Callers -> Hosts]
    /\ left = [c \in Callers |-> 0]
    /\ loop = [l \in Loops |-> "off"]
    /\ nap = [l \in Loops |-> 0]
    /\ valid = [l \in Loops |-> FALSE]
    /\ excess = 0
-----------------------------------------------------------------------------
(* The environment.                                                        *)

Cancel ==
    /\ ~ctxDone
    /\ ctxDone' = TRUE
    /\ UNCHANGED <<bucketVars, slots, window, callerVars, loopVars, excess>>

Less(n, k) == IF n > k THEN n - k ELSE 0

Tick ==
    /\ age' = IF age < MaxAge THEN age + 1 ELSE age
    /\ window' = IF window = Idle THEN Idle ELSE Less(window, 1)
    /\ left' = [c \in Callers |-> Less(left[c], 1)]
    /\ nap' = [l \in Loops |-> Less(nap[l], 1)]
    /\ excess' = Less(excess, BaseRate)
    /\ UNCHANGED <<ctxDone, tokens, slow, slots, pc, host, loop, valid>>
-----------------------------------------------------------------------------
(* A caller: acquire, the request, observe, release.                       *)

Goto(c, from, to) == pc[c] = from /\ pc' = [pc EXCEPT ![c] = to]

\* Warm may be called late, the context's test of its caller being behind it.
Start(c) ==
    /\ Goto(c, "idle", "wait")
    /\ \E h \in Hosts : host' = [host EXCEPT ![c] = h]
    /\ UNCHANGED <<ctxDone, bucketVars, slots, window, left, loopVars, excess>>

\* The look at the context at the top of Wait's loop; the lock comes after it.
Check(c) ==
    /\ ~ctxDone
    /\ Goto(c, "wait", "lock")
    /\ UNCHANGED <<ctxDone, bucketVars, slots, window, host, left, loopVars, excess>>

Rate == IF slow THEN SlowRate ELSE BaseRate

\* Plausible bug: a refill credits whole tokens only and forgets the rest.
RefillWhole ==
    LET whole == tokens + Unit * ((age * Rate) \div Unit)
    IN  IF whole > Capacity THEN Capacity ELSE whole

\* Plausible bug: the capacity is not enforced.
RefillUncapped == tokens + age * Rate

\* refillLocked: the time since the last refill, at the rate of this moment.
Refilled ==
    LET filled == tokens + age * Rate
    IN  IF filled > Capacity THEN Capacity ELSE filled

\* Plausible bug: the same elapsed time is credited again by the next refill.
TakeAgeKept(c) ==
    /\ Goto(c, "lock", "slot")
    /\ Refilled >= Unit
    /\ tokens' = Refilled - Unit
    /\ excess' = excess + Unit
    /\ UNCHANGED <<ctxDone, age, slow, slots, window, host, left, loopVars>>

\* One iteration of Wait under the lock: a token is taken ...
Take(c) ==
    /\ Goto(c, "lock", "slot")
    /\ Refilled >= Unit
    /\ tokens' = Refilled - Unit
    /\ age' = 0
    /\ excess' = excess + Unit
    /\ UNCHANGED <<ctxDone, slow, slots, window, host, left, loopVars>>

\* ... or the caller sleeps for as long as the missing fraction takes, at
\* most MaxNap.
Sleep(c) ==
    /\ Goto(c, "lock", "nap")
    /\ Refilled < Unit
    /\ tokens' = Refilled
    /\ age' = 0
    /\ LET ticks == (Unit - Refilled + Rate - 1) \div Rate
       IN  left' = [left EXCEPT ![c] = IF ticks > MaxNap THEN MaxNap ELSE ticks]
    /\ UNCHANGED <<ctxDone, slow, slots, window, host, loopVars, excess>>

Wake(c) ==
    /\ Goto(c, "nap", "wait")
    /\ left[c] = 0
    /\ UNCHANGED <<ctxDone, bucketVars, slots, window, host, left, loopVars, excess>>

\* Plausible bug: one slot too many.
TakeSlotLate(c) ==
    /\ Goto(c, "slot", "do")
    /\ slots[host[c]] <= MaxPerHost
    /\ slots' = [slots EXCEPT ![host[c]] = @ + 1]
    /\ UNCHANGED <<ctxDone, bucketVars, window, host, left, loopVars, excess>>

TakeSlot(c) ==
    /\ Goto(c, "slot", "do")
    /\ slots[host[c]] < MaxPerHost
    /\ slots' = [slots EXCEPT ![host[c]] = @ + 1]
    /\ UNCHANGED <<ctxDone, bucketVars, window, host, left, loopVars, excess>>

GiveUpAt(c, places) ==
    /\ ctxDone
    /\ pc[c] \in places
    /\ pc' = [pc EXCEPT ![c] = "idle"]
    /\ left' = [left EXCEPT ![c] = 0]
    /\ UNCHANGED <<ctxDone, bucketVars, slots, window, host, loopVars, excess>>

\* Plausible bug: a caller queued for a slot does not watch the context.
GiveUpWaiting(c) == GiveUpAt(c, {"wait", "nap"})

\* The context is done: acquire returns its error from Wait, its sleep, or
\* the queue for a slot, where the token is already spent.
GiveUp(c) == GiveUpAt(c, {"wait", "nap", "slot"})

\* The request ends without a 429 or 503, or with a transport error: observe
\* has nothing to do.
Respond(c) ==
    /\ Goto(c, "do", "release")
    /\ UNCHANGED <<ctxDone, bucketVars, slots, window, host, left, loopVars, excess>>

\* It ends with a 429 or 503: observe computes the new deadline ...
RespondOverload(c) ==
    /\ Goto(c, "do", "swap")
    /\ left' = [left EXCEPT ![c] = SlowTicks]
    /\ UNCHANGED <<ctxDone, bucketVars, slots, window, host, loopVars, excess>>

\* Plausible bug: every overload starts a slowdown of its own.
SwapAlwaysFirst(c) ==
    /\ Goto(c, "swap", "slow")
    /\ window' = left[c]
    /\ left' = [left EXCEPT ![c] = 0]
    /\ valid' = [l \in Loops |-> FALSE]
    /\ UNCHANGED <<ctxDone, bucketVars, slots, host, loop, nap, excess>>

\* ... and swaps it in; whoever finds the throttle idle starts the slowdown.
Swap(c) ==
    /\ Goto(c, "swap", IF window = Idle THEN "slow" ELSE "release")
    /\ window' = left[c]
    /\ left' = [left EXCEPT ![c] = 0]
    /\ valid' = [l \in Loops |-> FALSE]
    /\ UNCHANGED <<ctxDone, bucketVars, slots, host, loop, nap, excess>>

\* Plausible bug: the slowdown starts without its recovery goroutine.
SlowDownForGood(c) ==
    /\ Goto(c, "slow", "release")
    /\ slow' = TRUE
    /\ UNCHANGED <<ctxDone, tokens, age, slots, window, host, left, loopVars, excess>>

\* SetMultiplier(factor) and go recoverLoop().
SlowDown(c) ==
    /\ Goto(c, "slow", "release")
    /\ slow' = TRUE
    /\ \E l \in Loops : loop[l] = "off" /\ loop' = [loop EXCEPT ![l] = "load"]
    /\ UNCHANGED <<ctxDone, tokens, age, slots, window, host, left, nap, valid, excess>>

Release(c) ==
    /\ Goto(c, "release", "idle")
    /\ slots' = [slots EXCEPT ![host[c]] = @ - 1]
    /\ UNCHANGED <<ctxDone, bucketVars, window, host, left, loopVars, excess>>

\* What a caller does by itself, without the target and without the clock.
OwnStep(c) ==
    \/ Check(c) \/ Take(c) \/ Sleep(c) \/ Wake(c) \/ TakeSlot(c) \/ GiveUp(c)
    \/ Swap(c) \/ SlowDown(c) \/ Release(c)

CallerStep(c) == Start(c) \/ OwnStep(c) \/ Respond(c) \/ RespondOverload(c)
-----------------------------------------------------------------------------
(* A recovery goroutine.                                                   *)

\* It loads throttleUntil: idle, it is done; past, it tries to end the
\* slowdown; ahead, it sleeps until then.
Load(l) ==
    /\ loop[l] = "load"
    /\ loop' = [loop EXCEPT ![l] = IF window = Idle THEN "off"
                                   ELSE IF window = 0 THEN "cas" ELSE "sleep"]
    /\ nap' = [nap EXCEPT ![l] = IF window = Idle THEN 0 ELSE window]
    /\ valid' = [valid EXCEPT ![l] = window = 0]
    /\ UNCHANGED <<ctxDone, bucketVars, slots, window, callerVars, excess>>

WakeLoop(l) ==
    /\ loop[l] = "sleep" /\ nap[l] = 0
    /\ loop' = [loop EXCEPT ![l] = "load"]
    /\ UNCHANGED <<ctxDone, bucketVars, slots, window, callerVars, nap, valid, excess>>

\* Plausible bug: a Store instead of the CompareAndSwap.
StoreIdle(l) ==
    /\ loop[l] = "cas"
    /\ loop' = [loop EXCEPT ![l] = "restore"]
    /\ window' = Idle
    /\ valid' = [k \in Loops |-> FALSE]
    /\ UNCHANGED <<ctxDone, bucketVars, slots, callerVars, nap, excess>>

\* CompareAndSwap(until, 0): it fails when a caller swapped a deadline in.
TryEnd(l) ==
    /\ loop[l] = "cas"
    /\ loop' = [loop EXCEPT ![l] = IF valid[l] THEN "restore" ELSE "load"]
    /\ window' = IF valid[l] THEN Idle ELSE window
    /\ valid' = IF valid[l] THEN [k \in Loops |-> FALSE] ELSE valid
    /\ UNCHANGED <<ctxDone, bucketVars, slots, callerVars, nap, excess>>

\* Plausible bug: the window is closed but the rate stays low.
RestoreForgotten(l) ==
    /\ loop[l] = "restore"
    /\ loop' = [loop EXCEPT ![l] = "off"]
    /\ UNCHANGED <<ctxDone, bucketVars, slots, window, callerVars, nap, valid, excess>>

\* SetMultiplier(1.0).
Restore(l) ==
    /\ loop[l] = "restore"
    /\ slow' = FALSE
    /\ loop' = [loop EXCEPT ![l] = "off"]
    /\ UNCHANGED <<ctxDone, tokens, age, slots, window, callerVars, nap, valid, excess>>

LoopStep(l) == Load(l) \/ WakeLoop(l) \/ TryEnd(l) \/ Restore(l)
-----------------------------------------------------------------------------
Next ==
    \/ Cancel \/ Tick
    \/ \E c \in Callers : CallerStep(c)
    \/ \E l \in Loops : LoopStep(l)

Spec == Init /\ [][Next]_vars

\* Time passes and the Go scheduler runs every runnable goroutine; requests
\* may take for ever, and nobody need make any.
FairSpec ==
    /\ Spec
    /\ WF_vars(Tick)
    /\ \A c \in Callers : WF_vars(OwnStep(c))
    /\ \A l \in Loops : WF_vars(LoopStep(l))
-----------------------------------------------------------------------------
(* Properties.                                                             *)

\* The longest time a caller's timer, or the deadline it computed, may have left.
LongestLeft(place) ==
    IF place = "nap" THEN MaxNap ELSE IF place = "swap" THEN SlowTicks ELSE 0

\* The types of the variables: no caller naps longer than MaxNap or extends a
\* slowdown beyond its duration, and only a sleeping recovery has a timer, no
\* longer than a slowdown.
TypeOK ==
    /\ ctxDone \in BOOLEAN
    /\ tokens \in 0..Capacity /\ age \in 0..MaxAge /\ slow \in BOOLEAN
    /\ slots \in [Hosts -> 0..MaxPerHost]
    /\ window \in Idle..SlowTicks
    /\ pc \in [Callers -> InFlight \cup {"idle", "wait", "lock", "nap", "slot"}]
    /\ host \in [Callers -> Hosts]
    /\ left \in [Callers -> Nat] /\ \A c \in Callers : left[c] <= LongestLeft(pc[c])
    /\ loop \in [Loops -> {"off", "load", "sleep", "cas", "restore"}]
    /\ nap \in [Loops -> 0..SlowTicks] /\ \A l \in Loops : nap[l] > 0 => loop[l] = "sleep"
    /\ valid \in [Loops -> BOOLEAN]
    /\ excess \in Nat

\* Whatever the interleaving of refills, slowdowns and recoveries, and
\* although a refill credits past time at the rate of the moment, no span of
\* time sees more requests than the burst plus the base rate allows.
RateBound == excess <= Capacity

\* A host never has more requests in flight than max_conns_per_host, and a
\* slot is never lost: those taken are those of the requests in flight.
InFlightTo(h) == {c \in Callers : host[c] = h /\ pc[c] \in InFlight}

HostSlots ==
    \A h \in Hosts : slots[h] = Cardinality(InFlightTo(h)) /\ slots[h] <= MaxPerHost

\* An open slowdown has exactly one goroutine to end it, or a caller about to
\* start it; an idle throttle has none but those about to restore the rate.
OneRecovery ==
    LET watching == {l \in Loops : loop[l] \in {"load", "sleep", "cas"}}
        starting == {c \in Callers : pc[c] = "slow"}
    IN  Cardinality(watching) + Cardinality(starting) = IF window = Idle THEN 0 ELSE 1

\* A lowered rate always has somebody left to restore it.
SlowIsTemporary == slow => \E l \in Loops : loop[l] # "off"

\* No step of the recovery ends a slowdown that still has time to run, be it
\* extended between the load of the deadline and the attempt to clear it.
WindowRunsOut == [][window > 0 => window' # Idle]_vars

\* The base rate comes back, unless overloads keep extending the slowdown.
Recovers == []<>(~slow) \/ []<><<\E c \in Callers : Swap(c)>>_vars

\* Tokens keep flowing: while callers wait for ever, some of them are served.
TokensFlow ==
    <>[](\E c \in Callers : pc[c] \in {"wait", "lock", "nap"}) /\ []~ctxDone =>
        []<><<\E c \in Callers : Take(c)>>_vars

\* After cancellation nobody keeps waiting for a token or a slot, even while
\* the requests that hold the slots never end.
CancelFreesWaiters ==
    \A c \in Callers :
        ctxDone /\ pc[c] \in {"wait", "lock", "nap", "slot"} ~> pc[c] \in {"idle", "do"}

\* "Whenever the origin returns a 429 or 503, the limiter's effective rate is
\* multiplied by adaptive_slowdown_factor for adaptive_slowdown_duration"
\* (README.md): while the window is open the rate is low.
SlowWhileWindowOpen ==
    window > 0 /\ (\A c \in Callers : pc[c] # "slow") => slow
=============================================================================
