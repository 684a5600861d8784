--------------------------- MODULE ThrottleProofs ---------------------------
(***************************************************************************)
(* The rate limit holds for every burst, rate, slowdown factor and number  *)
(* of callers, and every slowdown has one recovery that ends it.           *)
(***************************************************************************)
EXTENDS Throttle, FiniteSetTheorems, TLAPS

\* What has been granted beyond the base rate, what the bucket still holds
\* and what the time since the last refill may still bring fit the burst
\* together.  The slowdown only makes that time bring less.
RateInv ==
    /\ tokens \in 0..Capacity
    /\ age \in Nat
    /\ excess \in Nat
    /\ excess = 0 \/ tokens + excess + age * BaseRate <= Capacity

LEMMA RateIsAtMostBase == Rate \in Nat \ {0} /\ Rate <= BaseRate
BY ThrottleAssumption DEF Rate

LEMMA ProductGrows ==
    ASSUME NEW a \in Nat, NEW r \in Nat, NEW b \in Nat, r <= b
    PROVE  a * r \in Nat /\ a * r <= a * b
<1>1. PICK d \in Nat : b = r + d
  <2>1. b - r \in Nat /\ b = r + (b - r)
    OBVIOUS
  <2>2. QED
    BY <2>1
<1>2. a * r \in Nat /\ a * d \in Nat
  OBVIOUS
<1>3. a * b = a * r + a * d
  BY <1>1
<1>4. QED
  BY <1>2, <1>3

\* A refill overfills neither the bucket nor the account of RateInv.
LEMMA RefillKeepsRate ==
    ASSUME RateInv
    PROVE  /\ Refilled \in 0..Capacity
           /\ excess = 0 \/ Refilled + excess <= Capacity
<1> DEFINE gain == age * Rate
<1>1. gain \in Nat /\ gain <= age * BaseRate
  BY RateIsAtMostBase, ProductGrows, ThrottleAssumption DEF RateInv
<1>2. Refilled = IF tokens + gain > Capacity THEN Capacity ELSE tokens + gain
  BY DEF Refilled
<1>3. age * BaseRate \in Nat
  BY ThrottleAssumption DEF RateInv
<1> HIDE DEF gain
<1>4. QED
  BY <1>1, <1>2, <1>3, ThrottleAssumption DEF RateInv

LEMMA RateInit == Init => RateInv
BY ThrottleAssumption DEF Init, RateInv

LEMMA RateStep == RateInv /\ [Next]_vars => RateInv'
<1> SUFFICES ASSUME RateInv, [Next]_vars PROVE RateInv'
  OBVIOUS
<1>1. CASE Tick
  <2> DEFINE before == age * BaseRate
             after == age' * BaseRate
  <2>1. /\ age \in Nat /\ BaseRate \in Nat /\ tokens \in 0..Capacity /\ excess \in Nat
        /\ tokens' = tokens /\ Capacity \in Nat
        /\ excess' = IF excess > BaseRate THEN excess - BaseRate ELSE 0
    BY <1>1, ThrottleAssumption DEF Tick, Less, RateInv
  <2>2. /\ age' \in Nat
        /\ after \in Nat /\ before \in Nat
        /\ after <= before + BaseRate
    <3>1. CASE age' = age
      <4>1. before \in Nat /\ after = before
        BY <2>1, <3>1
      <4>2. QED
        BY <2>1, <3>1, <4>1
    <3>2. CASE age' = age + 1
      <4>1. after = before + BaseRate
        BY <2>1, <3>2
      <4>2. before \in Nat
        BY <2>1
      <4>3. QED
        BY <2>1, <3>2, <4>1, <4>2
    <3>3. QED
      BY <1>1, <3>1, <3>2 DEF Tick
  <2>3. excess = 0 \/ tokens + excess + before <= Capacity
    BY DEF RateInv
  <2> HIDE DEF before, after
  <2>4. excess' \in Nat /\ (excess' = 0 \/ tokens' + excess' + after <= Capacity)
    BY <2>1, <2>2, <2>3
  <2>5. QED
    BY <2>1, <2>2, <2>4 DEF RateInv, after
<1>2. ASSUME NEW c \in Callers, Take(c) PROVE RateInv'
  <2>1. /\ Refilled >= Unit /\ tokens' = Refilled - Unit
        /\ age' = 0 /\ excess' = excess + Unit
    BY <1>2 DEF Take
  <2>2. tokens' + excess' + age' * BaseRate <= Capacity
    BY <2>1, RefillKeepsRate, ThrottleAssumption DEF RateInv
  <2>3. QED
    BY <2>1, <2>2, RefillKeepsRate, ThrottleAssumption DEF RateInv
<1>3. ASSUME NEW c \in Callers, Sleep(c) PROVE RateInv'
  <2>1. tokens' = Refilled /\ age' = 0 /\ excess' = excess
    BY <1>3 DEF Sleep
  <2>2. QED
    BY <2>1, RefillKeepsRate, ThrottleAssumption DEF RateInv
<1>4. CASE UNCHANGED <<tokens, age, excess>>
  BY <1>4 DEF RateInv
<1>5. QED
  BY <1>1, <1>2, <1>3, <1>4
  DEF Next, vars, bucketVars, callerVars, loopVars, Cancel, CallerStep, OwnStep, Start,
      Check, Wake, TakeSlot, GiveUp, GiveUpAt, Respond, RespondOverload, Swap, SlowDown,
      Release, LoopStep, Load, WakeLoop, TryEnd, Restore

LEMMA RateInvariant == Spec => []RateInv
BY RateInit, RateStep, PTL DEF Spec

\* No span of time sees more requests dispatched than the burst plus the
\* base rate allows, whatever slowdowns and recoveries interleave with the
\* refills.
THEOREM RateIsBounded == Spec => []RateBound
<1>1. RateInv => RateBound
  <2> SUFFICES ASSUME RateInv PROVE RateBound
    OBVIOUS
  <2>1. age * BaseRate \in Nat
    BY ThrottleAssumption DEF RateInv
  <2>2. QED
    BY <2>1, ThrottleAssumption DEF RateInv, RateBound
<1>2. QED
  BY <1>1, RateInvariant, PTL
-----------------------------------------------------------------------------
(* The recovery of the base rate.                                          *)

Places == InFlight \cup {"idle", "wait", "lock", "nap", "slot"}
Watching == {l \in Loops : loop[l] \in {"load", "sleep", "cas"}}
Starting == {c \in Callers : pc[c] = "slow"}

RecoveryType ==
    /\ pc \in [Callers -> Places]
    /\ left \in [Callers -> Nat]
    /\ loop \in [Loops -> {"off", "load", "sleep", "cas", "restore"}]
    /\ window \in Nat \cup {Idle}

\* At most one goroutine, or one caller about to start it, watches over the
\* window, and there is one exactly while the window is open.
OneWatch ==
    /\ \A k, l \in Watching : k = l
    /\ \A c, d \in Starting : c = d
    /\ Watching = {} \/ Starting = {}
    /\ window = Idle <=> Watching = {} /\ Starting = {}

RecoveryInv == RecoveryType /\ OneWatch /\ SlowIsTemporary

LEMMA RecoveryInit == Init => RecoveryInv
BY DEF Init, RecoveryInv, RecoveryType, OneWatch, SlowIsTemporary, Places, Watching,
       Starting, Idle

\* Steps that neither start nor watch a slowdown.
LEMMA RecoveryFrame ==
    ASSUME RecoveryInv, RecoveryType', Watching' = Watching, Starting' = Starting,
           UNCHANGED slow, (window' = Idle) <=> (window = Idle),
           \A l \in Loops : loop[l] # "off" => loop'[l] # "off"
    PROVE  RecoveryInv'
BY DEF RecoveryInv, OneWatch, SlowIsTemporary

\* What a caller may do without touching the slowdown.
LEMMA CallerMoves ==
    ASSUME RecoveryInv, NEW c \in Callers, NEW to \in Places \ {"slow"},
           pc[c] # "slow", pc' = [pc EXCEPT ![c] = to], left' \in [Callers -> Nat],
           UNCHANGED <<slow, window, loop>>
    PROVE  RecoveryInv'
<1>1. RecoveryType'
  BY DEF RecoveryInv, RecoveryType
<1>2. Starting' = Starting
  BY DEF RecoveryInv, RecoveryType, Starting
<1>3. Watching' = Watching
  BY DEF Watching
<1>4. QED
  BY <1>1, <1>2, <1>3, RecoveryFrame

LEMMA TickKeepsRecovery == RecoveryInv /\ Tick => RecoveryInv'
<1> SUFFICES ASSUME RecoveryInv, Tick PROVE RecoveryInv'
  OBVIOUS
<1>1. UNCHANGED <<pc, loop, slow>> /\ (window' = Idle <=> window = Idle)
      /\ window' \in Nat \cup {Idle}
  BY DEF Tick, Less, Idle, RecoveryInv, RecoveryType
<1>2. left' \in [Callers -> Nat]
  BY DEF Tick, Less, RecoveryInv, RecoveryType
<1>3. RecoveryType'
  BY <1>1, <1>2 DEF RecoveryInv, RecoveryType
<1>4. Watching' = Watching /\ Starting' = Starting
  BY <1>1 DEF Watching, Starting
<1>5. QED
  BY <1>1, <1>3, <1>4, RecoveryFrame

\* The first overload makes its caller the one who watches.
LEMMA SwapKeepsRecovery ==
    ASSUME RecoveryInv, NEW c \in Callers, Swap(c)
    PROVE  RecoveryInv'
<1>1. /\ pc[c] = "swap" /\ UNCHANGED <<slow, loop>>
      /\ window' = left[c] /\ left[c] \in Nat /\ window' # Idle
      /\ left' \in [Callers -> Nat]
  <2>1. pc[c] = "swap" /\ UNCHANGED <<slow, loop>>
    BY DEF Swap, Goto, bucketVars
  <2>2. window' = left[c] /\ left' = [left EXCEPT ![c] = 0] /\ left \in [Callers -> Nat]
    BY DEF Swap, RecoveryInv, RecoveryType
  <2>3. QED
    BY <2>1, <2>2 DEF Idle
<1>2. CASE window = Idle
  <2>1. pc' = [pc EXCEPT ![c] = "slow"]
    BY <1>2 DEF Swap, Goto
  <2>2. RecoveryType'
    BY <1>1, <2>1 DEF RecoveryInv, RecoveryType, Places, InFlight
  <2>3. Watching' = {} /\ Starting' = {c}
    BY <1>1, <1>2, <2>1 DEF RecoveryInv, RecoveryType, OneWatch, Watching, Starting
  <2>4. OneWatch'
    BY <1>1, <2>3 DEF OneWatch
  <2>5. QED
    BY <1>1, <2>2, <2>4 DEF RecoveryInv, SlowIsTemporary
<1>3. CASE window # Idle
  <2>1. pc' = [pc EXCEPT ![c] = "release"]
    BY <1>3 DEF Swap, Goto
  <2>2. RecoveryType'
    BY <1>1, <2>1 DEF RecoveryInv, RecoveryType, Places, InFlight
  <2>3. Watching' = Watching /\ Starting' = Starting
    BY <1>1, <2>1 DEF RecoveryInv, RecoveryType, Watching, Starting
  <2>4. QED
    BY <1>1, <1>3, <2>2, <2>3, RecoveryFrame
<1>4. QED
  BY <1>2, <1>3

\* It hands the watch over to the goroutine it starts.
LEMMA SlowDownKeepsRecovery ==
    ASSUME RecoveryInv, NEW c \in Callers, SlowDown(c)
    PROVE  RecoveryInv'
<1>1. PICK l \in Loops : loop[l] = "off" /\ loop' = [loop EXCEPT ![l] = "load"]
  BY DEF SlowDown
<1>2. pc[c] = "slow" /\ pc' = [pc EXCEPT ![c] = "release"] /\ UNCHANGED <<window, left>>
  BY DEF SlowDown, Goto
<1>3. RecoveryType'
  BY <1>1, <1>2 DEF RecoveryInv, RecoveryType, Places, InFlight
<1>4. Starting = {c} /\ Watching = {} /\ window # Idle
  BY <1>2 DEF RecoveryInv, OneWatch, Starting
<1>5. Starting' = {}
  BY <1>2, <1>4 DEF RecoveryInv, RecoveryType, Starting
<1>6. Watching' = {l}
  BY <1>1, <1>4 DEF RecoveryInv, RecoveryType, Watching
<1>7. OneWatch'
  BY <1>2, <1>4, <1>5, <1>6 DEF OneWatch
<1>8. loop'[l] # "off"
  BY <1>1 DEF RecoveryInv, RecoveryType
<1>9. QED
  BY <1>3, <1>7, <1>8 DEF RecoveryInv, SlowIsTemporary

\* The recovery goroutine watches until it has closed the window itself.
LEMMA LoopKeepsRecovery ==
    ASSUME RecoveryInv, NEW l \in Loops, LoopStep(l)
    PROVE  RecoveryInv'
<1>1. UNCHANGED <<pc, left>> /\ Starting' = Starting
  BY DEF LoopStep, Load, WakeLoop, TryEnd, Restore, callerVars, Starting
<1>2. CASE Load(l) \/ WakeLoop(l) \/ (TryEnd(l) /\ ~valid[l])
  <2>1. l \in Watching /\ window # Idle
    BY <1>2 DEF Load, WakeLoop, TryEnd, RecoveryInv, OneWatch, Watching
  <2>2. UNCHANGED <<window, slow>>
    BY <1>2 DEF Load, WakeLoop, TryEnd, bucketVars
  <2>3. \E to \in {"load", "sleep", "cas"} : loop' = [loop EXCEPT ![l] = to]
    BY <1>2, <2>1 DEF Load, WakeLoop, TryEnd
  <2>4. RecoveryType'
    BY <1>1, <2>2, <2>3 DEF RecoveryInv, RecoveryType
  <2>5. Watching' = Watching /\ \A k \in Loops : loop[k] # "off" => loop'[k] # "off"
    BY <2>1, <2>3 DEF RecoveryInv, RecoveryType, Watching
  <2>6. QED
    BY <1>1, <2>2, <2>4, <2>5, RecoveryFrame
<1>3. CASE TryEnd(l) /\ valid[l]
  <2>1. /\ loop[l] = "cas" /\ loop' = [loop EXCEPT ![l] = "restore"]
        /\ window' = Idle /\ UNCHANGED slow
    BY <1>3 DEF TryEnd, bucketVars
  <2>2. RecoveryType'
    BY <1>1, <2>1 DEF RecoveryInv, RecoveryType
  <2>3. Watching = {l} /\ Starting = {}
    BY <2>1 DEF RecoveryInv, OneWatch, Watching
  <2>4. Watching' = {}
    BY <2>1, <2>3 DEF RecoveryInv, RecoveryType, Watching
  <2>5. OneWatch'
    BY <1>1, <2>1, <2>3, <2>4 DEF OneWatch
  <2>6. loop'[l] # "off"
    BY <2>1 DEF RecoveryInv, RecoveryType
  <2>7. QED
    BY <2>2, <2>5, <2>6 DEF RecoveryInv, SlowIsTemporary
<1>4. CASE Restore(l)
  <2>1. /\ loop[l] = "restore" /\ loop' = [loop EXCEPT ![l] = "off"]
        /\ slow' = FALSE /\ UNCHANGED window
    BY <1>4 DEF Restore
  <2>2. RecoveryType'
    BY <1>1, <2>1 DEF RecoveryInv, RecoveryType
  <2>3. Watching' = Watching
    BY <2>1 DEF RecoveryInv, RecoveryType, Watching
  <2>4. OneWatch'
    BY <1>1, <2>1, <2>3 DEF RecoveryInv, OneWatch
  <2>5. QED
    BY <2>1, <2>2, <2>4 DEF RecoveryInv, SlowIsTemporary
<1>5. QED
  BY <1>2, <1>3, <1>4 DEF LoopStep

LEMMA Quotient == \A a \in Nat, b \in Nat \ {0} : a \div b \in Nat
OBVIOUS

LEMMA RecoveryStep == RateInv /\ RecoveryInv /\ [Next]_vars => RecoveryInv'
<1> SUFFICES ASSUME RateInv, RecoveryInv, [Next]_vars PROVE RecoveryInv'
  OBVIOUS
<1>1. ASSUME NEW c \in Callers,
             Start(c) \/ Check(c) \/ Take(c) \/ Sleep(c) \/ Wake(c) \/ TakeSlot(c)
               \/ GiveUp(c) \/ Respond(c) \/ RespondOverload(c) \/ Release(c)
      PROVE  RecoveryInv'
  <2>1. UNCHANGED <<slow, window, loop>>
    BY <1>1 DEF Start, Check, Take, Sleep, Wake, TakeSlot, GiveUp, GiveUpAt, Respond,
       RespondOverload, Release, bucketVars, loopVars
  <2>2. pc[c] # "slow" /\ \E to \in Places \ {"slow"} : pc' = [pc EXCEPT ![c] = to]
    BY <1>1 DEF Start, Check, Take, Sleep, Wake, TakeSlot, GiveUp, GiveUpAt, Respond,
       RespondOverload, Release, Goto, Places, InFlight
  <2>3. left' \in [Callers -> Nat]
    <3>1. CASE Sleep(c)
      <4> DEFINE ticks == (Unit - Refilled + Rate - 1) \div Rate
      <4>1. left' = [left EXCEPT ![c] = IF ticks > MaxNap THEN MaxNap ELSE ticks]
        BY <3>1 DEF Sleep
      <4>2. ticks \in Nat
        <5>1. Refilled \in Nat /\ Refilled < Unit /\ Rate \in Nat \ {0} /\ Unit \in Nat
          BY <3>1, RefillKeepsRate, RateIsAtMostBase, ThrottleAssumption DEF Sleep
        <5>2. Unit - Refilled + Rate - 1 \in Nat
          BY <5>1
        <5>3. QED
          BY <5>1, <5>2, Quotient
      <4>3. QED
        BY <4>1, <4>2, ThrottleAssumption DEF RecoveryInv, RecoveryType
    <3>2. CASE ~Sleep(c)
      BY <1>1, <3>2, ThrottleAssumption
      DEF RecoveryInv, RecoveryType, Start, Check, Take, Wake, TakeSlot, GiveUp, GiveUpAt,
          Respond, RespondOverload, Release
    <3>3. QED
      BY <3>1, <3>2
  <2>4. QED
    BY <2>1, <2>2, <2>3, CallerMoves
<1>2. CASE Cancel \/ UNCHANGED vars
  BY <1>2 DEF Cancel, vars, bucketVars, callerVars, loopVars, RecoveryInv, RecoveryType,
     OneWatch, SlowIsTemporary, Watching, Starting
<1>3. QED
  BY <1>1, <1>2, TickKeepsRecovery, SwapKeepsRecovery, SlowDownKeepsRecovery,
     LoopKeepsRecovery
  DEF Next, CallerStep, OwnStep

LEMMA RecoveryInvariant == Spec => []RecoveryInv
<1>1. Init => RateInv /\ RecoveryInv
  BY RateInit, RecoveryInit
<1>2. RateInv /\ RecoveryInv /\ [Next]_vars => (RateInv /\ RecoveryInv)'
  BY RateStep, RecoveryStep
<1>3. QED
  BY <1>1, <1>2, PTL DEF Spec

\* However overloads, deadlines and recoveries race, there is never a second
\* recovery for a window, and never a window without one.
THEOREM RecoveryIsUnique == Spec => []OneRecovery
<1>1. RecoveryInv => OneRecovery
  <2> SUFFICES ASSUME RecoveryInv PROVE OneRecovery
    OBVIOUS
  <2>1. Cardinality({}) = 0
    BY FS_EmptySet
  <2>2. CASE window = Idle
    <3>1. Watching = {} /\ Starting = {}
      BY <2>2 DEF RecoveryInv, OneWatch
    <3>2. QED
      BY <2>1, <2>2, <3>1 DEF OneRecovery, Watching, Starting
  <2>3. CASE window # Idle
    <3>1. (\E l : Watching = {l} /\ Starting = {}) \/ (\E c : Starting = {c} /\ Watching = {})
      BY <2>3 DEF RecoveryInv, OneWatch
    <3>2. Cardinality(Watching) + Cardinality(Starting) = 1
      <4>1. \A x : Cardinality({x}) = 1
        BY FS_Singleton
      <4>2. CASE \E l : Watching = {l} /\ Starting = {}
        <5>1. Cardinality(Watching) = 1 /\ Cardinality(Starting) = 0
          BY <2>1, <4>1, <4>2
        <5>2. QED
          BY <5>1
      <4>3. CASE \E c : Starting = {c} /\ Watching = {}
        <5>1. Cardinality(Watching) = 0 /\ Cardinality(Starting) = 1
          BY <2>1, <4>1, <4>3
        <5>2. QED
          BY <5>1
      <4>4. QED
        BY <3>1, <4>2, <4>3
    <3>3. QED
      BY <2>3, <3>2 DEF OneRecovery, Watching, Starting
  <2>4. QED
    BY <2>2, <2>3
<1>2. QED
  BY <1>1, RecoveryInvariant, PTL

\* While the rate is low there is a goroutine that will restore it.
THEOREM SlowdownIsWatched == Spec => []SlowIsTemporary
<1>1. RecoveryInv => SlowIsTemporary
  BY DEF RecoveryInv
<1>2. QED
  BY <1>1, RecoveryInvariant, PTL
-----------------------------------------------------------------------------
(* The slots of the hosts.                                                 *)

SlotType ==
    /\ slots \in [Hosts -> Nat]
    /\ pc \in [Callers -> Places]
    /\ host \in [Callers -> Hosts]

SlotInv == SlotType /\ HostSlots

LEMMA SlotInit == Init => SlotInv
<1> SUFFICES ASSUME Init PROVE SlotInv
  OBVIOUS
<1>1. SlotType
  BY DEF Init, SlotType, Places
<1>2. ASSUME NEW h \in Hosts PROVE InFlightTo(h) = {}
  BY DEF Init, InFlightTo, InFlight
<1>3. ASSUME NEW h \in Hosts
      PROVE  slots[h] = Cardinality(InFlightTo(h)) /\ slots[h] <= MaxPerHost
  <2>1. slots[h] = 0
    BY DEF Init
  <2>2. Cardinality(InFlightTo(h)) = 0
    BY <1>2, FS_EmptySet
  <2>3. QED
    BY <2>1, <2>2, ThrottleAssumption
<1>4. QED
  BY <1>1, <1>3 DEF SlotInv, HostSlots

LEMMA FewInFlight == \A h \in Hosts : IsFiniteSet(InFlightTo(h))
<1> SUFFICES ASSUME NEW h \in Hosts PROVE IsFiniteSet(InFlightTo(h))
  OBVIOUS
<1>1. InFlightTo(h) \subseteq Callers /\ IsFiniteSet(Callers)
  BY ThrottleAssumption DEF InFlightTo
<1>2. QED
  BY <1>1, FS_Subset

\* A step that leaves the callers in flight where they are.
LEMMA SlotFrame ==
    ASSUME SlotInv, SlotType', UNCHANGED slots, \A h \in Hosts : InFlightTo(h)' = InFlightTo(h)
    PROVE  SlotInv'
BY DEF SlotInv, HostSlots

\* What a caller may do between taking a slot and releasing it, and outside.
LEMMA SlotKept ==
    ASSUME SlotInv, NEW c \in Callers, NEW to \in Places, UNCHANGED <<slots, host>>,
           pc' = [pc EXCEPT ![c] = to], pc[c] \in InFlight <=> to \in InFlight
    PROVE  SlotInv'
<1>1. SlotType'
  BY DEF SlotInv, SlotType
<1>2. ASSUME NEW h \in Hosts PROVE InFlightTo(h)' = InFlightTo(h)
  BY DEF SlotInv, SlotType, InFlightTo
<1>3. QED
  BY <1>1, <1>2, SlotFrame

\* A slot taken is one more request in flight to its host ...
LEMMA SlotTaken ==
    ASSUME SlotInv, NEW c \in Callers, TakeSlot(c)
    PROVE  SlotInv'
<1>1. /\ pc[c] = "slot" /\ slots[host[c]] < MaxPerHost /\ host' = host
      /\ pc' = [pc EXCEPT ![c] = "do"]
      /\ slots' = [slots EXCEPT ![host[c]] = @ + 1]
  BY DEF TakeSlot, Goto
<1>2. SlotType'
  BY <1>1 DEF SlotInv, SlotType, Places, InFlight
<1>3. ASSUME NEW h \in Hosts
      PROVE  slots'[h] = Cardinality(InFlightTo(h)') /\ slots'[h] <= MaxPerHost
  <2>1. /\ slots[h] = Cardinality(InFlightTo(h)) /\ slots[h] <= MaxPerHost
        /\ slots[h] \in Nat /\ IsFiniteSet(InFlightTo(h))
    BY FewInFlight DEF SlotInv, SlotType, HostSlots
  <2>2. CASE h = host[c]
    <3>1. InFlightTo(h)' = InFlightTo(h) \cup {c} /\ c \notin InFlightTo(h)
      BY <1>1, <2>2 DEF SlotInv, SlotType, InFlightTo, InFlight
    <3>2. Cardinality(InFlightTo(h)') = Cardinality(InFlightTo(h)) + 1
      BY <2>1, <3>1, FS_AddElement
    <3>3. slots'[h] = slots[h] + 1
      BY <1>1, <2>2 DEF SlotInv, SlotType
    <3>4. QED
      BY <1>1, <2>1, <2>2, <3>2, <3>3, ThrottleAssumption
  <2>3. CASE h # host[c]
    <3>1. InFlightTo(h)' = InFlightTo(h)
      BY <1>1, <2>3 DEF SlotInv, SlotType, InFlightTo
    <3>2. slots'[h] = slots[h]
      BY <1>1, <2>3 DEF SlotInv, SlotType
    <3>3. QED
      BY <2>1, <3>1, <3>2
  <2>4. QED
    BY <2>2, <2>3
<1>4. QED
  BY <1>2, <1>3 DEF SlotInv, HostSlots

\* ... and a slot released one less.
LEMMA SlotReleased ==
    ASSUME SlotInv, NEW c \in Callers, Release(c)
    PROVE  SlotInv'
<1>1. /\ pc[c] = "release" /\ host' = host
      /\ pc' = [pc EXCEPT ![c] = "idle"]
      /\ slots' = [slots EXCEPT ![host[c]] = @ - 1]
  BY DEF Release, Goto
<1>2. ASSUME NEW h \in Hosts
      PROVE  /\ slots'[h] = Cardinality(InFlightTo(h)') /\ slots'[h] <= MaxPerHost
             /\ slots'[h] \in Nat
  <2>1. /\ slots[h] = Cardinality(InFlightTo(h)) /\ slots[h] <= MaxPerHost
        /\ slots[h] \in Nat /\ IsFiniteSet(InFlightTo(h))
    BY FewInFlight DEF SlotInv, SlotType, HostSlots
  <2>2. CASE h = host[c]
    <3>1. InFlightTo(h)' = InFlightTo(h) \ {c} /\ c \in InFlightTo(h)
      BY <1>1, <2>2 DEF SlotInv, SlotType, InFlightTo, InFlight
    <3>2. /\ Cardinality(InFlightTo(h)') = Cardinality(InFlightTo(h)) - 1
          /\ IsFiniteSet(InFlightTo(h)')
      BY <2>1, <3>1, FS_RemoveElement
    <3>3. slots'[h] = slots[h] - 1
      BY <1>1, <2>2 DEF SlotInv, SlotType
    <3>4. Cardinality(InFlightTo(h)') \in Nat
      BY <3>2, FS_CardinalityType
    <3>5. QED
      BY <2>1, <3>2, <3>3, <3>4, ThrottleAssumption
  <2>3. CASE h # host[c]
    <3>1. InFlightTo(h)' = InFlightTo(h)
      BY <1>1, <2>3 DEF SlotInv, SlotType, InFlightTo
    <3>2. slots'[h] = slots[h]
      BY <1>1, <2>3 DEF SlotInv, SlotType
    <3>3. QED
      BY <2>1, <3>1, <3>2
  <2>4. QED
    BY <2>2, <2>3
<1>3. SlotType'
  <2>1. DOMAIN slots' = Hosts /\ slots' = [h \in Hosts |-> slots'[h]]
    BY <1>1 DEF SlotInv, SlotType
  <2>2. slots' \in [Hosts -> Nat]
    BY <1>2, <2>1
  <2>3. QED
    BY <1>1, <2>2 DEF SlotInv, SlotType, Places
<1>4. QED
  BY <1>2, <1>3 DEF SlotInv, HostSlots

\* A new request chooses its host while its caller has no slot.
LEMMA SlotChosen ==
    ASSUME SlotInv, NEW c \in Callers, Start(c)
    PROVE  SlotInv'
<1>1. PICK h \in Hosts : host' = [host EXCEPT ![c] = h]
  BY DEF Start
<1>2. /\ pc[c] = "idle" /\ pc' = [pc EXCEPT ![c] = "wait"] /\ slots' = slots
  BY DEF Start, Goto
<1>3. SlotType'
  BY <1>1, <1>2 DEF SlotInv, SlotType, Places
<1>4. ASSUME NEW g \in Hosts PROVE InFlightTo(g)' = InFlightTo(g)
  BY <1>1, <1>2 DEF SlotInv, SlotType, InFlightTo, InFlight
<1>5. QED
  BY <1>2, <1>3, <1>4, SlotFrame

LEMMA SlotStep == SlotInv /\ [Next]_vars => SlotInv'
<1> SUFFICES ASSUME SlotInv, [Next]_vars PROVE SlotInv'
  OBVIOUS
<1>1. CASE UNCHANGED <<slots, pc, host>>
  BY <1>1 DEF SlotInv, SlotType, HostSlots, InFlightTo
<1>2. ASSUME NEW c \in Callers, CallerStep(c) PROVE SlotInv'
  <2>1. CASE Start(c)
    BY <2>1, SlotChosen
  <2>2. CASE TakeSlot(c)
    BY <2>2, SlotTaken
  <2>3. CASE Release(c)
    BY <2>3, SlotReleased
  <2>4. CASE \/ Check(c) \/ Take(c) \/ Sleep(c) \/ Wake(c) \/ GiveUp(c)
             \/ Respond(c) \/ RespondOverload(c) \/ Swap(c) \/ SlowDown(c)
    <3>1. PICK to \in Places :
            /\ UNCHANGED <<slots, host>> /\ pc' = [pc EXCEPT ![c] = to]
            /\ pc[c] \in InFlight <=> to \in InFlight
      BY <2>4 DEF Check, Take, Sleep, Wake, GiveUp, GiveUpAt, Respond, RespondOverload,
                  Swap, SlowDown, Goto, Places, InFlight, callerVars
    <3>2. QED
      BY <3>1, SlotKept
  <2>5. QED
    BY <1>2, <2>1, <2>2, <2>3, <2>4 DEF CallerStep, OwnStep
<1>3. CASE \/ Cancel \/ Tick \/ (\E l \in Loops : LoopStep(l)) \/ UNCHANGED vars
  BY <1>1, <1>3 DEF Cancel, Tick, LoopStep, Load, WakeLoop, TryEnd, Restore, vars, callerVars
<1>4. QED
  BY <1>2, <1>3 DEF Next

LEMMA SlotInvariant == Spec => []SlotInv
BY SlotInit, SlotStep, PTL DEF Spec

\* No host has more requests in flight than it has slots and no slot is
\* lost, for every number of callers, hosts and slots, and whichever way a
\* request ends.
THEOREM SlotsAreExact == Spec => []HostSlots
<1>1. SlotInv => HostSlots
  BY DEF SlotInv
<1>2. QED
  BY <1>1, SlotInvariant, PTL
-----------------------------------------------------------------------------
(* The types.                                                              *)

\* The bounds no invariant above has: a deadline that is swapped in is the
\* one its caller computed, not what is left of a sleep, and no timer is left
\* running where nobody waits for it.
CallerTimers == \A c \in Callers : left[c] <= LongestLeft(pc[c])

LoopTimers ==
    /\ nap \in [Loops -> 0..SlowTicks]
    /\ \A l \in Loops : nap[l] > 0 => loop[l] = "sleep"

TimeInv ==
    /\ ctxDone \in BOOLEAN /\ slow \in BOOLEAN
    /\ age \in 0..MaxAge
    /\ window \in Idle..SlowTicks
    /\ CallerTimers
    /\ LoopTimers
    /\ valid \in [Loops -> BOOLEAN]

LEMMA TimeInit == Init => TimeInv
<1> SUFFICES ASSUME Init PROVE TimeInv
  OBVIOUS
<1>1. /\ ctxDone \in BOOLEAN /\ slow \in BOOLEAN
      /\ age = 0 /\ window = Idle
  BY DEF Init
<1>2. CallerTimers
  BY DEF Init, CallerTimers, LongestLeft
<1>3. LoopTimers /\ valid \in [Loops -> BOOLEAN]
  BY ThrottleAssumption DEF Init, LoopTimers
<1>4. 0 \in 0..MaxAge /\ Idle \in Idle..SlowTicks
  BY ThrottleAssumption DEF Idle
<1>5. QED
  BY <1>1, <1>2, <1>3, <1>4 DEF TimeInv

\* A caller that moves without a timer, or sets one within the bound of the
\* place it moves to, keeps the bounds.
LEMMA TimersKept ==
    ASSUME RecoveryType, CallerTimers, NEW c \in Callers, NEW place, NEW ticks \in Nat,
           pc' = [pc EXCEPT ![c] = place], left' = [left EXCEPT ![c] = ticks],
           ticks <= LongestLeft(place)
    PROVE  CallerTimers'
<1>1. ASSUME NEW d \in Callers PROVE left'[d] <= LongestLeft(pc'[d])
  <2>1. CASE d = c
    <3>1. left'[c] = ticks /\ pc'[c] = place
      BY DEF RecoveryType
    <3>2. QED
      BY <2>1, <3>1
  <2>2. CASE d # c
    <3>1. left'[d] = left[d] /\ pc'[d] = pc[d]
      BY <2>2 DEF RecoveryType
    <3>2. QED
      BY <3>1 DEF CallerTimers
  <2>3. QED
    BY <2>1, <2>2
<1>2. QED
  BY <1>1 DEF CallerTimers, LongestLeft

LEMMA NoTimer ==
    ASSUME RecoveryType, CallerTimers, NEW c \in Callers,
           pc[c] \notin {"nap", "swap"} \/ left[c] = 0
    PROVE  left[c] = 0 /\ left = [left EXCEPT ![c] = 0]
<1>1. left \in [Callers -> Nat] /\ left[c] <= LongestLeft(pc[c])
  BY DEF RecoveryType, CallerTimers
<1>2. left[c] = 0
  BY <1>1 DEF LongestLeft
<1>3. QED
  BY <1>1, <1>2

LEMMA CallerTimersStep ==
    ASSUME RecoveryType, RateInv, CallerTimers, NEW c \in Callers, CallerStep(c)
    PROVE  CallerTimers'
<1> USE ThrottleAssumption
<1>1. \A place : 0 <= LongestLeft(place)
  BY DEF LongestLeft
<1>2. ASSUME NEW place, pc' = [pc EXCEPT ![c] = place], left' = [left EXCEPT ![c] = 0]
      PROVE  CallerTimers'
  BY <1>1, <1>2, TimersKept
<1>3. ASSUME NEW place, pc' = [pc EXCEPT ![c] = place], UNCHANGED left,
             pc[c] \notin {"nap", "swap"} \/ left[c] = 0
      PROVE  CallerTimers'
  BY <1>2, <1>3, NoTimer
<1>4. CASE RespondOverload(c)
  <2>1. pc' = [pc EXCEPT ![c] = "swap"] /\ left' = [left EXCEPT ![c] = SlowTicks]
    BY <1>4 DEF RespondOverload, Goto
  <2>2. SlowTicks \in Nat /\ SlowTicks <= LongestLeft("swap")
    BY DEF LongestLeft
  <2>3. QED
    BY <2>1, <2>2, TimersKept
<1>5. CASE Sleep(c)
  <2> DEFINE ticks == (Unit - Refilled + Rate - 1) \div Rate
             least == IF ticks > MaxNap THEN MaxNap ELSE ticks
  <2>1. pc' = [pc EXCEPT ![c] = "nap"] /\ left' = [left EXCEPT ![c] = least] /\ Refilled < Unit
    BY <1>5 DEF Sleep, Goto
  <2>2. Refilled \in Nat /\ Rate \in Nat \ {0}
    BY RefillKeepsRate, RateIsAtMostBase DEF RateInv
  <2>3. (Unit - Refilled + Rate - 1) \in Nat
    BY <2>1, <2>2
  <2>4. ticks \in Nat
    BY <2>2, <2>3, Quotient
  <2> HIDE DEF ticks
  <2>5. least \in Nat /\ least <= LongestLeft("nap")
    BY <2>4 DEF LongestLeft
  <2> HIDE DEF least
  <2>6. QED
    BY <2>1, <2>5, TimersKept
<1>6. CASE Swap(c) \/ GiveUp(c)
  <2>1. /\ left' = [left EXCEPT ![c] = 0]
        /\ \E place : pc' = [pc EXCEPT ![c] = place]
    BY <1>6 DEF Swap, GiveUp, GiveUpAt, Goto
  <2>2. QED
    BY <1>2, <2>1
<1>7. CASE \/ Start(c) \/ Check(c) \/ Take(c) \/ Wake(c) \/ TakeSlot(c)
           \/ SlowDown(c) \/ Respond(c) \/ Release(c)
  <2>1. /\ UNCHANGED left
        /\ pc[c] \notin {"nap", "swap"} \/ left[c] = 0
        /\ \E place : pc' = [pc EXCEPT ![c] = place]
    BY <1>7 DEF Start, Check, Take, Wake, TakeSlot, SlowDown, Respond, Release, Goto
  <2>2. QED
    BY <1>3, <2>1
<1>8. QED
  BY <1>4, <1>5, <1>6, <1>7 DEF CallerStep, OwnStep

LEMMA LoopTimersStep ==
    ASSUME RecoveryType, LoopTimers, window \in Idle..SlowTicks, NEW l \in Loops, LoopStep(l)
    PROVE  LoopTimers'
<1> USE ThrottleAssumption DEF Idle
<1>1. loop \in [Loops -> {"off", "load", "sleep", "cas", "restore"}]
  BY DEF RecoveryType
<1>2. CASE Load(l)
  <2> DEFINE place == IF window = Idle THEN "off" ELSE IF window = 0 THEN "cas" ELSE "sleep"
             ticks == IF window = Idle THEN 0 ELSE window
  <2>1. loop' = [loop EXCEPT ![l] = place] /\ nap' = [nap EXCEPT ![l] = ticks]
    BY <1>2 DEF Load
  <2>2. ticks \in 0..SlowTicks /\ (ticks > 0 => place = "sleep")
    OBVIOUS
  <2> HIDE DEF place, ticks
  <2>3. QED
    BY <1>1, <2>1, <2>2 DEF LoopTimers
<1>3. CASE WakeLoop(l) \/ TryEnd(l) \/ Restore(l)
  <2>1. /\ UNCHANGED nap /\ (loop[l] # "sleep" \/ nap[l] = 0)
        /\ \E place : loop' = [loop EXCEPT ![l] = place]
    BY <1>3 DEF WakeLoop, TryEnd, Restore
  <2>2. QED
    BY <1>1, <2>1 DEF LoopTimers
<1>4. QED
  BY <1>2, <1>3 DEF LoopStep

LEMMA TimeStep == RecoveryType /\ RateInv /\ TimeInv /\ [Next]_vars => TimeInv'
<1> SUFFICES ASSUME RecoveryType, RateInv, TimeInv, [Next]_vars PROVE TimeInv'
  OBVIOUS
<1> USE ThrottleAssumption DEF Idle
<1>1. CASE Cancel
  BY <1>1 DEF Cancel, TimeInv, CallerTimers, LongestLeft, LoopTimers, bucketVars, callerVars,
              loopVars
<1>2. CASE Tick
  <2>1. \A n \in Nat : Less(n, 1) \in Nat /\ Less(n, 1) <= n
    BY DEF Less
  <2>2. /\ age' \in 0..MaxAge /\ window' \in Idle..SlowTicks
        /\ UNCHANGED <<ctxDone, slow, pc, loop, valid>>
    BY <1>2 DEF Tick, TimeInv, Less
  <2>3. ASSUME NEW l \in Loops
        PROVE  nap'[l] \in 0..SlowTicks /\ (nap'[l] > 0 => loop'[l] = "sleep")
    <3>1. nap'[l] = Less(nap[l], 1) /\ nap[l] \in 0..SlowTicks
      BY <1>2 DEF Tick, TimeInv, LoopTimers
    <3>2. nap'[l] \in 0..SlowTicks /\ nap'[l] <= nap[l]
      BY <2>1, <3>1
    <3>3. QED
      BY <2>2, <3>1, <3>2 DEF TimeInv, LoopTimers
  <2>4. LoopTimers'
    BY <1>2, <2>3 DEF Tick, LoopTimers
  <2>5. ASSUME NEW c \in Callers PROVE left'[c] <= LongestLeft(pc[c])
    <3>1. left'[c] = Less(left[c], 1) /\ left[c] \in Nat /\ left[c] <= LongestLeft(pc[c])
      BY <1>2 DEF Tick, TimeInv, CallerTimers, RecoveryType
    <3>2. Less(left[c], 1) \in Nat /\ Less(left[c], 1) <= left[c]
      BY <2>1, <3>1
    <3>3. LongestLeft(pc[c]) \in Nat
      BY DEF LongestLeft
    <3>4. QED
      BY <3>1, <3>2, <3>3
  <2>6. CallerTimers'
    BY <2>2, <2>5 DEF CallerTimers, LongestLeft
  <2>7. QED
    BY <2>2, <2>4, <2>6 DEF TimeInv
<1>3. ASSUME NEW c \in Callers, CallerStep(c) PROVE TimeInv'
  <2>1. CallerTimers'
    BY <1>3, CallerTimersStep DEF TimeInv
  <2>2. /\ ctxDone' \in BOOLEAN /\ slow' \in BOOLEAN /\ age' \in 0..MaxAge
        /\ window' \in Idle..SlowTicks /\ LoopTimers' /\ valid' \in [Loops -> BOOLEAN]
    <3>1. CASE Swap(c)
      <4>1. /\ pc[c] = "swap" /\ window' = left[c] /\ valid' = [l \in Loops |-> FALSE]
            /\ UNCHANGED <<ctxDone, slow, age, loop, nap>>
        BY <3>1 DEF Swap, Goto, bucketVars
      <4>2. left[c] \in Nat /\ left[c] <= SlowTicks
        BY <4>1 DEF TimeInv, CallerTimers, LongestLeft, RecoveryType
      <4>3. QED
        BY <4>1, <4>2 DEF TimeInv, LoopTimers
    <3>2. CASE SlowDown(c)
      <4>1. PICK l \in Loops : loop[l] = "off" /\ loop' = [loop EXCEPT ![l] = "load"]
        BY <3>2 DEF SlowDown
      <4>2. slow' = TRUE /\ UNCHANGED <<ctxDone, age, window, nap, valid>>
        BY <3>2 DEF SlowDown
      <4>3. LoopTimers'
        BY <4>1, <4>2 DEF TimeInv, LoopTimers, RecoveryType
      <4>4. QED
        BY <4>2, <4>3 DEF TimeInv
    <3>3. CASE Take(c) \/ Sleep(c)
      BY <3>3 DEF Take, Sleep, TimeInv, LoopTimers, loopVars
    <3>4. CASE \/ Start(c) \/ Check(c) \/ Wake(c) \/ TakeSlot(c) \/ GiveUp(c)
               \/ Respond(c) \/ RespondOverload(c) \/ Release(c)
      BY <3>4 DEF Start, Check, Wake, TakeSlot, GiveUp, GiveUpAt, Respond, RespondOverload,
                  Release, TimeInv, LoopTimers, bucketVars, loopVars
    <3>5. QED
      BY <1>3, <3>1, <3>2, <3>3, <3>4 DEF CallerStep, OwnStep
  <2>3. QED
    BY <2>1, <2>2 DEF TimeInv
<1>4. ASSUME NEW l \in Loops, LoopStep(l) PROVE TimeInv'
  <2>1. LoopTimers'
    BY <1>4, LoopTimersStep DEF TimeInv
  <2>2. UNCHANGED callerVars
    BY <1>4 DEF LoopStep, Load, WakeLoop, TryEnd, Restore
  <2>3. CallerTimers'
    BY <2>2 DEF TimeInv, CallerTimers, LongestLeft, callerVars
  <2>4. /\ ctxDone' \in BOOLEAN /\ slow' \in BOOLEAN /\ age' \in 0..MaxAge
        /\ window' \in Idle..SlowTicks /\ valid' \in [Loops -> BOOLEAN]
    <3>1. CASE Load(l)
      <4>1. /\ UNCHANGED <<ctxDone, slow, age, window>>
            /\ valid' = [valid EXCEPT ![l] = window = 0]
        BY <3>1 DEF Load, bucketVars
      <4>2. valid' \in [Loops -> BOOLEAN]
        BY <4>1 DEF TimeInv
      <4>3. QED
        BY <4>1, <4>2 DEF TimeInv
    <3>2. CASE TryEnd(l)
      <4>1. /\ UNCHANGED <<ctxDone, slow, age>>
            /\ window' \in {Idle, window}
            /\ valid' \in {[k \in Loops |-> FALSE], valid}
        BY <3>2 DEF TryEnd, bucketVars
      <4>2. valid' \in [Loops -> BOOLEAN]
        BY <4>1 DEF TimeInv
      <4>3. QED
        BY <4>1, <4>2 DEF TimeInv
    <3>3. CASE WakeLoop(l)
      BY <3>3 DEF WakeLoop, TimeInv, bucketVars
    <3>4. CASE Restore(l)
      BY <3>4 DEF Restore, TimeInv
    <3>5. QED
      BY <1>4, <3>1, <3>2, <3>3, <3>4 DEF LoopStep
  <2>5. QED
    BY <2>1, <2>3, <2>4 DEF TimeInv
<1>5. CASE UNCHANGED vars
  BY <1>5 DEF vars, bucketVars, callerVars, loopVars, TimeInv, CallerTimers, LongestLeft,
              LoopTimers
<1>6. QED
  BY <1>1, <1>2, <1>3, <1>4, <1>5 DEF Next

LEMMA TimeInvariant == Spec => []TimeInv
<1>1. RecoveryInv => RecoveryType
  BY DEF RecoveryInv
<1>2. QED
  BY <1>1, TimeInit, TimeStep, RecoveryInvariant, RateInvariant, PTL DEF Spec

\* Every variable of the throttle keeps its type, the bucket its capacity and a
\* host its slots; no nap of a caller exceeds the longest one, and no deadline
\* and no sleep of a recovery the duration of a slowdown.
THEOREM ThrottleTypeCorrect == Spec => []TypeOK
<1>1. RateInv /\ RecoveryInv /\ SlotInv /\ TimeInv => TypeOK
  <2> SUFFICES ASSUME RateInv, RecoveryInv, SlotInv, TimeInv PROVE TypeOK
    OBVIOUS
  <2>1. \A h \in Hosts : slots[h] \in 0..MaxPerHost
    BY ThrottleAssumption DEF SlotInv, SlotType, HostSlots
  <2>2. slots \in [Hosts -> 0..MaxPerHost]
    BY <2>1 DEF SlotInv, SlotType
  <2>3. QED
    BY <2>2 DEF TypeOK, RateInv, RecoveryInv, RecoveryType, SlotInv, SlotType, TimeInv,
                CallerTimers, LoopTimers, Places
<1>2. QED
  BY <1>1, RateInvariant, RecoveryInvariant, SlotInvariant, TimeInvariant, PTL
-----------------------------------------------------------------------------
(* The end of a window. *)

\* A deadline that a recovery may still clear is one that has passed: whoever
\* swaps in another makes the comparison fail.
ValidIsDue == \A l \in Loops : valid[l] => window = 0

LEMMA DueInit == Init => ValidIsDue
BY DEF Init, ValidIsDue

LEMMA DueStep == RecoveryType /\ TimeInv /\ ValidIsDue /\ [Next]_vars => ValidIsDue'
<1> SUFFICES ASSUME RecoveryType, TimeInv, ValidIsDue, [Next]_vars PROVE ValidIsDue'
  OBVIOUS
<1>1. CASE UNCHANGED <<window, valid>>
  BY <1>1 DEF ValidIsDue
<1>2. CASE Tick
  <2>1. UNCHANGED valid /\ (window = 0 => window' = 0)
    BY <1>2 DEF Tick, Less, Idle
  <2>2. QED
    BY <2>1 DEF ValidIsDue
<1>3. ASSUME NEW c \in Callers, Swap(c) PROVE ValidIsDue'
  BY <1>3 DEF Swap, ValidIsDue
<1>4. ASSUME NEW l \in Loops, Load(l) PROVE ValidIsDue'
  BY <1>4 DEF Load, ValidIsDue, TimeInv
<1>5. ASSUME NEW l \in Loops, TryEnd(l) PROVE ValidIsDue'
  <2>1. CASE valid[l]
    BY <1>5, <2>1 DEF TryEnd, ValidIsDue
  <2>2. CASE ~valid[l]
    BY <1>1, <1>5, <2>2 DEF TryEnd
  <2>3. QED
    BY <2>1, <2>2
<1>6. CASE \/ Cancel \/ UNCHANGED vars
  BY <1>1, <1>6 DEF Cancel, vars, loopVars
<1>7. ASSUME NEW c \in Callers,
             \/ Start(c) \/ Check(c) \/ Take(c) \/ Sleep(c) \/ Wake(c) \/ TakeSlot(c)
             \/ GiveUp(c) \/ SlowDown(c) \/ Release(c) \/ Respond(c) \/ RespondOverload(c)
      PROVE  UNCHANGED <<window, valid>>
  BY <1>7 DEF Start, Check, Take, Sleep, Wake, TakeSlot, GiveUp, GiveUpAt, SlowDown,
              Release, Respond, RespondOverload, loopVars
<1>8. ASSUME NEW l \in Loops, WakeLoop(l) \/ Restore(l) PROVE UNCHANGED <<window, valid>>
  BY <1>8 DEF WakeLoop, Restore
<1>9. QED
  BY <1>1, <1>2, <1>3, <1>4, <1>5, <1>6, <1>7, <1>8 DEF Next, CallerStep, OwnStep, LoopStep

\* No slowdown is ended before its deadline, whichever goroutine extends it
\* between the load of the deadline and the attempt to clear it.
THEOREM SlowdownRunsOut == Spec => WindowRunsOut
<1>1. RecoveryType /\ TimeInv /\ ValidIsDue /\ [Next]_vars => [window > 0 => window' # Idle]_vars
  <2> SUFFICES ASSUME RecoveryType, TimeInv, ValidIsDue, Next, window > 0, window' = Idle
               PROVE  FALSE
    OBVIOUS
  <2>1. window' # window
    BY DEF Idle, RecoveryType
  <2>2. CASE Tick
    BY <2>2 DEF Tick, Less, Idle, RecoveryType
  <2>3. ASSUME NEW c \in Callers, Swap(c) PROVE FALSE
    BY <2>3 DEF Swap, Idle, RecoveryType
  <2>4. ASSUME NEW l \in Loops, TryEnd(l) PROVE FALSE
    BY <2>1, <2>4 DEF TryEnd, ValidIsDue
  <2>5. CASE Cancel
    BY <2>1, <2>5 DEF Cancel
  <2>6. ASSUME NEW c \in Callers,
               \/ Start(c) \/ Check(c) \/ Take(c) \/ Sleep(c) \/ Wake(c) \/ TakeSlot(c)
               \/ GiveUp(c) \/ SlowDown(c) \/ Release(c) \/ Respond(c) \/ RespondOverload(c)
        PROVE  FALSE
    BY <2>1, <2>6 DEF Start, Check, Take, Sleep, Wake, TakeSlot, GiveUp, GiveUpAt, SlowDown,
                      Release, Respond, RespondOverload
  <2>7. ASSUME NEW l \in Loops, Load(l) \/ WakeLoop(l) \/ Restore(l) PROVE FALSE
    BY <2>1, <2>7 DEF Load, WakeLoop, Restore
  <2>8. QED
    BY <2>2, <2>3, <2>4, <2>5, <2>6, <2>7 DEF Next, CallerStep, OwnStep, LoopStep
<1>2. RecoveryInv => RecoveryType
  BY DEF RecoveryInv
<1>3. QED
  BY <1>1, <1>2, DueInit, DueStep, RecoveryInvariant, TimeInvariant, PTL DEF Spec, WindowRunsOut
=============================================================================
