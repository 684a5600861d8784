--------------------------- MODULE SettingsProofs ---------------------------
(***************************************************************************)
(* Theorems about Settings, for every configuration file and command line. *)
(***************************************************************************)
EXTENDS Settings, ListFacts

\* The string that says nothing: no header, no value, an option not given.
Unnamed == ""

Corrected == {"method", "axes", "maxAttempts", "factor", "burst", "slowFactor", "slowTime"}
-----------------------------------------------------------------------------
(* Facts about the data. *)

LEMMA AtLeast == \A x \in Int : Max({1, x}) \in Int /\ Max({1, x}) >= 1 /\ (x >= 1 => Max({1, x}) = x)
BY DEF Max

\* Compiling changes nothing but the compiled expressions.
LEMMA CompiledAxis ==
    ASSUME NEW a \in Axes
    PROVE  /\ Compiled(a) \in Axes
           /\ Compiled(a).name = a.name
           /\ DOMAIN Compiled(a).values = DOMAIN a.values
           /\ \A j \in DOMAIN a.values :
                /\ Compiled(a).values[j].value = a.values[j].value
                /\ Compiled(a).values[j].matches = a.values[j].matches
                /\ Compiled(a).values[j].matchesRE = a.values[j].matches
                /\ a.values[j].matchesRE = a.values[j].matches =>
                     Compiled(a).values[j] = a.values[j]
           /\ (\A j \in DOMAIN a.values : a.values[j].matchesRE = a.values[j].matches) =>
                Compiled(a) = a
<1> DEFINE vals == [j \in DOMAIN a.values |-> [a.values[j] EXCEPT !.matchesRE = a.values[j].matches]]
<1>1. /\ a.values \in Seq(AxisValues) /\ DOMAIN a.values = 1..Len(a.values)
      /\ Len(a.values) \in Nat
      /\ \A j \in 1..Len(a.values) : a.values[j] \in AxisValues
  BY LenProperties, ElementOfSeq DEF Axes
<1>2. \A j \in DOMAIN a.values :
        /\ vals[j] \in AxisValues
        /\ vals[j].value = a.values[j].value /\ vals[j].matches = a.values[j].matches
        /\ vals[j].matchesRE = a.values[j].matches
        /\ a.values[j].matchesRE = a.values[j].matches => vals[j] = a.values[j]
  BY <1>1 DEF AxisValues
<1>3. vals \in Seq(AxisValues) /\ DOMAIN vals = DOMAIN a.values
  BY <1>1, <1>2, AsSequence
<1> HIDE DEF vals
<1>4. Compiled(a) = [a EXCEPT !.values = vals]
  BY DEF Compiled, vals
<1>5. Compiled(a) \in Axes /\ Compiled(a).values = vals /\ Compiled(a).name = a.name
  BY <1>3, <1>4 DEF Axes
<1>6. ASSUME \A j \in DOMAIN a.values : a.values[j].matchesRE = a.values[j].matches
      PROVE  Compiled(a) = a
  <2>1. \A j \in DOMAIN a.values : vals[j] = a.values[j]
    BY <1>2, <1>6
  <2>2. Len(vals) = Len(a.values)
    BY <1>1, <1>3, LenProperties
  <2>3. \A j \in 1..Len(vals) : vals[j] = a.values[j]
    BY <1>1, <2>1, <2>2
  <2>4. vals = a.values
    BY <1>1, <1>3, <2>2, <2>3, SeqEqual
  <2>5. QED
    BY <1>4, <2>4 DEF Axes
<1>7. QED
  BY <1>2, <1>3, <1>5, <1>6
-----------------------------------------------------------------------------
(* Validation. *)

Numbers ==
    {"workers", "timeout", "maxAttempts", "factor", "rps", "burst", "maxConns",
     "slowFactor", "slowTime", "maxJobs", "maxCombos", "percent", "firstN"}

LEMMA Fields ==
    DOMAIN Default = Numbers \cup {"sitemap", "method", "axes", "matchersOK", "userAgent",
                                   "globalHeaders", "globalCookies", "slowdown"}
BY DEF Default, Numbers

\* The fields after a validation.
LEMMA NormalisedFields ==
    ASSUME NEW c, IsConfig(c)
    PROVE  /\ DOMAIN Normalised(c) = DOMAIN Default
           /\ \A k \in DOMAIN Default \ Corrected : Normalised(c)[k] = c[k]
           /\ \A k \in Corrected : Normalised(c)[k] = Corrections(c)[k]
<1>1. DOMAIN c = DOMAIN Default
  BY DEF IsConfig
<1>2. DOMAIN Corrections(c) = Corrected
  BY DEF Corrections, Corrected
<1>3. Corrected \subseteq DOMAIN Default
  BY Fields DEF Corrected, Numbers
<1>4. QED
  BY <1>1, <1>2, <1>3 DEF Normalised

LEMMA CorrectMethod ==
    ASSUME NEW c, IsConfig(c)
    PROVE  Normalised(c).method = Upper(Trim(c.method))
<1>1. \A k \in Corrected : Normalised(c)[k] = Corrections(c)[k]
  BY NormalisedFields
<1>2. QED
  BY <1>1 DEF Corrected, Corrections

LEMMA CorrectAxes ==
    ASSUME NEW c, IsConfig(c)
    PROVE  Normalised(c).axes = [i \in DOMAIN c.axes |-> Compiled(c.axes[i])]
<1>1. \A k \in Corrected : Normalised(c)[k] = Corrections(c)[k]
  BY NormalisedFields
<1>2. QED
  BY <1>1 DEF Corrected, Corrections

LEMMA CorrectAttempts ==
    ASSUME NEW c, IsConfig(c)
    PROVE  Normalised(c).maxAttempts = Max({1, c.maxAttempts})
<1>1. \A k \in Corrected : Normalised(c)[k] = Corrections(c)[k]
  BY NormalisedFields
<1>2. QED
  BY <1>1 DEF Corrected, Corrections

LEMMA CorrectFactor ==
    ASSUME NEW c, IsConfig(c)
    PROVE  Normalised(c).factor = IF c.factor <= 0 THEN 4 ELSE c.factor
<1>1. \A k \in Corrected : Normalised(c)[k] = Corrections(c)[k]
  BY NormalisedFields
<1>2. QED
  BY <1>1 DEF Corrected, Corrections

LEMMA CorrectBurst ==
    ASSUME NEW c, IsConfig(c)
    PROVE  Normalised(c).burst = Burst(c)
<1>1. \A k \in Corrected : Normalised(c)[k] = Corrections(c)[k]
  BY NormalisedFields
<1>2. QED
  BY <1>1 DEF Corrected, Corrections

LEMMA CorrectSlowFactor ==
    ASSUME NEW c, IsConfig(c)
    PROVE  Normalised(c).slowFactor =
             IF c.slowdown /\ c.slowFactor \notin 1..99 THEN 50 ELSE c.slowFactor
<1>1. \A k \in Corrected : Normalised(c)[k] = Corrections(c)[k]
  BY NormalisedFields
<1>2. QED
  BY <1>1 DEF Corrected, Corrections

LEMMA CorrectSlowTime ==
    ASSUME NEW c, IsConfig(c)
    PROVE  Normalised(c).slowTime = IF c.slowdown /\ c.slowTime <= 0 THEN 30000 ELSE c.slowTime
<1>1. \A k \in Corrected : Normalised(c)[k] = Corrections(c)[k]
  BY NormalisedFields
<1>2. QED
  BY <1>1 DEF Corrected, Corrections

LEMMA BurstIsInt ==
    ASSUME NEW c, IsConfig(c)
    PROVE  /\ Burst(c) \in Int
           /\ c.rps > 0 /\ c.burst >= 0 => Burst(c) >= 1
           /\ (c.rps > 0 => c.burst >= 1) => Burst(c) = c.burst
<1>1. c.rps \in Int /\ c.burst \in Int
  BY DEF IsConfig
<1>2. c.rps > 0 => c.rps \div 2 \in Int
  BY <1>1
<1>3. QED
  BY <1>1, <1>2, AtLeast DEF Burst

\* What a validation leaves alone when it is done again.
Settled(c) ==
    /\ c.rps > 0 => c.burst >= 1
    /\ c.slowdown => c.slowFactor \in 1..99 /\ c.slowTime > 0
    /\ c.maxAttempts >= 1 /\ c.factor > 0
    /\ \A i \in DOMAIN c.axes : \A j \in DOMAIN c.axes[i].values :
         c.axes[i].values[j].matchesRE = c.axes[i].values[j].matches

LEMMA AxesOf ==
    ASSUME NEW c, IsConfig(c)
    PROVE  /\ Len(c.axes) \in Nat /\ DOMAIN c.axes = 1..Len(c.axes)
           /\ \A i \in DOMAIN c.axes :
                /\ c.axes[i] \in Axes
                /\ c.axes[i].values \in Seq(AxisValues)
                /\ \A j \in DOMAIN c.axes[i].values : c.axes[i].values[j] \in AxisValues
<1>1. c.axes \in Seq(Axes)
  BY DEF IsConfig
<1>2. /\ Len(c.axes) \in Nat /\ DOMAIN c.axes = 1..Len(c.axes)
      /\ \A i \in DOMAIN c.axes : c.axes[i] \in Axes
  BY <1>1, LenProperties
<1>3. \A i \in DOMAIN c.axes : c.axes[i].values \in Seq(AxisValues)
  BY <1>2 DEF Axes
<1>4. \A s \in Seq(AxisValues) : \A j \in DOMAIN s : s[j] \in AxisValues
  BY LenProperties
<1>5. QED
  BY <1>2, <1>3, <1>4

LEMMA NormalisedIsConfig ==
    ASSUME NEW c, IsConfig(c)
    PROVE  IsConfig(Normalised(c)) /\ DOMAIN Normalised(c).axes = DOMAIN c.axes
<1> DEFINE n == Normalised(c)
<1>1. n.axes \in Seq(Axes) /\ DOMAIN n.axes = DOMAIN c.axes
  <2>1. \A i \in 1..Len(c.axes) : Compiled(c.axes[i]) \in Axes
    BY AxesOf, CompiledAxis
  <2>2. n.axes \in [1..Len(c.axes) -> Axes]
    BY <2>1, AxesOf, CorrectAxes
  <2>3. QED
    BY <2>2, AxesOf, AsSequence
<1>2. n.maxAttempts \in Int /\ n.factor \in Int /\ n.burst \in Int /\ n.slowFactor \in Int
      /\ n.slowTime \in Int
  <2>1. c.maxAttempts \in Int /\ c.factor \in Int /\ c.slowFactor \in Int /\ c.slowTime \in Int
    BY DEF IsConfig
  <2>2. n.maxAttempts \in Int
    <3>1. n.maxAttempts = Max({1, c.maxAttempts})
      BY CorrectAttempts
    <3>2. QED
      BY <2>1, <3>1, AtLeast
  <2>3. n.factor \in Int
    BY <2>1, CorrectFactor
  <2>4. n.burst \in Int
    BY CorrectBurst, BurstIsInt
  <2>5. n.slowFactor \in Int
    BY <2>1, CorrectSlowFactor
  <2>6. n.slowTime \in Int
    BY <2>1, CorrectSlowTime
  <2>7. QED
    BY <2>2, <2>3, <2>4, <2>5, <2>6
<1>3. \A k \in Numbers : n[k] \in Int
  <2>1. \A k \in Numbers \ Corrected : n[k] \in Int
    BY NormalisedFields, Fields DEF IsConfig, Numbers
  <2>2. QED
    BY <1>2, <2>1 DEF Corrected, Numbers
<1>4. n.slowdown \in BOOLEAN
  <2>1. n.slowdown = c.slowdown
    BY NormalisedFields, Fields DEF Corrected
  <2>2. QED
    BY <2>1 DEF IsConfig
<1>5. DOMAIN n = DOMAIN Default
  BY NormalisedFields
<1> HIDE DEF n
<1>6. IsConfig(n)
  BY <1>1, <1>3, <1>4, <1>5 DEF IsConfig, Numbers
<1>7. QED
  BY <1>1, <1>6 DEF n

LEMMA NormalisedIsSound ==
    ASSUME NEW c, IsConfig(c), Valid(c)
    PROVE  /\ Sound(Normalised(c)) /\ Settled(Normalised(c))
           /\ Normalised(c).method \in {"GET", "HEAD"}
<1> DEFINE n == Normalised(c)
<1>1. /\ c.workers > 0 /\ c.timeout > 0 /\ c.rps >= 0 /\ c.burst >= 0
      /\ Upper(Trim(c.method)) \in {"GET", "HEAD"}
      /\ \A i \in DOMAIN c.axes : ValidAxis(c.axes[i])
  BY DEF Valid
<1>2. /\ n.workers = c.workers /\ n.timeout = c.timeout /\ n.rps = c.rps
      /\ n.slowdown = c.slowdown
  BY NormalisedFields, Fields DEF Corrected, Numbers
<1>3. c.maxAttempts \in Int /\ c.factor \in Int /\ c.slowFactor \in Int /\ c.slowTime \in Int
      /\ c.rps \in Int /\ c.burst \in Int /\ c.slowdown \in BOOLEAN
  BY DEF IsConfig
<1>4. n.rps > 0 => n.burst >= 1
  BY <1>1, <1>2, BurstIsInt, CorrectBurst
<1>5. n.slowdown => n.slowFactor \in 1..99 /\ n.slowTime > 0
  <2>1. n.slowFactor = IF c.slowdown /\ c.slowFactor \notin 1..99 THEN 50 ELSE c.slowFactor
    BY CorrectSlowFactor
  <2>2. n.slowTime = IF c.slowdown /\ c.slowTime <= 0 THEN 30000 ELSE c.slowTime
    BY CorrectSlowTime
  <2> HIDE DEF n
  <2>3. n.slowdown => n.slowFactor \in 1..99
    BY <1>2, <1>3, <2>1
  <2>4. n.slowdown => n.slowTime > 0
    BY <1>2, <1>3, <2>2
  <2>5. QED
    BY <2>3, <2>4
<1>6. n.maxAttempts >= 1 /\ n.factor > 0
  <2>1. n.maxAttempts = Max({1, c.maxAttempts})
    BY CorrectAttempts
  <2>2. n.factor = IF c.factor <= 0 THEN 4 ELSE c.factor
    BY CorrectFactor
  <2> HIDE DEF n
  <2>3. QED
    BY <1>3, <2>1, <2>2, AtLeast
<1>7. ASSUME NEW i \in DOMAIN n.axes
      PROVE  /\ n.axes[i].values # <<>>
             /\ \A j \in DOMAIN n.axes[i].values :
                  /\ n.axes[i].values[j].matchesRE = n.axes[i].values[j].matches
                  /\ BadPattern \notin Range(n.axes[i].values[j].matches)
  <2>1. /\ i \in DOMAIN c.axes /\ n.axes[i] = Compiled(c.axes[i])
        /\ c.axes[i] \in Axes /\ c.axes[i].values \in Seq(AxisValues)
    BY <1>7, CorrectAxes, NormalisedIsConfig, AxesOf
  <2>2. /\ c.axes[i].values # <<>>
        /\ \A j \in DOMAIN c.axes[i].values : BadPattern \notin Range(c.axes[i].values[j].matches)
    BY <1>1, <2>1 DEF ValidAxis, ValidValue
  <2>3. DOMAIN c.axes[i].values # {}
    BY <2>1, <2>2, EmptySeq, LenProperties
  <2>4. n.axes[i].values # <<>>
    BY <2>1, <2>3, CompiledAxis, DOMAIN <<>> = {}
  <2>5. QED
    BY <2>1, <2>2, <2>4, CompiledAxis
<1>8. n.method \in {"GET", "HEAD"}
  BY <1>1, CorrectMethod
<1> HIDE DEF n
<1>9. Sound(n) /\ Settled(n)
  BY <1>1, <1>2, <1>4, <1>5, <1>6, <1>7 DEF Sound, Settled
<1>10. QED
  BY <1>8, <1>9 DEF n

LEMMA NormalisedTwice ==
    ASSUME NEW c, IsConfig(c), Settled(c)
    PROVE  /\ \A k \in DOMAIN Default \ {"method", "axes"} : Normalised(c)[k] = c[k]
           /\ Normalised(c).axes = c.axes
<1> DEFINE n == Normalised(c)
<1>1. c.maxAttempts \in Int /\ c.factor \in Int /\ c.slowFactor \in Int /\ c.slowTime \in Int
      /\ c.slowdown \in BOOLEAN
  BY DEF IsConfig
<1>2. n.maxAttempts = c.maxAttempts
  BY <1>1, CorrectAttempts, AtLeast DEF Settled
<1>3. n.factor = c.factor
  BY <1>1, CorrectFactor DEF Settled
<1>4. n.burst = c.burst
  BY CorrectBurst, BurstIsInt DEF Settled
<1>5. n.slowFactor = c.slowFactor
  BY <1>1, CorrectSlowFactor DEF Settled
<1>6. n.slowTime = c.slowTime
  BY <1>1, CorrectSlowTime DEF Settled
<1>7. \A k \in DOMAIN Default \ {"method", "axes"} : n[k] = c[k]
  BY <1>2, <1>3, <1>4, <1>5, <1>6, NormalisedFields DEF Corrected
<1>8. n.axes = c.axes
  <2>1. ASSUME NEW i \in DOMAIN c.axes
        PROVE  Compiled(c.axes[i]) = c.axes[i]
    <3>1. c.axes[i] \in Axes
      BY AxesOf
    <3>2. \A j \in DOMAIN c.axes[i].values :
            c.axes[i].values[j].matchesRE = c.axes[i].values[j].matches
      BY DEF Settled
    <3>3. QED
      BY <3>1, <3>2, CompiledAxis
  <2>2. n.axes = [i \in DOMAIN c.axes |-> c.axes[i]]
    BY <2>1, CorrectAxes
  <2>3. c.axes = [i \in DOMAIN c.axes |-> c.axes[i]]
    BY DEF IsConfig
  <2>4. QED
    BY <2>2, <2>3
<1>9. QED
  BY <1>7, <1>8
-----------------------------------------------------------------------------
(* The axis overrides. *)

LEMMA OverriddenValues ==
    ASSUME NEW values \in Seq(AxisValues), NEW names \in Seq(Words)
    PROVE  /\ Overridden(values, names) \in Seq(AxisValues)
           /\ (\A j \in DOMAIN values : values[j].matchesRE = values[j].matches) =>
                \A k \in DOMAIN Overridden(values, names) :
                  Overridden(values, names)[k].matchesRE = Overridden(values, names)[k].matches
<1> DEFINE over == Overridden(values, names)
           same(k) == {j \in DOMAIN values : values[j].value = names[k]}
           new(k) == Bare(names[k])
<1>1. /\ Len(values) \in Nat /\ DOMAIN values = 1..Len(values)
      /\ \A j \in DOMAIN values : values[j] \in AxisValues
  BY LenProperties
<1>2. /\ Len(names) \in Nat /\ DOMAIN names = 1..Len(names)
      /\ \A k \in DOMAIN names : names[k] \in Words
  BY LenProperties
<1>3. DOMAIN over = DOMAIN names
  BY DEF Overridden
<1>4. \A k \in DOMAIN names :
        over[k] = IF same(k) # {} THEN values[Max(same(k))] ELSE new(k)
  BY DEF Overridden
<1>5. \A k \in DOMAIN names : over[k] \in Range(values) \/ over[k] = new(k)
  <2>1. TAKE k \in DOMAIN names
  <2>2. CASE same(k) = {}
    BY <1>4, <2>2
  <2>3. CASE same(k) # {}
    <3>1. same(k) \in SUBSET (1..Len(values))
      BY <1>1
    <3> HIDE DEF same
    <3>2. Max(same(k)) \in same(k)
      BY <1>1, <2>3, <3>1, LargestNumber
    <3>3. Max(same(k)) \in DOMAIN values
      BY <1>1, <3>1, <3>2
    <3>4. QED
      BY <1>4, <2>3, <3>3 DEF Range
  <2>4. QED
    BY <2>2, <2>3
<1>6. Range(values) \subseteq AxisValues
  BY <1>1 DEF Range
<1>7. \A k \in DOMAIN names :
        new(k) \in AxisValues /\ new(k).matchesRE = new(k).matches
  <2>1. <<>> \in Seq(URLPatterns)
    BY EmptySeq
  <2>2. QED
    BY <1>2, <2>1 DEF AxisValues, Bare
<1> HIDE DEF over, same, new
<1>8. over \in Seq(AxisValues)
  <2>1. \A k \in DOMAIN over : over[k] \in AxisValues
    BY <1>3, <1>5, <1>6, <1>7
  <2>2. over = [k \in DOMAIN over |-> over[k]]
    BY DEF over, Overridden
  <2>3. over \in [1..Len(names) -> AxisValues]
    BY <1>2, <1>3, <2>1, <2>2
  <2>4. QED
    BY <1>2, <2>3, AsSequence
<1>9. ASSUME \A j \in DOMAIN values : values[j].matchesRE = values[j].matches
      PROVE  \A k \in DOMAIN over : over[k].matchesRE = over[k].matches
  <2>1. \A v \in Range(values) : v.matchesRE = v.matches
    BY <1>9 DEF Range
  <2>2. QED
    BY <1>3, <1>5, <1>7, <2>1
<1>10. QED
  BY <1>8, <1>9 DEF over
-----------------------------------------------------------------------------
(* The invariant. *)

\* What the first pass left, but for the flags that have no axis.
FlagsApplied ==
    /\ \A k \in DOMAIN Default \ {"sitemap", "workers", "method", "axes"} : cfg[k] = loaded[k]
    /\ cfg.sitemap = FlagOr(flags.sitemap, flags.sitemap # "", loaded.sitemap)
    /\ cfg.workers = FlagOr(flags.workers, flags.workers > 0, loaded.workers)
    /\ cfg.method = FlagOr(flags.method, flags.method # "", loaded.method)

\* The axes after the overrides applied so far.
AxesLeft(n) ==
    [i \in DOMAIN loaded.axes |-> [loaded.axes[i] EXCEPT !.values = ValuesLeft(i, n)]]

Types ==
    /\ file \in Files /\ flags \in FlagSets
    /\ pc \in {"load", "flags", "axes", "accepted", "refused"}
    /\ pos \in 0..Len(flags.axes)
    /\ IsConfig(cfg) /\ IsConfig(loaded)

\* No value of an axis is blank.
ValuesGiven(c) ==
    \A i \in DOMAIN c.axes : \A j \in DOMAIN c.axes[i].values : Trim(c.axes[i].values[j].value) # Unnamed

SettingsInv ==
    /\ Types
    /\ pc \in {"load", "flags"} => pos = 0
    /\ pc \in {"flags", "axes"} => Settled(cfg) /\ loaded.method \in {"GET", "HEAD"}
    /\ pc = "flags" => cfg = loaded
    /\ pc = "axes" => FlagsApplied /\ cfg.axes = AxesLeft(pos)
    /\ pc = "accepted" => cfg.method \in {"GET", "HEAD"} /\ ValuesGiven(cfg)
    /\ AcceptedIsSound /\ FlagsChangeOnlyTheirs

LEMMA DefaultIsConfig == IsConfig(Default)
<1>1. Default.axes \in Seq(Axes)
  BY EmptySeq DEF Default
<1>2. QED
  BY <1>1 DEF IsConfig, Default

LEMMA InitInv == Init => SettingsInv
<1> SUFFICES ASSUME Init PROVE SettingsInv
  OBVIOUS
<1>1. Types
  <2>1. Len(flags.axes) \in Nat
    BY SettingsAssumption, LenProperties DEF Init
  <2>2. QED
    BY <2>1, DefaultIsConfig DEF Init, Types
<1>2. QED
  BY <1>1 DEF Init, SettingsInv, AcceptedIsSound, FlagsChangeOnlyTheirs

LEMMA LoadInv == SettingsInv /\ Load => SettingsInv'
<1> SUFFICES ASSUME SettingsInv, Load PROVE SettingsInv'
  OBVIOUS
<1>1. IsConfig(FromFile) /\ Valid(FromFile)
  BY SettingsAssumption, DefaultIsConfig DEF SettingsInv, Types, FromFile, Load
<1>2. /\ IsConfig(Normalised(FromFile)) /\ Settled(Normalised(FromFile))
      /\ Normalised(FromFile).method \in {"GET", "HEAD"}
  BY <1>1, NormalisedIsConfig, NormalisedIsSound
<1>3. cfg' = Normalised(FromFile) /\ loaded' = cfg' /\ pc' = "flags" /\ pos' = pos /\ pos = 0
  BY DEF Load, SettingsInv
<1>4. Types'
  BY <1>2, <1>3 DEF Load, SettingsInv, Types
<1>5. Settled(cfg') /\ loaded'.method \in {"GET", "HEAD"}
  BY <1>2, <1>3
<1>6. QED
  BY <1>3, <1>4, <1>5 DEF SettingsInv, AcceptedIsSound, FlagsChangeOnlyTheirs

LEMMA RefuseInv == SettingsInv /\ Refuse => SettingsInv'
BY DEF SettingsInv, Types, Refuse, AcceptedIsSound, FlagsChangeOnlyTheirs

LEMMA ApplyFlagsInv == SettingsInv /\ ApplyFlags => SettingsInv'
<1> SUFFICES ASSUME SettingsInv, ApplyFlags PROVE SettingsInv'
  OBVIOUS
<1>1. /\ cfg = loaded /\ IsConfig(cfg) /\ Settled(cfg) /\ cfg.method \in {"GET", "HEAD"}
      /\ pos = 0 /\ pc' = "axes"
      /\ UNCHANGED <<file, flags, pos, loaded>>
  BY DEF SettingsInv, Types, ApplyFlags
<1>2. /\ DOMAIN cfg = DOMAIN Default /\ DOMAIN cfg' = DOMAIN Default
      /\ \A k \in DOMAIN Default \ {"sitemap", "workers", "method"} : cfg'[k] = cfg[k]
      /\ cfg'.sitemap = FlagOr(flags.sitemap, flags.sitemap # "", cfg.sitemap)
      /\ cfg'.workers = FlagOr(flags.workers, flags.workers > 0, cfg.workers)
      /\ cfg'.method = FlagOr(flags.method, flags.method # "", cfg.method)
  <2>1. DOMAIN cfg = DOMAIN Default
    BY <1>1 DEF IsConfig
  <2>2. {"sitemap", "workers", "method"} \subseteq DOMAIN cfg
    BY <2>1, Fields DEF Numbers
  <2>3. QED
    BY <2>1, <2>2 DEF ApplyFlags, FlagOr
<1>3. cfg'.axes = cfg.axes
  BY <1>2, Fields
<1>4. IsConfig(cfg')
  <2>1. cfg'.workers \in Int
    <3>1. flags.workers \in Int /\ cfg.workers \in Int
      BY <1>1, SettingsAssumption DEF SettingsInv, Types, IsConfig
    <3>2. QED
      BY <1>2, <3>1 DEF FlagOr
  <2>2. \A k \in Numbers : cfg'[k] \in Int
    <3>1. \A k \in Numbers : cfg[k] \in Int
      BY <1>1 DEF IsConfig, Numbers
    <3>2. \A k \in Numbers \ {"workers"} : cfg'[k] = cfg[k]
      BY <1>2, Fields DEF Numbers
    <3>3. QED
      BY <2>1, <3>1, <3>2
  <2>3. cfg'.slowdown = cfg.slowdown
    BY <1>2, Fields
  <2>4. QED
    BY <1>1, <1>2, <1>3, <2>2, <2>3 DEF IsConfig, Numbers
<1>5. Settled(cfg')
  <2>1. \A k \in {"rps", "burst", "slowdown", "slowFactor", "slowTime", "maxAttempts", "factor"} :
          cfg'[k] = cfg[k]
    BY <1>2, Fields DEF Numbers
  <2>2. QED
    BY <1>1, <1>3, <2>1 DEF Settled
<1>6. FlagsApplied'
  BY <1>1, <1>2 DEF FlagsApplied, FlagOr
<1>7. cfg'.axes = AxesLeft(pos)'
  <2>1. loaded'.axes \in Seq(Axes) /\ pos' = 0 /\ cfg'.axes = loaded'.axes
    BY <1>1, <1>3 DEF IsConfig
  <2>2. \A i : OverridesOf(i, 0)' = {}
    BY DEF OverridesOf
  <2>3. \A i : ValuesLeft(i, 0)' = loaded'.axes[i].values
    BY <2>2 DEF ValuesLeft
  <2>4. \A i \in DOMAIN loaded'.axes : loaded'.axes[i] \in Axes
    BY <2>1, LenProperties
  <2>5. \A i \in DOMAIN loaded'.axes :
          [loaded'.axes[i] EXCEPT !.values = loaded'.axes[i].values] = loaded'.axes[i]
    BY <2>4 DEF Axes
  <2>6. AxesLeft(pos)' = [i \in DOMAIN loaded'.axes |-> loaded'.axes[i]]
    BY <2>1, <2>3, <2>5 DEF AxesLeft
  <2>7. QED
    BY <2>1, <2>6
<1>8. Types'
  BY <1>1, <1>4 DEF SettingsInv, Types
<1>9. QED
  BY <1>1, <1>5, <1>6, <1>7, <1>8 DEF SettingsInv, AcceptedIsSound, FlagsChangeOnlyTheirs

\* The value of a name after some overrides of the axis.
From(i, name) == {j \in DOMAIN loaded.axes[i].values : loaded.axes[i].values[j].value = name}

Stayed(over, name) == \A k \in over : name \in Range(flags.axes[k].values)

Left(i, over, name) ==
    IF From(i, name) # {} /\ Stayed(over, name)
    THEN loaded.axes[i].values[Max(From(i, name))] ELSE Bare(name)

LEMMA ValuesAreLeft ==
    ASSUME NEW i, NEW n
    PROVE  LET over == OverridesOf(i, n)
               names == flags.axes[Max(over)].values
           IN  /\ over = {} => ValuesLeft(i, n) = loaded.axes[i].values
               /\ over # {} => ValuesLeft(i, n) = [k \in DOMAIN names |-> Left(i, over, names[k])]
BY DEF ValuesLeft, Left, From, Stayed

LEMMA LeftHasName ==
    ASSUME IsConfig(loaded), NEW i \in DOMAIN loaded.axes, NEW over, NEW name
    PROVE  Left(i, over, name).value = name
<1> DEFINE values == loaded.axes[i].values
<1>1. Len(values) \in Nat /\ DOMAIN values = 1..Len(values)
  BY AxesOf, LenProperties
<1>2. From(i, name) = {j \in DOMAIN values : values[j].value = name}
  BY DEF From
<1>3. CASE From(i, name) # {} /\ Stayed(over, name)
  <2>1. From(i, name) \in SUBSET (1..Len(values))
    BY <1>1, <1>2
  <2>2. Max(From(i, name)) \in From(i, name)
    BY <1>1, <1>3, <2>1, LargestNumber
  <2>3. values[Max(From(i, name))].value = name
    BY <1>2, <2>2
  <2>4. QED
    BY <1>3, <2>3 DEF Left
<1>4. CASE ~(From(i, name) # {} /\ Stayed(over, name))
  BY <1>4 DEF Left, Bare
<1>5. QED
  BY <1>3, <1>4

LEMMA FlagAxes ==
    ASSUME flags \in FlagSets
    PROVE  /\ Len(flags.axes) \in Nat /\ DOMAIN flags.axes = 1..Len(flags.axes)
           /\ \A k \in 1..Len(flags.axes) : flags.axes[k].values \in Seq(Words)
<1>1. flags.axes \in Seq([name : STRING, values : Seq(Words)])
  BY SettingsAssumption
<1>2. /\ Len(flags.axes) \in Nat /\ DOMAIN flags.axes = 1..Len(flags.axes)
      /\ \A k \in DOMAIN flags.axes : flags.axes[k] \in [name : STRING, values : Seq(Words)]
  BY <1>1, LenProperties
<1>3. QED
  BY <1>2

\* The axis an override is for: the first of its name.
Target(i, k) ==
    /\ flags.axes[k].name = loaded.axes[i].name
    /\ \A j \in 1..(i - 1) : loaded.axes[j].name # loaded.axes[i].name

\* An override more leaves the values of other axes ...
LEMMA OtherAxis ==
    ASSUME NEW n \in Nat, NEW i, ~Target(i, n + 1)
    PROVE  ValuesLeft(i, n + 1) = ValuesLeft(i, n)
<1>1. \A k : k \in 1..(n + 1) <=> k \in 1..n \/ k = n + 1
  OBVIOUS
<1>2. OverridesOf(i, n + 1) = OverridesOf(i, n)
  BY <1>1 DEF OverridesOf, Target
<1>3. QED
  BY <1>2 DEF ValuesLeft

\* ... and overrides those of its own.
LEMMA TargetAxis ==
    ASSUME flags \in FlagSets, IsConfig(loaded), NEW n \in Nat, n + 1 \in 1..Len(flags.axes),
           NEW i \in DOMAIN loaded.axes, Target(i, n + 1)
    PROVE  ValuesLeft(i, n + 1) = Overridden(ValuesLeft(i, n), flags.axes[n + 1].values)
<1> DEFINE over == OverridesOf(i, n)
           more == OverridesOf(i, n + 1)
           old == ValuesLeft(i, n)
           names == flags.axes[n + 1].values
           same(k) == {j \in DOMAIN old : old[j].value = names[k]}
<1>1. over \in SUBSET (1..n) /\ more = over \cup {n + 1}
  <2>1. \A k : k \in 1..(n + 1) <=> k \in 1..n \/ k = n + 1
    OBVIOUS
  <2>2. QED
    BY <2>1 DEF OverridesOf, Target
<1>2. Max(more) = n + 1
  <2>1. more \in SUBSET (1..(n + 1)) /\ n + 1 \in Nat /\ n + 1 \in more
    BY <1>1
  <2> HIDE DEF more
  <2>2. Max(more) \in more /\ \A x \in more : Max(more) >= x
    BY <2>1, LargestNumber
  <2> DEFINE m == Max(more)
  <2> HIDE DEF m
  <2>3. m \in 1..(n + 1) /\ m >= n + 1
    BY <2>1, <2>2 DEF m
  <2>4. m = n + 1
    BY <2>3
  <2>5. QED
    BY <2>4 DEF m
<1>3. ValuesLeft(i, n + 1) = [k \in DOMAIN names |-> Left(i, more, names[k])]
  <2>1. more # {}
    BY <1>1
  <2>2. QED
    BY <1>2, <2>1, ValuesAreLeft
<1>4. Overridden(old, names) =
        [k \in DOMAIN names |-> IF same(k) # {} THEN old[Max(same(k))] ELSE Bare(names[k])]
  BY DEF Overridden
<1>5. ASSUME NEW k \in DOMAIN names
      PROVE  Left(i, more, names[k]) = IF same(k) # {} THEN old[Max(same(k))] ELSE Bare(names[k])
  <2> DEFINE w == names[k]
  <2>1. w \in Range(names)
    BY DEF Range
  <2>2. Stayed(more, w) <=> Stayed(over, w)
    BY <1>1, <2>1 DEF Stayed
  <2>3. CASE over = {}
    <3>1. old = loaded.axes[i].values
      BY <2>3, ValuesAreLeft
    <3>2. same(k) = From(i, w)
      BY <3>1 DEF From
    <3>3. Stayed(over, w)
      BY <2>3 DEF Stayed
    <3>4. Left(i, more, w) =
            IF From(i, w) # {} THEN loaded.axes[i].values[Max(From(i, w))] ELSE Bare(w)
      BY <2>2, <3>3 DEF Left
    <3> HIDE DEF same, old, names
    <3>5. QED
      BY <3>1, <3>2, <3>4
  <2>4. CASE over # {}
    <3> DEFINE before == flags.axes[Max(over)].values
    <3>1. Max(over) \in over /\ Max(over) \in 1..Len(flags.axes)
      <4>1. Max(over) \in over
        BY <1>1, <2>4, LargestNumber
      <4>2. Len(flags.axes) \in Nat
        BY FlagAxes
      <4>3. over \subseteq 1..Len(flags.axes)
        BY <1>1, <4>2
      <4>4. QED
        BY <4>1, <4>3
    <3>2. old = [j \in DOMAIN before |-> Left(i, over, before[j])]
      BY <2>4, ValuesAreLeft
    <3>3. Len(before) \in Nat /\ DOMAIN before = 1..Len(before)
      BY <3>1, FlagAxes, LenProperties
    <3> HIDE DEF old, before
    <3>4. \A j \in DOMAIN before : old[j].value = before[j]
      BY <3>2, LeftHasName
    <3>5. same(k) = {j \in DOMAIN before : before[j] = w}
      BY <3>2, <3>4
    <3>6. CASE same(k) # {}
      <4>1. same(k) \in SUBSET (1..Len(before))
        BY <3>3, <3>5
      <4> HIDE DEF same
      <4>2. Max(same(k)) \in same(k)
        BY <3>3, <3>6, <4>1, LargestNumber
      <4>3. Max(same(k)) \in DOMAIN before /\ before[Max(same(k))] = w
        BY <3>5, <4>2
      <4>4. old[Max(same(k))] = Left(i, over, w)
        BY <3>2, <4>3
      <4>5. Left(i, more, w) = Left(i, over, w)
        BY <2>2 DEF Left
      <4>6. QED
        BY <3>6, <4>4, <4>5
    <3>7. CASE same(k) = {}
      <4>1. w \notin Range(before)
        BY <3>5, <3>7 DEF Range
      <4>2. ~Stayed(more, w)
        BY <1>1, <3>1, <4>1 DEF Stayed, before
      <4>3. Left(i, more, w) = Bare(w)
        BY <4>2 DEF Left
      <4>4. QED
        BY <3>7, <4>3
    <3>8. QED
      BY <3>6, <3>7
  <2>5. QED
    BY <2>3, <2>4
<1> HIDE DEF same, old, more
<1>6. ValuesLeft(i, n + 1) = Overridden(old, names)
  BY <1>3, <1>4, <1>5
<1>7. QED
  BY <1>6 DEF old

LEMMA OverrideAxisInv == SettingsInv /\ OverrideAxis => SettingsInv'
<1> SUFFICES ASSUME SettingsInv, OverrideAxis PROVE SettingsInv'
  OBVIOUS
<1> DEFINE o == flags.axes[pos + 1]
           i == Min(AxisNamed(o.name))
           old == cfg.axes[i].values
           new == Overridden(old, o.values)
<1>1. /\ IsConfig(cfg) /\ IsConfig(loaded) /\ Settled(cfg) /\ FlagsApplied
      /\ cfg.axes = AxesLeft(pos) /\ loaded.method \in {"GET", "HEAD"}
      /\ pc = "axes" /\ pc' = "axes" /\ pos' = pos + 1 /\ pos \in 0..Len(flags.axes)
      /\ pos < Len(flags.axes)
      /\ UNCHANGED <<file, flags, loaded>>
  BY DEF SettingsInv, Types, OverrideAxis
<1>2. /\ Len(flags.axes) \in Nat /\ DOMAIN flags.axes = 1..Len(flags.axes)
      /\ pos + 1 \in DOMAIN flags.axes /\ o.values \in Seq(Words)
  <2>1. flags.axes \in Seq([name : STRING, values : Seq(Words)])
    BY SettingsAssumption DEF SettingsInv, Types
  <2>2. /\ Len(flags.axes) \in Nat /\ DOMAIN flags.axes = 1..Len(flags.axes)
        /\ \A k \in DOMAIN flags.axes : flags.axes[k] \in [name : STRING, values : Seq(Words)]
    BY <2>1, LenProperties
  <2>3. pos + 1 \in DOMAIN flags.axes
    BY <1>1, <2>2
  <2>4. QED
    BY <2>2, <2>3
<1>3. /\ i \in DOMAIN cfg.axes /\ cfg.axes[i].name = o.name
      /\ \A j \in DOMAIN cfg.axes : cfg.axes[j].name = o.name => i <= j
  <2>1. AxisNamed(o.name) \in SUBSET Nat /\ AxisNamed(o.name) # {}
    <3>1. AxisNamed(o.name) # {}
      BY DEF OverrideAxis
    <3>2. DOMAIN cfg.axes = 1..Len(cfg.axes) /\ Len(cfg.axes) \in Nat
      BY <1>1, AxesOf
    <3>3. QED
      BY <3>1, <3>2 DEF AxisNamed
  <2>2. i \in AxisNamed(o.name) /\ \A j \in AxisNamed(o.name) : i <= j
    BY <2>1, SmallestNumber
  <2>3. QED
    BY <2>2 DEF AxisNamed
<1>4. /\ new \in Seq(AxisValues)
      /\ \A j \in DOMAIN new : new[j].matchesRE = new[j].matches
  <2>1. old \in Seq(AxisValues)
    BY <1>1, <1>3, AxesOf
  <2>2. \A j \in DOMAIN old : old[j].matchesRE = old[j].matches
    BY <1>1, <1>3 DEF Settled
  <2>3. QED
    BY <1>2, <2>1, <2>2, OverriddenValues
<1>5. cfg' = [cfg EXCEPT !.axes[i].values = new]
  BY DEF OverrideAxis
<1> HIDE DEF new, i, o
<1>6. /\ DOMAIN cfg = DOMAIN Default /\ DOMAIN cfg' = DOMAIN Default
      /\ \A k \in DOMAIN Default \ {"axes"} : cfg'[k] = cfg[k]
      /\ cfg'.axes = [cfg.axes EXCEPT ![i].values = new]
  <2>1. DOMAIN cfg = DOMAIN Default /\ "axes" \in DOMAIN cfg
    BY <1>1, Fields DEF IsConfig
  <2>2. QED
    BY <1>5, <2>1
<1>7. /\ DOMAIN cfg'.axes = DOMAIN cfg.axes
      /\ \A q \in DOMAIN cfg.axes \ {i} : cfg'.axes[q] = cfg.axes[q]
      /\ cfg'.axes[i] = [cfg.axes[i] EXCEPT !.values = new]
  BY <1>3, <1>6
<1>8. cfg.axes[i] \in Axes
  BY <1>1, <1>3, AxesOf
<1>9. cfg'.axes[i] \in Axes /\ cfg'.axes[i].name = cfg.axes[i].name /\ cfg'.axes[i].values = new
  BY <1>4, <1>7, <1>8 DEF Axes
<1>10. IsConfig(cfg')
  <2>1. cfg'.axes \in Seq(Axes)
    <3>1. Len(cfg.axes) \in Nat /\ DOMAIN cfg.axes = 1..Len(cfg.axes)
          /\ \A q \in DOMAIN cfg.axes : cfg.axes[q] \in Axes
      BY <1>1, AxesOf
    <3>2. \A q \in DOMAIN cfg.axes : cfg'.axes[q] \in Axes
      BY <1>7, <1>9, <3>1
    <3>3. cfg'.axes \in [1..Len(cfg.axes) -> Axes]
      BY <1>6, <3>1, <3>2
    <3>4. QED
      BY <3>1, <3>3, AsSequence
  <2>2. \A k \in Numbers \cup {"slowdown"} : cfg'[k] = cfg[k]
    BY <1>6, Fields DEF Numbers
  <2>3. QED
    BY <1>1, <1>6, <2>1, <2>2 DEF IsConfig, Numbers
<1>11. Settled(cfg')
  <2>1. \A k \in {"rps", "burst", "slowdown", "slowFactor", "slowTime", "maxAttempts", "factor"} :
          cfg'[k] = cfg[k]
    BY <1>6, Fields DEF Numbers
  <2>2. \A q \in DOMAIN cfg'.axes : \A j \in DOMAIN cfg'.axes[q].values :
          cfg'.axes[q].values[j].matchesRE = cfg'.axes[q].values[j].matches
    <3>1. TAKE q \in DOMAIN cfg'.axes
    <3>2. CASE q = i
      BY <1>4, <1>9, <3>2
    <3>3. CASE q # i
      BY <1>1, <1>7, <3>3 DEF Settled
    <3>4. QED
      BY <3>2, <3>3
  <2>3. QED
    BY <1>1, <2>1, <2>2 DEF Settled
<1>12. FlagsApplied'
  <2>1. \A k \in {"sitemap", "workers", "method"} : cfg'[k] = cfg[k]
    BY <1>6, Fields DEF Numbers
  <2>2. QED
    BY <1>1, <1>6, <2>1 DEF FlagsApplied, FlagOr
<1>13. /\ DOMAIN loaded.axes = DOMAIN cfg.axes /\ DOMAIN cfg.axes = 1..Len(cfg.axes)
       /\ Len(cfg.axes) \in Nat
       /\ \A q \in DOMAIN cfg.axes :
            /\ cfg.axes[q] = [loaded.axes[q] EXCEPT !.values = ValuesLeft(q, pos)]
            /\ loaded.axes[q] \in Axes
            /\ cfg.axes[q].name = loaded.axes[q].name
            /\ cfg.axes[q].values = ValuesLeft(q, pos)
  <2>1. DOMAIN loaded.axes = DOMAIN cfg.axes
    BY <1>1 DEF AxesLeft
  <2>2. \A q \in DOMAIN cfg.axes : loaded.axes[q] \in Axes
    BY <1>1, <2>1, AxesOf
  <2>3. \A q \in DOMAIN cfg.axes :
          cfg.axes[q] = [loaded.axes[q] EXCEPT !.values = ValuesLeft(q, pos)]
    BY <1>1, <2>1 DEF AxesLeft
  <2>4. DOMAIN cfg.axes = 1..Len(cfg.axes) /\ Len(cfg.axes) \in Nat
    BY <1>1, AxesOf
  <2>5. ASSUME NEW q \in DOMAIN cfg.axes
        PROVE  /\ cfg.axes[q].name = loaded.axes[q].name
               /\ cfg.axes[q].values = ValuesLeft(q, pos)
    <3>1. loaded.axes[q] \in Axes
      BY <2>2
    <3>2. cfg.axes[q] = [loaded.axes[q] EXCEPT !.values = ValuesLeft(q, pos)]
      BY <2>3
    <3>3. QED
      BY <3>1, <3>2 DEF Axes
  <2>6. QED
    BY <2>1, <2>2, <2>3, <2>4, <2>5
<1>14. ASSUME NEW q \in DOMAIN cfg.axes
       PROVE  cfg'.axes[q] = [loaded.axes[q] EXCEPT !.values = ValuesLeft(q, pos + 1)]
  <2>1. CASE q = i
    <3>1. Target(q, pos + 1)
      <4>1. flags.axes[pos + 1].name = loaded.axes[q].name
        BY <1>3, <1>13, <2>1 DEF o
      <4>2. ASSUME NEW j \in 1..(q - 1)
            PROVE  loaded.axes[j].name # loaded.axes[q].name
        <5>1. j \in DOMAIN cfg.axes /\ ~(q <= j)
          BY <1>13
        <5>2. QED
          BY <1>3, <1>13, <2>1, <5>1
      <4>3. QED
        BY <4>1, <4>2 DEF Target
    <3>2. old = ValuesLeft(q, pos)
      BY <1>13, <2>1
    <3>3. flags \in FlagSets /\ pos \in Nat /\ pos + 1 \in 1..Len(flags.axes)
      BY <1>1, <1>2 DEF SettingsInv, Types
    <3>4. new = ValuesLeft(q, pos + 1)
      <4>1. ValuesLeft(q, pos + 1) = Overridden(ValuesLeft(q, pos), flags.axes[pos + 1].values)
        BY <1>1, <1>13, <3>1, <3>3, TargetAxis
      <4>2. QED
        BY <3>2, <4>1 DEF new, o
    <3>5. [cfg.axes[q] EXCEPT !.values = new] = [loaded.axes[q] EXCEPT !.values = new]
      <4>1. \A a \in Axes : \A x, y :
              [[a EXCEPT !.values = x] EXCEPT !.values = y] = [a EXCEPT !.values = y]
        BY DEF Axes
      <4>2. QED
        BY <1>13, <4>1
    <3>6. QED
      BY <1>7, <2>1, <3>4, <3>5
  <2>2. CASE q # i
    <3>1. ~Target(q, pos + 1)
      <4>1. SUFFICES ASSUME Target(q, pos + 1)
                     PROVE  FALSE
        OBVIOUS
      <4>2. cfg.axes[q].name = o.name
        BY <1>13, <4>1 DEF Target, o
      <4>3. i <= q /\ i \in 1..Len(cfg.axes) /\ q \in 1..Len(cfg.axes)
        BY <1>3, <1>13, <4>2
      <4>4. i \in 1..(q - 1)
        BY <1>13, <2>2, <4>3
      <4>5. loaded.axes[i].name # loaded.axes[q].name
        BY <4>1, <4>4 DEF Target
      <4>6. QED
        BY <1>3, <1>13, <4>2, <4>5
    <3>2. ValuesLeft(q, pos + 1) = ValuesLeft(q, pos)
      BY <1>1, <3>1, OtherAxis DEF SettingsInv, Types
    <3>3. QED
      BY <1>7, <1>13, <2>2, <3>2
  <2>3. QED
    BY <2>1, <2>2
<1>15. cfg'.axes = AxesLeft(pos)'
  <2>1. AxesLeft(pos)' = AxesLeft(pos + 1)
    <3>1. ASSUME NEW q
          PROVE  ValuesLeft(q, pos)' = ValuesLeft(q, pos + 1)
      <4>1. OverridesOf(q, pos)' = OverridesOf(q, pos + 1)
        BY <1>1 DEF OverridesOf
      <4>2. QED
        BY <1>1, <4>1 DEF ValuesLeft
    <3>2. QED
      BY <1>1, <3>1 DEF AxesLeft
  <2>2. cfg'.axes = [q \in DOMAIN loaded.axes |-> cfg'.axes[q]]
    <3>1. cfg'.axes \in Seq(Axes)
      BY <1>10 DEF IsConfig
    <3>2. DOMAIN cfg'.axes = DOMAIN loaded.axes
      BY <1>7, <1>13
    <3>3. QED
      BY <3>1, <3>2
  <2>3. QED
    BY <1>13, <1>14, <2>1, <2>2 DEF AxesLeft
<1>16. Types'
  BY <1>1, <1>2, <1>10 DEF SettingsInv, Types
<1>17. QED
  BY <1>1, <1>11, <1>12, <1>15, <1>16 DEF SettingsInv, AcceptedIsSound, FlagsChangeOnlyTheirs

LEMMA RecheckInv == SettingsInv /\ Recheck => SettingsInv'
<1> SUFFICES ASSUME SettingsInv, Recheck PROVE SettingsInv'
  OBVIOUS
<1>1. /\ IsConfig(cfg) /\ IsConfig(loaded) /\ Settled(cfg) /\ FlagsApplied
      /\ cfg.axes = AxesLeft(pos) /\ pos = Len(flags.axes) /\ loaded.method \in {"GET", "HEAD"}
      /\ Valid(cfg) /\ cfg' = Normalised(cfg) /\ pc' = "accepted"
      /\ UNCHANGED <<file, flags, pos, loaded>>
  BY DEF SettingsInv, Types, Recheck
<1>2. /\ IsConfig(cfg') /\ Sound(cfg') /\ cfg'.method \in {"GET", "HEAD"}
  BY <1>1, NormalisedIsConfig, NormalisedIsSound
<1>3. /\ \A k \in DOMAIN Default \ {"method", "axes"} : cfg'[k] = cfg[k]
      /\ cfg'.axes = cfg.axes
  BY <1>1, NormalisedTwice
<1>4. cfg'.method = FlagOr(Upper(Trim(flags.method)), flags.method # "", loaded.method)
  <2>1. cfg'.method = Upper(Trim(cfg.method))
    BY <1>1, CorrectMethod
  <2>2. Upper(Trim(loaded.method)) = loaded.method
    BY <1>1, SettingsAssumption
  <2>3. QED
    BY <1>1, <2>1, <2>2 DEF FlagsApplied, FlagOr
<1>5. cfg'.axes = AxesLeft(Len(flags.axes))'
  <2>1. AxesLeft(Len(flags.axes))' = AxesLeft(pos)
    <3>1. ASSUME NEW q
          PROVE  ValuesLeft(q, Len(flags.axes))' = ValuesLeft(q, pos)
      <4>1. OverridesOf(q, Len(flags.axes))' = OverridesOf(q, pos)
        BY <1>1 DEF OverridesOf
      <4>2. QED
        BY <1>1, <4>1 DEF ValuesLeft
    <3>2. QED
      BY <1>1, <3>1 DEF AxesLeft
  <2>2. QED
    BY <1>1, <1>3, <2>1
<1>6. FlagsChangeOnlyTheirs'
  <2>1. \A k \in DOMAIN cfg' \ {"sitemap", "workers", "method", "axes"} : cfg'[k] = loaded'[k]
    BY <1>1, <1>2, <1>3 DEF FlagsApplied, IsConfig
  <2>2. cfg'.sitemap = cfg.sitemap /\ cfg'.workers = cfg.workers
    BY <1>3, Fields DEF Numbers
  <2>3. /\ cfg'.sitemap = FlagOr(flags.sitemap, flags.sitemap # "", loaded.sitemap)
        /\ cfg'.workers = FlagOr(flags.workers, flags.workers > 0, loaded.workers)
    BY <1>1, <2>2 DEF FlagsApplied
  <2>4. QED
    BY <1>1, <1>4, <1>5, <2>1, <2>3 DEF FlagsChangeOnlyTheirs, FlagOr, AxesLeft
<1>7. Types'
  BY <1>1, <1>2 DEF SettingsInv, Types
<1>8. ValuesGiven(cfg)'
  <2>1. ValuesGiven(cfg)
    BY <1>1 DEF Valid, ValidAxis, ValidValue, ValuesGiven, Unnamed
  <2>2. QED
    BY <1>2, <1>3, <2>1 DEF ValuesGiven
<1>9. QED
  BY <1>1, <1>2, <1>6, <1>7, <1>8 DEF SettingsInv, AcceptedIsSound

LEMMA StepInv == SettingsInv /\ [Next]_vars => SettingsInv'
<1> SUFFICES ASSUME SettingsInv, [Next]_vars PROVE SettingsInv'
  OBVIOUS
<1>1. CASE LoadFails
  BY <1>1, RefuseInv DEF LoadFails
<1>2. CASE OverrideFails
  BY <1>2, RefuseInv DEF OverrideFails
<1>3. CASE RecheckFails
  BY <1>3, RefuseInv DEF RecheckFails
<1>4. CASE UNCHANGED vars
  <2>1. UNCHANGED <<file, flags, pc, cfg, pos, loaded>>
    BY <1>4 DEF vars
  <2>2. Types' = Types
    BY <2>1 DEF Types
  <2>3. FlagsApplied' = FlagsApplied
    BY <2>1 DEF FlagsApplied
  <2>4. AxesLeft(pos)' = AxesLeft(pos)
    BY <2>1 DEF AxesLeft, ValuesLeft, OverridesOf
  <2>5. AcceptedIsSound' = AcceptedIsSound
    BY <2>1 DEF AcceptedIsSound
  <2>6. FlagsChangeOnlyTheirs' = FlagsChangeOnlyTheirs
    BY <2>1 DEF FlagsChangeOnlyTheirs, ValuesLeft, OverridesOf
  <2>7. ValuesGiven(cfg)' = ValuesGiven(cfg)
    BY <2>1 DEF ValuesGiven
  <2>8. QED
    BY <2>1, <2>2, <2>3, <2>4, <2>5, <2>6, <2>7 DEF SettingsInv
<1>5. QED
  BY <1>1, <1>2, <1>3, <1>4, LoadInv, ApplyFlagsInv, OverrideAxisInv, RecheckInv DEF Next, Ended

LEMMA InvAlways == Spec => []SettingsInv
<1>1. QED
  BY InitInv, StepInv, PTL DEF Spec
-----------------------------------------------------------------------------
\* What Load and the flags leave is a configuration of the known fields, and
\* an accepted one has a method the client can use.
THEOREM SettingsTypeCorrect == Spec => []TypeOK
<1>1. SettingsInv => TypeOK
  <2> SUFFICES ASSUME SettingsInv PROVE TypeOK
    OBVIOUS
  <2>1. \A i \in DOMAIN cfg.axes :
          cfg.axes[i].transform \in STRING /\ \A j \in DOMAIN cfg.axes[i].values :
              cfg.axes[i].values[j].value \in STRING
    BY AxesOf, SettingsAssumption DEF SettingsInv, Types, Axes, AxisValues
  <2>2. QED
    BY <2>1 DEF SettingsInv, Types, IsConfig, TypeOK
<1>2. QED
  BY <1>1, InvAlways, PTL

\* Whatever the file and the command line say, a configuration that the run
\* accepts has workers, tokens to give, a slowdown that slows and ends, a
\* policy Execute need not correct, and expressions that compiled.
THEOREM AcceptedConfigIsSound == Spec => []AcceptedIsSound
<1>1. SettingsInv => AcceptedIsSound
  BY DEF SettingsInv
<1>2. QED
  BY <1>1, InvAlways, PTL

\* The second validation undoes no flag and touches nothing no flag names; of
\* the axes, the first of the name an -axis gives has the values the last such
\* override names, with the filters of the file where all of them name the
\* value, and every other axis is as loaded.
THEOREM FlagsTouchOnlyTheirs == Spec => []FlagsChangeOnlyTheirs
<1>1. SettingsInv => FlagsChangeOnlyTheirs
  BY DEF SettingsInv
<1>2. QED
  BY <1>1, InvAlways, PTL
-----------------------------------------------------------------------------
(* Cache rules. *)

CF == "CF-Cache-Status"

Headers == {CF, "X-Drupal-Dynamic-Cache", "X-Drupal-Cache", "X-Cache", "X-Cache-Status", "Age"}

Rules == DefaultCacheRules

\* The order of the rules: Cloudflare's are the first seven, Age the last.
LEMMA RuleOrder ==
    /\ DOMAIN Rules = 1..18
    /\ \A i \in 1..18 : /\ Rules[i].header \in Headers
                        /\ Rules[i].header = CF <=> i <= 7
                        /\ Rules[i].header = "Age" <=> i = 18
<1>1. Len(Rules) = 18 /\ DOMAIN Rules = 1..18
  BY DEF Rules, DefaultCacheRules
<1>2. /\ Rules[1].header = CF /\ Rules[2].header = CF /\ Rules[3].header = CF
      /\ Rules[4].header = CF /\ Rules[5].header = CF /\ Rules[6].header = CF
      /\ Rules[7].header = CF
  BY DEF Rules, DefaultCacheRules, Equals, Has, CF
<1>3. /\ Rules[8].header = "X-Drupal-Dynamic-Cache" /\ Rules[9].header = "X-Drupal-Dynamic-Cache"
      /\ Rules[10].header = "X-Drupal-Dynamic-Cache"
      /\ Rules[11].header = "X-Drupal-Cache" /\ Rules[12].header = "X-Drupal-Cache"
  BY DEF Rules, DefaultCacheRules, Equals
<1>4. /\ Rules[13].header = "X-Cache" /\ Rules[14].header = "X-Cache"
      /\ Rules[15].header = "X-Cache"
      /\ Rules[16].header = "X-Cache-Status" /\ Rules[17].header = "X-Cache-Status"
      /\ Rules[18].header = "Age"
  BY DEF Rules, DefaultCacheRules, Has, Present
<1>5. ASSUME NEW i \in 1..18
      PROVE  /\ Rules[i].header \in Headers
             /\ Rules[i].header = CF <=> i <= 7
             /\ Rules[i].header = "Age" <=> i = 18
  <2>1. CASE i \in 1..7
    <3>1. i = 1 \/ i = 2 \/ i = 3 \/ i = 4 \/ i = 5 \/ i = 6 \/ i = 7
      BY <2>1
    <3>2. QED
      BY <1>2, <2>1, <3>1 DEF CF, Headers
  <2>2. CASE i \in 8..12
    <3>1. i = 8 \/ i = 9 \/ i = 10 \/ i = 11 \/ i = 12
      BY <2>2
    <3>2. QED
      BY <1>3, <2>2, <3>1 DEF CF, Headers
  <2>3. CASE i \in 13..18
    <3>1. i = 13 \/ i = 14 \/ i = 15 \/ i = 16 \/ i = 17 \/ i = 18
      BY <2>3
    <3>2. QED
      BY <1>4, <2>3, <3>1 DEF CF, Headers
  <2>4. QED
    BY <2>1, <2>2, <2>3
<1>6. QED
  BY <1>1, <1>5

LEMMA HeadersHaveNames == Unnamed \notin Headers
BY DEF Headers, CF, Unnamed

Matching(rules, get) == {i \in DOMAIN rules : Match(rules[i], get[rules[i].header])}

Verdict(rules, matching) ==
    IF matching = {} THEN [state |-> "unknown", header |-> Unnamed]
    ELSE [state |-> rules[Min(matching)].state, header |-> rules[Min(matching)].header]

LEMMA ClassifyIsVerdict ==
    /\ \A get : Classify(<<>>, get) = Verdict(Rules, Matching(Rules, get))
    /\ \A rules, get : rules # <<>> => Classify(rules, get) = Verdict(rules, Matching(rules, get))
BY DEF Classify, Verdict, Matching, Rules, Unnamed

LEMMA SilentVerdict ==
    /\ \A rules : Verdict(rules, {}).header = Unnamed /\ Verdict(rules, {}).state = "unknown"
    /\ \A rules, S : S # {} => Verdict(rules, S).header = rules[Min(S)].header
BY DEF Verdict

\* Of a set of rules, the ones up to some rule hold the first of them, if
\* they hold any.
LEMMA FirstIsEarly ==
    ASSUME NEW n \in Nat, NEW T \in SUBSET Nat, NEW S, S # {}, S = {i \in T : i <= n}
    PROVE  Min(T) = Min(S) /\ Min(S) \in S
<1>1. S \in SUBSET Nat /\ T # {}
  OBVIOUS
<1>2. Min(S) \in S /\ \A x \in S : Min(S) <= x
  BY <1>1, SmallestNumber
<1>3. Min(T) \in T /\ \A x \in T : Min(T) <= x
  BY <1>1, SmallestNumber
<1> DEFINE first == Min(S)
           least == Min(T)
<1> HIDE DEF first, least
<1>4. first \in S /\ (\A x \in S : first <= x) /\ least \in T /\ \A x \in T : least <= x
  BY <1>2, <1>3 DEF first, least
<1>5. first \in Nat /\ first <= n /\ least <= first /\ least \in Nat
  BY <1>4
<1>6. least \in S
  BY <1>4, <1>5
<1>7. first = least
  BY <1>4, <1>5, <1>6
<1>8. QED
  BY <1>4, <1>7 DEF first, least

\* A rule matches no absent header.
LEMMA AbsentHeader ==
    ASSUME NEW headers, NEW get, NEW i
    PROVE  i \in Matching(Rules, Only(headers, get)) <=>
             i \in Matching(Rules, get) /\ Rules[i].header \in headers
<1>1. SUFFICES ASSUME i \in 1..18
               PROVE  i \in Matching(Rules, Only(headers, get)) <=>
                        i \in Matching(Rules, get) /\ Rules[i].header \in headers
  BY RuleOrder DEF Matching
<1>2. i \in DOMAIN DefaultCacheRules /\ Rules[i].header \in CacheHeaders
  BY <1>1, RuleOrder DEF Rules, CacheHeaders
<1>3. Only(headers, get)[Rules[i].header] =
        IF Rules[i].header \in headers THEN get[Rules[i].header] ELSE {}
  BY <1>2 DEF Only
<1>4. ~Match(Rules[i], {})
  BY DEF Match
<1>5. QED
  BY <1>1, <1>3, <1>4, RuleOrder DEF Matching

\* What Cloudflare says cannot be outvoted.
LEMMA EdgeDecides ==
    ASSUME NEW get, Classify(<<>>, Only({CF}, get)).header # Unnamed
    PROVE  Classify(<<>>, get) = Classify(<<>>, Only({CF}, get))
<1> DEFINE T == Matching(Rules, get)
           S == Matching(Rules, Only({CF}, get))
<1>1. Classify(<<>>, get) = Verdict(Rules, T) /\ Classify(<<>>, Only({CF}, get)) = Verdict(Rules, S)
  BY ClassifyIsVerdict
<1>2. \A i \in T : i \in 1..18
  BY RuleOrder DEF Matching
<1>3. ASSUME NEW i
      PROVE  i \in S <=> i \in T /\ Rules[i].header \in {CF}
  BY AbsentHeader
<1> HIDE DEF S, T
<1>4. S # {}
  BY <1>1, SilentVerdict
<1>5. \A i : i \in S <=> i \in T /\ i \in 1..7
  BY <1>2, <1>3, RuleOrder
<1>6. Min(T) = Min(S) /\ Min(S) \in S
  <2> DEFINE last == 7
  <2>1. last \in Nat /\ T \in SUBSET Nat /\ S = {i \in T : i <= last}
    BY <1>2, <1>5
  <2> HIDE DEF last
  <2>2. QED
    BY <1>4, <2>1, FirstIsEarly
<1>7. Verdict(Rules, T) = Verdict(Rules, S)
  BY <1>4, <1>5, <1>6 DEF Verdict
<1>8. QED
  BY <1>1, <1>7

\* The first rules are the same rules.
LEMMA FirstRules ==
    ASSUME NEW n \in 1..18
    PROVE  /\ SubSeq(Rules, 1, n) # <<>>
           /\ DOMAIN SubSeq(Rules, 1, n) = 1..n
           /\ \A i \in 1..n : SubSeq(Rules, 1, n)[i] = Rules[i]
<1> DEFINE All == {Rules[i] : i \in 1..18}
           rules == Rules
<1>1. rules = [i \in 1..18 |-> rules[i]] /\ \A i \in 1..18 : rules[i] \in All
  BY RuleOrder DEF Rules, DefaultCacheRules
<1>2. rules \in Seq(All) /\ Len(rules) = 18
  BY <1>1, AsSequence, LenProperties
<1> HIDE DEF rules, All
<1>3. n \in Nat /\ n <= Len(rules) /\ 1 \in 1..n
  BY <1>2
<1>4. SubSeq(rules, 1, n) = [i \in 1..n |-> rules[i]]
  BY <1>2
<1>5. DOMAIN SubSeq(rules, 1, n) # {}
  BY <1>3, <1>4
<1>6. SubSeq(rules, 1, n) # <<>>
  <2>1. DOMAIN <<>> = {}
    OBVIOUS
  <2>2. QED
    BY <1>5, <2>1, Zenon
<1>7. QED
  BY <1>4, <1>6 DEF rules

\* Rules added behind those that decide change nothing.
LEMMA EarlierRulesDecide ==
    ASSUME NEW get, NEW n \in DOMAIN DefaultCacheRules,
           Classify(SubSeq(DefaultCacheRules, 1, n), get).header # Unnamed
    PROVE  Classify(<<>>, get) = Classify(SubSeq(DefaultCacheRules, 1, n), get)
<1> DEFINE front == SubSeq(Rules, 1, n)
           T == Matching(Rules, get)
           S == Matching(front, get)
<1>1. n \in 1..18
  BY RuleOrder DEF Rules
<1>2. front # <<>> /\ DOMAIN front = 1..n /\ \A i \in 1..n : front[i] = Rules[i]
  BY <1>1, FirstRules
<1>3. front = SubSeq(DefaultCacheRules, 1, n)
  BY DEF Rules
<1> HIDE DEF front
<1>4. Classify(<<>>, get) = Verdict(Rules, T) /\ Classify(front, get) = Verdict(front, S)
  BY <1>2, ClassifyIsVerdict
<1>5. \A i \in T : i \in 1..18
  BY RuleOrder DEF Matching
<1>6. \A i \in 1..n : i \in 1..18
  BY <1>1
<1>7. \A i : i \in S <=> i \in T /\ i \in 1..n
  BY <1>2, <1>6, RuleOrder DEF Matching
<1> HIDE DEF S, T
<1>8. S # {}
  BY <1>3, <1>4, SilentVerdict
<1>9. Min(T) = Min(S) /\ Min(S) \in S
  <2>1. n \in Nat /\ T \in SUBSET Nat /\ S = {i \in T : i <= n}
    BY <1>1, <1>5, <1>7
  <2>2. QED
    BY <1>8, <2>1, FirstIsEarly
<1>10. front[Min(S)] = Rules[Min(S)]
  BY <1>2, <1>7, <1>9
<1>11. Verdict(Rules, T) = Verdict(front, S)
  BY <1>7, <1>8, <1>9, <1>10 DEF Verdict
<1>12. QED
  BY <1>3, <1>4, <1>11

\* Age counts when no other header is recognised.
LEMMA AgeIsLast ==
    ASSUME NEW get, Classify(<<>>, get).header = "Age"
    PROVE  Classify(<<>>, Only(CacheHeaders \ {"Age"}, get)).state = "unknown"
<1> DEFINE T == Matching(Rules, get)
           S == Matching(Rules, Only(CacheHeaders \ {"Age"}, get))
<1>1. /\ Classify(<<>>, get) = Verdict(Rules, T)
      /\ Classify(<<>>, Only(CacheHeaders \ {"Age"}, get)) = Verdict(Rules, S)
  BY ClassifyIsVerdict
<1>2. \A i \in T : i \in 1..18
  BY RuleOrder DEF Matching
<1>3. ASSUME NEW i, i \in S
      PROVE  i \in T /\ Rules[i].header # "Age"
  BY <1>3, AbsentHeader
<1> HIDE DEF S, T
<1>4. T # {}
  BY <1>1, SilentVerdict, HeadersHaveNames DEF Headers
<1>5. Rules[Min(T)].header = "Age"
  BY <1>1, <1>4, SilentVerdict
<1>6. T \in SUBSET Nat
  BY <1>2
<1>7. Min(T) \in T /\ \A x \in T : Min(T) <= x
  BY <1>4, <1>6, SmallestNumber
<1> DEFINE first == Min(T)
<1> HIDE DEF first
<1>8. first \in T /\ Rules[first].header = "Age" /\ \A x \in T : first <= x
  BY <1>5, <1>7 DEF first
<1>9. first = 18
  BY <1>2, <1>8, RuleOrder
<1>10. \A x \in T : x = 18
  BY <1>2, <1>8, <1>9
<1>11. Rules[18].header = "Age"
  BY RuleOrder
<1>12. S = {}
  BY <1>3, <1>10, <1>11
<1>13. QED
  BY <1>1, <1>12, SilentVerdict

\* The more specific layer decides, whatever a response carries.
THEOREM LayersAreOrdered == Spec => []LayersInOrder
<1>1. LayersInOrder
  <2>1. ASSUME NEW get, NEW edge, edge = Classify(<<>>, Only({"CF-Cache-Status"}, get))
        PROVE  edge.header # "" => Classify(<<>>, get) = edge
    BY <2>1, EdgeDecides DEF CF, Unnamed
  <2>2. ASSUME NEW get, NEW n \in DOMAIN DefaultCacheRules
        PROVE  Classify(SubSeq(DefaultCacheRules, 1, n), get).header # "" =>
                 Classify(<<>>, get) = Classify(SubSeq(DefaultCacheRules, 1, n), get)
    BY EarlierRulesDecide DEF Unnamed
  <2>3. QED
    BY <2>1, <2>2, AgeIsLast DEF LayersInOrder
<1>2. QED
  BY <1>1, PTL
-----------------------------------------------------------------------------
(* Combinations and their requests. *)

LEMMA MergedIs ==
    ASSUME NEW first, NEW second
    PROVE  /\ DOMAIN Merged(first, second) = DOMAIN first \cup DOMAIN second
           /\ \A n \in DOMAIN second : Merged(first, second)[n] = second[n]
           /\ \A n \in DOMAIN first \ DOMAIN second : Merged(first, second)[n] = first[n]
BY DEF Merged

\* A header that has a value keeps it.
LEMMA FallbackKeeps ==
    ASSUME NEW headers, NEW name, NEW value, NEW n \in DOMAIN headers, headers[n] # Unnamed
    PROVE  /\ n \in DOMAIN Fallback(headers, name, value)
           /\ Fallback(headers, name, value)[n] = headers[n]
<1> DEFINE second == [m \in {name} |-> value]
           given == name \in DOMAIN headers /\ headers[name] # Unnamed
<1>1. Fallback(headers, name, value) =
        IF value = Unnamed \/ given THEN headers ELSE Merged(headers, second)
  BY DEF Fallback, Unnamed
<1>2. DOMAIN second = {name}
  OBVIOUS
<1> HIDE DEF second
<1>3. CASE value = Unnamed \/ given
  BY <1>1, <1>3
<1>4. CASE ~(value = Unnamed \/ given)
  <2>1. n \notin DOMAIN second
    BY <1>2, <1>4
  <2>2. n \in DOMAIN Merged(headers, second) /\ Merged(headers, second)[n] = headers[n]
    BY <2>1, MergedIs
  <2>3. QED
    BY <1>1, <1>4, <2>2
<1>5. QED
  BY <1>3, <1>4

\* What a kind's keys are, and the last axis of a key.
Keys(axes, kind) == {Key(kind, axes[i][kind]) : i \in With(axes, kind)}

Holder(axes, kind, n) == Max({k \in With(axes, kind) : Key(kind, axes[k][kind]) = n})

LEMMA InputsAre ==
    ASSUME NEW axes, NEW combo, NEW kind
    PROVE  buildJobInputs(axes, combo, kind) =
             [n \in Keys(axes, kind) |->
                TransformValue(axes[Holder(axes, kind, n)], combo[Holder(axes, kind, n)].value)]
BY DEF buildJobInputs, Keys, Holder

LEMMA HolderIsLast ==
    ASSUME NEW c, IsConfig(c), NEW kind, NEW n \in Keys(c.axes, kind)
    PROVE  /\ Holder(c.axes, kind, n) \in With(c.axes, kind)
           /\ Key(kind, c.axes[Holder(c.axes, kind, n)][kind]) = n
           /\ \A k \in With(c.axes, kind) :
                Key(kind, c.axes[k][kind]) = n => k <= Holder(c.axes, kind, n)
<1> DEFINE S == {k \in With(c.axes, kind) : Key(kind, c.axes[k][kind]) = n}
<1>1. Len(c.axes) \in Nat /\ DOMAIN c.axes = 1..Len(c.axes)
  BY AxesOf
<1>2. S \in SUBSET (1..Len(c.axes)) /\ S # {}
  BY <1>1 DEF Keys, With
<1>3. Max(S) \in S /\ \A x \in S : Max(S) >= x
  BY <1>1, <1>2, LargestNumber
<1>4. Holder(c.axes, kind, n) = Max(S)
  BY DEF Holder
<1> DEFINE m == Max(S)
<1> HIDE DEF m
<1>5. m \in S /\ \A x \in S : m >= x
  BY <1>3 DEF m
<1>6. \A x \in S : x <= m
  BY <1>1, <1>2, <1>5
<1>7. QED
  BY <1>4, <1>5, <1>6 DEF m

LEMMA PositionsAreNumbers ==
    ASSUME NEW c, IsConfig(c)
    PROVE  \A k \in DOMAIN c.axes : k \in Nat
<1>1. Len(c.axes) \in Nat /\ DOMAIN c.axes = 1..Len(c.axes)
  BY AxesOf
<1>2. QED
  BY <1>1

\* The axis whose key no later one takes holds it.
LEMMA LastHolds ==
    ASSUME NEW c, IsConfig(c), NEW kind, NEW i \in DOMAIN c.axes, Shows(c.axes, i, kind)
    PROVE  LET n == Key(kind, c.axes[i][kind])
           IN  n \in Keys(c.axes, kind) /\ Holder(c.axes, kind, n) = i
<1> DEFINE n == Key(kind, c.axes[i][kind])
           h == Holder(c.axes, kind, n)
<1>1. i \in With(c.axes, kind)
  BY DEF Shows, With
<1>2. n \in Keys(c.axes, kind)
  BY <1>1 DEF Keys
<1>3. h \in With(c.axes, kind) /\ Key(kind, c.axes[h][kind]) = n /\ i <= h
  BY <1>1, <1>2, HolderIsLast
<1>4. ~(h > i)
  BY <1>3 DEF Shows
<1>5. h \in Nat /\ i \in Nat
  BY <1>3, PositionsAreNumbers DEF With
<1> HIDE DEF h
<1>6. h = i
  BY <1>3, <1>4, <1>5
<1>7. QED
  BY <1>2, <1>6 DEF h

\* The holder of a key shows, unless the transport leaves its header out.
LEMMA HolderShows ==
    ASSUME NEW c, IsConfig(c), NEW kind, NEW n \in Keys(c.axes, kind),
           kind = "header" => n \notin Unsent
    PROVE  /\ Holder(c.axes, kind, n) \in DOMAIN c.axes
           /\ Shows(c.axes, Holder(c.axes, kind, n), kind)
<1> DEFINE h == Holder(c.axes, kind, n)
<1>1. /\ h \in With(c.axes, kind) /\ Key(kind, c.axes[h][kind]) = n
      /\ \A k \in With(c.axes, kind) : Key(kind, c.axes[k][kind]) = n => k <= h
  BY HolderIsLast
<1>2. \A k \in With(c.axes, kind) : k \in Nat
  BY PositionsAreNumbers DEF With
<1> HIDE DEF h
<1>3. \A k \in With(c.axes, kind) : k > h => Key(kind, c.axes[k][kind]) # n
  BY <1>1, <1>2
<1>4. h \in DOMAIN c.axes /\ c.axes[h][kind] # ""
  BY <1>1 DEF With
<1>5. QED
  BY <1>1, <1>3, <1>4 DEF Shows, h

\* A value that is not blank is sent as one that is not empty.
LEMMA TransformedIsGiven ==
    ASSUME NEW a, NEW w \in Words, Trim(w) # Unnamed
    PROVE  TransformValue(a, w) # Unnamed
BY SettingsAssumption DEF TransformValue, Unnamed

\* A combination has one of the axis's values for every axis.
LEMMA CombosHaveValues ==
    ASSUME NEW c, IsConfig(c), ValuesGiven(c), NEW u, NEW combo \in Combos(c, u)
    PROVE  \A i \in DOMAIN c.axes : combo[i].value \in Words /\ Trim(combo[i].value) # Unnamed
<1> DEFINE applicable == [i \in DOMAIN c.axes |-> ApplicableValues(c.axes[i], u)]
<1>1. DOMAIN combo = DOMAIN c.axes
      /\ \A i \in DOMAIN combo : \E k \in DOMAIN applicable[i] : combo[i] = applicable[i][k]
  BY DEF Combos
<1>2. ASSUME NEW i \in DOMAIN c.axes
      PROVE  \E j \in DOMAIN c.axes[i].values : combo[i] = c.axes[i].values[j]
  <2> DEFINE values == c.axes[i].values
             at == {k \in DOMAIN values : Applies(values[k], u)}
  <2>1. values \in Seq(AxisValues) /\ DOMAIN values = 1..Len(values)
    BY AxesOf, LenProperties
  <2>2. \A p \in at : p \in 1..Len(values)
    BY <2>1
  <2>3. applicable[i] = Kept(values, at)
    BY DEF ApplicableValues
  <2>4. PICK k \in DOMAIN applicable[i] : combo[i] = applicable[i][k]
    BY <1>1
  <2>5. combo[i] \in ToSet(Kept(values, at))
    BY <2>3, <2>4 DEF ToSet
  <2> HIDE DEF values, at
  <2>6. ToSet(Kept(values, at)) = {values[p] : p \in at}
    BY <2>1, <2>2, KeptElements
  <2>7. PICK p \in at : combo[i] = values[p]
    BY <2>5, <2>6
  <2>8. p \in DOMAIN values
    BY <2>1, <2>2
  <2>9. QED
    BY <2>7, <2>8 DEF values
<1>3. ASSUME NEW i \in DOMAIN c.axes
      PROVE  combo[i].value \in Words /\ Trim(combo[i].value) # Unnamed
  <2>1. PICK j \in DOMAIN c.axes[i].values : combo[i] = c.axes[i].values[j]
    BY <1>2
  <2>2. QED
    BY <2>1, AxesOf DEF ValuesGiven, AxisValues
<1>4. QED
  BY <1>3

\* The parts of a request on the wire.
CookiesOf(c, combo) ==
    Merged(buildDefaultCookies(c.globalCookies), buildJobInputs(c.axes, combo, "cookie"))

HeadersOf(c, defaults, combo) ==
    Fallback(Fallback(Merged(defaults, buildJobInputs(c.axes, combo, "header")),
                      "User-Agent", c.userAgent),
             "Cache-Control", "no-cache")

OnWire(headers) == [n \in DOMAIN headers \ Unsent |-> FieldText(headers[n])]

LEMMA WireIs ==
    ASSUME NEW c, NEW defaults, NEW u, NEW combo
    PROVE  Wire(buildRequest(c, defaults, u, combo)) =
             [url |-> u, headers |-> OnWire(HeadersOf(c, defaults, combo)),
              cookies |-> [n \in DOMAIN CookiesOf(c, combo) |-> CookieText(CookiesOf(c, combo)[n])]]
<1> DEFINE cookies == [n \in DOMAIN CookiesOf(c, combo) |-> CookieText(CookiesOf(c, combo)[n])]
<1>1. buildRequest(c, defaults, u, combo) =
        [url |-> u, headers |-> HeadersOf(c, defaults, combo), cookies |-> cookies]
  BY DEF buildRequest, mergeCookies, CookiesOf, HeadersOf
<1> HIDE DEF cookies
<1>2. Wire(buildRequest(c, defaults, u, combo)) =
        [url |-> u, headers |-> OnWire(HeadersOf(c, defaults, combo)), cookies |-> cookies]
  BY <1>1 DEF Wire, OnWire
<1>3. QED
  BY <1>2 DEF cookies

\* The value of an axis that shows can be read off the request.
LEMMA CookieShows ==
    ASSUME NEW c, IsConfig(c), NEW combo, NEW i \in DOMAIN c.axes, Shows(c.axes, i, "cookie")
    PROVE  LET n == Key("cookie", c.axes[i].cookie)
           IN  /\ n \in DOMAIN CookiesOf(c, combo)
               /\ CookieText(CookiesOf(c, combo)[n]) = Text("cookie", c.axes[i], combo[i])
<1> DEFINE n == Key("cookie", c.axes[i].cookie)
           inputs == buildJobInputs(c.axes, combo, "cookie")
<1>1. n \in DOMAIN inputs /\ inputs[n] = TransformValue(c.axes[i], combo[i].value)
  BY LastHolds, InputsAre
<1> HIDE DEF inputs
<1>2. n \in DOMAIN CookiesOf(c, combo) /\ CookiesOf(c, combo)[n] = inputs[n]
  BY <1>1, MergedIs DEF CookiesOf, inputs
<1>3. QED
  BY <1>1, <1>2 DEF Text

LEMMA HeaderShows ==
    ASSUME NEW c, IsConfig(c), NEW defaults, NEW combo, NEW i \in DOMAIN c.axes,
           Shows(c.axes, i, "header"), combo[i].value \in Words, Trim(combo[i].value) # Unnamed
    PROVE  LET n == Key("header", c.axes[i].header)
           IN  /\ n \in DOMAIN OnWire(HeadersOf(c, defaults, combo))
               /\ OnWire(HeadersOf(c, defaults, combo))[n] = Text("header", c.axes[i], combo[i])
<1> DEFINE n == Key("header", c.axes[i].header)
           v == TransformValue(c.axes[i], combo[i].value)
           inputs == buildJobInputs(c.axes, combo, "header")
           merged == Merged(defaults, inputs)
           ua == "User-Agent"
           cc == "Cache-Control"
           nc == "no-cache"
           agent == Fallback(merged, ua, c.userAgent)
           headers == Fallback(agent, cc, nc)
<1>1. n \in DOMAIN inputs /\ inputs[n] = v
  BY LastHolds, InputsAre
<1>2. v # Unnamed
  BY TransformedIsGiven
<1>3. n \notin Unsent
  BY DEF Shows
<1>4. HeadersOf(c, defaults, combo) = headers
  BY DEF HeadersOf
<1>5. Text("header", c.axes[i], combo[i]) = FieldText(v)
  BY DEF Text
<1> HIDE DEF inputs, n, v, ua, cc, nc
<1>6. n \in DOMAIN merged /\ merged[n] = v
  BY <1>1 DEF Merged
<1> HIDE DEF merged
<1>7. n \in DOMAIN agent /\ agent[n] = v
  BY <1>2, <1>6, FallbackKeeps
<1> HIDE DEF agent
<1>8. n \in DOMAIN headers /\ headers[n] = v
  BY <1>2, <1>7, FallbackKeeps
<1> HIDE DEF headers
<1>9. n \in DOMAIN OnWire(headers) /\ OnWire(headers)[n] = FieldText(v)
  BY <1>3, <1>8 DEF OnWire
<1>10. QED
  BY <1>4, <1>5, <1>9 DEF n

\* Headers the target cannot tell apart, and no later step either.
Alike(f, g) ==
    /\ DOMAIN f = DOMAIN g
    /\ \A n \in DOMAIN f : /\ f[n] = Unnamed <=> g[n] = Unnamed
                           /\ n \notin Unsent => FieldText(f[n]) = FieldText(g[n])

LEMMA FallbackAlike ==
    ASSUME NEW f, NEW g, Alike(f, g), NEW name, NEW value
    PROVE  Alike(Fallback(f, name, value), Fallback(g, name, value))
<1> DEFINE second == [m \in {name} |-> value]
           given(h) == name \in DOMAIN h /\ h[name] # Unnamed
<1>1. \A h : Fallback(h, name, value) =
               IF value = Unnamed \/ given(h) THEN h ELSE Merged(h, second)
  BY DEF Fallback, Unnamed
<1>2. given(f) <=> given(g)
  BY DEF Alike
<1> HIDE DEF second, given
<1>3. Alike(Merged(f, second), Merged(g, second))
  <2>1. \A h : DOMAIN Merged(h, second) = DOMAIN h \cup DOMAIN second
    BY DEF Merged
  <2>2. \A h : \A n \in DOMAIN h \cup DOMAIN second :
          Merged(h, second)[n] = IF n \in DOMAIN second THEN second[n] ELSE h[n]
    BY DEF Merged
  <2>3. QED
    BY <2>1, <2>2 DEF Alike
<1>4. QED
  BY <1>1, <1>2, <1>3

LEMMA AlikeOnWire ==
    ASSUME NEW f, NEW g, Alike(f, g)
    PROVE  OnWire(f) = OnWire(g)
BY DEF Alike, OnWire

\* Combinations that agree on the axes that show.
Agree(c, combo, other) ==
    \A i \in DOMAIN c.axes, kind \in {"cookie", "header"} :
        Shows(c.axes, i, kind) =>
            Text(kind, c.axes[i], combo[i]) = Text(kind, c.axes[i], other[i])

LEMMA AgreeOnCookies ==
    ASSUME NEW c, IsConfig(c), NEW combo, NEW other, Agree(c, combo, other)
    PROVE  [n \in DOMAIN CookiesOf(c, combo) |-> CookieText(CookiesOf(c, combo)[n])] =
             [n \in DOMAIN CookiesOf(c, other) |-> CookieText(CookiesOf(c, other)[n])]
<1> DEFINE inputs(x) == buildJobInputs(c.axes, x, "cookie")
           first == buildDefaultCookies(c.globalCookies)
<1>1. \A x : DOMAIN inputs(x) = Keys(c.axes, "cookie")
  BY InputsAre
<1>2. \A x : CookiesOf(c, x) = Merged(first, inputs(x))
  BY DEF CookiesOf
<1>3. ASSUME NEW n \in Keys(c.axes, "cookie")
      PROVE  CookieText(inputs(combo)[n]) = CookieText(inputs(other)[n])
  <2> DEFINE h == Holder(c.axes, "cookie", n)
  <2>1. h \in DOMAIN c.axes /\ Shows(c.axes, h, "cookie")
    BY HolderShows
  <2>2. Text("cookie", c.axes[h], combo[h]) = Text("cookie", c.axes[h], other[h])
    BY <2>1 DEF Agree
  <2>3. \A x : inputs(x)[n] = TransformValue(c.axes[h], x[h].value)
    BY InputsAre
  <2> HIDE DEF h, inputs
  <2>4. QED
    BY <2>2, <2>3 DEF Text
<1> HIDE DEF inputs, first
<1>4. \A x : DOMAIN CookiesOf(c, x) = DOMAIN first \cup Keys(c.axes, "cookie")
  BY <1>1, <1>2 DEF Merged
<1>5. ASSUME NEW n \in DOMAIN first \cup Keys(c.axes, "cookie")
      PROVE  CookieText(CookiesOf(c, combo)[n]) = CookieText(CookiesOf(c, other)[n])
  <2>1. \A x : CookiesOf(c, x)[n] =
                 IF n \in Keys(c.axes, "cookie") THEN inputs(x)[n] ELSE first[n]
    BY <1>1, <1>2 DEF Merged
  <2>2. QED
    BY <1>3, <2>1
<1>6. QED
  BY <1>4, <1>5

LEMMA AgreeOnHeaders ==
    ASSUME NEW c, IsConfig(c), NEW defaults, NEW combo, NEW other, Agree(c, combo, other),
           \A i \in DOMAIN c.axes :
             /\ combo[i].value \in Words /\ Trim(combo[i].value) # Unnamed
             /\ other[i].value \in Words /\ Trim(other[i].value) # Unnamed
    PROVE  OnWire(HeadersOf(c, defaults, combo)) = OnWire(HeadersOf(c, defaults, other))
<1> DEFINE inputs(x) == buildJobInputs(c.axes, x, "header")
           merged(x) == Merged(defaults, inputs(x))
<1>1. \A x : DOMAIN inputs(x) = Keys(c.axes, "header")
  BY InputsAre
<1>2. ASSUME NEW n \in Keys(c.axes, "header")
      PROVE  /\ inputs(combo)[n] # Unnamed /\ inputs(other)[n] # Unnamed
             /\ n \notin Unsent => FieldText(inputs(combo)[n]) = FieldText(inputs(other)[n])
  <2> DEFINE h == Holder(c.axes, "header", n)
  <2>1. h \in DOMAIN c.axes
    BY HolderIsLast DEF With
  <2>2. \A x : inputs(x)[n] = TransformValue(c.axes[h], x[h].value)
    BY InputsAre
  <2>3. ASSUME n \notin Unsent
        PROVE  Text("header", c.axes[h], combo[h]) = Text("header", c.axes[h], other[h])
    <3>1. Shows(c.axes, h, "header")
      BY <2>3, HolderShows
    <3>2. QED
      BY <2>1, <3>1 DEF Agree
  <2> HIDE DEF h, inputs
  <2>4. inputs(combo)[n] # Unnamed /\ inputs(other)[n] # Unnamed
    BY <2>1, <2>2, TransformedIsGiven
  <2>5. n \notin Unsent => FieldText(inputs(combo)[n]) = FieldText(inputs(other)[n])
    BY <2>2, <2>3 DEF Text
  <2>6. QED
    BY <2>4, <2>5
<1> HIDE DEF inputs
<1>3. Alike(merged(combo), merged(other))
  <2>1. \A x : DOMAIN merged(x) = DOMAIN defaults \cup Keys(c.axes, "header")
    BY <1>1, MergedIs
  <2>2. ASSUME NEW n \in Keys(c.axes, "header")
        PROVE  merged(combo)[n] = inputs(combo)[n] /\ merged(other)[n] = inputs(other)[n]
    BY <1>1, <2>2 DEF Merged
  <2>3. ASSUME NEW n \in DOMAIN defaults \ Keys(c.axes, "header")
        PROVE  merged(combo)[n] = merged(other)[n]
    BY <1>1, <2>3 DEF Merged
  <2> HIDE DEF merged
  <2>4. QED
    BY <1>2, <2>1, <2>2, <2>3 DEF Alike
<1> HIDE DEF merged
<1> DEFINE ua == "User-Agent"
           cc == "Cache-Control"
           nc == "no-cache"
<1>4. \A x : HeadersOf(c, defaults, x) = Fallback(Fallback(merged(x), ua, c.userAgent), cc, nc)
  BY DEF HeadersOf, merged, inputs
<1> HIDE DEF ua, cc, nc
<1>5. Alike(HeadersOf(c, defaults, combo), HeadersOf(c, defaults, other))
  BY <1>3, <1>4, FallbackAlike
<1>6. QED
  BY <1>5, AlikeOnWire

\* For every accepted configuration, whatever ToUpper, CanonicalHeaderKey,
\* AddCookie and the transport make of names and values: two combinations of a
\* URL are one request exactly if no axis that has its cookie or header to
\* itself tells them apart.
THEOREM RequestsShowTheAxes == Spec => []RequestsShowAxes
<1>1. SettingsInv => RequestsShowAxes
  <2> SUFFICES ASSUME SettingsInv, pc = "accepted",
                      NEW u \in URLs, NEW defaults \in DefaultHeaders(cfg),
                      NEW c \in Combos(cfg, u), NEW d \in Combos(cfg, u)
               PROVE  Wire(buildRequest(cfg, defaults, u, c)) =
                        Wire(buildRequest(cfg, defaults, u, d)) <=> Agree(cfg, c, d)
    BY DEF RequestsShowAxes, Agree
  <2> DEFINE cookies(x) ==
               [n \in DOMAIN CookiesOf(cfg, x) |-> CookieText(CookiesOf(cfg, x)[n])]
             headers(x) == OnWire(HeadersOf(cfg, defaults, x))
  <2>1. IsConfig(cfg) /\ ValuesGiven(cfg)
    BY DEF SettingsInv, Types
  <2>2. \A i \in DOMAIN cfg.axes :
          /\ c[i].value \in Words /\ Trim(c[i].value) # Unnamed
          /\ d[i].value \in Words /\ Trim(d[i].value) # Unnamed
    BY <2>1, CombosHaveValues
  <2>3. \A x : Wire(buildRequest(cfg, defaults, u, x)) =
                 [url |-> u, headers |-> headers(x), cookies |-> cookies(x)]
    BY WireIs
  <2>4. ASSUME cookies(c) = cookies(d), headers(c) = headers(d)
        PROVE  Agree(cfg, c, d)
    <3>1. ASSUME NEW i \in DOMAIN cfg.axes, Shows(cfg.axes, i, "cookie")
          PROVE  Text("cookie", cfg.axes[i], c[i]) = Text("cookie", cfg.axes[i], d[i])
      <4> DEFINE n == Key("cookie", cfg.axes[i].cookie)
      <4>1. ASSUME NEW x
            PROVE  cookies(x)[n] = Text("cookie", cfg.axes[i], x[i])
        BY <2>1, <3>1, CookieShows
      <4> HIDE DEF cookies, n
      <4>2. QED
        BY <2>4, <4>1
    <3>2. ASSUME NEW i \in DOMAIN cfg.axes, Shows(cfg.axes, i, "header")
          PROVE  Text("header", cfg.axes[i], c[i]) = Text("header", cfg.axes[i], d[i])
      <4> DEFINE n == Key("header", cfg.axes[i].header)
      <4>1. headers(c)[n] = Text("header", cfg.axes[i], c[i])
        BY <2>1, <2>2, <3>2, HeaderShows
      <4>2. headers(d)[n] = Text("header", cfg.axes[i], d[i])
        BY <2>1, <2>2, <3>2, HeaderShows
      <4> HIDE DEF headers, n
      <4>3. QED
        BY <2>4, <4>1, <4>2
    <3>3. QED
      BY <3>1, <3>2 DEF Agree
  <2>5. ASSUME Agree(cfg, c, d)
        PROVE  cookies(c) = cookies(d) /\ headers(c) = headers(d)
    <3>1. cookies(c) = cookies(d)
      BY <2>1, <2>5, AgreeOnCookies
    <3>2. headers(c) = headers(d)
      BY <2>1, <2>2, <2>5, AgreeOnHeaders
    <3>3. QED
      BY <3>1, <3>2
  <2> HIDE DEF cookies, headers
  <2>6. QED
    BY <2>3, <2>4, <2>5
<1>2. QED
  BY <1>1, InvAlways, PTL
=============================================================================
