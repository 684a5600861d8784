------------------------------ MODULE Settings ------------------------------
(***************************************************************************)
(* How a run gets its configuration: Load of internal/config/config.go     *)
(* merges the file over the defaults and validates, the flags of           *)
(* cmd/main.go override it, and it is validated again.                     *)
(*                                                                         *)
(* Rates, the retry factor and the percentage of the sample are counted in *)
(* halves, the slowdown's factor in percent, times in milliseconds.  An    *)
(* expression that does not compile is BadPattern.                         *)
(***************************************************************************)
EXTENDS Request, Integers

CONSTANTS
    URLs,
    Words,     \* the values of axes
    Files,     \* what -config may name: its kind and the fields it sets
    FlagSets   \* the overrides of a command line

VARIABLES
    file, flags,
    pc,
    cfg,
    pos,      \* the -axis overrides applied so far
    loaded    \* history: the configuration Load returned

vars == <<file, flags, pc, cfg, pos, loaded>>

BadPattern == {"does not compile"}

\* Of url_filter, priority_urls and cache_detection only their validity is kept.
Default ==
    [sitemap |-> "", workers |-> 50, method |-> "GET", timeout |-> 20000,
     axes |-> <<>>, matchersOK |-> TRUE,
     userAgent |-> "gowarm/1.0", globalHeaders |-> <<>>, globalCookies |-> <<>>,
     maxAttempts |-> 3, factor |-> 4, rps |-> 0, burst |-> 0, maxConns |-> 0,
     slowdown |-> FALSE, slowFactor |-> 0, slowTime |-> 0,
     maxJobs |-> 0, maxCombos |-> 0, percent |-> 0, firstN |-> 0]

URLPatterns == SUBSET (URLs \cup BadPattern)

AxisValues ==
    [value : Words, contains : Seq(URLPatterns), matches : Seq(URLPatterns),
     matchesRE : Seq(URLPatterns)]

Axes ==
    [name : STRING, cookie : STRING, header : STRING, transform : STRING,
     values : Seq(AxisValues)]

IsConfig(c) ==
    /\ DOMAIN c = DOMAIN Default
    /\ \A k \in {"workers", "timeout", "maxAttempts", "factor", "rps", "burst", "maxConns",
                 "slowFactor", "slowTime", "maxJobs", "maxCombos", "percent", "firstN"} :
         c[k] \in Int
    /\ c.axes \in Seq(Axes) /\ c.slowdown \in BOOLEAN

ASSUME SettingsAssumption ==
    /\ Words \subseteq STRING
    /\ \A w \in Words : Trim(w) # "" => w # "" /\ Upper(w) # "" /\ Lower(w) # ""
    /\ \A m \in {"GET", "HEAD"} : Upper(Trim(m)) = m
    /\ \A f \in Files : IsConfig(Merged(Default, f.fields))
    /\ \A f \in FlagSets :
         f.workers \in Int /\ f.axes \in Seq([name : STRING, values : Seq(Words)])

Init ==
    /\ file \in Files /\ flags \in FlagSets
    /\ pc = "load" /\ cfg = Default /\ pos = 0 /\ loaded = Default
-----------------------------------------------------------------------------
(* Validate.                                                               *)

ValidValue(v) == Trim(v.value) # "" /\ BadPattern \notin Range(v.matches)

ValidAxis(a) ==
    /\ Trim(a.name) # "" /\ (a.cookie # "" \/ a.header # "")
    /\ Lower(Trim(a.transform)) \in {"", "none", "upper", "lower"}
    /\ a.values # <<>> /\ \A j \in DOMAIN a.values : ValidValue(a.values[j])

\* What Validate insists on ...
Valid(c) ==
    /\ Trim(c.sitemap) # "" /\ c.workers > 0 /\ c.timeout > 0
    /\ Upper(Trim(c.method)) \in {"GET", "HEAD"}
    /\ c.axes # <<>> /\ \A i \in DOMAIN c.axes : ValidAxis(c.axes[i])
    /\ c.matchersOK
    /\ \A k \in {"rps", "burst", "maxConns", "maxJobs", "maxCombos", "percent", "firstN"} : c[k] >= 0
    /\ c.percent <= 200

Compiled(a) ==
    [a EXCEPT !.values = [j \in DOMAIN @ |-> [@[j] EXCEPT !.matchesRE = a.values[j].matches]]]

\* Plausible bug: the burst of half a request per second is zero.
BurstRounded(c) == IF c.rps > 0 /\ c.burst = 0 THEN c.rps \div 2 ELSE c.burst

Burst(c) == IF c.rps > 0 /\ c.burst = 0 THEN Max({1, c.rps \div 2}) ELSE c.burst

\* Plausible bug: the method is checked in upper case and kept as written.
NormalisedButMethod(c) ==
    [c EXCEPT !.axes = [i \in DOMAIN @ |-> Compiled(@[i])], !.burst = Burst(c)]

\* ... and what it changes.
Corrections(c) ==
    [method |-> Upper(Trim(c.method)),
     axes |-> [i \in DOMAIN c.axes |-> Compiled(c.axes[i])],
     maxAttempts |-> Max({1, c.maxAttempts}),
     factor |-> IF c.factor <= 0 THEN 4 ELSE c.factor,
     burst |-> Burst(c),
     slowFactor |-> IF c.slowdown /\ c.slowFactor \notin 1..99 THEN 50 ELSE c.slowFactor,
     slowTime |-> IF c.slowdown /\ c.slowTime <= 0 THEN 30000 ELSE c.slowTime]

Normalised(c) ==
    [k \in DOMAIN c |-> IF k \in DOMAIN Corrections(c) THEN Corrections(c)[k] ELSE c[k]]
-----------------------------------------------------------------------------
Refuse == pc' = "refused" /\ UNCHANGED <<file, flags, cfg, pos, loaded>>

\* A missing file leaves the defaults; one that cannot be read or parsed ends
\* the run, and so does an invalid one, before any flag is looked at.
FromFile == IF file.kind = "missing" THEN Default ELSE Merged(Default, file.fields)

LoadFails == pc = "load" /\ (file.kind = "broken" \/ ~Valid(FromFile)) /\ Refuse

Load ==
    /\ pc = "load" /\ file.kind # "broken" /\ Valid(FromFile)
    /\ cfg' = Normalised(FromFile)
    /\ loaded' = cfg'
    /\ pc' = "flags"
    /\ UNCHANGED <<file, flags, pos>>

\* -sitemap, -workers and -method.
ApplyFlags ==
    /\ pc = "flags"
    /\ cfg' = [cfg EXCEPT !.sitemap = IF flags.sitemap # "" THEN flags.sitemap ELSE @,
                          !.workers = IF flags.workers > 0 THEN flags.workers ELSE @,
                          !.method = IF flags.method # "" THEN flags.method ELSE @]
    /\ pc' = "axes"
    /\ UNCHANGED <<file, flags, pos, loaded>>

\* The first axis of the name.
AxisNamed(name) == {i \in DOMAIN cfg.axes : cfg.axes[i].name = name}

\* A value without filters.
Bare(name) == [value |-> name, contains |-> <<>>, matches |-> <<>>, matchesRE |-> <<>>]

\* Plausible bug: the new values lose the filters of the old ones.
OverriddenBare(values, names) == [k \in DOMAIN names |-> Bare(names[k])]

\* A value keeps the filters of the last existing value of its name.
Overridden(values, names) ==
    [k \in DOMAIN names |->
        LET same == {j \in DOMAIN values : values[j].value = names[k]}
        IN  IF same # {} THEN values[Max(same)] ELSE Bare(names[k])]

\* applyAxisOverrides, one override: name "" is one without name or values,
\* values may be empty after splitting.
OverrideFails ==
    /\ pc = "axes" /\ pos < Len(flags.axes)
    /\ LET name == flags.axes[pos + 1].name IN name = "" \/ AxisNamed(name) = {}
    /\ Refuse

OverrideAxis ==
    /\ pc = "axes" /\ pos < Len(flags.axes)
    /\ LET o == flags.axes[pos + 1] IN
         /\ o.name # "" /\ AxisNamed(o.name) # {}
         /\ cfg' = [cfg EXCEPT !.axes[Min(AxisNamed(o.name))].values = Overridden(@, o.values)]
    /\ pos' = pos + 1
    /\ UNCHANGED <<file, flags, pc, loaded>>

RecheckFails == pc = "axes" /\ pos = Len(flags.axes) /\ ~Valid(cfg) /\ Refuse

Recheck ==
    /\ pc = "axes" /\ pos = Len(flags.axes) /\ Valid(cfg)
    /\ cfg' = Normalised(cfg)
    /\ pc' = "accepted"
    /\ UNCHANGED <<file, flags, pos, loaded>>

Over == pc \in {"refused", "accepted"}
Ended == Over /\ UNCHANGED vars

Next ==
    \/ LoadFails \/ Load \/ ApplyFlags \/ OverrideFails \/ OverrideAxis
    \/ RecheckFails \/ Recheck \/ Ended

Spec == Init /\ [][Next]_vars
-----------------------------------------------------------------------------
(* Properties.                                                             *)

\* The types of the fields that have few values.
TypeOK ==
    /\ pc \in {"load", "flags", "axes", "accepted", "refused"}
    /\ pos \in 0..Len(flags.axes)
    /\ DOMAIN cfg = DOMAIN Default /\ DOMAIN loaded = DOMAIN Default
    /\ pc = "accepted" => cfg.method \in {"GET", "HEAD"}
    /\ \A i \in DOMAIN cfg.axes :
         cfg.axes[i].transform \in STRING /\ \A j \in DOMAIN cfg.axes[i].values :
             cfg.axes[i].values[j].value \in STRING

\* What the rest of the program takes for granted: a pool has workers, a
\* rate limit has tokens to give, a slowdown slows and ends, Execute finds
\* nothing to correct in the policy all workers share, and the compiled
\* expressions of an axis value are those of its patterns.
Sound(c) ==
    /\ c.workers > 0 /\ c.timeout > 0
    /\ c.rps > 0 => c.burst >= 1
    /\ c.slowdown => c.slowFactor \in 1..99 /\ c.slowTime > 0
    /\ c.maxAttempts >= 1 /\ c.factor > 0
    /\ \A i \in DOMAIN c.axes :
         /\ c.axes[i].values # <<>>
         /\ \A j \in DOMAIN c.axes[i].values :
              LET v == c.axes[i].values[j]
              IN  v.matchesRE = v.matches /\ BadPattern \notin Range(v.matches)

\* An accepted configuration is sound, wherever its values come from: the
\* file, the defaults, the corrections of either validation, or a flag.
AcceptedIsSound == pc = "accepted" => Sound(cfg)

FlagOr(flag, given, was) == IF given THEN flag ELSE was

\* The first n overrides that are for the axis: the first of its name has them.
OverridesOf(i, n) ==
    {k \in 1..n : /\ flags.axes[k].name = loaded.axes[i].name
                  /\ \A j \in 1..(i - 1) : loaded.axes[j].name # loaded.axes[i].name}

\* The values after these: those the last one names.  A value of the file comes
\* with its filters as long as every one of them names it.
ValuesLeft(i, n) ==
    LET over == OverridesOf(i, n)
        were == loaded.axes[i].values
        names == flags.axes[Max(over)].values
        from(name) == {j \in DOMAIN were : were[j].value = name}
        stayed(name) == \A k \in over : name \in Range(flags.axes[k].values)
    IN  IF over = {} THEN were
        ELSE [k \in DOMAIN names |->
                IF from(names[k]) # {} /\ stayed(names[k])
                THEN were[Max(from(names[k]))] ELSE Bare(names[k])]

\* The flags change what they name and nothing else, although everything is
\* validated and normalised a second time: of the axes, the values of those an
\* -axis names, never their order, cookie, header or transform ("replaces the
\* matching axis's Values list ... keep the region's transform/filters",
\* applyAxisOverrides).
FlagsChangeOnlyTheirs ==
    pc = "accepted" =>
        /\ \A k \in DOMAIN cfg \ {"sitemap", "workers", "method", "axes"} : cfg[k] = loaded[k]
        /\ cfg.sitemap = FlagOr(flags.sitemap, flags.sitemap # "", loaded.sitemap)
        /\ cfg.workers = FlagOr(flags.workers, flags.workers > 0, loaded.workers)
        /\ cfg.method = FlagOr(Upper(Trim(flags.method)), flags.method # "", loaded.method)
        /\ cfg.axes = [i \in DOMAIN loaded.axes |->
                         [loaded.axes[i] EXCEPT !.values = ValuesLeft(i, Len(flags.axes))]]

\* The axis decides a cookie or a header of the request: no later axis has its
\* key, and the transport sends it.
Shows(axes, i, kind) ==
    LET key == Key(kind, axes[i][kind])
    IN  /\ axes[i][kind] # ""
        /\ \A k \in With(axes, kind) : k > i => Key(kind, axes[k][kind]) # key
        /\ kind = "header" => key \notin Unsent

\* What the target reads of the value of an axis.
Text(kind, a, v) ==
    LET sent == TransformValue(a, v.value)
    IN  IF kind = "cookie" THEN CookieText(sent) ELSE FieldText(sent)

\* Two combinations planned for a URL are one request to the target exactly if
\* they agree, as far as it can read them, on every axis that decides a cookie
\* or a header: nothing the request is merged from (the other axes, the global
\* cookies and headers, the defaults of buildRequest) hides an axis or adds a
\* difference.
RequestsShowAxes ==
    pc = "accepted" =>
        \A u \in URLs, defaults \in DefaultHeaders(cfg) : \A c, d \in Combos(cfg, u) :
            Wire(buildRequest(cfg, defaults, u, c)) = Wire(buildRequest(cfg, defaults, u, d)) <=>
            \A i \in DOMAIN cfg.axes, kind \in {"cookie", "header"} :
                Shows(cfg.axes, i, kind) =>
                    Text(kind, cfg.axes[i], c[i]) = Text(kind, cfg.axes[i], d[i])

CacheHeaders == {DefaultCacheRules[i].header : i \in DOMAIN DefaultCacheRules}

CacheValues == {{}, {"HIT"}, {"MISS"}, {"HIT", "MISS"}, {"STALE"}}

\* The responses with up to two of the headers.
Responses ==
    {[h \in CacheHeaders |-> IF h = a THEN v ELSE IF h = b THEN w ELSE {}] :
        a, b \in CacheHeaders, v, w \in CacheValues}

Only(headers, get) == [h \in CacheHeaders |-> IF h \in headers THEN get[h] ELSE {}]

\* Of a response of several layers "more specific (CF-Cache-Status)" decides
\* "before more generic (X-Cache, Age)" (DefaultCacheRules): what Cloudflare
\* says cannot be outvoted, a rule that matches is final whatever rules follow it,
\* and Age counts when no other header is recognised.
LayersInOrder ==
    pc = "accepted" =>
        \A get \in Responses :
            LET verdict == Classify(<<>>, get)
                edge == Classify(<<>>, Only({"CF-Cache-Status"}, get))
            IN  /\ edge.header # "" => verdict = edge
                /\ \A n \in DOMAIN DefaultCacheRules :
                     LET first == Classify(SubSeq(DefaultCacheRules, 1, n), get)
                     IN  first.header # "" => verdict = first
                /\ verdict.header = "Age" =>
                     Classify(<<>>, Only(CacheHeaders \ {"Age"}, get)).state = "unknown"
=============================================================================
