-------------------------------- MODULE Plan --------------------------------
(***************************************************************************)
(* cmd/plan.go and the submission it feeds: the collected URLs are put in  *)
(* priority order, sampled, matched with the values of every axis, checked *)
(* against the limits and expanded into jobs.  URLs are numbered in the    *)
(* order of the sitemap; what filters and patterns say of a URL is part of *)
(* the input.  Counts are ints of a width: MaxInt is the largest.          *)
(***************************************************************************)
EXTENDS Lists, Integers, SequencesExt

CONSTANTS
    MaxURLs,     \* bound: longest list of URLs
    Shapes,      \* what a URL may get: per axis, the values that apply, each
                 \* under a name of its own
    Samplings,   \* sampling configurations
    PercentUnit, \* percentages are counted in this part of one per cent
    Guards,      \* limits, with and without -force
    MaxInt

Whole == 100 * PercentUnit

SamplingType == [percent : 0..Whole, firstN : Nat, random : BOOLEAN]

ASSUME PlanAssumption ==
    /\ MaxURLs \in Nat /\ MaxInt \in Nat \ {0} /\ PercentUnit \in Nat \ {0}
    /\ Shapes \subseteq Seq(Seq(STRING))
    /\ \A a \in Shapes : \A i \in DOMAIN a : IsInjective(a[i])
    /\ Samplings \subseteq SamplingType
    /\ Guards \subseteq [maxJobs : 0..MaxInt, maxCombos : 0..MaxInt, force : BOOLEAN]

VARIABLES
    urls,      \* the collected URLs
    priority,  \* those IsPriority holds of
    shape,     \* the applicable values of each
    sampling,  \* cfg.Sampling
    guard,     \* cfg.Limits and -force
    pc,
    list,      \* the URLs as reordered and sampled so far
    pos,       \* how many of the list the current loop has seen
    plan,      \* runPlan
    jobs       \* what has been submitted

inputVars == <<urls, priority, shape, sampling, guard>>
vars == <<inputVars, pc, list, pos, plan, jobs>>

Init ==
    \E n \in 0..MaxURLs :
        /\ urls = [i \in 1..n |-> i]
        /\ priority \in SUBSET (1..n)
        /\ shape \in [1..n -> Shapes]
        /\ sampling \in Samplings
        /\ guard \in Guards
        /\ pc = "prioritise"
        /\ list = urls
        /\ pos = 0
        /\ plan = [urls |-> <<>>, combos |-> <<>>, totalJobs |-> 0, sampledOut |-> 0,
                   skippedNoApplicable |-> 0, skippedComboCap |-> 0]
        /\ jobs = <<>>
-----------------------------------------------------------------------------
(* The algorithms.                                                         *)

WithPriority(s) == {i \in DOMAIN s : s[i] \in priority}

\* Plausible bug: the rest of the list is the whole list.
PriorityTwice(s) == Kept(s, WithPriority(s)) \o s

\* applyPriority: no URL has priority unless include_first and a filter are set.
PriorityOrder(s) ==
    Kept(s, WithPriority(s)) \o Kept(s, DOMAIN s \ WithPriority(s))

\* The share of the list, cut to an int, at least one; the float product is
\* taken to be exact.
Keep(s) == LET k == (Len(s) * sampling.percent) \div Whole IN IF k <= 0 THEN 1 ELSE k

\* Plausible bug: the stride is an int.
StrideWhole(s, keep) == [i \in 1..keep |-> s[(i - 1) * (Len(s) \div keep) + 1]]

\* Every (Len / keep)-th URL; the float stride is exact below 30 URLs.
Stride(s, keep) == [i \in 1..keep |-> s[((i - 1) * Len(s)) \div keep + 1]]

\* The random picks, without repetition and back in the order of the list.
Picks(s, keep) == {Kept(s, picked) : picked \in kSubset(keep, DOMAIN s)}

\* applySampling and samplePercent: what may be kept of a list.
Samples(s) ==
    IF sampling.percent > 0 /\ sampling.percent < Whole
    THEN IF Keep(s) >= Len(s) THEN {s}
         ELSE IF sampling.random THEN Picks(s, Keep(s)) ELSE {Stride(s, Keep(s))}
    ELSE IF sampling.firstN > 0 /\ sampling.firstN < Len(s)
         THEN {SubSeq(s, 1, sampling.firstN)} ELSE {s}

\* Plausible bug: a URL is dropped only if no axis has a value for it.
HasJobsAny(u) == \E i \in DOMAIN shape[u] : shape[u][i] # <<>>

\* buildApplicable: every axis has a value for this URL.
HasJobs(u) == \A i \in DOMAIN shape[u] : shape[u][i] # <<>>

\* comboCount: the product of the lengths, capped at MaxInt.
ComboCount(applicable) ==
    LET count[i \in 0..Len(applicable)] ==
          IF i = 0 THEN 1
          ELSE LET n == Len(applicable[i])
               IN  IF n = 0 THEN 0
                   ELSE IF count[i - 1] > MaxInt \div n THEN MaxInt ELSE count[i - 1] * n
    IN  count[Len(applicable)]

\* forEachCombo: the combinations in the order of its recursion, the last
\* axis fastest.
Expand(applicable) ==
    LET upTo[i \in 0..Len(applicable)] ==
          IF i = 0 THEN <<<<>>>>
          ELSE LET n == Len(applicable[i])
               IN  [k \in 1..(Len(upTo[i - 1]) * n) |->
                      Append(upTo[i - 1][(k - 1) \div n + 1], applicable[i][((k - 1) % n) + 1])]
    IN  upTo[Len(applicable)]

\* Plausible bug: jobs keep the slice forEachCombo reuses, not its values.
JobsAliased(u) ==
    LET combos == Expand(shape[u]) IN [k \in 1..Len(combos) |-> <<u, Last(combos)>>]

\* The jobs of a URL, one for each combination.
JobsOf(u) ==
    LET combos == Expand(shape[u]) IN [k \in 1..Len(combos) |-> <<u, combos[k]>>]

\* Signed addition of the given width.
Wrap(x) == IF x > MaxInt THEN x - 2 * (MaxInt + 1) ELSE x
-----------------------------------------------------------------------------
(* planRun.                                                                *)

Prioritise ==
    /\ pc = "prioritise"
    /\ list' = PriorityOrder(list)
    /\ pc' = "sample"
    /\ UNCHANGED <<inputVars, pos, plan, jobs>>

Sample ==
    /\ pc = "sample"
    /\ \E s \in Samples(list) :
         /\ list' = s
         /\ plan' = [plan EXCEPT !.sampledOut = Len(list) - Len(s)]
    /\ pc' = "examine"
    /\ UNCHANGED <<inputVars, pos, jobs>>

OverComboCap(count) == guard.maxCombos > 0 /\ count > guard.maxCombos /\ ~guard.force

\* Plausible bug: a URL without applicable values is dropped uncounted.
SkipUncounted(u) == ~HasJobs(u) /\ plan' = plan

\* No value of some axis applies to the URL ...
SkipNoApplicable(u) ==
    ~HasJobs(u) /\ plan' = [plan EXCEPT !.skippedNoApplicable = @ + 1]

\* ... or it has more combinations than allowed ...
SkipComboCap(u) ==
    /\ HasJobs(u) /\ OverComboCap(ComboCount(shape[u]))
    /\ plan' = [plan EXCEPT !.skippedComboCap = @ + 1]

\* ... or it joins the plan.
AddURL(u) ==
    /\ HasJobs(u) /\ ~OverComboCap(ComboCount(shape[u]))
    /\ plan' = [plan EXCEPT !.urls = Append(@, u),
                            !.combos = Append(@, ComboCount(shape[u])),
                            !.totalJobs = Wrap(@ + ComboCount(shape[u]))]

Examine ==
    /\ pc = "examine" /\ pos < Len(list)
    /\ LET u == list[pos + 1] IN SkipNoApplicable(u) \/ SkipComboCap(u) \/ AddURL(u)
    /\ pos' = pos + 1
    /\ UNCHANGED <<inputVars, pc, list, jobs>>

\* Plausible bug: the limit is held against the URLs.
OverMaxURLs == guard.maxJobs > 0 /\ Len(plan.urls) > guard.maxJobs /\ ~guard.force

OverMaxJobs == guard.maxJobs > 0 /\ plan.totalJobs > guard.maxJobs /\ ~guard.force

\* The run-wide limit, and run's test for an empty plan.
Decide ==
    /\ pc = "examine" /\ pos = Len(list)
    /\ pc' = IF OverMaxJobs THEN "refused"
             ELSE IF plan.urls = <<>> THEN "nothing" ELSE "submit"
    /\ pos' = 0
    /\ UNCHANGED <<inputVars, list, plan, jobs>>

\* submitPlanJobs, one URL of the plan; Pool has its single steps.
Submit ==
    /\ pc = "submit"
    /\ jobs' = jobs \o JobsOf(plan.urls[pos + 1])
    /\ pos' = pos + 1
    /\ pc' = IF pos + 1 = Len(plan.urls) THEN "submitted" ELSE "submit"
    /\ UNCHANGED <<inputVars, list, plan>>

Over == pc \in {"refused", "nothing", "submitted"}
Ended == Over /\ UNCHANGED vars

Next == Prioritise \/ Sample \/ Examine \/ Decide \/ Submit \/ Ended

Spec == Init /\ [][Next]_vars
-----------------------------------------------------------------------------
(* Properties.                                                             *)

\* The types of the variables.
TypeOK ==
    /\ urls \in Seq(Nat) /\ priority \subseteq ToSet(urls)
    /\ shape \in [ToSet(urls) -> Shapes]
    /\ sampling \in Samplings /\ guard \in Guards
    /\ pc \in {"prioritise", "sample", "examine", "submit", "refused", "nothing", "submitted"}
    /\ list \in Seq(ToSet(urls)) /\ pos \in 0..Len(list)
    /\ plan.urls \in Seq(ToSet(urls)) /\ plan.combos \in Seq(1..MaxInt)
    /\ plan.totalJobs \in -(MaxInt + 1)..MaxInt
    /\ plan.sampledOut \in Nat /\ plan.skippedNoApplicable \in Nat
    /\ plan.skippedComboCap \in Nat
    /\ \A k \in DOMAIN jobs :
         jobs[k][1] \in ToSet(plan.urls) /\ jobs[k][2] \in Seq(STRING)

\* Every collected URL is in the plan or in exactly one of the counters the
\* dry run and the summary report, whatever mix of options dropped it.
Accounted ==
    Over \/ pc = "submit" =>
        Len(urls) = Len(plan.urls) + plan.sampledOut
                      + plan.skippedNoApplicable + plan.skippedComboCap

\* The plan has no URL twice, those with priority come first, and each group
\* keeps the order of the sitemap, under every kind of sampling.
PriorityFirst ==
    \A i, k \in 1..Len(plan.urls) : i < k =>
        \/ plan.urls[i] \in priority /\ plan.urls[k] \notin priority
        \/ /\ (plan.urls[i] \in priority) <=> (plan.urls[k] \in priority)
           /\ plan.urls[i] < plan.urls[k]

\* A stride takes its share evenly out of the list: the gaps between picks,
\* the one around the end included, differ by at most one.
EvenStride ==
    pc = "sample" =>
        LET keep == Keep(list)
            picks == Stride(list, keep)
            at(i) == CHOOSE j \in DOMAIN list : list[j] = picks[i]
            gap(i) == IF i = keep THEN at(1) + Len(list) - at(i) ELSE at(i + 1) - at(i)
        IN  keep < Len(list) => \A i, k \in 1..keep : gap(i) - gap(k) <= 1

Combos(u) == {c \in [DOMAIN shape[u] -> UNION {ToSet(shape[u][i]) : i \in DOMAIN shape[u]}] :
                \A i \in DOMAIN c : c[i] \in ToSet(shape[u][i])}

\* Every combination of every planned URL.
Planned == UNION {{<<u, c>> : c \in Combos(u)} : u \in ToSet(plan.urls)}

RealTotal == Cardinality(Planned)

\* What is submitted is every combination of every planned URL, once, and as
\* many as the plan, the dry run and the limits counted, if an int holds them.
JobsMatchPlan ==
    pc = "submitted" =>
        /\ RealTotal <= MaxInt => Len(jobs) = plan.totalJobs
        /\ IsInjective(jobs)
        /\ ToSet(jobs) = Planned

\* Without -force, "when exceeded, gowarm aborts" (LimitsConfig): no job of a
\* URL beyond the cap, nor, as long as an int holds their number, of a plan
\* beyond max_jobs, is ever submitted.  A cap of MaxInt refuses nothing, since
\* comboCount stops there too.
LimitsHold ==
    pc \in {"submit", "submitted"} /\ ~guard.force =>
        /\ guard.maxJobs > 0 /\ RealTotal <= MaxInt => RealTotal <= guard.maxJobs
        /\ guard.maxCombos \in 1..(MaxInt - 1) =>
             \A u \in ToSet(plan.urls) : Cardinality(Combos(u)) <= guard.maxCombos

\* Prioritising comes first "so priority URLs are guaranteed to be in the run
\* regardless of how many URLs are kept" (planRun).
PriorityKept ==
    pc = "examine" /\ Cardinality(priority) <= Len(list) => priority \subseteq ToSet(list)
=============================================================================
