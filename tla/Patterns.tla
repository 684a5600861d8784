------------------------------ MODULE Patterns ------------------------------
(***************************************************************************)
(* What substrings and regular expressions of the configuration say of a   *)
(* URL (internal/config/config.go).  A pattern is the set of URLs it       *)
(* matches.                                                                *)
(***************************************************************************)
EXTENDS Lists

Matches(patterns, u) == \E i \in DOMAIN patterns : u \in patterns[i]

\* URLFilter.Allow.
Allow(f, u) ==
    ~Matches(f.exclude, u) /\ (f.include = <<>> \/ Matches(f.include, u))

\* AxisValue.Applies, by its substrings and its compiled expressions.
Applies(v, u) ==
    \/ v.contains = <<>> /\ v.matchesRE = <<>>
    \/ Matches(v.contains, u)
    \/ Matches(v.matchesRE, u)

\* Axis.ApplicableValues.
ApplicableValues(a, u) == Kept(a.values, {k \in DOMAIN a.values : Applies(a.values[k], u)})
=============================================================================
