------------------------------- MODULE MCPlan -------------------------------
(* Inputs of Plan for TLC: two axes of at most two values. *)
EXTENDS Plan

\* All four combinations, a single one, and an axis without a value.
MCShapes == {<<<<"qc", "on">>, <<"en", "fr">>>>, <<<<"qc">>, <<"en">>>>, <<<<"qc">>, <<>>>>}

\* In halves of a per cent: none, 62.5%, by stride and at random, a share
\* below one URL, and 100%, which leaves first_n to decide.
MCSamplings ==
    {[percent |-> 0, firstN |-> 0, random |-> FALSE],
     [percent |-> 125, firstN |-> 0, random |-> FALSE],
     [percent |-> 125, firstN |-> 0, random |-> TRUE],
     [percent |-> 21, firstN |-> 3, random |-> FALSE],
     [percent |-> 200, firstN |-> 2, random |-> FALSE]}

MCGuards ==
    {[maxJobs |-> 0, maxCombos |-> 2, force |-> FALSE],
     [maxJobs |-> 6, maxCombos |-> 0, force |-> FALSE],
     [maxJobs |-> 6, maxCombos |-> 2, force |-> TRUE]}

MCOneGuard == {[maxJobs |-> 6, maxCombos |-> 0, force |-> FALSE]}
=============================================================================
