----------------------------- MODULE MCCollect -----------------------------
(* Documents and filters of Collect for TLC. *)
EXTENDS Collect

Index(locs) == [index |-> TRUE, locs |-> locs]
URLSet(locs) == [index |-> FALSE, locs |-> locs]

\* Indexes of themselves, of each other and of a page, one that lists a
\* sitemap twice; sitemaps that share pages, repeat one or list a sitemap.
MCDocuments ==
    {Index(<<"a", "b">>), Index(<<"b", "a", "b">>), Index(<<"b", "root">>),
     Index(<<"a", "a">>), Index(<<"p", "b">>), Index(<<>>),
     URLSet(<<"p", "q">>), URLSet(<<"q", "p", "q">>), URLSet(<<"p", "a">>), URLSet(<<>>)}

\* No filter, an include and an exclude that contradict each other on p.
MCFilters ==
    {[include |-> <<>>, exclude |-> <<>>],
     [include |-> <<{"p"}, {"p", "q"}>>, exclude |-> <<{"p", "b"}>>]}
=============================================================================
