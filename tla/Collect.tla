------------------------------- MODULE Collect -------------------------------
(***************************************************************************)
(* The collection of the URLs: collectURLs of cmd/main.go walks the        *)
(* sitemaps breadth first; for each, fetchAndParse drains a channel that   *)
(* the goroutine of StreamingXMLParser.Parse fills and closes.             *)
(*                                                                         *)
(* A document is its kind and the URLs of its <loc> elements; what a URL   *)
(* serves is chosen when it is first fetched.                              *)
(***************************************************************************)
EXTENDS Patterns, SequencesExt, FiniteSets, Naturals

CONSTANTS
    URLs, Root,   \* Root is sitemap_url
    Documents,    \* what may be served
    Filters,      \* url_filter
    BufferSize    \* of the parser's channel

ASSUME CollectAssumption ==
    /\ Root \in URLs
    /\ Documents \subseteq [index : BOOLEAN, locs : Seq(URLs)]
    /\ BufferSize \in Nat \ {0}

VARIABLES
    ctxDone,
    filter, followIndex,   \* of the configuration
    pc, err,               \* of collectURLs, and the cause when it fails
    queue, visited, next, allURLs,
    isIndex, found,        \* of fetchAndParse: the kind it saw, the URLs so far
    parser, rest, ch,      \* the parser, what it has still to send, its channel
    served,                \* history: what each URL turned out to be
    fetches,               \* history: requests for each URL
    truncated,             \* history: documents whose parsing ended early
    misread                \* history: indexes whose head did not tell

config == <<filter, followIndex>>
walk == <<queue, visited, next, allURLs>>
fetch == <<isIndex, found>>
goroutine == <<parser, rest, ch>>
history == <<served, fetches, truncated, misread>>
vars == <<ctxDone, config, pc, err, walk, fetch, goroutine, history>>

Unknown == [index |-> FALSE, locs |-> <<>>]

Init ==
    /\ ctxDone = FALSE
    /\ filter \in Filters /\ followIndex \in BOOLEAN
    /\ pc = "loop" /\ err = "nil"
    /\ queue = <<Root>> /\ visited = {} /\ next = Root /\ allURLs = <<>>
    /\ isIndex = FALSE /\ found = <<>>
    /\ parser = "off" /\ rest = <<>> /\ ch = <<>>
    /\ served = [u \in URLs |-> Unknown] /\ fetches = [u \in URLs |-> 0]
    /\ truncated = {} /\ misread = {}

\* A signal or -timeout.
Cancel ==
    /\ ~ctxDone
    /\ ctxDone' = TRUE
    /\ UNCHANGED <<config, pc, err, walk, fetch, goroutine, history>>
-----------------------------------------------------------------------------
(* collectURLs.                                                            *)

SkipVisited ==
    /\ pc = "loop" /\ queue # <<>> /\ Head(queue) \in visited
    /\ queue' = Tail(queue)
    /\ UNCHANGED <<ctxDone, config, pc, err, visited, next, allURLs, fetch, goroutine, history>>

\* Plausible bug: only the start is remembered as visited.
VisitForgotten ==
    /\ pc = "loop" /\ queue # <<>> /\ Head(queue) \notin visited
    /\ next' = Head(queue)
    /\ queue' = Tail(queue)
    /\ visited' = visited \cup {Root}
    /\ pc' = "get"
    /\ UNCHANGED <<ctxDone, config, err, allURLs, fetch, goroutine, history>>

Visit ==
    /\ pc = "loop" /\ queue # <<>> /\ Head(queue) \notin visited
    /\ next' = Head(queue)
    /\ queue' = Tail(queue)
    /\ visited' = visited \cup {Head(queue)}
    /\ pc' = "get"
    /\ UNCHANGED <<ctxDone, config, err, allURLs, fetch, goroutine, history>>

\* Every URL where it first occurs.
dedup(s) == Kept(s, {i \in DOMAIN s : \A k \in 1..(i - 1) : s[k] # s[i]})

Return ==
    /\ pc = "loop" /\ queue = <<>>
    /\ allURLs' = dedup(allURLs)
    /\ pc' = "done"
    /\ UNCHANGED <<ctxDone, config, err, queue, visited, next, fetch, goroutine, history>>
-----------------------------------------------------------------------------
(* fetchAndParse.                                                          *)

Get ==
    /\ pc = "get" /\ ~ctxDone
    /\ fetches' = [fetches EXCEPT ![next] = @ + 1]
    /\ pc' = "reply"
    /\ UNCHANGED <<ctxDone, config, err, walk, fetch, goroutine, served, truncated, misread>>

Fail(cause) ==
    /\ pc' = "failed"
    /\ err' = cause
    /\ UNCHANGED <<ctxDone, config, walk, fetch, goroutine, history>>

\* A transport error, http.timeout, or a status other than 200.
GetFails == pc = "reply" /\ Fail("target")

\* The context ends the request, or keeps it from being sent.
GetCancelled == pc \in {"get", "reply"} /\ ctxDone /\ Fail("ctx")

\* Status 200.  One Read of up to 256 bytes is the head; it may be too short
\* to show the root element.  The parser gets the head and the rest.
Receive ==
    /\ pc = "reply"
    /\ \E d \in Documents, showsRoot \in BOOLEAN :
         /\ fetches[next] > 1 => d = served[next]
         /\ served' = [served EXCEPT ![next] = d]
         /\ isIndex' = (d.index /\ showsRoot)
         /\ misread' = IF d.index /\ ~showsRoot THEN misread \cup {next} ELSE misread
         /\ rest' = d.locs
    /\ parser' = "scan"
    /\ pc' = "range"
    /\ UNCHANGED <<ctxDone, config, err, walk, found, ch, fetches, truncated>>

\* One URL of the channel.
Drain ==
    /\ pc = "range" /\ ch # <<>>
    /\ found' = Append(found, Head(ch))
    /\ ch' = Tail(ch)
    /\ UNCHANGED <<ctxDone, config, pc, err, walk, isIndex, parser, rest, history>>

\* The URLs that pass url_filter.
allowed(s) == Kept(s, {i \in DOMAIN s : Allow(filter, s[i])})

\* Plausible bug: the URLs of a nested sitemap replace those collected before.
MergeReplacing ==
    /\ pc = "range" /\ ch = <<>> /\ parser = "closed"
    /\ allURLs' = IF isIndex THEN allURLs ELSE allowed(found)
    /\ queue' = IF isIndex /\ followIndex THEN queue \o found ELSE queue
    /\ found' = <<>>
    /\ parser' = "off"
    /\ pc' = "loop"
    /\ UNCHANGED <<ctxDone, config, err, visited, next, isIndex, rest, ch, history>>

\* The channel is closed: fetchAndParse returns, collectURLs filters and queues.
Merge ==
    /\ pc = "range" /\ ch = <<>> /\ parser = "closed"
    /\ allURLs' = IF isIndex THEN allURLs ELSE allURLs \o allowed(found)
    /\ queue' = IF isIndex /\ followIndex THEN queue \o found ELSE queue
    /\ found' = <<>>
    /\ parser' = "off"
    /\ pc' = "loop"
    /\ UNCHANGED <<ctxDone, config, err, visited, next, isIndex, rest, ch, history>>
-----------------------------------------------------------------------------
(* The parser's goroutine.                                                 *)

\* It comes to the next <loc> ...
Scan ==
    /\ parser = "scan" /\ ~ctxDone /\ rest # <<>>
    /\ parser' = "send"
    /\ UNCHANGED <<ctxDone, config, pc, err, walk, fetch, rest, ch, history>>

\* Plausible bug: the buffer is no limit.
SendUnbounded ==
    /\ parser = "send"
    /\ ch' = Append(ch, Head(rest))
    /\ rest' = Tail(rest)
    /\ parser' = "scan"
    /\ UNCHANGED <<ctxDone, config, pc, err, walk, fetch, history>>

\* ... and sends it, blocking while the channel is full.
Send ==
    /\ parser = "send" /\ Len(ch) < BufferSize
    /\ ch' = Append(ch, Head(rest))
    /\ rest' = Tail(rest)
    /\ parser' = "scan"
    /\ UNCHANGED <<ctxDone, config, pc, err, walk, fetch, history>>

\* Plausible bug: a return on cancellation leaves the channel open.
StopOpen ==
    /\ parser = "scan" \/ (parser = "send" /\ ctxDone)
    /\ parser' = IF ctxDone THEN "off" ELSE "closed"
    /\ truncated' = IF rest # <<>> THEN truncated \cup {next} ELSE truncated
    /\ rest' = <<>>
    /\ UNCHANGED <<ctxDone, config, pc, err, walk, fetch, ch, served, fetches, misread>>

\* It returns and closes the channel: at the end of the document, at
\* malformed XML or a failing read, or because the context is done.
Stop ==
    /\ parser = "scan" \/ (parser = "send" /\ ctxDone)
    /\ parser' = "closed"
    /\ truncated' = IF rest # <<>> THEN truncated \cup {next} ELSE truncated
    /\ rest' = <<>>
    /\ UNCHANGED <<ctxDone, config, pc, err, walk, fetch, ch, served, fetches, misread>>
-----------------------------------------------------------------------------
Collector == SkipVisited \/ Visit \/ Return \/ Get \/ Drain \/ Merge
Target == GetFails \/ GetCancelled \/ Receive
Parser == Scan \/ Send \/ Stop

Over == pc \in {"done", "failed"}
Ended == Over /\ UNCHANGED vars

Next == Cancel \/ Collector \/ Target \/ Parser \/ Ended

Spec == Init /\ [][Next]_vars

\* The goroutines run, and a request and the reads of its body end: Validate
\* insists on a positive http.timeout, which covers both.
FairSpec == Spec /\ WF_vars(Collector) /\ WF_vars(Target) /\ WF_vars(Parser)
-----------------------------------------------------------------------------
(* Properties.                                                             *)

\* The types of the variables.
TypeOK ==
    /\ ctxDone \in BOOLEAN /\ filter \in Filters /\ followIndex \in BOOLEAN
    /\ pc \in {"loop", "get", "reply", "range", "done", "failed"}
    /\ err \in {"nil", "target", "ctx"}
    /\ queue \in Seq(URLs) /\ visited \subseteq URLs /\ next \in URLs
    /\ allURLs \in Seq(URLs) /\ isIndex \in BOOLEAN /\ found \in Seq(URLs)
    /\ parser \in {"off", "scan", "send", "closed"}
    /\ rest \in Seq(URLs) /\ ch \in Seq(URLs) /\ Len(ch) <= BufferSize
    /\ served \in [URLs -> Documents \cup {Unknown}] /\ fetches \in [URLs -> Nat]
    /\ truncated \subseteq URLs /\ misread \subseteq URLs

\* Whatever indexes list, themselves, each other or a sitemap twice, no
\* sitemap is requested a second time.
FetchedOnce == \A u \in URLs : fetches[u] <= 1

\* What a sitemap leads to, and the smallest set with the start and all of that.
Children(u) == IF followIndex /\ served[u].index THEN ToSet(served[u].locs) ELSE {}

Closed(S) == Root \in S /\ \A u \in S : Children(u) \subseteq S

Reached == {u \in URLs : \A S \in SUBSET URLs : Closed(S) => u \in S}

\* The walk visits the sitemaps that indexes lead to and no other; it misses
\* some only when a document ended early (cancellation, malformed XML) or the
\* head of an index did not show its root element.
WalkCoversReached ==
    pc = "done" =>
        /\ visited \subseteq Reached
        /\ truncated = {} /\ misread = {} => visited = Reached

Listed == UNION {ToSet(served[u].locs) : u \in {v \in Reached : ~served[v].index}}

Permitted ==
    (IF filter.include = <<>> THEN URLs ELSE UNION ToSet(filter.include))
        \ UNION ToSet(filter.exclude)

\* However the walk and the parser interleave, the result has every permitted
\* URL of those sitemaps, once, under the same exceptions.
CollectsReachable ==
    /\ WalkCoversReached
    /\ pc = "done" /\ misread = {} =>
         /\ IsInjective(allURLs)
         /\ ToSet(allURLs) \subseteq Listed \cap Permitted
         /\ truncated = {} => ToSet(allURLs) = Listed \cap Permitted

\* The collection ends, on cyclic indexes and after a cancellation while the
\* parser is blocked on a full channel, too.
CollectionEnds == <>Over

\* "Treat context.Canceled and context.DeadlineExceeded as graceful
\* termination (exit 0)" (docs/ARCHITECTURE.md): run fails with exit 1 for errors
\* that are not the context's only.
CancelIsGraceful == err # "ctx"
=============================================================================
