---------------------------- MODULE CollectProofs ----------------------------
(***************************************************************************)
(* The walk of Collect, for every web of documents, cyclic or not, every   *)
(* buffer and every interleaving with the parser and a cancellation: no    *)
(* sitemap is requested twice, no parser outlives its document, and the    *)
(* sitemaps visited are those the indexes lead to, and the URLs collected  *)
(* are those of these sitemaps that the filter permits.                    *)
(***************************************************************************)
EXTENDS Collect, ListFacts

\* The types the walk depends on.
WalkTypes ==
    /\ visited \subseteq URLs /\ next \in URLs /\ queue \in Seq(URLs)
    /\ found \in Seq(URLs) /\ rest \in Seq(URLs) /\ ch \in Seq(URLs)
    /\ served \in [URLs -> [index : BOOLEAN, locs : Seq(URLs)]]
    /\ fetches \in [URLs -> Nat]

\* A request is the first for its sitemap, which is new and then visited.
Requests ==
    /\ \A u \in URLs : fetches[u] <= 1 /\ (u \notin visited => fetches[u] = 0)
    /\ pc \in {"get", "reply", "range"} => next \in visited
    /\ pc = "get" => fetches[next] = 0
    /\ \A u \in URLs : fetches[u] = 0 => served[u] = Unknown
    /\ pc = "reply" => served[next] = Unknown /\ next \notin misread \cup truncated
    /\ pc \in {"reply", "range"} => fetches[next] = 1
    /\ \A u \in URLs : fetches[u] = 0 => u \notin misread \cup truncated
    /\ pc = "done" => queue = <<>>

\* A parser runs only while its channel is drained, and what it has sent or
\* has still to send are the URLs of its document.
Parsing ==
    /\ pc # "range" => parser = "off" /\ rest = <<>> /\ ch = <<>> /\ found = <<>>
    /\ pc = "range" =>
         /\ parser # "off"
         /\ parser = "send" => rest # <<>>
         /\ parser = "closed" => rest = <<>>
         /\ isIndex <=> served[next].index /\ next \notin misread
         /\ ToSet(found) \cup ToSet(ch) \cup ToSet(rest) \subseteq ToSet(served[next].locs)
         /\ next \notin truncated =>
              ToSet(served[next].locs) \subseteq ToSet(found) \cup ToSet(ch) \cup ToSet(rest)

\* Whatever is visited or queued, the indexes lead to ...
Sound ==
    \A S \in SUBSET URLs : Closed(S) => visited \subseteq S /\ ToSet(queue) \subseteq S

\* ... and what they lead to is visited or queued.
Busy(u) == pc \in {"get", "reply", "range", "failed"} /\ u = next

Complete ==
    /\ Root \in visited \cup ToSet(queue)
    /\ \A u \in visited :
         \/ Busy(u) \/ u \in truncated \/ u \in misread
         \/ Children(u) \subseteq visited \cup ToSet(queue)

WalkInv == WalkTypes /\ Requests /\ Parsing /\ Sound /\ Complete
-----------------------------------------------------------------------------
(* Every step preserves the invariant, part by part.                       *)

LEMMA TypesStep == WalkInv /\ [Next]_vars => WalkTypes'
<1> SUFFICES ASSUME WalkInv, [Next]_vars PROVE WalkTypes'
  OBVIOUS
<1>1. WalkTypes /\ Parsing
  BY DEF WalkInv
<1> USE <1>1 DEF WalkTypes
<1>2. CASE Cancel
  BY <1>2 DEF Cancel, config, walk, fetch, goroutine, history
<1>3. CASE SkipVisited
  <2>1. Tail(queue) \in Seq(URLs)
    BY <1>3, HeadAndTail DEF SkipVisited
  <2>2. QED
    BY <1>3, <2>1 DEF SkipVisited, fetch, goroutine, history
<1>4. CASE Visit
  <2>1. Head(queue) \in URLs /\ Tail(queue) \in Seq(URLs)
    BY <1>4, HeadAndTail DEF Visit
  <2>2. QED
    BY <1>4, <2>1 DEF Visit, fetch, goroutine, history
<1>5. CASE Return
  BY <1>5 DEF Return, config, walk, fetch, goroutine, history
<1>6. CASE Get
  BY <1>6 DEF Get, config, walk, fetch, goroutine, history
<1>7. CASE GetFails
  BY <1>7 DEF GetFails, Fail, config, walk, fetch, goroutine, history
<1>8. CASE GetCancelled
  BY <1>8 DEF GetCancelled, Fail, config, walk, fetch, goroutine, history
<1>9. CASE Receive
  <2>1. PICK d \in Documents, showsRoot \in BOOLEAN :
          served' = [served EXCEPT ![next] = d] /\ rest' = d.locs
    BY <1>9 DEF Receive
  <2>2. d \in [index : BOOLEAN, locs : Seq(URLs)] /\ d.locs \in Seq(URLs)
    BY CollectAssumption
  <2>3. QED
    BY <1>9, <2>1, <2>2 DEF Receive, walk, fetch
<1>10. CASE Drain
  <2>1. Head(ch) \in URLs /\ Tail(ch) \in Seq(URLs)
    BY <1>10, HeadAndTail DEF Drain
  <2>2. Append(found, Head(ch)) \in Seq(URLs)
    BY <2>1, AppendElement
  <2>3. QED
    BY <1>10, <2>1, <2>2 DEF Drain, walk, history
<1>11. CASE Merge
  <2>1. queue \o found \in Seq(URLs) /\ <<>> \in Seq(URLs)
    BY ConcatElements
  <2>2. QED
    BY <1>11, <2>1 DEF Merge, history
<1>12. CASE Scan
  BY <1>12 DEF Scan, config, walk, fetch, goroutine, history
<1>13. CASE Send
  <2>1. rest # <<>>
    BY <1>13 DEF Send, Parsing
  <2>2. Head(rest) \in URLs /\ Tail(rest) \in Seq(URLs)
    BY <2>1, HeadAndTail
  <2>3. Append(ch, Head(rest)) \in Seq(URLs)
    BY <2>2, AppendElement
  <2>4. QED
    BY <1>13, <2>2, <2>3 DEF Send, walk, fetch, history
<1>14. CASE Stop
  <2>1. <<>> \in Seq(URLs)
    OBVIOUS
  <2>2. QED
    BY <1>14, <2>1 DEF Stop, walk, fetch
<1>15. CASE UNCHANGED vars
  BY <1>15 DEF config, walk, fetch, goroutine, history, vars
<1>16. QED
  BY <1>2, <1>3, <1>4, <1>5, <1>6, <1>7, <1>8, <1>9, <1>10, <1>11, <1>12, <1>13, <1>14, <1>15
     DEF Next, Collector, Target, Parser, Ended

LEMMA RequestsStep == WalkInv /\ [Next]_vars => Requests'
<1> SUFFICES ASSUME WalkInv, [Next]_vars PROVE Requests'
  OBVIOUS
<1>1. WalkTypes /\ Requests /\ Parsing
  BY DEF WalkInv
<1> USE <1>1 DEF Requests
<1>2. CASE Cancel
  BY <1>2 DEF Cancel, config, walk, fetch, goroutine, history, WalkTypes
<1>3. CASE SkipVisited
  BY <1>3 DEF SkipVisited, config, walk, fetch, goroutine, history, WalkTypes
<1>4. CASE Visit
  <2>1. Head(queue) \in URLs
    BY <1>4, HeadAndTail DEF Visit, WalkTypes
  <2>2. QED
    BY <1>4, <2>1 DEF Visit, WalkTypes, fetch, goroutine, history
<1>5. CASE Return
  BY <1>5 DEF Return, config, walk, fetch, goroutine, history, WalkTypes
<1>6. CASE Get
  BY <1>6 DEF Get, WalkTypes, config, walk, fetch, goroutine
<1>7. CASE GetFails
  BY <1>7 DEF GetFails, Fail, config, walk, fetch, goroutine, history, WalkTypes
<1>8. CASE GetCancelled
  BY <1>8 DEF GetCancelled, Fail, config, walk, fetch, goroutine, history, WalkTypes
<1>9. CASE Receive
  <2>1. PICK d \in Documents, showsRoot \in BOOLEAN :
          served' = [served EXCEPT ![next] = d]
    BY <1>9 DEF Receive
  <2>2. fetches[next] # 0
    BY <1>9, <1>1 DEF Receive, WalkTypes
  <2>3. QED
    BY <1>9, <2>1, <2>2 DEF Receive, WalkTypes, walk
<1>10. CASE Drain
  BY <1>10 DEF Drain, config, walk, fetch, goroutine, history, WalkTypes
<1>11. CASE Merge
  BY <1>11 DEF Merge, config, walk, fetch, goroutine, history, WalkTypes
<1>12. CASE Scan
  BY <1>12 DEF Scan, config, walk, fetch, goroutine, history, WalkTypes
<1>13. CASE Send
  BY <1>13 DEF Send, walk, fetch, history
<1>14. CASE Stop
  BY <1>14 DEF Stop, Parsing, WalkTypes, config, walk, fetch
<1>15. CASE UNCHANGED vars
  BY <1>15 DEF config, walk, fetch, goroutine, history, WalkTypes, vars
<1>16. QED
  BY <1>2, <1>3, <1>4, <1>5, <1>6, <1>7, <1>8, <1>9, <1>10, <1>11, <1>12, <1>13, <1>14, <1>15
     DEF Next, Collector, Target, Parser, Ended

LEMMA ParsingStep == WalkInv /\ [Next]_vars => Parsing'
<1> SUFFICES ASSUME WalkInv, [Next]_vars PROVE Parsing'
  OBVIOUS
<1>1. WalkTypes /\ Requests /\ Parsing
  BY DEF WalkInv
<1> USE <1>1 DEF Parsing
<1>2. CASE Cancel
  BY <1>2 DEF Cancel, config, walk, fetch, goroutine, history, WalkTypes
<1>3. CASE SkipVisited
  BY <1>3 DEF SkipVisited, config, walk, fetch, goroutine, history, WalkTypes
<1>4. CASE Visit
  BY <1>4 DEF Visit, config, walk, fetch, goroutine, history, WalkTypes
<1>5. CASE Return
  BY <1>5 DEF Return, config, walk, fetch, goroutine, history, WalkTypes
<1>6. CASE Get
  BY <1>6 DEF Get, config, walk, fetch, goroutine, history, WalkTypes
<1>7. CASE GetFails
  BY <1>7 DEF GetFails, Fail, config, walk, fetch, goroutine, history, WalkTypes
<1>8. CASE GetCancelled
  BY <1>8 DEF GetCancelled, Fail, config, walk, fetch, goroutine, history, WalkTypes
<1>9. CASE Receive
  <2>1. PICK d \in Documents, showsRoot \in BOOLEAN :
          /\ served' = [served EXCEPT ![next] = d]
          /\ isIndex' = (d.index /\ showsRoot)
          /\ misread' = IF d.index /\ ~showsRoot THEN misread \cup {next} ELSE misread
          /\ rest' = d.locs
    BY <1>9 DEF Receive
  <2>2. served'[next] = d /\ next' = next /\ found' = <<>> /\ ch' = <<>>
    BY <1>9, <2>1 DEF Receive, WalkTypes, walk
  <2>3. next \notin misread
    BY <1>9 DEF Receive, Requests
  <2>4. ToSet(found') = {} /\ ToSet(ch') = {} /\ ToSet(rest') = ToSet(d.locs)
    BY <2>1, <2>2, EmptyElements
  <2>5. QED
    BY <1>9, <2>1, <2>2, <2>3, <2>4 DEF Receive
<1>10. CASE Drain
  <2>1. Head(ch) \in URLs /\ ToSet(ch) = {Head(ch)} \cup ToSet(Tail(ch))
    BY <1>10, HeadAndTail DEF Drain, WalkTypes
  <2>2. ToSet(found') = ToSet(found) \cup {Head(ch)}
    <3>1. found' = Append(found, Head(ch))
      BY <1>10 DEF Drain
    <3>2. found \in Seq(URLs)
      BY DEF WalkTypes
    <3>3. QED
      BY <2>1, <3>1, <3>2, AppendElement
  <2>3. QED
    BY <1>10, <2>1, <2>2 DEF Drain, walk, history
<1>11. CASE Merge
  BY <1>11 DEF Merge, config, walk, fetch, goroutine, history, WalkTypes
<1>12. CASE Scan
  BY <1>12 DEF Scan, config, walk, fetch, goroutine, history, WalkTypes
<1>13. CASE Send
  <2>1. rest # <<>>
    BY <1>13 DEF Send
  <2>2. Head(rest) \in URLs /\ ToSet(rest) = {Head(rest)} \cup ToSet(Tail(rest))
    BY <2>1, HeadAndTail DEF WalkTypes
  <2>3. ToSet(ch') = ToSet(ch) \cup {Head(rest)}
    BY <1>13, <2>2, AppendElement DEF Send, WalkTypes
  <2>4. QED
    BY <1>13, <2>2, <2>3 DEF Send, walk, fetch, history
<1>14. CASE Stop
  <2>1. ToSet(rest') = {} /\ (rest = <<>> => ToSet(rest) = {})
    BY <1>14, EmptyElements DEF Stop
  <2>2. QED
    BY <1>14, <2>1 DEF Stop, walk, fetch
<1>15. CASE UNCHANGED vars
  BY <1>15 DEF config, walk, fetch, goroutine, history, WalkTypes, vars
<1>16. QED
  BY <1>2, <1>3, <1>4, <1>5, <1>6, <1>7, <1>8, <1>9, <1>10, <1>11, <1>12, <1>13, <1>14, <1>15
     DEF Next, Collector, Target, Parser, Ended

LEMMA SoundStep == WalkInv /\ [Next]_vars => Sound'
<1> SUFFICES ASSUME WalkInv, [Next]_vars, NEW S \in SUBSET URLs, Closed(S)'
             PROVE  visited' \subseteq S /\ ToSet(queue') \subseteq S
  BY DEF Sound
<1>1. WalkTypes /\ Requests /\ Parsing /\ Sound
  BY DEF WalkInv
<1> USE <1>1
<1>2. CASE Cancel
  <2>1. Closed(S)
    BY <1>2 DEF Cancel, Closed, Children, config, history
  <2>2. visited \subseteq S /\ ToSet(queue) \subseteq S
    BY <2>1 DEF Sound
  <2>3. QED
    BY <1>2, <2>2 DEF Cancel, walk
<1>3. CASE SkipVisited
  <2>1. Closed(S)
    BY <1>3 DEF SkipVisited, Closed, Children, config, history
  <2>2. visited \subseteq S /\ ToSet(queue) \subseteq S
    BY <2>1 DEF Sound
  <2>3. ToSet(queue) = {Head(queue)} \cup ToSet(Tail(queue))
    BY <1>3, HeadAndTail DEF SkipVisited, WalkTypes
  <2>4. QED
    BY <1>3, <2>2, <2>3 DEF SkipVisited
<1>4. CASE Visit
  <2>1. Closed(S)
    BY <1>4 DEF Visit, Closed, Children, config, history
  <2>2. visited \subseteq S /\ ToSet(queue) \subseteq S
    BY <2>1 DEF Sound
  <2>3. ToSet(queue) = {Head(queue)} \cup ToSet(Tail(queue))
    BY <1>4, HeadAndTail DEF Visit, WalkTypes
  <2>4. QED
    BY <1>4, <2>2, <2>3 DEF Visit
<1>5. CASE Return
  <2>1. Closed(S)
    BY <1>5 DEF Return, Closed, Children, config, history
  <2>2. visited \subseteq S /\ ToSet(queue) \subseteq S
    BY <2>1 DEF Sound
  <2>3. QED
    BY <1>5, <2>2 DEF Return, walk
<1>6. CASE Get
  <2>1. Closed(S)
    BY <1>6 DEF Get, Closed, Children, config, history
  <2>2. visited \subseteq S /\ ToSet(queue) \subseteq S
    BY <2>1 DEF Sound
  <2>3. QED
    BY <1>6, <2>2 DEF Get, walk
<1>7. CASE GetFails
  <2>1. Closed(S)
    BY <1>7 DEF GetFails, Fail, Closed, Children, config, history
  <2>2. visited \subseteq S /\ ToSet(queue) \subseteq S
    BY <2>1 DEF Sound
  <2>3. QED
    BY <1>7, <2>2 DEF GetFails, Fail, walk
<1>8. CASE GetCancelled
  <2>1. Closed(S)
    BY <1>8 DEF GetCancelled, Fail, Closed, Children, config, history
  <2>2. visited \subseteq S /\ ToSet(queue) \subseteq S
    BY <2>1 DEF Sound
  <2>3. QED
    BY <1>8, <2>2 DEF GetCancelled, Fail, walk
<1>9. CASE Receive
  <2>1. PICK d \in Documents, showsRoot \in BOOLEAN : served' = [served EXCEPT ![next] = d]
    BY <1>9 DEF Receive
  <2>2. served[next] = Unknown /\ followIndex' = followIndex
    BY <1>9 DEF Receive, Requests, config
  <2>3. ASSUME NEW u \in S PROVE Children(u) \subseteq Children(u)'
    BY <2>1, <2>2 DEF Children, WalkTypes, Unknown
  <2>4. Closed(S)
    BY <2>3 DEF Closed
  <2>5. QED
    BY <1>9, <2>4 DEF Sound, Receive, walk
<1>10. CASE Drain
  <2>1. Closed(S)
    BY <1>10 DEF Drain, Closed, Children, config, history
  <2>2. visited \subseteq S /\ ToSet(queue) \subseteq S
    BY <2>1 DEF Sound
  <2>3. QED
    BY <1>10, <2>2 DEF Drain, walk
<1>11. CASE Merge
  <2>1. Closed(S)
    BY <1>11 DEF Merge, Closed, Children, config, history
  <2>2. visited \subseteq S /\ ToSet(queue) \subseteq S
    BY <2>1 DEF Sound
  <2>3. CASE isIndex /\ followIndex
    <3>1. next \in S /\ served[next].index
      BY <1>11, <2>2, <2>3 DEF Merge, Requests, Parsing
    <3>2. ToSet(served[next].locs) \subseteq S
      BY <2>1, <2>3, <3>1 DEF Closed, Children
    <3>3. ToSet(found) \subseteq S
      BY <1>11, <3>2 DEF Merge, Parsing
    <3>4. ToSet(queue') = ToSet(queue) \cup ToSet(found)
      BY <1>11, <2>3, ConcatElements DEF Merge, WalkTypes
    <3>5. QED
      BY <1>11, <2>2, <3>3, <3>4 DEF Merge
  <2>4. CASE ~(isIndex /\ followIndex)
    BY <1>11, <2>2, <2>4 DEF Merge
  <2>5. QED
    BY <2>3, <2>4
<1>12. CASE Scan
  <2>1. Closed(S)
    BY <1>12 DEF Scan, Closed, Children, config, history
  <2>2. visited \subseteq S /\ ToSet(queue) \subseteq S
    BY <2>1 DEF Sound
  <2>3. QED
    BY <1>12, <2>2 DEF Scan, walk
<1>13. CASE Send
  <2>1. Closed(S)
    BY <1>13 DEF Send, Closed, Children, config, history
  <2>2. visited \subseteq S /\ ToSet(queue) \subseteq S
    BY <2>1 DEF Sound
  <2>3. QED
    BY <1>13, <2>2 DEF Send, walk
<1>14. CASE Stop
  <2>1. Closed(S)
    BY <1>14 DEF Stop, Closed, Children, config, history
  <2>2. visited \subseteq S /\ ToSet(queue) \subseteq S
    BY <2>1 DEF Sound
  <2>3. QED
    BY <1>14, <2>2 DEF Stop, walk
<1>15. CASE UNCHANGED vars
  BY <1>15 DEF Closed, Children, Sound, config, walk, history, vars
<1>16. QED
  BY <1>2, <1>3, <1>4, <1>5, <1>6, <1>7, <1>8, <1>9, <1>10, <1>11, <1>12, <1>13, <1>14, <1>15
     DEF Next, Collector, Target, Parser, Ended

LEMMA CompleteStep == WalkInv /\ [Next]_vars => Complete'
<1> SUFFICES ASSUME WalkInv, [Next]_vars PROVE Complete'
  OBVIOUS
<1>1. WalkTypes /\ Requests /\ Parsing /\ Complete
  BY DEF WalkInv
<1> USE <1>1 DEF Complete, Busy, Children
<1>2. CASE Cancel
  BY <1>2 DEF Cancel, config, walk, fetch, goroutine, history
<1>3. CASE SkipVisited
  <2>1. ToSet(queue) = {Head(queue)} \cup ToSet(queue')
    BY <1>3, HeadAndTail DEF SkipVisited, WalkTypes
  <2>2. QED
    BY <1>3, <2>1 DEF SkipVisited, config, history
<1>4. CASE Visit
  <2>1. ToSet(queue) = {Head(queue)} \cup ToSet(queue')
    BY <1>4, HeadAndTail DEF Visit, WalkTypes
  <2>2. visited \cup ToSet(queue) = visited' \cup ToSet(queue')
    BY <1>4, <2>1 DEF Visit
  <2>3. QED
    BY <1>4, <2>2 DEF Visit, config, history
<1>5. CASE Return
  BY <1>5 DEF Return, config, walk, fetch, goroutine, history
<1>6. CASE Get
  BY <1>6 DEF Get, config, walk, fetch, goroutine, history
<1>7. CASE GetFails
  BY <1>7 DEF GetFails, Fail, config, walk, fetch, goroutine, history
<1>8. CASE GetCancelled
  BY <1>8 DEF GetCancelled, Fail, config, walk, fetch, goroutine, history
<1>9. CASE Receive
  <2>1. PICK d \in Documents, showsRoot \in BOOLEAN :
          /\ served' = [served EXCEPT ![next] = d]
          /\ misread \subseteq misread'
    BY <1>9 DEF Receive
  <2>2. ASSUME NEW u \in visited, u # next PROVE served'[u] = served[u]
    BY <2>1, <2>2 DEF WalkTypes
  <2>3. QED
    BY <1>9, <2>1, <2>2 DEF Receive, config, walk
<1>10. CASE Drain
  BY <1>10 DEF Drain, config, walk, fetch, goroutine, history
<1>11. CASE Merge
  <2>1. next \in truncated \/ next \in misread \/ Children(next) \subseteq visited' \cup ToSet(queue')
    <3>1. CASE followIndex /\ served[next].index /\ next \notin truncated \cup misread
      <4>1. isIndex /\ ToSet(served[next].locs) \subseteq ToSet(found)
        BY <1>11, <3>1, EmptyElements DEF Merge, Parsing
      <4>2. ToSet(queue') = ToSet(queue) \cup ToSet(found)
        BY <1>11, <3>1, <4>1, ConcatElements DEF Merge, WalkTypes
      <4>3. QED
        BY <3>1, <4>1, <4>2
    <3>2. QED
      BY <3>1
  <2>2. ToSet(queue) \subseteq ToSet(queue')
    BY <1>11, ConcatElements DEF Merge, WalkTypes
  <2>3. QED
    BY <1>11, <2>1, <2>2 DEF Merge, config, history
<1>12. CASE Scan
  BY <1>12 DEF Scan, config, walk, fetch, goroutine, history
<1>13. CASE Send
  BY <1>13 DEF Send, config, walk, fetch, goroutine, history
<1>14. CASE Stop
  BY <1>14 DEF Stop, config, walk, fetch, goroutine, history
<1>15. CASE UNCHANGED vars
  BY <1>15 DEF config, walk, fetch, goroutine, history, vars
<1>16. QED
  BY <1>2, <1>3, <1>4, <1>5, <1>6, <1>7, <1>8, <1>9, <1>10, <1>11, <1>12, <1>13, <1>14, <1>15
     DEF Next, Collector, Target, Parser, Ended
-----------------------------------------------------------------------------
(* The theorems.                                                           *)

LEMMA WalkStarts == Init => WalkInv
<1> SUFFICES ASSUME Init PROVE WalkInv
  OBVIOUS
<1>1. WalkTypes /\ Requests
  BY CollectAssumption DEF Init, WalkTypes, Requests, Unknown
<1>2. Parsing
  BY DEF Init, Parsing
<1>3. ToSet(queue) = {Root}
  BY DEF Init, ToSet
<1>4. Sound /\ Complete
  BY <1>3 DEF Init, Sound, Complete, Closed
<1>5. QED
  BY <1>1, <1>2, <1>4 DEF WalkInv

LEMMA WalkInvariant == Spec => []WalkInv
<1>1. WalkInv /\ [Next]_vars => WalkInv'
  BY TypesStep, RequestsStep, ParsingStep, SoundStep, CompleteStep DEF WalkInv
<1>2. QED
  BY WalkStarts, <1>1, PTL DEF Spec

\* No sitemap is requested twice.
THEOREM NoSecondFetch == Spec => []FetchedOnce
<1>1. WalkInv => FetchedOnce
  BY DEF WalkInv, Requests, FetchedOnce
<1>2. QED
  BY WalkInvariant, <1>1, PTL

\* A parser's goroutine never outlives the loop over its channel: "No
\* goroutines should leak" (docs/ARCHITECTURE.md).
NoParserLeft == pc # "range" => parser = "off" /\ ch = <<>>

THEOREM ParserIsJoined == Spec => []NoParserLeft
<1>1. WalkInv => NoParserLeft
  BY DEF WalkInv, Parsing, NoParserLeft
<1>2. QED
  BY WalkInvariant, <1>1, PTL

\* The sitemaps visited are those the indexes lead to, with the exceptions
\* WalkCoversReached names.
THEOREM WalkIsExact == Spec => []WalkCoversReached
<1>1. ASSUME WalkInv, pc = "done" PROVE visited \subseteq Reached
  BY <1>1 DEF WalkInv, WalkTypes, Sound, Reached
<1>2. ASSUME WalkInv, pc = "done", truncated = {}, misread = {} PROVE visited = Reached
  <2>1. queue = <<>>
    BY <1>2 DEF WalkInv, Requests
  <2>2. Closed(visited)
    BY <1>2, <2>1, EmptyElements DEF WalkInv, Complete, Busy, Closed
  <2>3. visited \in SUBSET URLs
    BY <1>2 DEF WalkInv, WalkTypes
  <2>4. Reached \subseteq visited
    BY <2>2, <2>3 DEF Reached
  <2>5. QED
    BY <1>1, <1>2, <2>4
<1>3. WalkInv => WalkCoversReached
  BY <1>1, <1>2 DEF WalkCoversReached
<1>4. QED
  BY WalkInvariant, <1>3, PTL
-----------------------------------------------------------------------------
(* The URLs.                                                               *)

\* What a visited sitemap contributes.
Source(u) ==
    IF served[u].index THEN {} ELSE {x \in ToSet(served[u].locs) : Allow(filter, x)}

\* Nothing is collected from elsewhere, and everything from the sitemaps
\* that are finished with.
Gathered ==
    /\ allURLs \in Seq(URLs)
    /\ misread = {} => ToSet(allURLs) \subseteq UNION {Source(u) : u \in visited}
    /\ \A u \in visited : Busy(u) \/ u \in truncated \/ Source(u) \subseteq ToSet(allURLs)
    /\ pc = "done" => IsInjective(allURLs)

\* Removing repetitions keeps every URL, once.
LEMMA DedupElements ==
    ASSUME NEW S, NEW s \in Seq(S)
    PROVE  dedup(s) \in Seq(S) /\ ToSet(dedup(s)) = ToSet(s) /\ IsInjective(dedup(s))
<1> DEFINE firsts == {i \in DOMAIN s : \A k \in 1..(i - 1) : s[k] # s[i]}
<1>1. DOMAIN s = 1..Len(s) /\ Len(s) \in Nat
  BY LenProperties
<1>2. \A p \in firsts : p \in 1..Len(s)
  BY <1>1
<1>3. \A p, q \in firsts : p < q => s[p] # s[q]
  <2>1. ASSUME NEW p \in firsts, NEW q \in firsts, p < q
        PROVE  s[p] # s[q]
    <3>1. p \in 1..(q - 1)
      BY <1>2, <2>1
    <3>2. QED
      BY <3>1
  <2>2. QED
    BY <2>1
<1>4. ToSet(s) = {s[p] : p \in firsts}
  <2>1. ASSUME NEW x \in ToSet(s)
        PROVE  \E p \in firsts : s[p] = x
    <3> DEFINE T == {i \in 1..Len(s) : s[i] = x}
    <3>1. T \in SUBSET Nat /\ T # {}
      BY <1>1 DEF ToSet
    <3>2. PICK m \in T : \A i \in T : m <= i
      BY <3>1, SmallestNumber
    <3>3. \A k \in 1..(m - 1) : k \in 1..Len(s) /\ ~(m <= k)
      BY <1>1
    <3>4. \A k \in 1..(m - 1) : s[k] # s[m]
      BY <3>2, <3>3
    <3>5. QED
      BY <1>1, <3>4
  <2>2. {s[p] : p \in firsts} \subseteq ToSet(s)
    BY <1>1, <1>2 DEF ToSet
  <2>3. QED
    BY <2>1, <2>2
<1> HIDE DEF firsts
<1>5. dedup(s) = Kept(s, firsts)
  BY DEF dedup, firsts
<1>6. QED
  BY <1>2, <1>3, <1>4, <1>5, KeptElements, KeptInjective

LEMMA AllowedElements ==
    ASSUME NEW S, NEW s \in Seq(S)
    PROVE  allowed(s) \in Seq(S) /\ ToSet(allowed(s)) = {x \in ToSet(s) : Allow(filter, x)}
<1> DEFINE passing == {i \in DOMAIN s : Allow(filter, s[i])}
<1>1. \A p \in passing : p \in 1..Len(s)
  BY LenProperties
<1>2. {s[p] : p \in passing} = {x \in ToSet(s) : Allow(filter, x)}
  BY DEF ToSet
<1> HIDE DEF passing
<1>3. allowed(s) = Kept(s, passing)
  BY DEF allowed, passing
<1>4. QED
  BY <1>1, <1>2, <1>3, KeptElements

\* A step that neither serves nor collects, nor finishes with a sitemap.
LEMMA GatheredKept ==
    ASSUME Gathered, UNCHANGED <<allURLs, served, filter>>,
           visited \subseteq visited', truncated \subseteq truncated', misread \subseteq misread',
           \A u \in visited : Busy(u) => Busy(u)',
           \A u \in visited' \ visited : Busy(u)',
           pc' # "done" \/ pc = "done"
    PROVE  Gathered'
<1>1. \A u : Source(u)' = Source(u)
  BY DEF Source, Allow, Matches
<1>2. QED
  BY <1>1 DEF Gathered

LEMMA GatheredStep == WalkInv /\ Gathered /\ [Next]_vars => Gathered'
<1> SUFFICES ASSUME WalkInv, Gathered, [Next]_vars PROVE Gathered'
  OBVIOUS
<1>1. WalkTypes /\ Requests /\ Parsing
  BY DEF WalkInv
<1>2. CASE Cancel
  BY <1>2, GatheredKept DEF Cancel, config, walk, history, Busy
<1>3. CASE SkipVisited
  BY <1>3, GatheredKept DEF SkipVisited, config, history, Busy
<1>4. CASE Visit
  BY <1>4, GatheredKept DEF Visit, config, history, Busy
<1>5. CASE Return
  <2>1. /\ allURLs' \in Seq(URLs) /\ ToSet(allURLs') = ToSet(allURLs)
        /\ IsInjective(allURLs')
    BY <1>5, DedupElements DEF Return, Gathered
  <2>2. /\ \A u : Source(u)' = Source(u)
        /\ \A u \in visited : ~Busy(u)
        /\ UNCHANGED <<visited, truncated, misread>>
    BY <1>5 DEF Return, config, history, Source, Busy, Allow, Matches
  <2>3. QED
    BY <2>1, <2>2 DEF Gathered
<1>6. CASE Get
  BY <1>6, GatheredKept DEF Get, config, walk, Busy
<1>7. CASE GetFails
  BY <1>7, GatheredKept DEF GetFails, Fail, config, walk, history, Busy
<1>8. CASE GetCancelled
  BY <1>8, GatheredKept DEF GetCancelled, Fail, config, walk, history, Busy
<1>9. CASE Receive
  <2>1. PICK d \in Documents, showsRoot \in BOOLEAN :
          served' = [served EXCEPT ![next] = d] /\ misread \subseteq misread'
    BY <1>9 DEF Receive
  <2>2. /\ UNCHANGED <<allURLs, visited, next, truncated, filter>>
        /\ pc = "reply" /\ pc' = "range" /\ served[next] = Unknown /\ next \in URLs
    BY <1>1, <1>9 DEF Receive, walk, config, Requests, WalkTypes
  <2>3. Source(next) = {}
    BY <2>2, EmptyElements DEF Source, Unknown
  <2>4. \A u \in URLs : u # next => Source(u)' = Source(u)
    BY <1>1, <2>1, <2>2 DEF Source, WalkTypes, Allow, Matches
  <2>5. \A u \in visited : IF u = next THEN Busy(u)' ELSE ~Busy(u)
    BY <2>2 DEF Busy
  <2>6. visited \subseteq URLs
    BY <1>1 DEF WalkTypes
  <2> HIDE DEF Source, Busy
  <2>7. misread' = {} => misread = {}
    BY <2>1
  <2>8. misread' = {} => ToSet(allURLs') \subseteq UNION {Source(u)' : u \in visited}
    BY <2>2, <2>3, <2>4, <2>6, <2>7 DEF Gathered
  <2>9. \A u \in visited : Busy(u)' \/ u \in truncated \/ Source(u)' \subseteq ToSet(allURLs)
    <3>1. ASSUME NEW u \in visited, u # next
          PROVE  u \in truncated \/ Source(u)' \subseteq ToSet(allURLs)
      <4>1. Source(u)' = Source(u) /\ ~Busy(u)
        BY <2>4, <2>5, <2>6, <3>1
      <4>2. u \in truncated \/ Source(u) \subseteq ToSet(allURLs)
        BY <4>1 DEF Gathered
      <4>3. QED
        BY <4>1, <4>2
    <3>2. QED
      BY <2>5, <3>1
  <2>10. QED
    BY <2>2, <2>8, <2>9 DEF Gathered
<1>10. CASE Drain
  BY <1>10, GatheredKept DEF Drain, config, walk, history, Busy
<1>11. CASE Merge
  <2>1. /\ UNCHANGED <<visited, next, truncated, misread, filter, served>>
        /\ pc = "range" /\ pc' = "loop" /\ next \in visited
        /\ parser = "closed" /\ ch = <<>> /\ rest = <<>>
    BY <1>1, <1>11 DEF Merge, config, history, Requests, Parsing
  <2>2. \A u : Source(u)' = Source(u)
    BY <2>1 DEF Source, Allow, Matches
  <2>3. ToSet(ch) = {} /\ ToSet(rest) = {}
    BY <2>1, EmptyElements
  <2>4. allURLs' = IF isIndex THEN allURLs ELSE allURLs \o allowed(found)
    BY <1>11 DEF Merge
  <2>5. /\ allowed(found) \in Seq(URLs)
        /\ ToSet(allowed(found)) = {x \in ToSet(found) : Allow(filter, x)}
    BY <1>1, AllowedElements DEF WalkTypes
  <2>6. /\ isIndex <=> served[next].index /\ next \notin misread
        /\ ToSet(found) \subseteq ToSet(served[next].locs)
        /\ next \notin truncated => ToSet(served[next].locs) \subseteq ToSet(found)
    BY <1>1, <2>1, <2>3 DEF Parsing
  <2>7. CASE isIndex
    <3>1. Source(next) = {}
      BY <2>6, <2>7 DEF Source
    <3>2. QED
      BY <2>1, <2>2, <2>4, <2>7, <3>1 DEF Gathered, Busy
  <2>8. CASE ~isIndex
    <3>1. allURLs \in Seq(URLs)
      BY DEF Gathered
    <3>2. /\ allURLs' \in Seq(URLs)
          /\ ToSet(allURLs') = ToSet(allURLs) \cup ToSet(allowed(found))
      BY <2>4, <2>5, <2>8, <3>1, ConcatElements
    <3>3. misread = {} => ToSet(allowed(found)) \subseteq Source(next)
      BY <2>5, <2>6, <2>8 DEF Source
    <3>4. next \in truncated \/ Source(next) \subseteq ToSet(allowed(found))
      BY <2>5, <2>6 DEF Source
    <3> HIDE DEF Source
    <3>5. misread' = {} => ToSet(allURLs') \subseteq UNION {Source(u)' : u \in visited'}
      BY <2>1, <2>2, <3>2, <3>3 DEF Gathered
    <3>6. \A u \in visited' : u \in truncated' \/ Source(u)' \subseteq ToSet(allURLs')
      BY <2>1, <2>2, <3>2, <3>4 DEF Gathered, Busy
    <3>7. QED
      BY <2>1, <3>2, <3>5, <3>6 DEF Gathered
  <2>9. QED
    BY <2>7, <2>8
<1>12. CASE Scan
  BY <1>12, GatheredKept DEF Scan, config, walk, history, Busy
<1>13. CASE Send
  BY <1>13, GatheredKept DEF Send, config, walk, history, Busy
<1>14. CASE Stop
  BY <1>14, GatheredKept DEF Stop, config, walk, Busy
<1>15. CASE UNCHANGED vars
  BY <1>15, GatheredKept DEF config, walk, history, vars, Busy
<1>16. QED
  BY <1>2, <1>3, <1>4, <1>5, <1>6, <1>7, <1>8, <1>9, <1>10, <1>11, <1>12, <1>13, <1>14, <1>15
     DEF Next, Collector, Target, Parser, Ended

LEMMA GatheredInvariant == Spec => []Gathered
<1>1. Init => Gathered
  BY EmptyElements DEF Init, Gathered
<1>2. QED
  BY <1>1, GatheredStep, WalkInvariant, PTL DEF Spec

LEMMA PermittedURLs ==
    \A x \in URLs : x \in Permitted <=> Allow(filter, x)
<1>1. \A patterns, x : Matches(patterns, x) <=> x \in UNION ToSet(patterns)
  BY DEF Matches, ToSet
<1>2. QED
  BY <1>1 DEF Permitted, Allow

\* The result has every permitted URL of the sitemaps the indexes lead to,
\* once, with the exceptions CollectsReachable names.
THEOREM CollectionIsExact == Spec => []CollectsReachable
<1>1. ASSUME WalkInv, Gathered, WalkCoversReached
      PROVE  CollectsReachable
  <2>1. SUFFICES ASSUME pc = "done", misread = {}
                 PROVE  /\ IsInjective(allURLs)
                        /\ ToSet(allURLs) \subseteq Listed \cap Permitted
                        /\ truncated = {} => ToSet(allURLs) = Listed \cap Permitted
    BY <1>1 DEF CollectsReachable
  <2>2. visited \subseteq Reached /\ (truncated = {} => visited = Reached)
    BY <1>1, <2>1 DEF WalkCoversReached
  <2>3. /\ visited \subseteq URLs
        /\ \A u \in URLs : ToSet(served[u].locs) \subseteq URLs
    <3>1. \A s \in Seq(URLs) : ToSet(s) \subseteq URLs
      BY LenProperties DEF ToSet
    <3>2. QED
      BY <1>1, <3>1 DEF WalkInv, WalkTypes
  <2>4. \A u \in URLs, x \in URLs :
          x \in Source(u) <=> ~served[u].index /\ x \in ToSet(served[u].locs) /\ x \in Permitted
    BY PermittedURLs DEF Source
  <2>5. \A u \in visited : Source(u) \subseteq Listed \cap Permitted
    <3>1. ASSUME NEW u \in visited, NEW x \in Source(u)
          PROVE  x \in Listed \cap Permitted
      <4>1. u \in URLs /\ x \in URLs /\ ~served[u].index /\ x \in ToSet(served[u].locs)
        BY <2>3, <3>1 DEF Source
      <4>2. x \in Permitted
        BY <2>4, <4>1
      <4>3. QED
        BY <2>2, <4>1, <4>2 DEF Listed
    <3>2. QED
      BY <3>1
  <2>6. ToSet(allURLs) \subseteq Listed \cap Permitted
    BY <1>1, <2>1, <2>5 DEF Gathered
  <2>7. ASSUME truncated = {}, NEW x \in Listed \cap Permitted
        PROVE  x \in ToSet(allURLs)
    <3>1. PICK u \in Reached : ~served[u].index /\ x \in ToSet(served[u].locs)
      BY <2>7 DEF Listed
    <3>2. u \in visited /\ u \in URLs
      BY <2>2, <2>3, <2>7
    <3>3. x \in Source(u)
      BY <2>3, <2>4, <2>7, <3>1, <3>2
    <3>4. QED
      BY <1>1, <2>1, <2>7, <3>2, <3>3 DEF Gathered, Busy
  <2>8. IsInjective(allURLs)
    BY <1>1, <2>1 DEF Gathered
  <2>9. QED
    BY <2>6, <2>7, <2>8
<1>2. QED
  BY <1>1, WalkInvariant, GatheredInvariant, WalkIsExact, PTL

\* The types: the walk's, and those of what it does not depend on.
THEOREM CollectTypeCorrect == Spec => []TypeOK
<1> DEFINE Rest ==
      /\ ctxDone \in BOOLEAN /\ filter \in Filters /\ followIndex \in BOOLEAN
      /\ pc \in {"loop", "get", "reply", "range", "done", "failed"}
      /\ err \in {"nil", "target", "ctx"} /\ isIndex \in BOOLEAN
      /\ parser \in {"off", "scan", "send", "closed"} /\ Len(ch) <= BufferSize
      /\ served \in [URLs -> Documents \cup {Unknown}]
      /\ truncated \subseteq URLs /\ misread \subseteq URLs
<1>1. Init => Rest
  <2>1. Len(<<>>) = 0 /\ 0 <= BufferSize
    BY CollectAssumption
  <2>2. Init => served \in [URLs -> Documents \cup {Unknown}]
    BY DEF Init
  <2>3. QED
    BY <2>1, <2>2 DEF Init
<1>2. ASSUME WalkInv, Rest, [Next]_vars
      PROVE  Rest'
  <2>1. WalkTypes /\ Parsing
    BY <1>2 DEF WalkInv
  <2> USE <1>2
  <2>2. CASE Cancel
    BY <2>2 DEF Cancel, config, walk, fetch, goroutine, history
  <2>3. CASE SkipVisited
    BY <2>3 DEF SkipVisited, config, fetch, goroutine, history
  <2>4. CASE Visit
    BY <2>4 DEF Visit, config, fetch, goroutine, history
  <2>5. CASE Return
    BY <2>5 DEF Return, config, fetch, goroutine, history
  <2>6. CASE Get
    BY <2>6 DEF Get, config, walk, fetch, goroutine
  <2>7. CASE GetFails
    BY <2>7 DEF GetFails, Fail, config, walk, fetch, goroutine, history
  <2>8. CASE GetCancelled
    BY <2>8 DEF GetCancelled, Fail, config, walk, fetch, goroutine, history
  <2>9. CASE Receive
    BY <2>1, <2>9 DEF Receive, config, walk, WalkTypes
  <2>10. CASE Drain
    <3>1. Len(ch') = Len(ch) - 1 /\ Len(ch) \in Nat
      BY <2>1, <2>10, HeadTailProperties, LenProperties DEF Drain, WalkTypes
    <3>2. Len(ch') <= BufferSize
      BY <3>1, CollectAssumption
    <3>3. QED
      BY <2>10, <3>2 DEF Drain, config, walk, history
  <2>11. CASE Merge
    BY <2>11 DEF Merge, config, history
  <2>12. CASE Scan
    BY <2>12 DEF Scan, config, walk, fetch, history
  <2>13. CASE Send
    <3>1. Head(rest) \in URLs
      BY <2>1, <2>13, HeadAndTail DEF Send, Parsing, WalkTypes
    <3>2. Len(ch') = Len(ch) + 1 /\ Len(ch) \in Nat
      BY <2>1, <2>13, <3>1, AppendProperties, LenProperties DEF Send, WalkTypes
    <3>3. Len(ch') <= BufferSize
      BY <2>13, <3>2, CollectAssumption DEF Send
    <3>4. QED
      BY <2>13, <3>3 DEF Send, config, walk, fetch, history
  <2>14. CASE Stop
    BY <2>1, <2>14 DEF Stop, config, walk, fetch, WalkTypes
  <2>15. CASE UNCHANGED vars
    BY <2>15 DEF config, walk, fetch, goroutine, history, vars
  <2>16. QED
    BY <2>2, <2>3, <2>4, <2>5, <2>6, <2>7, <2>8, <2>9, <2>10, <2>11, <2>12, <2>13, <2>14, <2>15
       DEF Next, Collector, Target, Parser, Ended
<1>3. WalkInv /\ Gathered /\ Rest => TypeOK
  BY DEF WalkInv, WalkTypes, Gathered, TypeOK
<1>4. QED
  BY <1>1, <1>2, <1>3, WalkInvariant, GatheredInvariant, PTL DEF Spec
=============================================================================
