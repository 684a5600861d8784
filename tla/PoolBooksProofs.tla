-------------------------- MODULE PoolBooksProofs --------------------------
(***************************************************************************)
(* Theorems about the books of Pool: counters, lines, failures and the     *)
(* summary, and its refinement of JobLedger, for every set of workers,     *)
(* plan and queue capacity.                                                *)
(***************************************************************************)
EXTENDS PoolProofs, FiniteSetTheorems

\* The workers in some places.
At(places) == {w \in Workers : pc[w] \in places}

Settled == {j \in Jobs : outcome[j] # "open"}

\* Every counter is a number of jobs or of workers; a hit is ahead of its
\* alias by the workers between the two.
StatsCount ==
    /\ stats["Success"] = Cardinality(Counted("success"))
    /\ stats["Failed"] = Cardinality(Counted("failed"))
    /\ stats["Total"] = Cardinality(Settled) + Cardinality(At(Processing))
    /\ stats["CacheHits"] = stats["Cached"] + Cardinality(At({"alias"}))

\* A settled job has its line, or a worker that is about to write it.
LinesFollow ==
    fileOpen => \A j \in Jobs :
        \/ outcome[j] = "open"
        \/ lines[j] = <<outcome[j]>>
        \/ \E w \in Workers : pc[w] = "record" /\ job[w] = j

\* The alias is loaded before the counter that stays ahead of it.
LoadedInOrder ==
    /\ Len(snap) >= 4 => snap[4] <= stats["Cached"]
    /\ Len(snap) >= 5 => snap[4] <= snap[5]

Books == StatsCount /\ LinesFollow /\ LoadedInOrder
-----------------------------------------------------------------------------
(* Facts about the data. *)

LEMMA FinitelyManyWorkers ==
    \A S \in SUBSET Workers : IsFiniteSet(S) /\ Cardinality(S) \in Nat
BY PoolAssumption, FS_Subset, FS_CardinalityType

LEMMA FinitelyManyJobs ==
    \A S \in SUBSET Jobs : IsFiniteSet(S) /\ Cardinality(S) \in Nat
<1>1. IsFiniteSet(Jobs)
  BY PoolAssumption, FS_Interval DEF Jobs
<1>2. QED
  BY <1>1, FS_Subset, FS_CardinalityType

\* A worker that moves enters a set of places, leaves it, or does neither.
LEMMA WorkerMoves ==
    ASSUME WorkerTypeOK, NEW w \in Workers, NEW from, NEW to, Goto(w, from, to), NEW places
    PROVE  /\ Cardinality(At(places)) \in Nat /\ Cardinality(At(places)') \in Nat
           /\ (from \in places <=> to \in places) => At(places)' = At(places)
           /\ from \notin places /\ to \in places =>
                Cardinality(At(places)') = Cardinality(At(places)) + 1
           /\ from \in places /\ to \notin places =>
                Cardinality(At(places)) = Cardinality(At(places)') + 1
<1> USE DEF At, Goto, WorkerTypeOK
<1>1. /\ IsFiniteSet(At(places)) /\ Cardinality(At(places)) \in Nat
      /\ IsFiniteSet(At(places)') /\ Cardinality(At(places)') \in Nat
  BY FinitelyManyWorkers
<1>2. CASE from \in places <=> to \in places
  BY <1>1, <1>2
<1>3. CASE from \notin places /\ to \in places
  <2>1. At(places)' = At(places) \cup {w} /\ w \notin At(places)
    BY <1>3
  <2>2. QED
    BY <1>1, <1>3, <2>1, FS_AddElement
<1>4. CASE from \in places /\ to \notin places
  <2>1. At(places) = At(places)' \cup {w} /\ w \notin At(places)'
    BY <1>4
  <2>2. QED
    BY <1>1, <1>4, <2>1, FS_AddElement
<1>5. QED
  BY <1>2, <1>3, <1>4

\* The counters by name.
LEMMA SnapIndex ==
    /\ Snapped("Total") = snap[1] /\ Snapped("Success") = snap[2]
    /\ Snapped("Failed") = snap[3] /\ Snapped("Cached") = snap[4]
    /\ Snapped("CacheHits") = snap[5]
<1>1. DOMAIN SnapOrder = 1..6
  BY DEF SnapOrder
<1>2. /\ SnapOrder[1] = "Total" /\ SnapOrder[2] = "Success" /\ SnapOrder[3] = "Failed"
      /\ SnapOrder[4] = "Cached" /\ SnapOrder[5] = "CacheHits" /\ SnapOrder[6] = "CacheOther"
  BY DEF SnapOrder
<1>3. \A i \in 1..6 : i \in {1, 2, 3, 4, 5, 6}
  OBVIOUS
<1>4. \A i \in 1..6 : /\ SnapOrder[i] = "Total" => i = 1
                      /\ SnapOrder[i] = "Success" => i = 2
                      /\ SnapOrder[i] = "Failed" => i = 3
                      /\ SnapOrder[i] = "Cached" => i = 4
                      /\ SnapOrder[i] = "CacheHits" => i = 5
  BY <1>2, <1>3
<1>5. /\ (CHOOSE i \in DOMAIN SnapOrder : SnapOrder[i] = "Total") = 1
      /\ (CHOOSE i \in DOMAIN SnapOrder : SnapOrder[i] = "Success") = 2
      /\ (CHOOSE i \in DOMAIN SnapOrder : SnapOrder[i] = "Failed") = 3
      /\ (CHOOSE i \in DOMAIN SnapOrder : SnapOrder[i] = "Cached") = 4
      /\ (CHOOSE i \in DOMAIN SnapOrder : SnapOrder[i] = "CacheHits") = 5
  BY <1>1, <1>2, <1>4
<1>6. QED
  BY <1>5 DEF Snapped
-----------------------------------------------------------------------------
(* Counters and lines. *)

LEMMA BooksInit == Init => Books
<1> SUFFICES ASSUME Init PROVE Books
  OBVIOUS
<1>1. /\ Counted("success") = {} /\ Counted("failed") = {} /\ Settled = {}
      /\ At(Processing) = {} /\ At({"alias"}) = {}
  BY DEF Init, Counted, Settled, At, Processing
<1>2. \A c \in Counters : stats[c] = 0
  BY DEF Init
<1>3. StatsCount
  BY <1>1, <1>2, CounterNames, FS_EmptySet DEF StatsCount
<1>4. Len(snap) = 0
  BY EmptySeq DEF Init
<1>5. QED
  BY <1>3, <1>4 DEF Init, Books, LinesFollow, LoadedInOrder

LEMMA StatsStep == TypeInv /\ Ownership /\ StatsCount /\ [Next]_vars => StatsCount'
<1> SUFFICES ASSUME TypeInv, Ownership, StatsCount, [Next]_vars PROVE StatsCount'
  OBVIOUS
<1> USE DEF StatsCount
<1>0. /\ WorkerTypeOK /\ stats \in [Counters -> Nat]
      /\ "Total" \in Counters /\ "Success" \in Counters /\ "Failed" \in Counters
      /\ "Cached" \in Counters /\ "CacheHits" \in Counters /\ "CacheOther" \in Counters
  BY CounterNames DEF TypeInv, TypeOK, BookTypeOK
<1>1. CASE UNCHANGED <<stats, outcome, pc>>
  BY <1>1 DEF Counted, Settled, At
<1>2. ASSUME NEW w \in Workers,
             Receive(w) \/ RecvClosed(w) \/ Drop(w) \/ Accept(w) \/ ExecReturn(w)
               \/ NoCache(w) \/ WriteLine(w) \/ Capture(w)
      PROVE  StatsCount'
  <2>1. UNCHANGED <<stats, outcome>>
    BY <1>2 DEF Receive, RecvClosed, Drop, Accept, ExecReturn, NoCache, WriteLine, Capture,
                bookVars
  <2>2. PICK from, to :
          /\ Goto(w, from, to)
          /\ from \in Processing <=> to \in Processing
          /\ from # "alias" /\ to # "alias"
    BY <1>2 DEF Receive, RecvClosed, Drop, Accept, ExecReturn, NoCache, WriteLine, Capture,
                Processing
  <2>3. At(Processing)' = At(Processing) /\ At({"alias"})' = At({"alias"})
    BY <1>0, <2>2, WorkerMoves
  <2>4. QED
    BY <2>1, <2>3 DEF Counted, Settled
<1>3. ASSUME NEW w \in Workers, Begin(w) PROVE StatsCount'
  <2>1. /\ stats' = [stats EXCEPT !["Total"] = @ + 1] /\ outcome' = outcome
        /\ Goto(w, "begin", "exec")
    BY <1>3 DEF Begin, Bump
  <2>2. /\ Cardinality(At(Processing)') = Cardinality(At(Processing)) + 1
        /\ Cardinality(At(Processing)) \in Nat
        /\ At({"alias"})' = At({"alias"})
    BY <1>0, <2>1, WorkerMoves DEF Processing
  <2>3. Settled' = Settled /\ Cardinality(Settled) \in Nat
    BY <2>1, FinitelyManyJobs DEF Settled
  <2>4. QED
    BY <1>0, <2>1, <2>2, <2>3 DEF Counted
<1>4. ASSUME NEW w \in Workers, CountOther(w) PROVE StatsCount'
  <2>1. /\ stats' = [stats EXCEPT !["CacheOther"] = @ + 1] /\ outcome' = outcome
        /\ Goto(w, "cache", "count")
    BY <1>4 DEF CountOther, Bump
  <2>2. At(Processing)' = At(Processing) /\ At({"alias"})' = At({"alias"})
    BY <1>0, <2>1, WorkerMoves DEF Processing
  <2>3. QED
    BY <1>0, <2>1, <2>2 DEF Counted, Settled
<1>5. ASSUME NEW w \in Workers, CountHit(w) PROVE StatsCount'
  <2>1. /\ stats' = [stats EXCEPT !["CacheHits"] = @ + 1] /\ outcome' = outcome
        /\ Goto(w, "cache", "alias")
    BY <1>5 DEF CountHit, Bump
  <2>2. /\ At(Processing)' = At(Processing)
        /\ Cardinality(At({"alias"})') = Cardinality(At({"alias"})) + 1
        /\ Cardinality(At({"alias"})) \in Nat
    BY <1>0, <2>1, WorkerMoves DEF Processing
  <2>3. QED
    BY <1>0, <2>1, <2>2 DEF Counted, Settled
<1>6. ASSUME NEW w \in Workers, CountAlias(w) PROVE StatsCount'
  <2>1. /\ stats' = [stats EXCEPT !["Cached"] = @ + 1] /\ outcome' = outcome
        /\ Goto(w, "alias", "count")
    BY <1>6 DEF CountAlias, Bump
  <2>2. /\ At(Processing)' = At(Processing)
        /\ Cardinality(At({"alias"})) = Cardinality(At({"alias"})') + 1
    BY <1>0, <2>1, WorkerMoves DEF Processing
  <2>3. Cardinality(At({"alias"})') \in Nat
    BY <1>0, <2>1, WorkerMoves
  <2>4. QED
    BY <1>0, <2>1, <2>2, <2>3 DEF Counted, Settled
<1>7. ASSUME NEW w \in Workers, CountOutcome(w) PROVE StatsCount'
  <2> DEFINE class == ClassOf(result[w])
  <2>1. /\ Goto(w, "count", "record")
        /\ stats' = [c \in Counters |-> stats[c] + IF c \in CounterOf[class] THEN 1 ELSE 0]
        /\ outcome' = [outcome EXCEPT ![job[w]] = class]
    BY <1>7 DEF CountOutcome
  <2>2. /\ job[w] \in Jobs /\ outcome[job[w]] = "open"
        /\ outcome \in [Jobs -> JobClass \cup {"open"}]
        /\ class \in JobClass
    BY <2>1, ClassIsClass
    DEF TypeInv, TypeOK, WorkerTypeOK, BookTypeOK, Shape, Ownership, HandsAgree, HasJob, Goto
  <2> HIDE DEF class
  <2>3. /\ Cardinality(At(Processing)) = Cardinality(At(Processing)') + 1
        /\ At({"alias"})' = At({"alias"})
        /\ Cardinality(At(Processing)') \in Nat
    BY <1>0, <2>1, WorkerMoves DEF Processing
  <2>4. /\ Settled' = Settled \cup {job[w]} /\ job[w] \notin Settled
        /\ Cardinality(Settled) \in Nat /\ IsFiniteSet(Settled)
    BY <2>1, <2>2, FinitelyManyJobs DEF Settled, JobClass
  <2>5. Cardinality(Settled') = Cardinality(Settled) + 1
    BY <2>4, FS_AddElement
  <2>6. ASSUME NEW k \in {"success", "failed"}
        PROVE  Cardinality(Counted(k)') = Cardinality(Counted(k)) + IF class = k THEN 1 ELSE 0
    <3>1. IsFiniteSet(Counted(k)) /\ Cardinality(Counted(k)) \in Nat
      BY FinitelyManyJobs DEF Counted
    <3>2. job[w] \notin Counted(k)
      BY <2>2 DEF Counted
    <3>3. Counted(k)' = IF class = k THEN Counted(k) \cup {job[w]} ELSE Counted(k)
      BY <2>1, <2>2 DEF Counted
    <3>4. Cardinality(Counted(k) \cup {job[w]}) = Cardinality(Counted(k)) + 1
      BY <3>1, <3>2, FS_AddElement
    <3>5. QED
      BY <3>1, <3>3, <3>4
  <2>7. /\ "Success" \in CounterOf[class] <=> class = "success"
        /\ "Failed" \in CounterOf[class] <=> class = "failed"
        /\ "Total" \notin CounterOf[class] /\ "Cached" \notin CounterOf[class]
        /\ "CacheHits" \notin CounterOf[class]
    BY <2>2 DEF CounterOf, JobClass
  <2>8. /\ stats'["Success"] = stats["Success"] + IF class = "success" THEN 1 ELSE 0
        /\ stats'["Failed"] = stats["Failed"] + IF class = "failed" THEN 1 ELSE 0
        /\ stats'["Total"] = stats["Total"] /\ stats'["Cached"] = stats["Cached"]
        /\ stats'["CacheHits"] = stats["CacheHits"]
    BY <1>0, <2>1, <2>7
  <2>9. QED
    BY <1>0, <2>3, <2>4, <2>5, <2>6, <2>8
<1>8. QED
  BY <1>1, <1>2, <1>3, <1>4, <1>5, <1>6, <1>7, Frames
  DEF Next, WorkerStep, Ended, vars, workerVars, bookVars

LEMMA LinesStep == TypeInv /\ Ownership /\ LinesFollow /\ [Next]_vars => LinesFollow'
<1> SUFFICES ASSUME TypeInv, Ownership, LinesFollow, [Next]_vars, fileOpen',
                    NEW j \in Jobs, outcome'[j] # "open", lines'[j] # <<outcome'[j]>>
             PROVE  \E w \in Workers : pc'[w] = "record" /\ job'[w] = j
  BY DEF LinesFollow
<1>0. /\ pc \in [Workers -> HasJob \cup {"idle", "exited"}]
      /\ job \in [Workers -> 0..NumJobs] /\ result \in [Workers -> Result]
      /\ \A w \in Workers : pc[w] \in HasJob => job[w] \in Jobs
      /\ outcome \in [Jobs -> JobClass \cup {"open"}]
      /\ lines \in [Jobs -> Seq(JobClass)]
  BY DEF TypeInv, TypeOK, WorkerTypeOK, BookTypeOK, Shape
<1>1. fileOpen
  BY DEF Next, MainStep, WorkerStep, ExecReturn, Ended, vars, mainVars, workerVars, bookVars,
         Cancel, StopProgress, CheckCtx, Send, SkipSend, SkipSendUnguarded, Stop, WaitDone,
         WaitCtx, JoinProgress, Load, Summarise, CloseFile, Exit, Receive, RecvClosed, Drop,
         Accept, Begin, NoCache, CountOther, CountHit, CountAlias, CountOutcome, WriteLine,
         Capture
<1>3. CASE outcome[j] # "open" /\ lines[j] # <<outcome[j]>>
  <2>1. PICK v \in Workers : pc[v] = "record" /\ job[v] = j
    BY <1>1, <1>3 DEF LinesFollow
  <2>2. ASSUME NEW w \in Workers, WriteLine(w) PROVE w # v
    <3>1. /\ pc[w] = "record"
          /\ lines' = [lines EXCEPT ![job[w]] = Append(@, ClassOf(result[w]))]
          /\ outcome' = outcome
      BY <1>1, <2>2 DEF WriteLine, Goto
    <3>2. lines[job[w]] = <<>> /\ outcome[job[w]] = ClassOf(result[w])
      BY <3>1 DEF Ownership, HandsAgree
    <3>3. lines'[job[w]] = <<outcome'[job[w]]>>
      <4>1. job[w] \in Jobs
        BY <1>0, <3>1 DEF HasJob
      <4>2. QED
        BY <1>0, <3>1, <3>2, <4>1
    <3>4. QED
      BY <2>1, <3>3
  <2>3. pc'[v] = "record" /\ job'[v] = j
    BY <1>0, <2>1, <2>2
    DEF Next, MainStep, WorkerStep, ExecReturn, Ended, vars, mainVars, workerVars, bookVars,
        Cancel, StopProgress, CheckCtx, Send, SkipSend, SkipSendUnguarded, Stop, WaitDone,
        WaitCtx, JoinProgress, Load, Summarise, CloseFile, Exit, Receive, RecvClosed, Drop,
        Accept, Begin, NoCache, CountOther, CountHit, CountAlias, CountOutcome, WriteLine,
        Capture, Goto
  <2>4. QED
    BY <2>3
<1>4. ASSUME outcome[j] = "open" \/ lines[j] = <<outcome[j]>>
      PROVE  \E w \in Workers : CountOutcome(w) /\ job[w] = j
  <2>1. lines[j] = <<outcome[j]>> => outcome[j] # "open" /\ lines[j] # <<>>
    <3>1. <<outcome[j]>> # <<>>
      OBVIOUS
    <3>2. QED
      BY <3>1, Zenon DEF Ownership, LineIsOutcome
  <2>2. ASSUME NEW w \in Workers, WriteLine(w) PROVE FALSE
    <3>1. /\ pc[w] = "record" /\ outcome' = outcome
          /\ lines' = [lines EXCEPT ![job[w]] = Append(@, ClassOf(result[w]))]
      BY <1>1, <2>2 DEF WriteLine, Goto
    <3>2. lines[job[w]] = <<>>
      BY <3>1 DEF Ownership, HandsAgree
    <3>3. job[w] # j
      BY <1>4, <2>1, <3>1, <3>2
    <3>4. lines'[j] = lines[j]
      BY <1>0, <3>1, <3>3
    <3>5. QED
      BY <1>4, <3>1, <3>4
  <2>3. ASSUME NEW w \in Workers, CountOutcome(w) PROVE job[w] = j
    BY <1>0, <1>4, <2>3 DEF CountOutcome, Goto
  <2>4. ~ UNCHANGED <<outcome, lines>>
    BY <1>4
  <2>5. QED
    BY <2>2, <2>3, <2>4, Frames
    DEF Next, WorkerStep, ExecReturn, Ended, vars, workerVars, bookVars, Receive, RecvClosed,
        Drop, Accept, Begin, NoCache, CountOther, CountHit, CountAlias, Capture
<1>5. ASSUME NEW w \in Workers, CountOutcome(w), job[w] = j
      PROVE  pc'[w] = "record" /\ job'[w] = j
  BY <1>0, <1>5 DEF CountOutcome, Goto
<1>6. QED
  BY <1>3, <1>4, <1>5

\* Counters only grow.
LEMMA StatsGrow ==
    ASSUME TypeInv, [Next]_vars
    PROVE  \A c \in Counters : stats[c] \in Nat /\ stats'[c] \in Nat /\ stats[c] <= stats'[c]
<1>0. stats \in [Counters -> Nat] /\ \A c \in Counters : stats[c] \in Nat
  BY DEF TypeInv, TypeOK, BookTypeOK
<1>1. CASE stats' = stats
  BY <1>0, <1>1
<1>2. ASSUME NEW d \in Counters, Bump(d) PROVE \A c \in Counters : stats'[c] \in Nat /\ stats[c] <= stats'[c]
  BY <1>0, <1>2 DEF Bump
<1>3. ASSUME NEW w \in Workers, CountOutcome(w)
      PROVE  \A c \in Counters : stats'[c] \in Nat /\ stats[c] <= stats'[c]
  <2>1. PICK class : stats' = [c \in Counters |->
                       stats[c] + IF c \in CounterOf[class] THEN 1 ELSE 0]
    BY <1>3 DEF CountOutcome
  <2>2. QED
    BY <1>0, <2>1
<1>4. QED
  BY <1>0, <1>1, <1>2, <1>3, Frames, CounterNames
  DEF Next, WorkerStep, ExecReturn, Ended, vars, workerVars, bookVars, Receive, RecvClosed,
      Drop, Accept, Begin, NoCache, CountOther, CountHit, CountAlias, WriteLine, Capture

\* What one load does to the snapshot.
LEMMA SnapGrows ==
    ASSUME TypeInv, Load
    PROVE  /\ Len(snap) \in 0..5 /\ Len(snap') = Len(snap) + 1
           /\ \A i \in 1..Len(snap) : snap'[i] = snap[i] /\ snap[i] \in Nat
           /\ snap'[Len(snap) + 1] = stats[SnapOrder[Len(snap) + 1]]
<1>1. Len(snap) \in 0..5 /\ snap \in Seq(Nat) /\ stats \in [Counters -> Nat]
  <2>1. snap \in Seq(Nat) /\ stats \in [Counters -> Nat]
    BY DEF TypeInv, TypeOK, MainTypeOK, BookTypeOK
  <2>2. Len(snap) \in Nat /\ Len(snap) < 6
    BY <2>1, CounterNames, LenProperties DEF Load, TypeInv, Shape
  <2>3. \A n \in Nat : n < 6 => n \in 0..5
    OBVIOUS
  <2>4. QED
    BY <2>1, <2>2, <2>3
<1>2. stats[SnapOrder[Len(snap) + 1]] \in Nat
  <2>1. \A n \in 0..5 : n + 1 \in 1..6
    OBVIOUS
  <2>2. QED
    BY <1>1, <2>1, CounterNames
<1>3. snap' = Append(snap, stats[SnapOrder[Len(snap) + 1]])
  BY DEF Load
<1>4. QED
  BY <1>1, <1>2, <1>3, AppendProperties, ElementOfSeq

LEMMA LoadedStep ==
    TypeInv /\ StatsCount /\ LoadedInOrder /\ [Next]_vars => LoadedInOrder'
<1> SUFFICES ASSUME TypeInv, StatsCount, LoadedInOrder, [Next]_vars PROVE LoadedInOrder'
  OBVIOUS
<1>0. /\ stats["Cached"] \in Nat /\ stats'["Cached"] \in Nat
      /\ stats["Cached"] <= stats'["Cached"]
      /\ stats["Cached"] <= stats["CacheHits"]
  <2>1. Cardinality(At({"alias"})) \in Nat
    BY FinitelyManyWorkers DEF At
  <2>2. QED
    BY <2>1, StatsGrow, CounterNames DEF StatsCount
<1>1. CASE Load
  <2>1. stats' = stats
    BY <1>1 DEF Load, bookVars
  <2>2. SnapOrder[4] = "Cached" /\ SnapOrder[5] = "CacheHits"
    BY DEF SnapOrder
  <2>3. CASE Len(snap) = 3
    <3>1. snap'[4] = stats["Cached"] /\ Len(snap') = 4
      BY <1>1, <2>2, <2>3, SnapGrows
    <3>2. QED
      BY <1>0, <2>1, <3>1 DEF LoadedInOrder
  <2>4. CASE Len(snap) = 4
    <3>1. snap'[4] = snap[4] /\ snap[4] \in Nat /\ snap'[5] = stats["CacheHits"]
      BY <1>1, <2>2, <2>4, SnapGrows
    <3>2. QED
      BY <1>0, <1>1, <2>1, <2>4, <3>1, StatsGrow, CounterNames, SnapGrows DEF LoadedInOrder
  <2>5. CASE Len(snap) = 5
    <3>1. snap'[4] = snap[4] /\ snap'[5] = snap[5]
      BY <1>1, <2>5, SnapGrows
    <3>2. QED
      BY <1>0, <1>1, <2>1, <2>5, <3>1, SnapGrows DEF LoadedInOrder
  <2>6. CASE Len(snap) \in 0..2
    BY <1>1, <2>6, SnapGrows DEF LoadedInOrder
  <2>7. QED
    BY <1>1, <2>3, <2>4, <2>5, <2>6, SnapGrows
<1>2. CASE snap' = snap
  <2>1. Len(snap) >= 4 => snap[4] \in Nat
    BY LenProperties, ElementOfSeq DEF TypeInv, TypeOK, MainTypeOK
  <2>2. QED
    BY <1>0, <1>2, <2>1 DEF LoadedInOrder
<1>3. QED
  BY <1>1, <1>2, Frames
  DEF Next, MainStep, Ended, vars, mainVars, Cancel, StopProgress, CheckCtx, Send, SkipSend,
      SkipSendUnguarded, Stop, WaitDone, WaitCtx, JoinProgress, Summarise, CloseFile, Exit

LEMMA BooksInvariant == Spec => []Books
<1>1. TypeInv /\ Ownership /\ Books /\ [Next]_vars => Books'
  BY StatsStep, LinesStep, LoadedStep DEF Books
<1>2. QED
  BY <1>1, BooksInit, TypeInvariant, OwnershipInvariant, PTL DEF Spec

\* Total, Success and Failed are the numbers of jobs they stand for, and while
\* the file is open every settled job has its line or a worker about to
\* write it, wherever workers, producer and cancellation are.
THEOREM CountersAlwaysAgree == Spec => []CountersAgree
<1>1. Books => CountersAgree
  BY DEF Books, StatsCount, LinesFollow, CountersAgree, Settled, At
<1>2. QED
  BY <1>1, BooksInvariant, PTL

\* A snapshot taken in the middle of any number of updates never shows the
\* legacy Cached above CacheHits.
THEOREM AliasStaysBehind == Spec => []AliasNeverAhead
<1>1. Books => AliasNeverAhead
  BY SnapIndex DEF Books, LoadedInOrder, AliasNeverAhead
<1>2. QED
  BY <1>1, BooksInvariant, PTL
-----------------------------------------------------------------------------
(* The end of a run. *)

\* The stages of main open and close the channel and the file; once Wait has
\* seen the workers exit, none is left.
Stages ==
    /\ fileOpen <=> main \notin {"closed", "exited"}
    /\ closed <=> main \notin {"check", "send", "stop"}
    /\ drained => main \notin {"check", "send", "stop", "wait"}
                  /\ \A w \in Workers : pc[w] = "exited"

\* What was submitted is somewhere ...
Found(j) ==
    \/ \E i \in 1..Len(queue) : queue[i] = j
    \/ \E w \in Workers : pc[w] \in HasJob /\ job[w] = j
    \/ outcome[j] # "open"

\* ... unless the run is cancelled, and then only does Wait return early.
NothingLost ==
    ~ctxDone =>
        /\ \A j \in Jobs : j <= submitted => Found(j)
        /\ main \notin {"check", "send"} => submitted = NumJobs
        /\ \A w \in Workers : pc[w] = "exited" => closed /\ queue = <<>>
        /\ main \notin {"check", "send", "stop", "wait"} => drained

\* The failures are the failed jobs but those still to be captured.
FailuresFollow ==
    \A j \in Jobs :
        j \in failures <=> /\ outcome[j] = "failed"
                          /\ \A w \in Workers : job[w] = j => pc[w] \notin {"record", "capture"}

\* After the last worker has gone the books do not change, so the summary is
\* theirs.
Summary ==
    /\ main \in {"failures", "close", "closed", "exited"} => Len(snap) = 6
    /\ main \in {"closed", "exited"} =>
         exit = IF StopOnError /\ Snapped("Failed") > 0 THEN 1 ELSE 0
    /\ drained =>
         /\ \A j \in Jobs : outcome[j] = "open" \/ lines[j] = <<outcome[j]>>
         /\ \A i \in 1..Len(snap) : snap[i] = stats[SnapOrder[i]]
         /\ main \in {"close", "closed", "exited"} => snapFailures = failures

LEMMA StagesInit == Init => Stages /\ NothingLost /\ FailuresFollow /\ Summary
BY PoolAssumption DEF Init, Stages, NothingLost, FailuresFollow, Summary, Jobs

LEMMA StagesStep == TypeInv /\ Stages /\ [Next]_vars => Stages'
<1> SUFFICES ASSUME TypeInv, Stages, [Next]_vars PROVE Stages'
  OBVIOUS
<1>1. ASSUME NEW w \in Workers, WorkerStep(w) \/ ExecReturn(w) PROVE Stages'
  <2>1. ~drained /\ UNCHANGED <<main, closed, drained, fileOpen>>
    <3>1. pc[w] # "exited"
      BY <1>1 DEF WorkerStep, ExecReturn, Receive, RecvClosed, Drop, Accept, Begin, NoCache,
                  CountOther, CountHit, CountAlias, CountOutcome, WriteLine, Capture, Goto
    <3>2. QED
      BY <1>1, <3>1, Frames DEF Stages, mainVars
  <2>2. QED
    BY <2>1 DEF Stages
<1>2. CASE MainStep \/ Cancel \/ StopProgress \/ UNCHANGED vars
  <2>1. pc' = pc
    BY <1>2, Frames DEF vars, workerVars
  <2>2. QED
    BY <1>2, <2>1
    DEF Stages, MainStep, Cancel, StopProgress, vars, mainVars, CheckCtx, Send, SkipSend,
        SkipSendUnguarded, Stop, WaitDone, WaitCtx, JoinProgress, Load, Summarise, CloseFile,
        Exit
<1>3. QED
  BY <1>1, <1>2 DEF Next, Ended

LEMMA NothingLostStep ==
    TypeInv /\ Ownership /\ Stages /\ NothingLost /\ [Next]_vars => NothingLost'
<1> SUFFICES ASSUME TypeInv, Ownership, Stages, NothingLost, [Next]_vars, ~ctxDone'
             PROVE  NothingLost'
  BY DEF NothingLost
<1>0. /\ pc \in [Workers -> HasJob \cup {"idle", "exited"}]
      /\ job \in [Workers -> 0..NumJobs] /\ result \in [Workers -> Result]
      /\ \A w \in Workers : pc[w] \in HasJob => job[w] \in Jobs
      /\ outcome \in [Jobs -> JobClass \cup {"open"}]
      /\ queue \in Seq(Jobs) /\ submitted \in 0..NumJobs
  BY DEF TypeInv, TypeOK, WorkerTypeOK, BookTypeOK, MainTypeOK, Shape
<1>1. ~ctxDone
  BY DEF Next, MainStep, WorkerStep, ExecReturn, Ended, vars, Cancel, StopProgress, CheckCtx,
         Send, SkipSend, SkipSendUnguarded, Stop, WaitDone, WaitCtx, JoinProgress, Load,
         Summarise, CloseFile, Exit, Receive, RecvClosed, Drop, Accept, Begin, NoCache,
         CountOther, CountHit, CountAlias, CountOutcome, WriteLine, Capture
<1>2. CASE Send
  <2>1. /\ \A i \in 1..Len(queue) : i \in 1..Len(queue') /\ queue'[i] = queue[i]
        /\ Len(queue') \in 1..Len(queue') /\ queue'[Len(queue')] = submitted + 1
        /\ submitted' = submitted + 1 /\ main = "send" /\ main' = "check"
        /\ UNCHANGED <<closed, drained, pc, job, outcome>>
    <3>1. submitted + 1 \in Jobs
      BY <1>0, <1>2, PoolAssumption DEF Send, TypeInv, Shape, Jobs
    <3>2. QED
      BY <1>0, <1>2, <3>1, AppendProperties, LenProperties DEF Send, workerVars, bookVars
  <2>2. \A w \in Workers : pc[w] # "exited"
    BY <1>1, <2>1 DEF NothingLost, Stages
  <2>3. ASSUME NEW j \in Jobs, j <= submitted' PROVE Found(j)'
    <3>1. j <= submitted \/ j = submitted + 1
      BY <1>0, <2>1, <2>3, PoolAssumption DEF Jobs
    <3>2. CASE j <= submitted
      <4>1. Found(j)
        BY <1>1, <3>2 DEF NothingLost
      <4>2. QED
        BY <2>1, <4>1 DEF Found
    <3>3. CASE j = submitted + 1
      BY <2>1, <3>3 DEF Found
    <3>4. QED
      BY <3>1, <3>2, <3>3
  <2>4. QED
    BY <2>1, <2>2, <2>3 DEF NothingLost
<1>3. ASSUME NEW w \in Workers, Receive(w) PROVE NothingLost'
  <2>1. /\ queue # <<>> /\ job' = [job EXCEPT ![w] = queue[1]]
        /\ pc' = [pc EXCEPT ![w] = "got"] /\ pc[w] = "idle"
        /\ \A i \in 1..Len(queue) : i = 1 \/ (i - 1 \in 1..Len(queue') /\ queue'[i - 1] = queue[i])
        /\ UNCHANGED <<submitted, main, closed, drained, outcome>>
    <3>1. /\ queue # <<>> /\ job' = [job EXCEPT ![w] = queue[1]] /\ queue' = Tail(queue)
          /\ pc' = [pc EXCEPT ![w] = "got"] /\ pc[w] = "idle"
          /\ UNCHANGED <<submitted, main, closed, drained, outcome>>
      BY <1>0, <1>3, TailOfQueue DEF Receive, Goto, mainVars, bookVars
    <3>2. /\ Len(queue) \in Nat /\ Len(queue') = Len(queue) - 1
          /\ \A i \in 1..Len(queue') : queue'[i] = queue[i + 1]
      BY <1>0, <3>1, TailOfQueue
    <3>3. ASSUME NEW i \in 1..Len(queue), i # 1
          PROVE  i - 1 \in 1..Len(queue') /\ queue'[i - 1] = queue[i]
      <4>1. i - 1 \in 1..Len(queue') /\ (i - 1) + 1 = i
        BY <3>2, <3>3
      <4>2. QED
        BY <3>2, <4>1
    <3>4. QED
      BY <3>1, <3>3
  <2>2. ASSUME NEW j \in Jobs, Found(j) PROVE Found(j)'
    <3>1. CASE \E i \in 1..Len(queue) : queue[i] = j
      <4>1. PICK i \in 1..Len(queue) : queue[i] = j
        BY <3>1
      <4>2. CASE i = 1
        BY <1>0, <2>1, <4>1, <4>2 DEF Found, HasJob
      <4>3. CASE i # 1
        BY <2>1, <4>1, <4>3 DEF Found
      <4>4. QED
        BY <4>2, <4>3
    <3>2. CASE \E v \in Workers : pc[v] \in HasJob /\ job[v] = j
      BY <1>0, <2>1, <3>2 DEF Found, HasJob
    <3>3. CASE outcome[j] # "open"
      BY <2>1, <3>3 DEF Found
    <3>4. QED
      BY <2>2, <3>1, <3>2, <3>3 DEF Found
  <2>3. \A v \in Workers : pc'[v] # "exited"
    BY <1>0, <1>1, <2>1 DEF NothingLost
  <2>4. QED
    BY <1>1, <2>1, <2>2, <2>3 DEF NothingLost
<1>4. ASSUME NEW w \in Workers,
             \/ RecvClosed(w) \/ Accept(w) \/ Begin(w) \/ ExecReturn(w) \/ NoCache(w)
             \/ CountOther(w) \/ CountHit(w) \/ CountAlias(w) \/ CountOutcome(w)
             \/ WriteLine(w) \/ Capture(w)
      PROVE  NothingLost'
  <2>1. UNCHANGED <<queue, submitted, main, closed, drained>>
    BY <1>4 DEF RecvClosed, Accept, Begin, ExecReturn, NoCache, CountOther, CountHit,
                CountAlias, CountOutcome, WriteLine, Capture, mainVars
  <2>2. \A v \in Workers : pc'[v] = "exited" => pc[v] = "exited" \/ (closed /\ queue = <<>>)
    BY <1>0, <1>4
    DEF RecvClosed, Accept, Begin, ExecReturn, NoCache, CountOther, CountHit, CountAlias,
        CountOutcome, WriteLine, Capture, Goto
  <2>3. ASSUME NEW v \in Workers, pc[v] \in HasJob, pc'[v] \notin HasJob
        PROVE  v = w /\ Capture(w)
    BY <1>0, <1>4, <2>3
    DEF RecvClosed, Accept, Begin, ExecReturn, NoCache, CountOther, CountHit, CountAlias,
        CountOutcome, WriteLine, Capture, Goto, HasJob
  <2>4. ASSUME NEW v \in Workers, pc'[v] \in HasJob PROVE job'[v] = job[v]
    BY <1>0, <1>4, <2>4
    DEF RecvClosed, Accept, Begin, ExecReturn, NoCache, CountOther, CountHit, CountAlias,
        CountOutcome, WriteLine, Capture, Goto, HasJob
  <2>5. ASSUME NEW j \in Jobs, outcome[j] # "open" PROVE outcome'[j] # "open"
    <3>1. \A r \in Result : ClassOf(r) # "open"
      BY ClassIsClass DEF JobClass
    <3>2. QED
      BY <1>0, <1>4, <2>5, <3>1
      DEF RecvClosed, Accept, Begin, ExecReturn, NoCache, CountOther, CountHit, CountAlias,
          CountOutcome, WriteLine, Capture, bookVars
  <2>6. Capture(w) => outcome'[job[w]] # "open"
    <3>1. ASSUME Capture(w) PROVE outcome'[job[w]] = ClassOf(result[w])
      BY <3>1 DEF Capture, Goto, Ownership, HandsAgree
    <3>2. QED
      BY <1>0, <3>1, ClassIsClass DEF JobClass
  <2>7. ASSUME NEW j \in Jobs, Found(j) PROVE Found(j)'
    BY <2>1, <2>3, <2>4, <2>5, <2>6, <2>7 DEF Found
  <2>8. QED
    BY <1>1, <2>1, <2>2, <2>7 DEF NothingLost
<1>5. CASE CheckCtx \/ Stop \/ WaitDone \/ JoinProgress \/ Load \/ Summarise \/ CloseFile
           \/ Exit \/ StopProgress
  <2>1. UNCHANGED <<pc, job, outcome>>
    BY <1>5, Frames DEF MainStep, workerVars, bookVars
  <2>2. UNCHANGED <<queue, submitted>>
    BY <1>5 DEF CheckCtx, Stop, WaitDone, JoinProgress, Load, Summarise, CloseFile, Exit,
                StopProgress, mainVars
  <2>3. \A j \in Jobs : Found(j)' = Found(j)
    BY <2>1, <2>2 DEF Found
  <2>4. /\ closed => closed'
        /\ main' \notin {"check", "send"} => main \notin {"check", "send"} \/ submitted = NumJobs
        /\ main' \notin {"check", "send", "stop", "wait"} =>
             drained' \/ (drained' = drained /\ main \notin {"check", "send", "stop", "wait"})
    BY <1>1, <1>5
    DEF CheckCtx, Stop, WaitDone, JoinProgress, Load, Summarise, CloseFile, Exit, StopProgress,
        mainVars
  <2>5. QED
    BY <1>1, <2>1, <2>2, <2>3, <2>4 DEF NothingLost
<1>6. CASE UNCHANGED vars
  BY <1>1, <1>6 DEF NothingLost, Found, vars, mainVars, workerVars, bookVars
<1>7. QED
  BY <1>1, <1>2, <1>3, <1>4, <1>5, <1>6
  DEF Next, MainStep, WorkerStep, Ended, Cancel, SkipSend, WaitCtx, Drop

LEMMA FailuresStep ==
    TypeInv /\ Ownership /\ FailuresFollow /\ [Next]_vars => FailuresFollow'
<1> SUFFICES ASSUME TypeInv, Ownership, FailuresFollow, [Next]_vars PROVE FailuresFollow'
  OBVIOUS
<1>0. /\ pc \in [Workers -> HasJob \cup {"idle", "exited"}]
      /\ job \in [Workers -> 0..NumJobs] /\ result \in [Workers -> Result]
      /\ \A w \in Workers : pc[w] \in HasJob <=> job[w] \in Jobs
      /\ outcome \in [Jobs -> JobClass \cup {"open"}]
  BY DEF TypeInv, TypeOK, WorkerTypeOK, BookTypeOK, Shape
<1>1. CASE UNCHANGED <<failures, outcome, pc, job>>
  BY <1>1 DEF FailuresFollow
<1>2. ASSUME NEW w \in Workers,
             \/ Receive(w) \/ RecvClosed(w) \/ Drop(w) \/ Accept(w) \/ Begin(w)
             \/ ExecReturn(w) \/ NoCache(w) \/ CountOther(w) \/ CountHit(w) \/ CountAlias(w)
             \/ WriteLine(w)
      PROVE  FailuresFollow'
  <2>1. /\ UNCHANGED <<failures, outcome>>
        /\ \A v \in Workers \ {w} : pc'[v] = pc[v] /\ job'[v] = job[v]
        /\ pc'[w] \in {"record", "capture"} <=> pc[w] \in {"record", "capture"}
        /\ pc[w] \in {"record", "capture"} => job'[w] = job[w]
    BY <1>0, <1>2
    DEF Receive, RecvClosed, Drop, Accept, Begin, ExecReturn, NoCache, CountOther, CountHit,
        CountAlias, WriteLine, Goto, bookVars
  <2>2. ASSUME NEW j \in Jobs
        PROVE  (\A v \in Workers : job'[v] = j => pc'[v] \notin {"record", "capture"})
                 <=> (\A v \in Workers : job[v] = j => pc[v] \notin {"record", "capture"})
    BY <2>1
  <2>3. QED
    BY <2>1, <2>2 DEF FailuresFollow
<1>3. ASSUME NEW w \in Workers, CountOutcome(w) PROVE FailuresFollow'
  <2>1. /\ pc[w] = "count" /\ pc' = [pc EXCEPT ![w] = "record"]
        /\ outcome' = [outcome EXCEPT ![job[w]] = ClassOf(result[w])]
        /\ UNCHANGED <<failures, job>>
    BY <1>3 DEF CountOutcome, Goto
  <2>2. job[w] \in Jobs /\ outcome[job[w]] = "open"
    BY <1>0, <2>1 DEF HasJob, Ownership, HandsAgree
  <2>3. ASSUME NEW j \in Jobs, j # job[w]
        PROVE  (j \in failures)' <=>
                 /\ outcome'[j] = "failed"
                 /\ \A v \in Workers : job'[v] = j => pc'[v] \notin {"record", "capture"}
    BY <1>0, <2>1, <2>3 DEF FailuresFollow
  <2>4. job[w] \notin failures /\ pc'[w] = "record"
    BY <1>0, <2>1, <2>2 DEF FailuresFollow
  <2>5. QED
    BY <2>1, <2>3, <2>4 DEF FailuresFollow
<1>4. ASSUME NEW w \in Workers, Capture(w) PROVE FailuresFollow'
  <2>1. /\ pc[w] = "capture" /\ pc' = [pc EXCEPT ![w] = "idle"]
        /\ job' = [job EXCEPT ![w] = 0] /\ outcome' = outcome
        /\ failures' = failures \cup (IF ClassOf(result[w]) = "failed" THEN {job[w]} ELSE {})
    BY <1>4 DEF Capture, Goto
  <2>2. /\ job[w] \in Jobs /\ outcome[job[w]] = ClassOf(result[w])
        /\ \A v \in Workers \ {w} : job[v] = job[w] => pc[v] \notin HasJob
    BY <1>0, <2>1 DEF HasJob, Ownership, HandsAgree, HeldOnce
  <2>3. ASSUME NEW j \in Jobs, j # job[w]
        PROVE  (\A v \in Workers : job'[v] = j => pc'[v] \notin {"record", "capture"})
                 <=> (\A v \in Workers : job[v] = j => pc[v] \notin {"record", "capture"})
    BY <1>0, <2>1, <2>3, ZeroIsNoJob
  <2>4. ASSUME NEW j \in Jobs, j # job[w]
        PROVE  (j \in failures)' <=>
                 /\ outcome'[j] = "failed"
                 /\ \A v \in Workers : job'[v] = j => pc'[v] \notin {"record", "capture"}
    BY <2>1, <2>3, <2>4 DEF FailuresFollow
  <2>5. \A v \in Workers : job'[v] = job[w] => pc'[v] \notin {"record", "capture"}
    BY <1>0, <2>1, <2>2 DEF HasJob
  <2>6. job[w] \in failures' <=> outcome[job[w]] = "failed"
    BY <1>0, <2>1, <2>2 DEF FailuresFollow
  <2>7. QED
    BY <2>1, <2>4, <2>5, <2>6 DEF FailuresFollow
<1>5. QED
  BY <1>1, <1>2, <1>3, <1>4, Frames
  DEF Next, WorkerStep, Ended, vars, workerVars, bookVars

LEMMA SummaryStep ==
    TypeInv /\ Stages /\ Books /\ Summary /\ [Next]_vars => Summary'
<1> SUFFICES ASSUME TypeInv, Stages, Books, Summary, [Next]_vars PROVE Summary'
  OBVIOUS
<1>1. ASSUME NEW w \in Workers, WorkerStep(w) \/ ExecReturn(w) PROVE Summary'
  <2>1. UNCHANGED <<main, drained, snap, snapFailures, exit>>
    BY <1>1, Frames DEF mainVars
  <2>2. pc[w] # "exited"
    BY <1>1 DEF WorkerStep, ExecReturn, Receive, RecvClosed, Drop, Accept, Begin, NoCache,
                CountOther, CountHit, CountAlias, CountOutcome, WriteLine, Capture, Goto
  <2>3. ~drained
    BY <2>2 DEF Stages
  <2>4. QED
    BY <2>1, <2>3 DEF Summary, Snapped
<1>2. CASE Load
  <2>1. /\ Len(snap') = Len(snap) + 1 /\ Len(snap) \in 0..5
        /\ \A i \in 1..Len(snap) : snap'[i] = snap[i]
        /\ snap'[Len(snap) + 1] = stats[SnapOrder[Len(snap) + 1]]
    BY <1>2, SnapGrows
  <2>2. /\ UNCHANGED <<drained, exit, snapFailures, stats, lines, failures, outcome>>
        /\ main = "snap" /\ main' = IF Len(snap') = 6 THEN "failures" ELSE "snap"
    BY <1>2, CounterNames DEF Load, bookVars
  <2>3. ASSUME drained, NEW i \in 1..Len(snap') PROVE snap'[i] = stats'[SnapOrder[i]]
    <3>1. i \in 1..Len(snap) \/ i = Len(snap) + 1
      BY <2>1
    <3>2. QED
      BY <2>1, <2>2, <2>3, <3>1 DEF Summary
  <2>4. main' \notin {"closed", "exited", "close"} /\ (main' = "failures" => Len(snap') = 6)
    BY <2>2
  <2>5. drained' => \A j \in Jobs : outcome'[j] = "open" \/ lines'[j] = <<outcome'[j]>>
    BY <2>2 DEF Summary
  <2>6. QED
    BY <2>2, <2>3, <2>4, <2>5 DEF Summary
<1>3. CASE WaitDone
  <2>1. /\ main = "wait" /\ \A w \in Workers : pc[w] = "exited"
        /\ main' = "join" /\ UNCHANGED <<snap, stats, lines, outcome>>
    BY <1>3 DEF WaitDone, bookVars
  <2>2. fileOpen /\ snap = <<>>
    BY <2>1 DEF Stages, TypeInv, Shape
  <2>3. \A j \in Jobs : outcome[j] = "open" \/ lines[j] = <<outcome[j]>>
    BY <2>1, <2>2 DEF Books, LinesFollow
  <2>4. Len(snap) = 0
    BY <2>2, EmptySeq
  <2>5. QED
    BY <2>1, <2>3, <2>4 DEF Summary
<1>4. CASE \/ Cancel \/ StopProgress \/ CheckCtx \/ Send \/ SkipSend \/ Stop \/ WaitCtx
           \/ JoinProgress \/ Summarise \/ CloseFile \/ Exit \/ UNCHANGED vars
  <2>1. UNCHANGED <<drained, snap, stats, lines, outcome, failures>>
    BY <1>4 DEF Cancel, StopProgress, CheckCtx, Send, SkipSend, SkipSendUnguarded, Stop,
                WaitCtx, JoinProgress, Summarise, CloseFile, Exit, vars, mainVars, bookVars
  <2>2. Snapped("Failed")' = Snapped("Failed")
    BY <2>1 DEF Snapped
  <2>3. /\ main' \in {"failures", "close", "closed", "exited"} => Len(snap) = 6
        /\ main' \in {"closed", "exited"} =>
             exit' = IF StopOnError /\ Snapped("Failed") > 0 THEN 1 ELSE 0
        /\ drained /\ main' \in {"close", "closed", "exited"} => snapFailures' = failures
    BY <1>4 DEF Summary, Cancel, StopProgress, CheckCtx, Send, SkipSend, SkipSendUnguarded, Stop,
                WaitCtx, JoinProgress, Summarise, CloseFile, Exit, vars, mainVars
  <2>4. QED
    BY <2>1, <2>2, <2>3 DEF Summary
<1>5. QED
  BY <1>1, <1>2, <1>3, <1>4 DEF Next, MainStep, Ended

LEMMA EndInvariant == Spec => [](Stages /\ NothingLost /\ FailuresFollow /\ Summary)
BY StagesInit, StagesStep, NothingLostStep, FailuresStep, SummaryStep, TypeInvariant,
   OwnershipInvariant, BooksInvariant, PTL DEF Spec

\* A run nobody cancels submits, processes and writes every planned job before
\* it goes on to the summary: the channel is empty and closed when the last
\* worker leaves, and no line is lost while the file is open.
THEOREM NoJobIsLost == Spec => []CompleteUnlessCancelled
<1>1. TypeInv /\ Stages /\ NothingLost /\ Summary => CompleteUnlessCancelled
  <2> SUFFICES ASSUME TypeInv, Stages, NothingLost, Summary, ~ctxDone,
                      main \notin {"check", "send", "stop", "wait"}
               PROVE  /\ drained
                      /\ submitted = NumJobs
                      /\ \A j \in Jobs : \E class \in JobClass : lines[j] = <<class>>
    BY DEF CompleteUnlessCancelled
  <2>1. drained /\ submitted = NumJobs /\ \A w \in Workers : pc[w] = "exited"
    BY DEF NothingLost, Stages
  <2>2. Len(queue) = 0
    BY <2>1, PoolAssumption, EmptySeq DEF NothingLost
  <2>3. ASSUME NEW j \in Jobs PROVE \E class \in JobClass : lines[j] = <<class>>
    <3>1. j <= submitted
      BY <2>1, PoolAssumption DEF Jobs
    <3>2. Found(j)
      BY <3>1 DEF NothingLost
    <3>3. outcome[j] # "open"
      BY <2>1, <2>2, <3>2 DEF Found, HasJob
    <3>4. outcome[j] \in JobClass
      BY <3>3 DEF TypeInv, TypeOK, BookTypeOK
    <3>5. QED
      BY <2>1, <3>3, <3>4 DEF Summary
  <2>4. QED
    BY <2>1, <2>3
<1>2. QED
  BY <1>1, TypeInvariant, EndInvariant, PTL

\* When Wait saw every worker exit, summary, exit code, failures and JSONL
\* file tell the same story, for every plan and every cancellation that came
\* too late to matter.
THEOREM SummaryIsExact == Spec => []DrainedSummaryExact
<1>1. TypeInv /\ Ownership /\ Books /\ Stages /\ FailuresFollow /\ Summary
        => DrainedSummaryExact
  <2> SUFFICES ASSUME TypeInv, Ownership, Books, Stages, FailuresFollow, Summary, drained,
                      main \in {"closed", "exited"}
               PROVE  /\ Snapped("Success") = Cardinality(Written("success"))
                      /\ Snapped("Failed") = Cardinality(Written("failed"))
                      /\ Snapped("Total") = Cardinality({j \in Jobs : lines[j] # <<>>})
                      /\ Snapped("Cached") = Snapped("CacheHits")
                      /\ snapFailures = Written("failed")
                      /\ exit = IF StopOnError /\ Written("failed") # {} THEN 1 ELSE 0
    BY DEF DrainedSummaryExact
  <2>1. /\ \A j \in Jobs : outcome[j] = "open" \/ lines[j] = <<outcome[j]>>
        /\ \A j \in Jobs : lines[j] # <<>> => lines[j] = <<outcome[j]>> /\ outcome[j] # "open"
    BY DEF Summary, Ownership, LineIsOutcome
  <2>2. Written("success") = Counted("success") /\ Written("failed") = Counted("failed")
    BY <2>1 DEF Written, Counted
  <2>3. {j \in Jobs : lines[j] # <<>>} = Settled
    BY <2>1 DEF Settled
  <2>4. At(Processing) = {} /\ At({"alias"}) = {}
    BY DEF Stages, At, Processing
  <2>5. /\ snap[1] = stats["Total"] /\ snap[2] = stats["Success"] /\ snap[3] = stats["Failed"]
        /\ snap[4] = stats["Cached"] /\ snap[5] = stats["CacheHits"]
    <3>1. Len(snap) = 6
      BY DEF Summary
    <3>2. /\ SnapOrder[1] = "Total" /\ SnapOrder[2] = "Success" /\ SnapOrder[3] = "Failed"
          /\ SnapOrder[4] = "Cached" /\ SnapOrder[5] = "CacheHits"
      BY DEF SnapOrder
    <3>3. QED
      BY <3>1, <3>2 DEF Summary
  <2>6. /\ Cardinality(Settled) \in Nat /\ Cardinality(At(Processing)) = 0
        /\ Cardinality(At({"alias"})) = 0 /\ stats["Cached"] \in Nat
    BY <2>4, FS_EmptySet, FinitelyManyJobs, CounterNames
    DEF Settled, TypeInv, TypeOK, BookTypeOK
  <2>7. snapFailures = Written("failed")
    <3>1. \A j \in Jobs : j \in failures <=> outcome[j] = "failed"
      BY DEF FailuresFollow, Stages
    <3>2. snapFailures = failures /\ failures \subseteq Jobs
      BY DEF Summary, TypeInv, TypeOK, BookTypeOK
    <3>3. QED
      BY <2>2, <3>1, <3>2 DEF Counted
  <2>8. Snapped("Failed") = Cardinality(Written("failed"))
    BY <2>2, <2>5, SnapIndex DEF Books, StatsCount
  <2>9. exit = IF StopOnError /\ Written("failed") # {} THEN 1 ELSE 0
    <3>1. /\ Cardinality(Written("failed")) \in Nat
          /\ Cardinality(Written("failed")) = 0 <=> Written("failed") = {}
      BY FinitelyManyJobs, FS_EmptySet DEF Written
    <3>2. QED
      BY <2>8, <3>1 DEF Summary
  <2>10. Snapped("Success") = Cardinality(Written("success"))
    BY <2>2, <2>5, SnapIndex DEF Books, StatsCount
  <2>11. Snapped("Total") = Cardinality({j \in Jobs : lines[j] # <<>>})
    <3>1. stats["Total"] = Cardinality(Settled)
      BY <2>6 DEF Books, StatsCount
    <3>2. QED
      BY <2>3, <2>5, <3>1, SnapIndex
  <2>12. Snapped("Cached") = Snapped("CacheHits")
    BY <2>5, <2>6, SnapIndex DEF Books, StatsCount
  <2>13. QED
    BY <2>7, <2>8, <2>9, <2>10, <2>11, <2>12
<1>2. QED
  BY <1>1, TypeInvariant, OwnershipInvariant, BooksInvariant, EndInvariant, PTL
-----------------------------------------------------------------------------
(* Pool implements JobLedger: a step of the run is a step of the ledger or   *)
(* leaves it alone.                                                          *)

Before == {"check", "send", "stop", "wait"}
-----------------------------------------------------------------------------
(* The status of a job. *)

\* The parts of the invariants the steps below rest on.
LEMMA Placed ==
    ASSUME TypeInv, Ownership
    PROVE  /\ pc \in [Workers -> HasJob \cup {"idle", "exited"}]
           /\ job \in [Workers -> 0..NumJobs] /\ result \in [Workers -> Result]
           /\ outcome \in [Jobs -> JobClass \cup {"open"}]
           /\ queue \in Seq(Jobs) /\ submitted \in 0..NumJobs
           /\ \A w \in Workers : pc[w] \in HasJob <=> job[w] \in Jobs
           /\ \A v, w \in Workers : pc[v] \in HasJob /\ job[v] = job[w] => v = w
           /\ \A w \in Workers : pc[w] \in HasJob \ {"record", "capture"} => outcome[job[w]] = "open"
           /\ \A w \in Workers : pc[w] \in {"record", "capture"} => outcome[job[w]] # "open"
           /\ \A w \in Workers : pc[w] \in HasJob => job[w] <= submitted
<1>1. \A w \in Workers : ClassOf(result[w]) # "open"
  BY ClassIsClass DEF TypeInv, TypeOK, WorkerTypeOK, JobClass
<1>2. /\ pc \in [Workers -> HasJob \cup {"idle", "exited"}]
      /\ job \in [Workers -> 0..NumJobs] /\ result \in [Workers -> Result]
      /\ outcome \in [Jobs -> JobClass \cup {"open"}]
      /\ queue \in Seq(Jobs) /\ submitted \in 0..NumJobs
  BY DEF TypeInv, TypeOK, WorkerTypeOK, BookTypeOK, MainTypeOK
<1>3. \A w \in Workers : pc[w] \in HasJob <=> job[w] \in Jobs
  BY DEF TypeInv, Shape
<1>4. \A v, w \in Workers : pc[v] \in HasJob /\ job[v] = job[w] => v = w
  BY <1>3 DEF Ownership, HeldOnce
<1>5. QED
  BY <1>1, <1>2, <1>3, <1>4 DEF Ownership, HandsAgree, HeldOnce

\* A step of a worker says nothing of the jobs it has not in hand.
LEMMA OthersKeepStatus ==
    ASSUME NEW w \in Workers, NEW j \in Jobs,
           \A v \in Workers \ {w} : pc'[v] = pc[v] /\ job'[v] = job[v],
           job[w] # j, job'[w] # j,
           UNCHANGED <<queue, submitted>>, outcome'[j] = outcome[j]
    PROVE  StatusOf(j)' = StatusOf(j)
<1>1. RunsIt(j)' = RunsIt(j)
  BY DEF RunsIt
<1>2. WaitsFor(j)' = WaitsFor(j)
  BY DEF WaitsFor
<1>3. QED
  BY <1>1, <1>2 DEF StatusOf

\* A job in hand and not yet counted runs exactly in process.
LEMMA StatusInHand ==
    ASSUME TypeInv, Ownership, NEW w \in Workers, pc[w] \in HasJob \ {"record", "capture"}
    PROVE  StatusOf(job[w]) = IF pc[w] \in Processing THEN "running" ELSE "pending"
<1>1. job[w] \in Jobs /\ outcome[job[w]] = "open"
  BY Placed
<1>2. RunsIt(job[w]) <=> pc[w] \in Processing
  BY Placed DEF RunsIt, Processing, HasJob
<1>3. pc[w] \notin Processing => WaitsFor(job[w])
  BY DEF WaitsFor, HasJob, Processing
<1>4. QED
  BY <1>1, <1>2, <1>3 DEF StatusOf

\* At most one job runs per worker.
LEMMA SlotsSuffice ==
    ASSUME TypeInv, Ownership, NEW w \in Workers, pc[w] \notin Processing
    PROVE  Cardinality({j \in Jobs : StatusOf(j) = "running"}) < Cardinality(Workers)
<1> DEFINE R == {j \in Jobs : StatusOf(j) = "running"}
<1>1. /\ IsFiniteSet(Workers) /\ Cardinality(Workers) \in Nat
      /\ IsFiniteSet(Workers \ {w}) /\ Cardinality(Workers \ {w}) = Cardinality(Workers) - 1
  BY PoolAssumption, FS_CardinalityType, FS_RemoveElement
<1>2. \A j \in R : \E v \in Workers \ {w} : job[v] = j
  <2>1. \A j \in R : RunsIt(j)
    BY Placed DEF StatusOf, JobClass
  <2>2. QED
    BY <2>1 DEF RunsIt
<1>3. PICK f \in [R -> Workers \ {w}] : \A j \in R : job[f[j]] = j
  <2> DEFINE g == [j \in R |-> CHOOSE v \in Workers \ {w} : job[v] = j]
  <2>1. \A j \in R : g[j] \in Workers \ {w} /\ job[g[j]] = j
    BY <1>2
  <2>2. QED
    BY <2>1
<1>4. f \in Injection(R, Workers \ {w})
  BY <1>3 DEF Injection, IsInjective
<1>5. Cardinality(R) <= Cardinality(Workers \ {w}) /\ IsFiniteSet(R)
  BY <1>1, <1>4, FS_Injection
<1>6. Cardinality(R) \in Nat
  BY <1>5, FS_CardinalityType
<1>7. QED
  BY <1>1, <1>5, <1>6
-----------------------------------------------------------------------------
(* The steps. *)

\* The ledger counts with the same operator.
LEMMA SameCardinality == \A S : Ledger!Cardinality(S) = Cardinality(S)
BY Zenon DEF Cardinality, Ledger!Cardinality, IsFiniteSet, Ledger!IsFiniteSet

LEMMA LedgerInitially == Init => Ledger!LedgerInit
<1> SUFFICES ASSUME Init PROVE Ledger!LedgerInit
  OBVIOUS
<1>1. ASSUME NEW j \in Jobs PROVE StatusOf(j) = "pending"
  <2>1. outcome[j] = "open" /\ j > submitted
    BY PoolAssumption DEF Init, Jobs
  <2>2. ~ RunsIt(j)
    BY DEF Init, RunsIt, Processing
  <2>3. QED
    BY <2>1, <2>2 DEF StatusOf, WaitsFor
<1>2. QED
  BY <1>1 DEF Ledger!LedgerInit, Init

\* Steps that change no status.
LEMMA StatusKept ==
    ASSUME TypeInv, Ownership,
           \/ UNCHANGED <<queue, submitted, pc, job, outcome>>
           \/ Send
           \/ \E w \in Workers :
                \/ Receive(w) \/ RecvClosed(w) \/ Accept(w) \/ ExecReturn(w) \/ NoCache(w)
                \/ CountOther(w) \/ CountHit(w) \/ CountAlias(w) \/ WriteLine(w) \/ Capture(w),
           NEW j \in Jobs
    PROVE  StatusOf(j)' = StatusOf(j)
<1>1. CASE UNCHANGED <<queue, submitted, pc, job, outcome>>
  BY <1>1 DEF StatusOf, RunsIt, WaitsFor
<1>2. CASE Send
  <2>1. /\ UNCHANGED <<pc, job, outcome>> /\ submitted' = submitted + 1
        /\ queue' = Append(queue, submitted + 1) /\ submitted + 1 \in Jobs
    BY <1>2, Placed, PoolAssumption DEF Send, workerVars, bookVars, TypeInv, Shape, Jobs
  <2>2. RunsIt(j)' = RunsIt(j)
    BY <2>1 DEF RunsIt
  <2>3. (\E i \in DOMAIN queue' : queue'[i] = j) <=>
          (\E i \in DOMAIN queue : queue[i] = j) \/ j = submitted + 1
    <3>1. /\ DOMAIN queue = 1..Len(queue) /\ DOMAIN queue' = 1..(Len(queue) + 1)
          /\ Len(queue) \in Nat /\ queue'[Len(queue) + 1] = submitted + 1
          /\ \A i \in 1..Len(queue) : queue'[i] = queue[i]
      BY <2>1, Placed, AppendProperties, LenProperties
    <3>2. \A i \in 1..(Len(queue) + 1) : i \in 1..Len(queue) \/ i = Len(queue) + 1
      BY <3>1
    <3>3. Len(queue) + 1 \in 1..(Len(queue) + 1) /\ 1..Len(queue) \subseteq 1..(Len(queue) + 1)
      BY <3>1
    <3>4. QED
      BY <3>1, <3>2, <3>3
  <2>4. j > submitted <=> j > submitted + 1 \/ j = submitted + 1
    BY Placed, PoolAssumption DEF Jobs
  <2>5. WaitsFor(j)' = WaitsFor(j)
    BY <2>1, <2>3, <2>4 DEF WaitsFor
  <2>6. QED
    BY <2>1, <2>2, <2>5 DEF StatusOf
<1>3. ASSUME NEW w \in Workers, Receive(w) PROVE StatusOf(j)' = StatusOf(j)
  <2>1. /\ pc[w] = "idle" /\ pc' = [pc EXCEPT ![w] = "got"]
        /\ queue # <<>> /\ queue' = Tail(queue) /\ job' = [job EXCEPT ![w] = queue[1]]
        /\ UNCHANGED <<submitted, outcome>>
    BY <1>3, Placed, TailOfQueue DEF Receive, Goto, mainVars, bookVars
  <2>2. /\ Len(queue) \in Nat \ {0} /\ Len(queue') = Len(queue) - 1
        /\ \A i \in 1..Len(queue') : queue'[i] = queue[i + 1]
        /\ DOMAIN queue = 1..Len(queue) /\ DOMAIN queue' = 1..Len(queue')
    BY <2>1, Placed, TailOfQueue, LenProperties
  <2>3. (\E i \in DOMAIN queue : queue[i] = j) <=>
          (\E i \in DOMAIN queue' : queue'[i] = j) \/ queue[1] = j
    <3>1. ASSUME NEW i \in 1..Len(queue), queue[i] = j, i # 1
          PROVE  i - 1 \in 1..Len(queue') /\ queue'[i - 1] = j
      <4>1. i - 1 \in 1..Len(queue') /\ (i - 1) + 1 = i
        BY <2>2, <3>1
      <4>2. QED
        BY <2>2, <3>1, <4>1
    <3>2. ASSUME NEW i \in 1..Len(queue'), queue'[i] = j
          PROVE  i + 1 \in 1..Len(queue) /\ queue[i + 1] = j
      BY <2>2, <3>2
    <3>3. 1 \in 1..Len(queue)
      BY <2>2
    <3>4. QED
      BY <2>2, <3>1, <3>2, <3>3
  <2>4. job[w] # j
    BY <2>1, Placed DEF HasJob
  <2>5. RunsIt(j)' = RunsIt(j)
    BY <2>1, <2>4, Placed DEF RunsIt, Processing
  <2>6. WaitsFor(j)' = WaitsFor(j)
    <3>1. (\E v \in Workers : job'[v] = j /\ pc'[v] \in {"got", "begin"}) <=>
            (\E v \in Workers : job[v] = j /\ pc[v] \in {"got", "begin"}) \/ queue[1] = j
      BY <2>1, <2>4, Placed
    <3>2. QED
      BY <2>1, <2>3, <3>1 DEF WaitsFor
  <2>7. QED
    BY <2>1, <2>5, <2>6 DEF StatusOf
<1>4. ASSUME NEW w \in Workers, RecvClosed(w) PROVE StatusOf(j)' = StatusOf(j)
  <2>1. /\ pc[w] = "idle" /\ pc' = [pc EXCEPT ![w] = "exited"]
        /\ UNCHANGED <<queue, submitted, job, outcome>>
    BY <1>4 DEF RecvClosed, Goto, mainVars, bookVars
  <2>2. QED
    BY <2>1, Placed, OthersKeepStatus DEF HasJob
<1>5. ASSUME NEW w \in Workers,
             \/ Accept(w) \/ ExecReturn(w) \/ NoCache(w)
             \/ CountOther(w) \/ CountHit(w) \/ CountAlias(w)
      PROVE  StatusOf(j)' = StatusOf(j)
  <2>1. UNCHANGED <<queue, submitted, job, outcome>>
    BY <1>5 DEF Accept, ExecReturn, NoCache, CountOther, CountHit, CountAlias, mainVars, bookVars
  <2>2. /\ pc[w] \in Processing <=> pc'[w] \in Processing
        /\ pc[w] \in {"got", "begin"} <=> pc'[w] \in {"got", "begin"}
        /\ \A v \in Workers \ {w} : pc'[v] = pc[v]
    BY <1>5, Placed
    DEF Accept, ExecReturn, NoCache, CountOther, CountHit, CountAlias, Goto, Processing
  <2>3. RunsIt(j)' = RunsIt(j) /\ WaitsFor(j)' = WaitsFor(j)
    BY <2>1, <2>2 DEF RunsIt, WaitsFor
  <2>4. QED
    BY <2>1, <2>3 DEF StatusOf
<1>6. ASSUME NEW w \in Workers, WriteLine(w) \/ Capture(w) PROVE StatusOf(j)' = StatusOf(j)
  <2>1. /\ pc[w] \in {"record", "capture"} /\ outcome[job[w]] # "open" /\ job'[w] \in {job[w], 0}
        /\ \A v \in Workers \ {w} : pc'[v] = pc[v] /\ job'[v] = job[v]
        /\ UNCHANGED <<queue, submitted, outcome>>
    BY <1>6, Placed DEF WriteLine, Capture, Goto, mainVars, bookVars
  <2>2. CASE job[w] = j
    BY <2>1, <2>2 DEF StatusOf
  <2>3. CASE job[w] # j
    <3>1. job'[w] # j
      BY <2>1, <2>3, ZeroIsNoJob
    <3>2. QED
      BY <2>1, <2>3, <3>1, OthersKeepStatus
  <2>4. QED
    BY <2>2, <2>3
<1>7. QED
  BY <1>1, <1>2, <1>3, <1>4, <1>5, <1>6

LEMMA LedgerStep ==
    TypeInv /\ Ownership /\ Stages /\ NothingLost /\ [Next]_vars
        => [Ledger!LedgerNext]_(Ledger!ledgerVars)
<1> SUFFICES ASSUME TypeInv, Ownership, Stages, NothingLost, [Next]_vars
             PROVE  [Ledger!LedgerNext]_(Ledger!ledgerVars)
  OBVIOUS
<1> DEFINE status == [j \in Jobs |-> StatusOf(j)]
           over == main \notin Before
<1>1. CASE Cancel
  <2>1. \A j \in Jobs : StatusOf(j)' = StatusOf(j)
    BY <1>1, StatusKept DEF Cancel, mainVars, workerVars, bookVars
  <2>2. status' = status /\ main' = main /\ ctxDone'
    BY <1>1, <2>1 DEF Cancel, mainVars
  <2>3. Ledger!CancelRun
    BY <2>2 DEF Ledger!CancelRun, Before
  <2>4. QED
    BY <2>3 DEF Ledger!LedgerNext
<1>2. CASE \/ CheckCtx \/ Send \/ Stop \/ JoinProgress \/ Load \/ Summarise \/ CloseFile \/ Exit
           \/ StopProgress \/ UNCHANGED vars
  <2>1. \A j \in Jobs : StatusOf(j)' = StatusOf(j)
    <3>1. Send \/ UNCHANGED <<queue, submitted, pc, job, outcome>>
      BY <1>2 DEF CheckCtx, Stop, JoinProgress, Load, Summarise, CloseFile, Exit,
                  StopProgress, vars, mainVars, workerVars, bookVars
    <3>2. QED
      BY <3>1, StatusKept
  <2>2. status' = status
    BY <2>1
  <2>3. ctxDone' = ctxDone /\ over' = over
    BY <1>2 DEF CheckCtx, Send, Stop, JoinProgress, Load, Summarise, CloseFile, Exit,
                StopProgress, vars, mainVars, Before
  <2>4. UNCHANGED Ledger!ledgerVars
    BY <2>2, <2>3 DEF Ledger!ledgerVars, Before
  <2>5. QED
    BY <2>4
<1>3. CASE WaitDone \/ WaitCtx
  <2>1. \A j \in Jobs : StatusOf(j)' = StatusOf(j)
    BY <1>3, StatusKept DEF WaitDone, WaitCtx, workerVars, bookVars
  <2>2. status' = status /\ over' /\ ctxDone' = ctxDone
    BY <1>3, <2>1 DEF WaitDone, WaitCtx, Before
  <2>3. ctxDone \/ \A j \in Jobs : StatusOf(j) \in JobClass
    <3> SUFFICES ASSUME ~ctxDone, NEW j \in Jobs PROVE StatusOf(j) \in JobClass
      OBVIOUS
    <3>1. main = "wait" /\ \A w \in Workers : pc[w] = "exited"
      BY <1>3 DEF WaitDone, WaitCtx
    <3>2. Len(queue) = 0
      BY <3>1, PoolAssumption, EmptySeq DEF NothingLost
    <3>3. j <= submitted
      BY <3>1, PoolAssumption DEF NothingLost, Jobs
    <3>4. Found(j)
      BY <3>3 DEF NothingLost
    <3>5. outcome[j] # "open"
      BY <3>1, <3>2, <3>4 DEF Found, HasJob
    <3>6. QED
      BY <3>5, Placed DEF StatusOf
  <2>4. Ledger!Finish
    BY <2>2, <2>3 DEF Ledger!Finish, Ledger!JobClass, JobClass, Before
  <2>5. QED
    BY <2>4 DEF Ledger!LedgerNext
<1>4. CASE SkipSend
  <2>1. /\ main = "send" /\ main' = "check" /\ ctxDone /\ ctxDone' = ctxDone
        /\ submitted' = submitted + 1 /\ submitted < NumJobs
        /\ UNCHANGED <<queue, pc, job, outcome>>
    BY <1>4 DEF SkipSend, SkipSendUnguarded, workerVars, bookVars, TypeInv, Shape
  <2>2. PICK k \in Jobs : k = submitted + 1 /\ k > submitted /\ ~(k > submitted')
    BY <2>1, Placed, PoolAssumption DEF Jobs
  <2>3. outcome[k] = "open"
    BY <2>2, Placed, PoolAssumption DEF Ownership, SettledBehindQueue
  <2>4. \A w \in Workers : job[w] # k
    BY <2>2, Placed, PoolAssumption DEF Jobs
  <2>5. \A i \in DOMAIN queue : queue[i] # k
    <3>1. DOMAIN queue = 1..Len(queue)
      BY Placed, LenProperties
    <3>2. \A i \in 1..Len(queue) : queue[i] <= submitted
      BY DEF Ownership, QueueInOrder
    <3>3. QED
      BY <2>2, <3>1, <3>2, Placed
  <2>6. StatusOf(k) = "pending" /\ StatusOf(k)' = "lost"
    <3>1. ~RunsIt(k) /\ ~RunsIt(k)'
      BY <2>1, <2>4 DEF RunsIt
    <3>2. WaitsFor(k) /\ ~WaitsFor(k)'
      BY <2>1, <2>2, <2>4, <2>5 DEF WaitsFor
    <3>3. QED
      BY <2>1, <2>2, <2>3, <3>1, <3>2 DEF StatusOf
  <2>7. ASSUME NEW j \in Jobs, j # k PROVE StatusOf(j)' = StatusOf(j)
    <3>1. j > submitted <=> j > submitted'
      BY <2>1, <2>2, <2>7, Placed, PoolAssumption DEF Jobs
    <3>2. RunsIt(j)' = RunsIt(j) /\ WaitsFor(j)' = WaitsFor(j)
      BY <2>1, <3>1 DEF RunsIt, WaitsFor
    <3>3. QED
      BY <2>1, <3>2 DEF StatusOf
  <2>8. status[k] = "pending" /\ status' = [status EXCEPT ![k] = "lost"]
    BY <2>2, <2>6, <2>7
  <2>9. Ledger!Lose(k)
    BY <2>1, <2>8 DEF Ledger!Lose, Before
  <2>10. QED
    BY <2>2, <2>9 DEF Ledger!LedgerNext
<1>5. ASSUME NEW w \in Workers,
             \/ Receive(w) \/ RecvClosed(w) \/ Accept(w) \/ ExecReturn(w) \/ NoCache(w)
             \/ CountOther(w) \/ CountHit(w) \/ CountAlias(w) \/ WriteLine(w) \/ Capture(w)
      PROVE  UNCHANGED Ledger!ledgerVars
  <2>1. \A j \in Jobs : StatusOf(j)' = StatusOf(j)
    BY <1>5, StatusKept
  <2>2. status' = status
    BY <2>1
  <2>3. ctxDone' = ctxDone /\ main' = main
    BY <1>5, Frames DEF WorkerStep, mainVars
  <2>4. QED
    BY <2>2, <2>3 DEF Ledger!ledgerVars
<1>6. ASSUME NEW w \in Workers, Drop(w) \/ Begin(w) \/ CountOutcome(w)
      PROVE  Ledger!LedgerNext
  <2>0. PICK k \in Jobs : k = job[w]
    BY <1>6, Placed DEF Drop, Begin, CountOutcome, Goto, HasJob
  <2>1. /\ pc[w] \in {"got", "begin", "count"} /\ UNCHANGED <<main, ctxDone, queue, submitted>>
        /\ \A v \in Workers \ {w} : pc'[v] = pc[v] /\ job'[v] = job[v]
        /\ job'[w] \in {k, 0}
        /\ \A j \in Jobs \ {k} : outcome'[j] = outcome[j]
    BY <1>6, <2>0, Placed DEF Drop, Begin, CountOutcome, Goto, mainVars, bookVars, HasJob
  <2>2. \A j \in Jobs \ {k} : StatusOf(j)' = StatusOf(j)
    BY <2>0, <2>1, OthersKeepStatus, ZeroIsNoJob
  <2>3. StatusOf(k) = IF pc[w] \in Processing THEN "running" ELSE "pending"
    BY <2>0, <2>1, StatusInHand DEF HasJob
  <2>4. status[k] = StatusOf(k) /\ status' = [status EXCEPT ![k] = StatusOf(k)']
    BY <2>0, <2>1, <2>2
  <2>5. outcome[k] = "open" /\ k <= submitted
        /\ \A v \in Workers \ {w} : job[v] # k
    BY <2>0, <2>1, Placed DEF HasJob
  <2>6. CASE Drop(w)
    <3>1. /\ pc[w] = "got" /\ ctxDone /\ job'[w] = 0 /\ outcome' = outcome
      BY <2>0, <2>6, Placed DEF Drop, Goto, bookVars
    <3>2. \A v \in Workers : job'[v] # k
      BY <2>0, <2>1, <2>5, <3>1, ZeroIsNoJob
    <3>3. \A i \in DOMAIN queue : queue[i] # k
      <4>1. DOMAIN queue = 1..Len(queue)
        BY Placed, LenProperties
      <4>2. \A i \in 1..Len(queue) : k < queue[i]
        BY <2>0, <3>1 DEF Ownership, HeldOnce, HasJob
      <4>3. QED
        BY <2>0, <2>1, <4>1, <4>2, PoolAssumption DEF Jobs
    <3>4. ~(k > submitted)
      BY <2>0, <2>1, <2>5, Placed, PoolAssumption DEF Jobs
    <3>5. ~RunsIt(k)' /\ ~WaitsFor(k)'
      BY <2>0, <2>1, <3>2, <3>3, <3>4 DEF RunsIt, WaitsFor
    <3>6. StatusOf(k)' = "lost"
      BY <2>0, <2>1, <2>5, <3>1, <3>5 DEF StatusOf
    <3>7. Ledger!Lose(k)
      BY <2>0, <2>1, <2>3, <2>4, <3>1, <3>6 DEF Ledger!Lose, Processing
    <3>8. QED
      BY <2>0, <2>1, <3>7 DEF Ledger!LedgerNext
  <2>7. CASE Begin(w)
    <3>1. pc[w] = "begin" /\ pc'[w] = "exec" /\ job' = job /\ outcome' = outcome
      BY <2>0, <2>7, Placed DEF Begin, Goto
    <3>2. StatusOf(k)' = "running"
      <4>1. RunsIt(k)'
        BY <2>0, <3>1 DEF RunsIt, Processing
      <4>2. QED
        BY <2>0, <2>1, <2>5, <3>1, <4>1 DEF StatusOf
    <3>3. Cardinality({j \in Jobs : StatusOf(j) = "running"}) < Cardinality(Workers)
      BY <3>1, SlotsSuffice DEF Processing
    <3>4. Ledger!Cardinality(Ledger!Running) < Cardinality(Workers)
      <4>1. Ledger!Running = {j \in Jobs : StatusOf(j) = "running"}
        BY DEF Ledger!Running
      <4>2. QED
        BY <3>3, <4>1, SameCardinality
    <3>5. Ledger!Start(k)
      BY <2>0, <2>1, <2>3, <2>4, <3>1, <3>2, <3>4 DEF Ledger!Start, Processing
    <3>6. QED
      BY <2>0, <2>1, <3>5 DEF Ledger!LedgerNext
  <2>8. CASE CountOutcome(w)
    <3>1. pc[w] = "count" /\ outcome'[k] = ClassOf(result[w])
      BY <2>0, <2>1, <2>8, Placed DEF CountOutcome, Goto
    <3>2. ClassOf(result[w]) \in JobClass
      BY Placed, ClassIsClass
    <3>3. StatusOf(k)' = ClassOf(result[w])
      BY <2>0, <2>1, <3>1, <3>2 DEF StatusOf, JobClass
    <3>4. Ledger!Settle(k, ClassOf(result[w]))
      BY <2>0, <2>1, <2>3, <2>4, <3>1, <3>3 DEF Ledger!Settle, Processing
    <3>5. QED
      BY <3>2, <3>4 DEF Ledger!LedgerNext, Ledger!JobClass, JobClass
  <2>9. QED
    BY <1>6, <2>6, <2>7, <2>8
<1>7. QED
  BY <1>1, <1>2, <1>3, <1>4, <1>5, <1>6 DEF Next, MainStep, WorkerStep, Ended

\* Every run is a ledger of its jobs: whatever queue, workers and cancellation
\* do, each job starts and settles at most once, no more run than there are
\* workers, only a cancelled run loses one, and main goes on to the summary
\* when all have settled or the run was cancelled.
THEOREM PoolImplementsLedger == Spec => RefinesLedger
<1>1. Spec => [][Ledger!LedgerNext]_(Ledger!ledgerVars)
  BY LedgerStep, TypeInvariant, OwnershipInvariant, EndInvariant, PTL DEF Spec
<1>2. Spec => Ledger!LedgerInit
  BY LedgerInitially DEF Spec
<1>3. QED
  BY <1>1, <1>2 DEF RefinesLedger, Ledger!LedgerSpec
=============================================================================
