----------------------------- MODULE PoolProofs -----------------------------
(***************************************************************************)
(* Theorems about Pool, for every set of workers, plan and queue capacity. *)
(***************************************************************************)
EXTENDS Pool, SequenceTheorems, TLAPS

\* What TypeOK needs to be inductive: a job is in hand exactly between the
\* receive and the end of process, a Submit is under way only inside the
\* plan, and Snapshot has counters left to load.
Shape ==
    /\ \A w \in Workers : job[w] \in Jobs <=> pc[w] \in HasJob
    /\ main = "send" => submitted < NumJobs
    /\ main = "snap" => Len(snap) < Len(SnapOrder)
    /\ main \in {"check", "send", "stop", "wait", "join"} => snap = <<>>

TypeInv == TypeOK /\ Shape

\* Jobs pass through the queue in the order of the plan, so that what a
\* worker holds or has settled lies before everything queued, and the queue
\* before what is still to be submitted.
QueueInOrder ==
    /\ \A i, k \in 1..Len(queue) : i < k => queue[i] < queue[k]
    /\ \A i \in 1..Len(queue) : queue[i] <= submitted

HeldOnce ==
    \A w \in Workers : pc[w] \in HasJob =>
        /\ job[w] <= submitted
        /\ \A i \in 1..Len(queue) : job[w] < queue[i]
        /\ \A v \in Workers \ {w} : pc[v] \in HasJob => job[v] # job[w]

SettledBehindQueue ==
    \A j \in Jobs : outcome[j] # "open" =>
        /\ j <= submitted
        /\ \A i \in 1..Len(queue) : j < queue[i]

LineIsOutcome ==
    \A j \in Jobs : lines[j] # <<>> => lines[j] = <<outcome[j]>> /\ outcome[j] # "open"

HandsAgree ==
    \A w \in Workers :
        /\ pc[w] \in HasJob \ {"record", "capture"} => outcome[job[w]] = "open"
        /\ pc[w] = "record" => lines[job[w]] = <<>>
        /\ pc[w] \in {"record", "capture"} => outcome[job[w]] = ClassOf(result[w])

Ownership ==
    QueueInOrder /\ HeldOnce /\ SettledBehindQueue /\ LineIsOutcome /\ HandsAgree
-----------------------------------------------------------------------------
(* Facts about the data. *)

LEMMA CounterNames ==
    /\ Counters = {"Total", "Success", "Failed", "Cached", "CacheHits", "CacheOther"}
    /\ Len(SnapOrder) = 6
    /\ \A i \in 1..6 : SnapOrder[i] \in Counters
<1>1. DOMAIN SnapOrder = 1..6 /\ Len(SnapOrder) = 6
  BY DEF SnapOrder
<1>2. \A i \in 1..6 : i \in {1, 2, 3, 4, 5, 6}
  OBVIOUS
<1>3. Counters = {SnapOrder[1], SnapOrder[2], SnapOrder[3], SnapOrder[4], SnapOrder[5],
                  SnapOrder[6]}
  BY <1>1, <1>2 DEF Counters
<1>4. QED
  BY <1>1, <1>3 DEF SnapOrder

LEMMA ClassIsClass == \A r \in Result : ClassOf(r) \in JobClass
BY DEF Result, WarmErr, ClassOf, IsCtxErr, JobClass

LEMMA ZeroIsNoJob == 0 \notin Jobs
BY PoolAssumption DEF Jobs

LEMMA NoResultIsResult == NoResult \in Result
BY DEF NoResult, Result, WarmErr, CacheClass

\* What a Receive does to the queue.
LEMMA TailOfQueue ==
    ASSUME NEW q \in Seq(Jobs), q # <<>>
    PROVE  /\ Len(q) \in Nat \ {0}
           /\ Head(q) = q[1] /\ Head(q) \in Jobs
           /\ Tail(q) \in Seq(Jobs)
           /\ Len(Tail(q)) = Len(q) - 1
           /\ \A i \in 1..Len(Tail(q)) : Tail(q)[i] = q[i + 1]
<1>1. Len(q) \in Nat \ {0}
  BY EmptySeq
<1>2. Head(q) = q[1]
  OBVIOUS
<1>3. QED
  BY <1>1, <1>2, HeadTailProperties

\* Workers leave the main goroutine's variables alone, and everyone else
\* theirs and the books.
LEMMA Frames ==
    /\ \A w \in Workers : WorkerStep(w) \/ ExecReturn(w) =>
         UNCHANGED <<ctxDone, progress, mainVars>>
    /\ MainStep \/ Cancel \/ StopProgress => UNCHANGED <<workerVars, bookVars>>
<1>1. ASSUME NEW w \in Workers, WorkerStep(w) \/ ExecReturn(w)
      PROVE  UNCHANGED <<ctxDone, progress, mainVars>>
  BY <1>1 DEF WorkerStep, Receive, RecvClosed, Drop, Accept, Begin, NoCache, CountOther,
     CountHit, CountAlias, CountOutcome, WriteLine, Capture, ExecReturn
<1>2. ASSUME MainStep \/ Cancel \/ StopProgress
      PROVE  UNCHANGED <<workerVars, bookVars>>
  BY <1>2 DEF MainStep, Cancel, StopProgress, CheckCtx, Send, SkipSend, Stop, WaitDone, WaitCtx, JoinProgress,
     Load, Summarise, CloseFile, Exit, SkipSendUnguarded
<1>3. QED
  BY <1>1, <1>2
-----------------------------------------------------------------------------
(* Types. *)

LEMMA TypeInit == Init => TypeInv
<1> SUFFICES ASSUME Init PROVE TypeInv
  OBVIOUS
<1>1. MainTypeOK
  <2>1. <<>> \in Seq(Jobs) /\ <<>> \in Seq(Nat) /\ Len(<<>>) = 0
    BY EmptySeq
  <2>2. 0 \in 0..NumJobs /\ 0 <= QueueCap /\ 0 <= Len(SnapOrder)
    BY PoolAssumption, CounterNames
  <2>3. QED
    <3>1. queue \in Seq(Jobs) /\ Len(queue) <= QueueCap
      BY <2>1, <2>2 DEF Init
    <3>2. snap \in Seq(Nat) /\ Len(snap) <= Len(SnapOrder)
      BY <2>1, <2>2 DEF Init
    <3>3. submitted \in 0..NumJobs
      BY <2>2 DEF Init
    <3>4. ctxDone \in BOOLEAN /\ closed \in BOOLEAN /\ drained \in BOOLEAN
      BY DEF Init
    <3>5. main = "check" /\ progress = "running" /\ snapFailures = {} /\ exit = 2
      BY DEF Init
    <3>6. QED
      BY <3>1, <3>2, <3>3, <3>4, <3>5 DEF MainTypeOK
<1>2. WorkerTypeOK
  BY NoResultIsResult, PoolAssumption DEF Init, WorkerTypeOK
<1>3. BookTypeOK
  BY EmptySeq DEF Init, BookTypeOK
<1>4. Shape
  BY ZeroIsNoJob DEF Init, Shape, HasJob
<1>5. QED
  BY <1>1, <1>2, <1>3, <1>4 DEF TypeInv, TypeOK

LEMMA MainTypeStep == TypeInv /\ [Next]_vars => MainTypeOK'
<1> SUFFICES ASSUME TypeInv, [Next]_vars PROVE MainTypeOK'
  OBVIOUS
<1> USE DEF TypeInv, TypeOK, Shape, mainVars, workerVars, bookVars, Goto,
            MainTypeOK
<1>1. CASE Cancel
  BY <1>1 DEF Cancel
<1>2. CASE StopProgress
  BY <1>2 DEF StopProgress
<1>3. CASE CheckCtx
  BY <1>3 DEF CheckCtx
<1>4. CASE Send
  BY <1>4, PoolAssumption, AppendProperties DEF Send, Jobs
<1>5. CASE SkipSend
  BY <1>5, PoolAssumption DEF SkipSend, SkipSendUnguarded
<1>6. CASE Stop
  BY <1>6 DEF Stop
<1>7. CASE WaitDone
  BY <1>7 DEF WaitDone
<1>8. CASE WaitCtx
  BY <1>8 DEF WaitCtx
<1>9. CASE JoinProgress
  BY <1>9 DEF JoinProgress
<1>10. CASE Load
  <2>1. Len(snap) + 1 \in 1..6
    BY <1>10, CounterNames DEF Load
  <2>2. stats[SnapOrder[Len(snap) + 1]] \in Nat
    BY <2>1, CounterNames DEF BookTypeOK
  <2>3. snap' \in Seq(Nat) /\ Len(snap') = Len(snap) + 1
    BY <1>10, <2>2, AppendProperties DEF Load
  <2>4. QED
    BY <1>10, <2>1, <2>3, CounterNames DEF Load
<1>11. CASE Summarise
  BY <1>11 DEF Summarise, BookTypeOK
<1>12. CASE CloseFile
  BY <1>12 DEF CloseFile
<1>13. CASE Exit
  BY <1>13 DEF Exit
<1>14. ASSUME NEW w \in Workers, Receive(w) PROVE MainTypeOK'
  BY <1>14, TailOfQueue, PoolAssumption DEF Receive
<1>15. CASE UNCHANGED <<ctxDone, main, submitted, queue, closed, progress, drained, snap,
                    snapFailures, exit>>
  BY <1>15
<1>16. QED
  BY <1>1, <1>2, <1>3, <1>4, <1>5, <1>6, <1>7, <1>8, <1>9, <1>10, <1>11,
     <1>12, <1>13, <1>14, <1>15, Frames
  DEF Next, MainStep, WorkerStep, Ended, vars,
      SkipSendUnguarded, RecvClosed, Drop, Accept, Begin, NoCache,
     CountOther, CountHit, CountAlias, CountOutcome, WriteLine, Capture,
     ExecReturn

LEMMA WorkerTypeStep == TypeInv /\ [Next]_vars => WorkerTypeOK'
<1> SUFFICES ASSUME TypeInv, [Next]_vars PROVE WorkerTypeOK'
  OBVIOUS
<1> USE DEF TypeInv, TypeOK, Shape, mainVars, workerVars, bookVars, Goto,
            WorkerTypeOK, HasJob
<1>1. ASSUME NEW w \in Workers, Receive(w) PROVE WorkerTypeOK'
  BY <1>1, TailOfQueue DEF Receive, Jobs, MainTypeOK
<1>2. ASSUME NEW w \in Workers, RecvClosed(w) PROVE WorkerTypeOK'
  BY <1>2 DEF RecvClosed
<1>3. ASSUME NEW w \in Workers, Drop(w) PROVE WorkerTypeOK'
  BY <1>3, PoolAssumption DEF Drop
<1>4. ASSUME NEW w \in Workers, Accept(w) PROVE WorkerTypeOK'
  BY <1>4 DEF Accept
<1>5. ASSUME NEW w \in Workers, Begin(w) PROVE WorkerTypeOK'
  BY <1>5 DEF Begin
<1>6. ASSUME NEW w \in Workers, NoCache(w) PROVE WorkerTypeOK'
  BY <1>6 DEF NoCache
<1>7. ASSUME NEW w \in Workers, CountOther(w) PROVE WorkerTypeOK'
  BY <1>7 DEF CountOther
<1>8. ASSUME NEW w \in Workers, CountHit(w) PROVE WorkerTypeOK'
  BY <1>8 DEF CountHit
<1>9. ASSUME NEW w \in Workers, CountAlias(w) PROVE WorkerTypeOK'
  BY <1>9 DEF CountAlias
<1>10. ASSUME NEW w \in Workers, CountOutcome(w) PROVE WorkerTypeOK'
  BY <1>10 DEF CountOutcome
<1>11. ASSUME NEW w \in Workers, WriteLine(w) PROVE WorkerTypeOK'
  BY <1>11 DEF WriteLine
<1>12. ASSUME NEW w \in Workers, Capture(w) PROVE WorkerTypeOK'
  BY <1>12, NoResultIsResult, PoolAssumption DEF Capture
<1>13. ASSUME NEW w \in Workers, ExecReturn(w) PROVE WorkerTypeOK'
  BY <1>13 DEF ExecReturn, Returns
<1>14. CASE UNCHANGED <<workerVars>>
  BY <1>14
<1>15. QED
  BY <1>1, <1>2, <1>3, <1>4, <1>5, <1>6, <1>7, <1>8, <1>9, <1>10, <1>11,
     <1>12, <1>13, <1>14, Frames
  DEF Next, MainStep, WorkerStep, Ended, vars,
      SkipSendUnguarded, Cancel, StopProgress, CheckCtx, Send, SkipSend,
     Stop, WaitDone, WaitCtx, JoinProgress, Load, Summarise, CloseFile,
     Exit

LEMMA BookTypeStep == TypeInv /\ [Next]_vars => BookTypeOK'
<1> SUFFICES ASSUME TypeInv, [Next]_vars PROVE BookTypeOK'
  OBVIOUS
<1> USE DEF TypeInv, TypeOK, Shape, mainVars, workerVars, bookVars, Goto,
            BookTypeOK
<1>1. CASE CloseFile
  BY <1>1 DEF CloseFile
<1>2. ASSUME NEW w \in Workers, Begin(w) PROVE BookTypeOK'
  BY <1>2, CounterNames DEF Begin, Bump
<1>3. ASSUME NEW w \in Workers, CountOther(w) PROVE BookTypeOK'
  BY <1>3, CounterNames DEF CountOther, Bump
<1>4. ASSUME NEW w \in Workers, CountHit(w) PROVE BookTypeOK'
  BY <1>4, CounterNames DEF CountHit, Bump
<1>5. ASSUME NEW w \in Workers, CountAlias(w) PROVE BookTypeOK'
  BY <1>5, CounterNames DEF CountAlias, Bump
<1>6. ASSUME NEW w \in Workers, CountOutcome(w) PROVE BookTypeOK'
  <2>1. stats' \in [Counters -> Nat]
    <3>1. \A c \in Counters : stats[c] \in Nat
      OBVIOUS
    <3>2. PICK class : stats' = [c \in Counters |->
                         stats[c] + IF c \in CounterOf[class] THEN 1 ELSE 0]
      BY <1>6 DEF CountOutcome
    <3>3. \A c \in Counters :
             stats[c] + (IF c \in CounterOf[class] THEN 1 ELSE 0) \in Nat
      BY <3>1
    <3>4. QED
      BY <3>2, <3>3
  <2>2. outcome' \in [Jobs -> JobClass \cup {"open"}]
    BY <1>6, ClassIsClass DEF CountOutcome, WorkerTypeOK
  <2>3. QED
    BY <1>6, <2>1, <2>2 DEF CountOutcome
<1>7. ASSUME NEW w \in Workers, WriteLine(w) PROVE BookTypeOK'
  BY <1>7, ClassIsClass, AppendProperties DEF WriteLine, WorkerTypeOK
<1>8. ASSUME NEW w \in Workers, Capture(w) PROVE BookTypeOK'
  BY <1>8 DEF Capture, WorkerTypeOK, HasJob
<1>9. CASE UNCHANGED <<bookVars, fileOpen>>
  BY <1>9
<1>10. QED
  BY <1>1, <1>2, <1>3, <1>4, <1>5, <1>6, <1>7, <1>8, <1>9, Frames
  DEF Next, MainStep, WorkerStep, Ended, vars,
      SkipSendUnguarded, Cancel, StopProgress, CheckCtx, Send, SkipSend,
     Stop, WaitDone, WaitCtx, JoinProgress, Load, Summarise, Exit,
     Receive, RecvClosed, Drop, Accept, NoCache, ExecReturn

LEMMA ShapeStep == TypeInv /\ [Next]_vars => Shape'
<1> SUFFICES ASSUME TypeInv, [Next]_vars PROVE Shape'
  OBVIOUS
<1> USE DEF TypeInv, TypeOK, Shape, mainVars, workerVars, bookVars, Goto,
            MainTypeOK, WorkerTypeOK, HasJob
<1>1. CASE CheckCtx
  BY <1>1, PoolAssumption DEF CheckCtx, Jobs
<1>2. CASE Send
  BY <1>2 DEF Send, Jobs
<1>3. CASE SkipSend
  BY <1>3 DEF SkipSend, SkipSendUnguarded
<1>4. CASE Stop
  BY <1>4 DEF Stop
<1>5. CASE WaitDone
  BY <1>5 DEF WaitDone
<1>6. CASE WaitCtx
  BY <1>6 DEF WaitCtx
<1>7. CASE JoinProgress
  BY <1>7, CounterNames, EmptySeq DEF JoinProgress
<1>8. CASE Load
  <2>1. Len(snap') = Len(snap) + 1
    <3>1. Len(snap) + 1 \in 1..6
      <4>1. snap \in Seq(Nat) /\ Len(snap) < Len(SnapOrder)
        BY <1>8, Zenon DEF Load
      <4>2. Len(snap) \in Nat
        BY <4>1, LenProperties
      <4>3. QED
        BY <4>1, <4>2, CounterNames
    <3>2. stats[SnapOrder[Len(snap) + 1]] \in Nat
      BY <3>1, CounterNames DEF BookTypeOK
    <3>3. QED
      BY <1>8, <3>2, AppendProperties DEF Load
  <2>2. QED
    BY <1>8, <2>1, CounterNames DEF Load
<1>9. CASE Summarise
  BY <1>9 DEF Summarise
<1>10. CASE CloseFile
  BY <1>10 DEF CloseFile
<1>11. CASE Exit
  BY <1>11 DEF Exit
<1>12. ASSUME NEW w \in Workers, Receive(w) PROVE Shape'
  BY <1>12, TailOfQueue DEF Receive
<1>13. ASSUME NEW w \in Workers, RecvClosed(w) PROVE Shape'
  BY <1>13 DEF RecvClosed
<1>14. ASSUME NEW w \in Workers, Drop(w) PROVE Shape'
  BY <1>14, ZeroIsNoJob DEF Drop
<1>15. ASSUME NEW w \in Workers, Accept(w) PROVE Shape'
  BY <1>15 DEF Accept
<1>16. ASSUME NEW w \in Workers, Begin(w) PROVE Shape'
  BY <1>16 DEF Begin
<1>17. ASSUME NEW w \in Workers, NoCache(w) PROVE Shape'
  BY <1>17 DEF NoCache
<1>18. ASSUME NEW w \in Workers, CountOther(w) PROVE Shape'
  BY <1>18 DEF CountOther
<1>19. ASSUME NEW w \in Workers, CountHit(w) PROVE Shape'
  BY <1>19 DEF CountHit
<1>20. ASSUME NEW w \in Workers, CountAlias(w) PROVE Shape'
  BY <1>20 DEF CountAlias
<1>21. ASSUME NEW w \in Workers, CountOutcome(w) PROVE Shape'
  BY <1>21 DEF CountOutcome
<1>22. ASSUME NEW w \in Workers, WriteLine(w) PROVE Shape'
  BY <1>22 DEF WriteLine
<1>23. ASSUME NEW w \in Workers, Capture(w) PROVE Shape'
  BY <1>23, ZeroIsNoJob DEF Capture
<1>24. ASSUME NEW w \in Workers, ExecReturn(w) PROVE Shape'
  BY <1>24 DEF ExecReturn
<1>25. CASE UNCHANGED <<main, submitted, snap, pc, job>>
  BY <1>25
<1>26. QED
  BY <1>1, <1>2, <1>3, <1>4, <1>5, <1>6, <1>7, <1>8, <1>9, <1>10, <1>11,
     <1>12, <1>13, <1>14, <1>15, <1>16, <1>17, <1>18, <1>19, <1>20,
     <1>21, <1>22, <1>23, <1>24, <1>25, Frames
  DEF Next, MainStep, WorkerStep, Ended, vars,
      SkipSendUnguarded, Cancel, StopProgress

\* The step theorem of TypeInv, and type correctness: every reachable state
\* of every run is well typed.
LEMMA TypeStep == TypeInv /\ [Next]_vars => TypeInv'
BY MainTypeStep, WorkerTypeStep, BookTypeStep, ShapeStep DEF TypeInv, TypeOK

THEOREM TypeCorrect == Spec => []TypeOK
<1>1. TypeInv => TypeOK
  BY DEF TypeInv
<1>2. QED
  BY <1>1, TypeInit, TypeStep, PTL DEF Spec

LEMMA TypeInvariant == Spec => []TypeInv
BY TypeInit, TypeStep, PTL DEF Spec
-----------------------------------------------------------------------------
(* A job is warmed and reported at most once. *)

LEMMA QueueOfNumbers ==
    ASSUME MainTypeOK
    PROVE  /\ Len(queue) \in Nat
           /\ \A i \in 1..Len(queue) : queue[i] \in Jobs /\ queue[i] \in Nat
           /\ \A j \in Jobs : j \in Nat
           /\ submitted \in Nat
BY PoolAssumption, LenProperties, ElementOfSeq DEF MainTypeOK, Jobs

LEMMA OwnershipInit == Init => Ownership
BY EmptySeq
   DEF Init, Ownership, QueueInOrder, HeldOnce, SettledBehindQueue, LineIsOutcome,
       HandsAgree, HasJob

\* A worker that moves between two places before the count of the outcome
\* moves no job.
LEMMA OwnershipMove ==
    ASSUME TypeInv, Ownership, NEW w \in Workers,
           NEW from \in HasJob \ {"record", "capture"},
           NEW to \in HasJob \ {"record", "capture"},
           Goto(w, from, to),
           UNCHANGED <<queue, submitted, job, outcome, lines>>,
           \A v \in Workers \ {w} : result'[v] = result[v]
    PROVE  Ownership'
<1> USE DEF TypeInv, TypeOK, WorkerTypeOK, Goto, Ownership
<1>0. \A v \in Workers : /\ pc'[v] \in HasJob <=> pc[v] \in HasJob
                         /\ pc'[v] = (IF v = w THEN to ELSE pc[v])
  OBVIOUS
<1>1. QueueInOrder' /\ SettledBehindQueue' /\ LineIsOutcome'
  BY DEF QueueInOrder, SettledBehindQueue, LineIsOutcome
<1>2. HeldOnce'
  BY <1>0 DEF HeldOnce
<1>3. HandsAgree'
  BY <1>0 DEF HandsAgree
<1>4. QED
  BY <1>1, <1>2, <1>3

LEMMA OwnershipStep == TypeInv /\ Ownership /\ [Next]_vars => Ownership'
<1> SUFFICES ASSUME TypeInv, Ownership, [Next]_vars PROVE Ownership'
  OBVIOUS
<1> USE DEF Ownership
<1>0. /\ Len(queue) \in Nat /\ submitted \in Nat
      /\ \A i \in 1..Len(queue) : queue[i] \in Jobs /\ queue[i] \in Nat
      /\ \A j \in Jobs : j \in Nat
      /\ queue \in Seq(Jobs)
      /\ pc \in [Workers -> HasJob \cup {"idle", "exited"}]
      /\ job \in [Workers -> 0..NumJobs] /\ result \in [Workers -> Result]
      /\ \A w \in Workers : pc[w] \in HasJob => job[w] \in Jobs /\ job[w] \in Nat
      /\ outcome \in [Jobs -> JobClass \cup {"open"}]
      /\ lines \in [Jobs -> Seq(JobClass)]
  BY QueueOfNumbers DEF TypeInv, TypeOK, MainTypeOK, WorkerTypeOK, BookTypeOK, Shape
<1>1. CASE UNCHANGED <<queue, submitted, pc, job, result, outcome, lines>>
  BY <1>0, <1>1 DEF QueueInOrder, HeldOnce, SettledBehindQueue, LineIsOutcome, HandsAgree
<1>2. CASE Send
  <2>1. /\ submitted + 1 \in Jobs
        /\ queue' \in Seq(Jobs) /\ Len(queue') = Len(queue) + 1
        /\ \A i \in 1..Len(queue) : queue'[i] = queue[i]
        /\ queue'[Len(queue) + 1] = submitted + 1
    BY <1>0, <1>2, PoolAssumption, AppendProperties
    DEF Send, Jobs, TypeInv, Shape, TypeOK, MainTypeOK
  <2>2. UNCHANGED <<pc, job, result, outcome, lines>> /\ submitted' = submitted + 1
    BY <1>2 DEF Send, workerVars, bookVars
  <2>0. /\ Len(queue) \in Nat /\ submitted \in Nat
        /\ Len(queue') = Len(queue) + 1 /\ submitted' = submitted + 1
    BY <1>0, <2>1, <2>2
  <2>3. ASSUME NEW i \in 1..Len(queue')
        PROVE  \/ /\ i \in 1..Len(queue) /\ queue'[i] = queue[i]
                  /\ queue[i] \in Nat /\ queue[i] <= submitted
               \/ i = Len(queue) + 1 /\ queue'[i] = submitted + 1
    <3>1. i \in 1..Len(queue) \/ i = Len(queue) + 1
      BY <2>0
    <3>2. \A k \in 1..Len(queue) : queue[k] \in Nat /\ queue[k] <= submitted
      BY <1>0 DEF QueueInOrder
    <3>3. QED
      BY <2>1, <3>1, <3>2
  <2>4. QueueInOrder'
    <3>1. ASSUME NEW i \in 1..Len(queue'), NEW k \in 1..Len(queue'), i < k
          PROVE  queue'[i] < queue'[k]
      <4>0. i \in 1..Len(queue)
        BY <2>0, <3>1
      <4>1. i \in 1..Len(queue) /\ queue'[i] = queue[i]
        BY <2>1, <4>0
      <4>2. CASE k \in 1..Len(queue)
        <5>1. queue'[k] = queue[k] /\ queue[i] < queue[k]
          BY <2>1, <3>1, <4>1, <4>2 DEF QueueInOrder
        <5>2. QED
          BY <4>1, <5>1
      <4>3. CASE k = Len(queue) + 1
        <5>1. queue'[i] \in Nat /\ queue'[i] <= submitted
          BY <1>0, <4>1 DEF QueueInOrder
        <5>2. queue'[k] = submitted + 1
          BY <2>1, <4>3
        <5>3. QED
          BY <2>0, <5>1, <5>2
      <4>4. QED
        BY <2>0, <4>2, <4>3
    <3>2. ASSUME NEW i \in 1..Len(queue') PROVE queue'[i] <= submitted'
      BY <2>0, <2>3
    <3>3. QED
      BY <3>1, <3>2 DEF QueueInOrder
  <2>5. HeldOnce' /\ HandsAgree'
    <3>1. ASSUME NEW w \in Workers, pc[w] \in HasJob, NEW i \in 1..Len(queue')
          PROVE  job[w] < queue'[i]
      <4>1. job[w] \in Nat /\ job[w] <= submitted
        BY <1>0, <3>1 DEF HeldOnce
      <4>2. CASE i \in 1..Len(queue) /\ queue'[i] = queue[i]
        BY <3>1, <4>2 DEF HeldOnce
      <4>3. CASE queue'[i] = submitted + 1
        BY <1>0, <4>1, <4>3
      <4>4. QED
        BY <2>3, <4>2, <4>3
    <3>2. QED
      BY <1>0, <2>2, <3>1 DEF HeldOnce, HandsAgree
  <2>6. SettledBehindQueue' /\ LineIsOutcome'
    <3>1. ASSUME NEW j \in Jobs, outcome[j] # "open", NEW i \in 1..Len(queue')
          PROVE  j < queue'[i]
      <4>1. j \in Nat /\ j <= submitted
        BY <1>0, <3>1 DEF SettledBehindQueue
      <4>2. CASE i \in 1..Len(queue) /\ queue'[i] = queue[i]
        BY <3>1, <4>2 DEF SettledBehindQueue
      <4>3. CASE queue'[i] = submitted + 1
        BY <1>0, <4>1, <4>3
      <4>4. QED
        BY <2>3, <4>2, <4>3
    <3>2. QED
      BY <1>0, <2>2, <3>1 DEF SettledBehindQueue, LineIsOutcome
  <2>7. QED
    BY <2>4, <2>5, <2>6
<1>3. CASE SkipSend
  <2>1. UNCHANGED <<queue, pc, job, result, outcome, lines>> /\ submitted' = submitted + 1
    BY <1>0, <1>3 DEF SkipSend, SkipSendUnguarded, workerVars, bookVars
  <2>2. QueueInOrder' /\ HandsAgree' /\ LineIsOutcome'
    BY <1>0, <2>1 DEF QueueInOrder, HandsAgree, LineIsOutcome
  <2>3. HeldOnce' /\ SettledBehindQueue'
    BY <1>0, <2>1 DEF HeldOnce, SettledBehindQueue
  <2>4. QED
    BY <1>0, <2>2, <2>3
<1>4. ASSUME NEW w \in Workers, Receive(w) PROVE Ownership'
  <2>1. /\ job' = [job EXCEPT ![w] = queue[1]] /\ queue[1] \in Jobs
        /\ pc' = [pc EXCEPT ![w] = "got"] /\ pc[w] = "idle"
        /\ UNCHANGED <<submitted, result, outcome, lines>>
    BY <1>0, <1>4, TailOfQueue DEF Receive, Goto, mainVars, bookVars
  <2>2. /\ Len(queue) \in Nat \ {0} /\ Len(queue') = Len(queue) - 1
        /\ \A i \in 1..Len(queue') : i + 1 \in 1..Len(queue) /\ queue'[i] = queue[i + 1]
        /\ 1 \in 1..Len(queue) /\ \A i \in 1..Len(queue') : 1 < i + 1
    BY <1>0, <1>4, TailOfQueue DEF Receive
  <2>3. QueueInOrder'
    <3>1. ASSUME NEW i \in 1..Len(queue'), NEW k \in 1..Len(queue'), i < k
          PROVE  queue'[i] < queue'[k]
      <4>1. /\ i + 1 \in 1..Len(queue) /\ k + 1 \in 1..Len(queue) /\ i + 1 < k + 1
            /\ queue'[i] = queue[i + 1] /\ queue'[k] = queue[k + 1]
        BY <2>2, <3>1
      <4>2. queue[i + 1] < queue[k + 1]
        BY <4>1 DEF QueueInOrder
      <4>3. QED
        BY <4>1, <4>2
    <3>2. ASSUME NEW i \in 1..Len(queue') PROVE queue'[i] <= submitted'
      BY <1>0, <2>1, <2>2 DEF QueueInOrder
    <3>3. QED
      BY <3>1, <3>2 DEF QueueInOrder
  <2>4. HeldOnce'
    <3>1. queue[1] <= submitted /\ \A i \in 1..Len(queue') : queue[1] < queue'[i]
      BY <1>0, <2>2 DEF QueueInOrder
    <3>2. ASSUME NEW v \in Workers \ {w}, pc[v] \in HasJob
          PROVE  /\ job[v] # queue[1]
                 /\ \A i \in 1..Len(queue') : job[v] < queue'[i]
      <4>1. job[v] < queue[1] /\ job[v] \in Nat /\ queue[1] \in Nat
        BY <1>0, <2>2, <3>2 DEF HeldOnce
      <4>2. \A i \in 1..Len(queue') : job[v] < queue'[i]
        BY <1>0, <2>2, <3>2 DEF HeldOnce
      <4>3. QED
        BY <4>1, <4>2
    <3>3. QED
      BY <1>0, <2>1, <3>1, <3>2 DEF HeldOnce
  <2>5. SettledBehindQueue'
    BY <1>0, <2>1, <2>2 DEF SettledBehindQueue
  <2>6. LineIsOutcome'
    BY <1>0, <2>1 DEF LineIsOutcome
  <2>7. HandsAgree'
    <3>1. outcome[queue[1]] = "open"
      BY <1>0, <2>1, <2>2 DEF SettledBehindQueue
    <3>2. QED
      BY <1>0, <2>1, <3>1 DEF HandsAgree, HasJob
  <2>8. QED
    BY <1>0, <2>3, <2>4, <2>5, <2>6, <2>7
<1>5. ASSUME NEW w \in Workers, RecvClosed(w) \/ Drop(w) \/ Capture(w)
      PROVE  Ownership'
  <2>1. /\ \A v \in Workers \ {w} : /\ pc'[v] = pc[v] /\ job'[v] = job[v]
                                    /\ result'[v] = result[v]
        /\ pc'[w] \in {"idle", "exited"}
        /\ UNCHANGED <<queue, submitted, outcome, lines>>
    BY <1>0, <1>5 DEF RecvClosed, Drop, Capture, Goto, mainVars, bookVars
  <2>2. pc'[w] \notin HasJob /\ pc'[w] # "record" /\ pc'[w] # "capture"
    BY <1>0, <2>1 DEF HasJob
  <2>3. HeldOnce'
    BY <1>0, <2>1, <2>2 DEF HeldOnce
  <2>4. HandsAgree'
    <3>1. \A v \in Workers \ {w} : pc'[v] = pc[v] /\ job'[v] = job[v]
                                   /\ result'[v] = result[v]
      BY <2>1
    <3>2. QED
      BY <2>1, <2>2, <3>1, Zenon DEF HandsAgree
  <2>5. QED
    BY <1>0, <2>1, <2>3, <2>4 DEF QueueInOrder, SettledBehindQueue, LineIsOutcome
<1>6. ASSUME NEW w \in Workers,
             Accept(w) \/ Begin(w) \/ NoCache(w) \/ CountOther(w) \/ CountHit(w)
               \/ CountAlias(w) \/ ExecReturn(w)
      PROVE  Ownership'
  <2>1. PICK from \in HasJob \ {"record", "capture"},
             to \in HasJob \ {"record", "capture"} : Goto(w, from, to)
    BY <1>0, <1>6 DEF HasJob, Accept, Begin, NoCache, CountOther, CountHit, CountAlias,
                ExecReturn
  <2>2. /\ UNCHANGED <<queue, submitted, job, outcome, lines>>
        /\ \A v \in Workers \ {w} : result'[v] = result[v]
    BY <1>0, <1>6 DEF Accept, Begin, NoCache, CountOther, CountHit, CountAlias, ExecReturn,
                mainVars, bookVars
  <2>3. QED
    BY <2>1, <2>2, OwnershipMove
<1>7. ASSUME NEW w \in Workers, CountOutcome(w) PROVE Ownership'
  <2>1. /\ pc[w] = "count" /\ pc' = [pc EXCEPT ![w] = "record"]
        /\ outcome' = [outcome EXCEPT ![job[w]] = ClassOf(result[w])]
        /\ UNCHANGED <<queue, submitted, job, result, lines>>
    BY <1>0, <1>7 DEF CountOutcome, Goto, mainVars
  <2>2. /\ "count" \in HasJob /\ "record" \in HasJob
        /\ job[w] \in Jobs /\ outcome[job[w]] = "open" /\ lines[job[w]] = <<>>
        /\ ClassOf(result[w]) \in JobClass /\ "open" \notin JobClass
    BY <1>0, <2>1, ClassIsClass DEF HandsAgree, LineIsOutcome, HasJob, JobClass
  <2>3. HeldOnce'
    BY <1>0, <2>1, <2>2 DEF HeldOnce
  <2>4. SettledBehindQueue'
    BY <1>0, <2>1, <2>2 DEF SettledBehindQueue, HeldOnce
  <2>5. LineIsOutcome'
    BY <1>0, <2>1, <2>2 DEF LineIsOutcome
  <2>6. HandsAgree'
    <3>1. \A v \in Workers \ {w} : pc[v] \in HasJob => job[v] # job[w]
      BY <1>0, <2>1, <2>2 DEF HeldOnce
    <3>2. QED
      BY <1>0, <2>1, <2>2, <3>1 DEF HandsAgree, HasJob
  <2>7. QED
    BY <1>0, <2>1, <2>3, <2>4, <2>5, <2>6 DEF QueueInOrder
<1>8. ASSUME NEW w \in Workers, WriteLine(w) PROVE Ownership'
  <2>1. /\ pc[w] = "record" /\ pc' = [pc EXCEPT ![w] = "capture"]
        /\ \/ lines' = [lines EXCEPT ![job[w]] = Append(@, ClassOf(result[w]))]
           \/ lines' = lines
        /\ UNCHANGED <<queue, submitted, job, result, outcome>>
    BY <1>0, <1>8 DEF WriteLine, Goto, mainVars
  <2>2. /\ "record" \in HasJob /\ "capture" \in HasJob
        /\ job[w] \in Jobs /\ lines[job[w]] = <<>>
        /\ outcome[job[w]] = ClassOf(result[w])
        /\ outcome[job[w]] # "open"
    BY <1>0, <2>1, ClassIsClass DEF HandsAgree, HasJob, JobClass
  <2>3. Append(lines[job[w]], ClassOf(result[w])) = <<outcome[job[w]]>>
    BY <1>0, <2>2
  <2>4. HeldOnce'
    BY <1>0, <2>1, <2>2 DEF HeldOnce
  <2>5. LineIsOutcome'
    BY <1>0, <2>1, <2>2, <2>3 DEF LineIsOutcome
  <2>6. HandsAgree'
    <3>1. \A v \in Workers \ {w} : pc[v] \in HasJob => job[v] # job[w]
      BY <1>0, <2>1, <2>2 DEF HeldOnce
    <3>2. \A v \in Workers \ {w} : pc[v] = "record" => lines'[job[v]] = <<>>
      BY <1>0, <2>1, <2>2, <3>1 DEF HandsAgree, HasJob
    <3>3. QED
      BY <1>0, <2>1, <2>2, <3>2 DEF HandsAgree, HasJob
  <2>7. QED
    BY <1>0, <2>1, <2>4, <2>5, <2>6 DEF QueueInOrder, SettledBehindQueue
<1>9. QED
  BY <1>1, <1>2, <1>3, <1>4, <1>5, <1>6, <1>7, <1>8
  DEF Next, MainStep, WorkerStep, Ended, vars, mainVars, workerVars, bookVars, Cancel,
      StopProgress, CheckCtx, Stop, WaitDone, WaitCtx, JoinProgress, Load, Summarise,
      CloseFile, Exit

LEMMA OwnershipInvariant == Spec => []Ownership
BY TypeInvariant, OwnershipInit, OwnershipStep, PTL DEF Spec

\* No job is warmed or reported twice, whatever the number of workers, jobs
\* and queue slots and however cancellation interleaves with them.
THEOREM JobsAtMostOnce == Spec => []AtMostOnce
<1>1. TypeInv /\ Ownership => AtMostOnce
  <2> SUFFICES ASSUME TypeInv, Ownership PROVE AtMostOnce
    OBVIOUS
  <2> USE DEF TypeInv, TypeOK, MainTypeOK, WorkerTypeOK, Shape, Ownership
  <2>0. Len(queue) \in Nat /\ \A i \in 1..Len(queue) : queue[i] \in Nat
    BY QueueOfNumbers
  <2>1. \A i, k \in 1..Len(queue) : i # k => queue[i] # queue[k]
    BY <2>0 DEF QueueInOrder
  <2>2. \A w \in Workers : pc[w] \in HasJob =>
          /\ \A i \in 1..Len(queue) : queue[i] # job[w]
          /\ \A v \in Workers \ {w} : pc[v] \in HasJob => job[v] # job[w]
    BY <2>0 DEF HeldOnce
  <2>3. QED
    BY <2>1, <2>2 DEF AtMostOnce, LineIsOutcome
<1>2. QED
  BY <1>1, TypeInvariant, OwnershipInvariant, PTL
=============================================================================
