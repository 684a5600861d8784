-------------------------------- MODULE Pool --------------------------------
(***************************************************************************)
(* One warming run from the first Submit to the exit of the process: the   *)
(* main goroutine of cmd/main.go, the worker goroutines of internal/worker *)
(* and the reporter of cmd/report.go, with a context that SIGINT, SIGTERM  *)
(* or -timeout may cancel at any moment.                                   *)
(*                                                                         *)
(* Every atomic counter update, counter load, channel operation and        *)
(* mutex-protected write is a step of its own, so they interleave as the   *)
(* goroutines may.  What happens inside Retrier.Execute is its contract    *)
(* (Outcome!Returns).                                                      *)
(***************************************************************************)
EXTENDS Naturals, Sequences, FiniteSets, Outcome

CONSTANTS
    Workers,      \* worker goroutines: Pool.size of them
    NumJobs,      \* combinations the plan holds, submitted in the order 1..NumJobs
    QueueCap,     \* capacity of Pool.jobs
    Outcomes,     \* the results of Execute that the run meets
    StopOnError   \* config: a failed job makes the exit code non-zero

ASSUME PoolAssumption ==
    /\ IsFiniteSet(Workers) /\ Workers # {}
    /\ NumJobs \in Nat
    /\ QueueCap \in Nat \ {0}
    /\ Outcomes \subseteq Result
    /\ StopOnError \in BOOLEAN

VARIABLES
    ctxDone,      \* the root context is done
    main,         \* where the main goroutine is
    submitted,    \* Submit calls made, what submitPlanJobs returns
    queue,        \* Pool.jobs, oldest first
    closed,       \* Pool.jobs is closed
    pc,           \* where each worker is
    job,          \* the job a worker has received, 0 when it has none
    result,       \* what Execute returned for it
    stats,        \* Pool.stats
    lines,        \* per job, the classes of its lines in the JSONL file
    failures,     \* runReporter.failures
    fileOpen,     \* the JSONL file is open
    progress,     \* the progress goroutine: running or stopped
    drained,      \* Wait returned because every worker had exited
    snap,         \* the counters Snapshot has loaded, in its order
    snapFailures, \* the failures of the summary
    exit,         \* the exit code, 2 while the process lives
    outcome       \* history: the class each job was counted under

mainVars == <<main, submitted, closed, drained, snap, snapFailures, exit, fileOpen>>
workerVars == <<pc, job, result>>
bookVars == <<stats, lines, failures, outcome>>
vars == <<ctxDone, queue, progress, mainVars, workerVars, bookVars>>

Jobs == 1..NumJobs

\* Plausible bug: the counter is loaded before the alias it stays ahead of.
HitsLoadedFirst ==
    <<"Total", "Success", "Failed", "CacheHits", "Cached", "CacheOther">>

\* Misses, bypasses and unknowns are one counter here; bytes and durations,
\* added at the same place, are left out.
SnapOrder == <<"Total", "Success", "Failed", "Cached", "CacheHits", "CacheOther">>
Counters == {SnapOrder[i] : i \in DOMAIN SnapOrder}
Snapped(c) == snap[CHOOSE i \in DOMAIN SnapOrder : SnapOrder[i] = c]

NoResult == [err |-> "nil", cache |-> "none"]
HasJob == {"got", "begin", "exec", "cache", "alias", "count", "record", "capture"}

Init ==
    /\ ctxDone = FALSE
    /\ main = "check"
    /\ submitted = 0
    /\ queue = <<>>
    /\ closed = FALSE
    /\ pc = [w \in Workers |-> "idle"]
    /\ job = [w \in Workers |-> 0]
    /\ result = [w \in Workers |-> NoResult]
    /\ stats = [c \in Counters |-> 0]
    /\ lines = [j \in Jobs |-> <<>>]
    /\ failures = {}
    /\ fileOpen = TRUE
    /\ progress = "running"
    /\ drained = FALSE
    /\ snap = <<>>
    /\ snapFailures = {}
    /\ exit = 2
    /\ outcome = [j \in Jobs |-> "open"]
-----------------------------------------------------------------------------
(* The environment: a signal or the -timeout deadline.                     *)

Alive == main # "exited"

Cancel ==
    /\ Alive /\ ~ctxDone
    /\ ctxDone' = TRUE
    /\ UNCHANGED <<queue, progress, mainVars, workerVars, bookVars>>
-----------------------------------------------------------------------------
(* The main goroutine.                                                     *)

\* The tests of ctx.Err() at the top of both loops of submitPlanJobs; both
\* end the submission, and so does the end of the plan.
CheckCtx ==
    /\ main = "check"
    /\ main' = IF ctxDone \/ submitted = NumJobs THEN "stop" ELSE "send"
    /\ UNCHANGED <<ctxDone, queue, closed, progress, submitted, drained, snap,
                   snapFailures, exit, fileOpen, workerVars, bookVars>>

\* Plausible bug: a queue without a capacity.
SendUnbounded ==
    /\ main = "send"
    /\ queue' = Append(queue, submitted + 1)
    /\ submitted' = submitted + 1
    /\ main' = "check"
    /\ UNCHANGED <<ctxDone, closed, progress, drained, snap, snapFailures, exit,
                   fileOpen, workerVars, bookVars>>

\* Submit's select: the queue takes the job when it has room, the context's
\* branch skips it.  With both ready either may win, and the job is counted
\* either way.
Send ==
    /\ main = "send"
    /\ Len(queue) < QueueCap
    /\ queue' = Append(queue, submitted + 1)
    /\ submitted' = submitted + 1
    /\ main' = "check"
    /\ UNCHANGED <<ctxDone, closed, progress, drained, snap, snapFailures, exit,
                   fileOpen, workerVars, bookVars>>

\* Plausible bug: a select with a default branch, which drops the job when the
\* queue is full.
SkipSendUnguarded ==
    /\ main = "send"
    /\ submitted' = submitted + 1
    /\ main' = "check"
    /\ UNCHANGED <<ctxDone, queue, closed, progress, drained, snap, snapFailures,
                   exit, fileOpen, workerVars, bookVars>>

\* Plausible bug: Submit without its ctx.Done() branch.
SkipSendNever == FALSE

SkipSend == ctxDone /\ SkipSendUnguarded

\* Plausible bug: the queue is never closed.
StopWithoutClose ==
    /\ main = "stop"
    /\ main' = "wait"
    /\ UNCHANGED <<ctxDone, queue, closed, progress, submitted, drained, snap,
                   snapFailures, exit, fileOpen, workerVars, bookVars>>

Stop ==
    /\ main = "stop"
    /\ closed' = TRUE
    /\ main' = "wait"
    /\ UNCHANGED <<ctxDone, queue, progress, submitted, drained, snap, snapFailures,
                   exit, fileOpen, workerVars, bookVars>>

\* Plausible bug: Wait watches the queue and not the workers.
WaitQueueEmpty ==
    /\ main = "wait"
    /\ queue = <<>>
    /\ drained' = TRUE
    /\ main' = "join"
    /\ UNCHANGED <<ctxDone, queue, closed, progress, submitted, snap, snapFailures,
                   exit, fileOpen, workerVars, bookVars>>

\* Wait's select: the done branch ...
WaitDone ==
    /\ main = "wait"
    /\ \A w \in Workers : pc[w] = "exited"
    /\ drained' = TRUE
    /\ main' = "join"
    /\ UNCHANGED <<ctxDone, queue, closed, progress, submitted, snap, snapFailures,
                   exit, fileOpen, workerVars, bookVars>>

\* ... and the context's, which leaves the workers running.
WaitCtx ==
    /\ main = "wait"
    /\ ctxDone
    /\ main' = "join"
    /\ UNCHANGED <<ctxDone, queue, closed, progress, submitted, drained, snap,
                   snapFailures, exit, fileOpen, workerVars, bookVars>>

\* The progress goroutine returns once progressDone is closed or the context
\* is done; its own Snapshot only feeds a log line.
StopProgress ==
    /\ progress = "running"
    /\ main = "join" \/ (ctxDone /\ Alive)
    /\ progress' = "stopped"
    /\ UNCHANGED <<ctxDone, queue, mainVars, workerVars, bookVars>>

JoinProgress ==
    /\ main = "join"
    /\ progress = "stopped"
    /\ main' = "snap"
    /\ UNCHANGED <<ctxDone, queue, closed, progress, submitted, drained, snap,
                   snapFailures, exit, fileOpen, workerVars, bookVars>>

\* One atomic load of Stats.Snapshot.
Load ==
    /\ main = "snap"
    /\ snap' = Append(snap, stats[SnapOrder[Len(snap) + 1]])
    /\ main' = IF Len(snap') = Len(SnapOrder) THEN "failures" ELSE "snap"
    /\ UNCHANGED <<ctxDone, queue, closed, progress, submitted, drained, snapFailures,
                   exit, fileOpen, workerVars, bookVars>>

\* snapshotFailures and writeSummary.
Summarise ==
    /\ main = "failures"
    /\ snapFailures' = failures
    /\ main' = "close"
    /\ UNCHANGED <<ctxDone, queue, closed, progress, submitted, drained, snap, exit,
                   fileOpen, workerVars, bookVars>>

\* The deferred Close of the JSONL file, with the value run returns.
CloseFile ==
    /\ main = "close"
    /\ fileOpen' = FALSE
    /\ exit' = IF StopOnError /\ Snapped("Failed") > 0 THEN 1 ELSE 0
    /\ main' = "closed"
    /\ UNCHANGED <<ctxDone, queue, closed, progress, submitted, drained, snap,
                   snapFailures, workerVars, bookVars>>

\* The process ends, and every goroutine with it.
Exit ==
    /\ main = "closed"
    /\ main' = "exited"
    /\ UNCHANGED <<ctxDone, queue, closed, progress, submitted, drained, snap,
                   snapFailures, exit, fileOpen, workerVars, bookVars>>

MainStep ==
    \/ CheckCtx \/ Send \/ SkipSend \/ Stop \/ WaitDone \/ WaitCtx
    \/ JoinProgress \/ Load \/ Summarise \/ CloseFile \/ Exit
-----------------------------------------------------------------------------
(* A worker.                                                               *)

Goto(w, from, to) ==
    /\ Alive
    /\ pc[w] = from
    /\ pc' = [pc EXCEPT ![w] = to]

Bump(c) == stats' = [stats EXCEPT ![c] = @ + 1]

\* Plausible bug: the job is read from the queue without being removed.
PeekQueue(w) ==
    /\ Goto(w, "idle", "got")
    /\ queue # <<>>
    /\ job' = [job EXCEPT ![w] = Head(queue)]
    /\ queue' = queue
    /\ UNCHANGED <<ctxDone, progress, mainVars, result, bookVars>>

Receive(w) ==
    /\ Goto(w, "idle", "got")
    /\ queue # <<>>
    /\ job' = [job EXCEPT ![w] = Head(queue)]
    /\ queue' = Tail(queue)
    /\ UNCHANGED <<ctxDone, progress, mainVars, result, bookVars>>

\* The range over a closed and empty channel ends.
RecvClosed(w) ==
    /\ Goto(w, "idle", "exited")
    /\ queue = <<>> /\ closed
    /\ UNCHANGED <<ctxDone, queue, progress, mainVars, job, result, bookVars>>

\* ctx.Err() of runWorker: done, the worker leaves with the job unprocessed ...
Drop(w) ==
    /\ Goto(w, "got", "exited")
    /\ ctxDone
    /\ job' = [job EXCEPT ![w] = 0]
    /\ UNCHANGED <<ctxDone, queue, progress, mainVars, result, bookVars>>

\* ... not done, it processes the job.
Accept(w) ==
    /\ Goto(w, "got", "begin")
    /\ ~ctxDone
    /\ UNCHANGED <<ctxDone, queue, progress, mainVars, job, result, bookVars>>

Begin(w) ==
    /\ Goto(w, "begin", "exec")
    /\ Bump("Total")
    /\ UNCHANGED <<ctxDone, queue, progress, mainVars, job, result, lines, failures,
                   outcome>>

ExecReturn(w) ==
    /\ Goto(w, "exec", "cache")
    /\ \E r \in Returns(ctxDone) \cap Outcomes : result' = [result EXCEPT ![w] = r]
    /\ UNCHANGED <<ctxDone, queue, progress, mainVars, job, bookVars>>

\* The switch on lastResult.CacheState: nothing to count without a response.
NoCache(w) ==
    /\ Goto(w, "cache", "count")
    /\ result[w].cache = "none"
    /\ UNCHANGED <<ctxDone, queue, progress, mainVars, job, result, bookVars>>

CountOther(w) ==
    /\ Goto(w, "cache", "count")
    /\ result[w].cache = "other"
    /\ Bump("CacheOther")
    /\ UNCHANGED <<ctxDone, queue, progress, mainVars, job, result, lines, failures,
                   outcome>>

CountHit(w) ==
    /\ Goto(w, "cache", "alias")
    /\ result[w].cache = "hit"
    /\ Bump("CacheHits")
    /\ UNCHANGED <<ctxDone, queue, progress, mainVars, job, result, lines, failures,
                   outcome>>

CountAlias(w) ==
    /\ Goto(w, "alias", "count")
    /\ Bump("Cached")
    /\ UNCHANGED <<ctxDone, queue, progress, mainVars, job, result, lines, failures,
                   outcome>>

\* Plausible bug: cancellations fall through to the failures.
CancelledFails ==
    [success |-> {"Success"}, failed |-> {"Failed"}, cancelled |-> {"Failed"}]

CounterOf == [success |-> {"Success"}, failed |-> {"Failed"}, cancelled |-> {}]

\* The switch on err: success, cancelled (no counter) or failed.
CountOutcome(w) ==
    /\ Goto(w, "count", "record")
    /\ LET class == ClassOf(result[w]) IN
         /\ stats' = [c \in Counters |->
                        stats[c] + IF c \in CounterOf[class] THEN 1 ELSE 0]
         /\ outcome' = [outcome EXCEPT ![job[w]] = class]
    /\ UNCHANGED <<ctxDone, queue, progress, mainVars, job, result, lines, failures>>

\* Record, first half: the line is lost once the file is closed, Encode's
\* error is ignored.
WriteLine(w) ==
    /\ Goto(w, "record", "capture")
    /\ lines' = IF fileOpen
                THEN [lines EXCEPT ![job[w]] = Append(@, ClassOf(result[w]))]
                ELSE lines
    /\ UNCHANGED <<ctxDone, queue, progress, mainVars, job, result, stats, failures,
                   outcome>>

\* Plausible bug: cancelled jobs are captured as failures too.
CaptureAny(w) ==
    /\ Goto(w, "capture", "idle")
    /\ failures' = failures \cup (IF result[w].err # "nil" THEN {job[w]} ELSE {})
    /\ job' = [job EXCEPT ![w] = 0]
    /\ result' = [result EXCEPT ![w] = NoResult]
    /\ UNCHANGED <<ctxDone, queue, progress, mainVars, stats, lines, outcome>>

\* Record, second half, and the end of process: real failures are captured.
Capture(w) ==
    /\ Goto(w, "capture", "idle")
    /\ failures' = failures \cup
                     (IF ClassOf(result[w]) = "failed" THEN {job[w]} ELSE {})
    /\ job' = [job EXCEPT ![w] = 0]
    /\ result' = [result EXCEPT ![w] = NoResult]
    /\ UNCHANGED <<ctxDone, queue, progress, mainVars, stats, lines, outcome>>

\* The steps a worker takes by itself: all but the return of Execute, which
\* depends on the target.
WorkerStep(w) ==
    \/ Receive(w) \/ RecvClosed(w) \/ Drop(w) \/ Accept(w) \/ Begin(w)
    \/ NoCache(w) \/ CountOther(w) \/ CountHit(w) \/ CountAlias(w)
    \/ CountOutcome(w) \/ WriteLine(w) \/ Capture(w)
-----------------------------------------------------------------------------
\* The run is over: stuttering here is not a deadlock.
Ended == ~Alive /\ UNCHANGED vars

Next ==
    \/ Cancel \/ MainStep \/ StopProgress
    \/ \E w \in Workers : WorkerStep(w) \/ ExecReturn(w)
    \/ Ended

Spec == Init /\ [][Next]_vars

\* The Go scheduler runs every runnable goroutine.  A request may take
\* forever as far as the pool knows, so ExecReturn gets no fairness.
FairSpec ==
    /\ Spec
    /\ WF_vars(MainStep)
    /\ WF_vars(StopProgress)
    /\ \A w \in Workers : WF_vars(WorkerStep(w))
-----------------------------------------------------------------------------
(* Properties.                                                             *)

Processing == {"exec", "cache", "alias", "count"}
Written(class) == {j \in Jobs : lines[j] = <<class>>}
Counted(class) == {j \in Jobs : outcome[j] = class}

MainTypeOK ==
    /\ ctxDone \in BOOLEAN
    /\ main \in {"check", "send", "stop", "wait", "join", "snap", "failures",
                 "close", "closed", "exited"}
    /\ submitted \in 0..NumJobs
    /\ queue \in Seq(Jobs) /\ Len(queue) <= QueueCap
    /\ closed \in BOOLEAN
    /\ progress \in {"running", "stopped"}
    /\ drained \in BOOLEAN
    /\ snap \in Seq(Nat) /\ Len(snap) <= Len(SnapOrder)
    /\ snapFailures \subseteq Jobs
    /\ exit \in 0..2

WorkerTypeOK ==
    /\ pc \in [Workers -> HasJob \cup {"idle", "exited"}]
    /\ job \in [Workers -> 0..NumJobs]
    /\ result \in [Workers -> Result]

BookTypeOK ==
    /\ stats \in [Counters -> Nat]
    /\ lines \in [Jobs -> Seq(JobClass)]
    /\ failures \subseteq Jobs
    /\ fileOpen \in BOOLEAN
    /\ outcome \in [Jobs -> JobClass \cup {"open"}]

\* The types of the variables.
TypeOK == MainTypeOK /\ WorkerTypeOK /\ BookTypeOK

\* No job is warmed or reported twice: a job is in the queue or in one
\* worker's hands, never in two places, and the JSONL file has at most one
\* line for it, of the class it was counted under.
AtMostOnce ==
    /\ \A i, k \in 1..Len(queue) : i # k => queue[i] # queue[k]
    /\ \A w \in Workers : pc[w] \in HasJob =>
         /\ \A i \in 1..Len(queue) : queue[i] # job[w]
         /\ \A v \in Workers \ {w} : pc[v] \in HasJob => job[v] # job[w]
    /\ \A j \in Jobs : lines[j] # <<>> => lines[j] = <<outcome[j]>>

\* The counters are the jobs: Total counts those processed or in process,
\* Success and Failed those of their class, and while the file is open every
\* counted job has its line or is on its way to it.
CountersAgree ==
    /\ stats["Success"] = Cardinality(Counted("success"))
    /\ stats["Failed"] = Cardinality(Counted("failed"))
    /\ stats["Total"] = Cardinality({j \in Jobs : outcome[j] # "open"})
                          + Cardinality({w \in Workers : pc[w] \in Processing})
    /\ fileOpen => \A j \in Jobs :
         \/ outcome[j] = "open"
         \/ lines[j] = <<outcome[j]>>
         \/ \E w \in Workers : pc[w] = "record" /\ job[w] = j

\* When Wait returned because the workers had exited, the summary and the
\* exit code say exactly what the JSONL file says.
DrainedSummaryExact ==
    drained /\ main \in {"closed", "exited"} =>
        /\ Snapped("Success") = Cardinality(Written("success"))
        /\ Snapped("Failed") = Cardinality(Written("failed"))
        /\ Snapped("Total") = Cardinality({j \in Jobs : lines[j] # <<>>})
        /\ Snapped("Cached") = Snapped("CacheHits")
        /\ snapFailures = Written("failed")
        /\ exit = IF StopOnError /\ Written("failed") # {} THEN 1 ELSE 0

\* A run nobody cancels ends with every planned job processed and written.
CompleteUnlessCancelled ==
    ~ctxDone /\ main \notin {"check", "send", "stop", "wait"} =>
        /\ drained
        /\ submitted = NumJobs
        /\ \A j \in Jobs : \E class \in JobClass : lines[j] = <<class>>

\* Whatever the moment of the snapshot, the legacy Cached field never exceeds
\* the CacheHits field it aliases: the hit is counted before its alias, and
\* the alias loaded before the hit.
AliasNeverAhead ==
    Len(snap) >= 5 => Snapped("Cached") <= Snapped("CacheHits")

\* A run is a ledger of its jobs: a job is pending while it is unsubmitted,
\* queued or just received, running from its count in Total to the count of
\* its outcome, and lost when it was skipped or dropped.
RunsIt(j) == \E w \in Workers : job[w] = j /\ pc[w] \in Processing

WaitsFor(j) ==
    \/ j > submitted
    \/ \E i \in DOMAIN queue : queue[i] = j
    \/ \E w \in Workers : job[w] = j /\ pc[w] \in {"got", "begin"}

StatusOf(j) ==
    IF outcome[j] # "open" THEN outcome[j]
    ELSE IF RunsIt(j) THEN "running"
    ELSE IF WaitsFor(j) THEN "pending" ELSE "lost"

Ledger == INSTANCE JobLedger WITH
    Slots <- Cardinality(Workers),
    status <- [j \in Jobs |-> StatusOf(j)],
    cancelled <- ctxDone,
    over <- main \notin {"check", "send", "stop", "wait"}

\* The run implements the ledger: jobs settle once, at most one per worker
\* runs, only cancellation loses any, and the run ends settled or cancelled.
RefinesLedger == Ledger!LedgerSpec

\* Once the context is done the process exits, even with the queue full and
\* requests that never return.
CancelTerminates == ctxDone ~> main = "exited"

\* If no request hangs for ever, the run ends.
TerminatesIfTargetsAnswer ==
    (\A w \in Workers : []<>(pc[w] # "exec")) => <>(main = "exited")

\* The summary is "written once, after the worker pool has drained"
\* (README.md), when "no further writers exist" (snapshotFailures).
SummaryAfterDrain ==
    main \in {"close", "closed", "exited"} =>
        \A w \in Workers : pc[w] \in {"idle", "got", "exited"}

\* Jobs reported as cancelled are those "caused by the caller (timeout /
\* SIGINT), not by the target" (process, README.md).
CancelledOnlyByCaller ==
    \A j \in Jobs : outcome[j] = "cancelled" => ctxDone
=============================================================================
