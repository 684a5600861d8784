# gowarm in TLA+

gowarm fetches a sitemap, expands every URL into jobs, one for each combination
of axis values (cookies, headers), and warms a cache by issuing them through a
pool of workers with retries, a rate limit and an adaptive slowdown. This
directory models the parts of it that carry state or whose control is hard to
test, checks them with TLC on small instances, and proves what matters most
with TLAPS for every instance.

Paths below are relative to the repository (`cmd/...`, `internal/...` are under
`src/`).

## The system

| Component | State | Operations | Talks to |
|---|---|---|---|
| Run orchestration, `cmd/main.go` | root context, stage of `run`, submitted count, exit code | `run`, `submitPlanJobs`, `reportProgress`, signal goroutine | everything: calls, the context, two channels |
| Planner, `cmd/plan.go` | `runPlan` | `planRun`, `applyPriority`, `applySampling`, `comboCount`; `buildApplicable`, `forEachCombo` in `main.go` | pure; its result feeds submission and dry run |
| Sitemap collection, `cmd/main.go` | queue of sitemaps, visited set, URLs | `collectURLs`, `fetchAndParse`, `dedup` | `Client.Get`; the parser goroutine through a channel |
| Parser, `internal/parser` | decoder position, output channel | `Parse`, `IsIndex` | its consumer, the context |
| Worker pool, `internal/worker` | job channel, workers, atomic counters | `Submit`, `Stop`, `Wait`, `runWorker`, `process`, `Snapshot` | retrier (call), reporter (callback), main (channel, counters) |
| Reporter, `cmd/report.go` | JSONL file, captured failures | `Record`, `snapshotFailures`, `writeSummary` | called by all workers and by main |
| Retrier, `internal/retry` | attempt, last error, timer | `Execute`, `computeDelay`, `sleepCtx` | calls `Client.Warm` |
| HTTP client, `internal/http/client.go` | none of its own | `Warm`, `Get`, request building | throttle, `net/http` |
| Throttle, `internal/http/throttle.go` | token bucket, slots per host, `throttleUntil`, multiplier | `acquire`, release, `observe`, `recoverLoop`, `Wait`, `SetMultiplier` | shared by all workers; starts a goroutine |
| Configuration, `internal/config` | the configuration | `Load`, `Validate`, `Allow`, `Applies`, `Classify` | read by everything |

**What is hard.** Workers, the producer, the progress goroutine, a signal and a
deadline race on one channel, one context and a dozen atomic counters. The
context's error and a request's own timeout look alike. The reporter's file is
closed by `main` while workers may still run. The throttle lowers and restores
a rate from two goroutines with a compare-and-swap and a separate setter.
Delays and job counts are products that can leave their type. The planner
combines four ways of dropping a URL. The hazards are listed, each at its line,
in `PROJECT.json`.

**What makes each part correct.**

- *Pool and run*: no job is lost without a cancellation, none runs or is
  reported twice, counters, JSONL lines, failures and exit code agree, and the
  process ends after a cancellation whatever the targets do.
- *Retrier*: it makes as many attempts as configured and no more, backs off as
  documented, returns promptly when cancelled, and its result is one the pool
  can interpret.
- *Throttle*: no span of time sees more requests than the limit allows, no host
  more than its slots, a slowdown has one recovery and is not ended early, the
  base rate comes back, waiting callers are served, cancellation frees them.
- *Planner*: every URL is accounted for, order and sample are as configured,
  exactly the planned combinations are submitted, the limits hold.
- *Collection*: each sitemap is fetched once, cycles end, nothing reachable and
  allowed is missing, the walk and the parser never wait for each other.
- *Configuration*: what is accepted is what the rest of the program takes for
  granted, after two validations with the flags in between; a flag changes what
  it names and nothing else; filters and cache rules have their documented
  precedence.
- *Requests*: a request shows the target every axis that has its cookie or
  header to itself, and nothing else tells the requests of a URL apart.

## Modules

| Module | Models | Checked in |
|---|---|---|
| `Outcome` | how an attempt and a job can end; `IsCtxErr`, `ClassOf`, the contract `Returns` of `Execute` | with its users |
| `JobLedger` | abstract: what a run promises about its jobs | refined by `Pool` |
| `Pool` | `run` from the first `Submit` to the exit, the pool, the reporter | `MCPool` |
| `PoolProofs` | types, and that no job runs twice | |
| `PoolBooksProofs` | counters, lines and summary; no job is lost; `Pool` implements `JobLedger` | |
| `Retrier`, `RetrierProofs` | `ExponentialBackoff.Execute` for one job | `MCRetrier` |
| `Throttle`, `ThrottleProofs` | `throttle.go` under callers of `Warm` | `MCThrottle` |
| `Plan`, `PlanProofs` | `planRun` and the submission of its result | `MCPlan` |
| `Lists` | the loop that filters a slice (`Kept`) | with its users |
| `ListFacts` | induction over the numbers, and lemmas about sequences and `Kept` | |
| `Patterns` | `URLFilter.Allow`, `AxisValue.Applies`, `ApplicableValues` | with its users |
| `Collect`, `CollectProofs` | `collectURLs`, `fetchAndParse`, the parser's goroutine | `MCCollect` |
| `Request` | a combination's way to a request; `Classify` | with `Settings` |
| `Settings`, `SettingsProofs` | `Load`, `Validate`, flags, axis overrides | `MCSettings` |

Where modules meet: `Pool` takes from the retrier only its contract:
`ExecReturn` returns any `Outcome!Returns`. `Retrier` checks, and
`RetrierProofs` proves, that `Execute` keeps that contract (`ExecuteContract`),
so the two are joined by an assumption and a guarantee. `Pool` takes from the
planner a number of jobs; `Plan` shows that the jobs submitted are those the
plan counts (`JobsMatchPlan`). `Retrier`, `Throttle` and `Pool` assume of the
configuration what `AcceptedIsSound` says of it: at least one attempt, a
positive factor, a token in the bucket, a worker. `Collect` and `Settings`
share the filters of `Patterns`, and `Settings` builds the requests of every
configuration it accepts with `Request`.

In the modules, an operator introduced by "Plausible bug" is a broken variant
of the definition that follows it. No specification uses it. For each property
`PROJECT.json` names a variant that makes TLC find the property violated in the
run that checks it, which shows that the property can fail.

### Pool

`main` is the stage of the main goroutine: `check`/`send` is the loop of
`submitPlanJobs` around `Submit`, `stop`, `wait`, `join` (closing and joining
the progress goroutine), `snap` (one atomic load of `Snapshot` per step, in
its order), `failures`, `close`, `closed`, `exited`. `pc[w]` is where a worker
is between its receive from the channel and the end of `Record`, one step for
every atomic addition, channel operation and mutex-protected write. Both
branches of each `select` are separate actions, enabled together when both
are ready: `Send`/`SkipSend`, `WaitDone`/`WaitCtx`. `Cancel` stands for SIGINT,
SIGTERM and the `-timeout` deadline, which the program treats alike once they
are in the context. `outcome` is a history variable. Misses, bypasses and
unknowns share a counter; bytes and durations are left out, as are encoding and
log lines; `Encode`'s error is ignored by the code, and so is a line written to
the closed file here.

### Retrier

One `Execute`: `Normalise` (the clamps), `Check` (the look at the context),
`Call` and `OpReturn` (the attempt), then `NoSleep`, `TimerFires` or
`SleepCancelled` for `sleepCtx`. Durations are signed integers of a width, and
may be negative, which nothing refuses. The factor, a float64, is a fraction
(`Fractions`). `Product` is base times power cut towards zero, `Products` the
values within `Rounding` of it, which stands for the rounding of `math.Pow` and of
the multiplication; `ToDuration` converts one that does not fit to the smallest or
the largest value, as the conversion of an out-of-range float may, and `Wrap` is
the addition of the jitter. The jitter is any value of its range. A factor that
is infinite or not a number is left out. `tried` and `late` are histories.

### Throttle

Each caller runs `Warm`: `Check`, `Take` or `Sleep` and `Wake` (an iteration of
`Wait`), `TakeSlot`, the request (`Respond`, `RespondOverload`), `Swap` and
`SlowDown` (`observe`), `Release`. Recovery goroutines run `Load`, `WakeLoop`,
`TryEnd` (the compare-and-swap; `valid[l]` says whether `throttleUntil` is still
the value loaded) and `Restore`. Time is discrete and relative: `Tick` ages the
bucket and counts timers down, and nothing forces a goroutine to run before the
next tick, so every lateness is covered. Tokens are counted in fractions.
`excess` is a history: a leaky bucket of what was granted beyond the base rate.
All three features are switched on; a disabled one skips its steps.

### Plan

URLs are numbered in sitemap order. What patterns say of a URL is input: the
set with priority and, per URL, the applicable values of each axis. `Prioritise`,
`Sample`, one `Examine` per URL, `Decide`, one `Submit` per URL. Random sampling
is any choice of the right size in list order, which is what its final sort
leaves. The percentage, a float64, is counted in parts of one per cent
(`PercentUnit` of them, halves in the run). The stride is exact: the float of the
code gives the same index for every list below 30 URLs, and otherwise an index
lower by at most one. `Wrap` is the addition to `TotalJobs`.

### Collect

`pc` is the place of the main goroutine in the two loops: `loop` in
`collectURLs`, `get` and `reply` around the request, `range` over the channel.
`parser` is the goroutine of `Parse`: `scan` while it decodes, `send` while it
blocks on the channel, `closed` after its deferred `close`. What a URL serves is
chosen when it is fetched, and the same is served again if it is fetched again.
`Receive` chooses whether the single `Read` of up to 256 bytes shows the root
element. `Stop` covers the three ways in which `Parse` returns; its effect on the
walk is the same. `served`, `fetches`, `truncated` and `misread` are histories:
the properties say what is found in terms of what was served, and make an
exception for documents that ended early and indexes whose head was too short.
`Reached` defines what should be visited without an order: the least set of
sitemaps with the start and everything an index in it lists.

### Settings and Request

`file` and `flags` are inputs. `Load` merges the file over the defaults,
validates and corrects; `ApplyFlags`, one `OverrideAxis` per `-axis`, and
`Recheck` follow; each has the step in which it fails. `Valid` is what
`Validate` refuses and `Corrections` what it changes. A pattern is the set of
URLs it matches, and one that does not compile is `BadPattern`; `matchesRE` is
the compiled list, kept apart from `matches` because an override takes one
over with the other. URL filters, priorities and cache rules are one condition
(`matchersOK`): they have no corrections. `loaded` is a history.

In `Request`, cookies and headers are functions from names to values, and a
response header is the set of its words. What Go's library makes of names and
values is a constant operator each: `Upper`, `Lower` and `Trim`; `Canonical`, by
which a header is indexed (`Key`), so `X-Lang` and `x-lang` are one; `CookieText`,
what `AddCookie` leaves of a cookie's value; `FieldText`, what the transport writes
of a header's, and `Unsent`, the headers it does not write. The proofs hold for
all such operators; the runs give them tables of the strings they change, among
them two values outside ASCII (`nihon`, `igirisu`) of which `AddCookie` leaves
nothing. `Wire` is the request as the target reads it. Global headers are set in
the order of a Go map, so of two spellings of one name either may stay
(`DefaultHeaders`). `Settings` evaluates these operators on the configurations it
accepts (`RequestsShowAxes`) and on responses (`LayersInOrder`).

`FlagsChangeOnlyTheirs` says what becomes of every field and every axis in terms
of the command line alone: `ValuesLeft` is written with the last override of an
axis and the file's values, without the lists the overrides pass on.

## Runs

| Run | Instance | Shows |
|---|---|---|
| `pool_safety` | 2 workers (symmetric), 3 jobs, queue of 1, six outcomes, `stop_on_error` | the safety of the run; it implements `JobLedger` |
| `pool_liveness` | 2 workers, 4 jobs, queue of 1 | it ends: after a cancellation always, else when requests end |
| `pool_summary` | 2 workers, 2 jobs | finding 1 |
| `pool_timeout` | 1 worker, 2 jobs | finding 2 |
| `retrier` | 12 policies, durations from -16 to 15, products within 1 | attempts, backoff, cancellation, contract, termination |
| `throttle` | 2 callers and 2 recoveries, 2 hosts of 1 slot, a token takes 2 to 3 ticks | rate, slots, slowdown, recovery, progress, cancellation of waiters |
| `throttle_slowdown` | 1 caller, 2 recoveries (symmetric) | finding 3 |
| `plan` | all lists of up to 5 URLs, 3 shapes, 5 samplings, 3 limits, an int up to 15 | accounting, order, spread, jobs, limits |
| `plan_priority` | up to 4 URLs | finding 4 |
| `collect` | 3 sitemaps and 2 pages, 10 documents, 2 filters, channel of 1 | every sitemap once, nothing lost or added, the walk ends |
| `collect_cancel` | the same | finding 5 |
| `settings` | pairs of 40 changes to a file, 27 command lines | validation, flags, filters, requests, cache rules |

**Bounds.** Pool: two workers are the fewest that race, three jobs for two
workers and a queue of one reach a full queue, a blocked producer, a job in the
queue while both workers are busy, and jobs never submitted; a fourth job, in
the liveness run, blocks the producer behind two hung requests. A counter is
bounded by the number of jobs. Retrier: the policies cover a missing cap, a
missing jitter, a zero base, both clamps, a product that meets the cap, one
that exactly fits the width and several that do not, with a cap and without,
factors of three halves and two thirds, a negative base, cap and jitter.
Throttle: two callers compete for the slot of a host while another host is
free, and for the tokens; what the run says of more callers, hosts and slots is
proved for all of them, as far as it is safety. Two overlapping recoveries
suffice because at most one watches the window (`OneRecovery`), the second being
one that still has to restore the rate (`SlowDown` waits for a free one, which
bounds them). `MaxAge` caps the age of the last refill at an age from which a
refill at any rate fills the bucket, as the assumption of the module states.
Plan: five is the shortest list on which a 62.5% stride is uneven, and five URLs
of four combinations are more than the int holds. The cap inside `ComboCount`
needs a single URL beyond the int and is not reached. Collect: the documents
contain an index of itself, two of each other, one that lists a sitemap twice, a
sitemap that lists a sitemap, and pages shared between sitemaps; a channel of
one makes the parser block on the second URL. Settings: two changes are the
fewest that make a correction depend on another field, or two axes on one global
header; the axes share a cookie, a header in two spellings, `User-Agent` and
`Host`, and have values that their case, blanks or bytes alone tell apart; the
command lines name an axis once, twice, without values, and one that is not
there, and bring a value back that the override before had left out.

**Symmetry.** Workers in `pool_safety` and recoveries in `throttle_slowdown` are
interchangeable and ordered nowhere. Symmetry is used in safety runs only.

**Deadlock** is checked in every run. Terminated states have an explicit
stuttering action.

**Fairness.** Weak, per goroutine, for what a goroutine does by itself: the Go
scheduler runs every runnable goroutine, and a `select` with a ready branch
proceeds. There is none for a job's request: `ExecReturn`, `OpReturn`, `Respond`
and `RespondOverload` depend on the target, so a property that needs them to
happen says so in its premise (`TerminatesIfTargetsAnswer`, `Terminates`). There
is none for the retrier's timer either: `Terminates` assumes that a timer which
is set fires (`WF_vars(TimerFires)`), `CancelReturns` does not need it. In `Throttle` time passes (`WF_vars(Tick)`).
A mutex is held for one step here, so weak fairness suffices; a caller queued
for a slot is promised one only after a cancellation. `TokensFlow` says that
somebody is served, not everybody: the bucket has no queue. In `Collect` the
target's answer is fair, because `Validate` insists on a positive
`http.timeout`, and the client's timeout ends the request and the reads of its
body alike.

## What is proved

Every invariant and every action property the passing runs check is a theorem,
and so is the refinement of `JobLedger`; what is left to TLC is liveness.

The constants are arbitrary under the named assumptions of the modules: finite,
non-empty `Workers`, a positive `QueueCap`, any number of jobs (`PoolAssumption`);
any policies of durations, negative ones included, with any fraction as factor,
and any bound on the rounding (`RetrierAssumption`); any positive
rates with the lowered one not above the base rate, and a burst of at least a
token (`ThrottleAssumption`); any documents, filters and buffer
(`CollectAssumption`); any files whose fields, over the defaults, have the types
of `Config`, any flags, and any library conversions of strings, of which only
this is assumed: a value that is not blank has no empty upper or lower case, and
`GET` and `HEAD` are their own (`SettingsAssumption`); lists of any length, any axes and values,
and what `Validate` leaves of samplings and limits (`PlanAssumption`).

**Recursion.** Loops over slices are recursive functions here (`Kept`,
`ComboCount`, `Expand`, `Power`). The library's induction theorems take an
operator as a parameter, which no installed prover instantiates, so `ListFacts`
proves its own over sets: `Induction` says that a set of numbers that has 0 and
with each number the next one is all of them, from the least element of its
complement (`SmallestNumber`), which exists because strict inclusion of finite
sets is well-founded. Each recursive function is then shown to exist
(`KeptExists`, `ExpansionExists`, `CountExists`, `PowerExists`: the `CHOOSE` it
stands for has a witness), to satisfy its recursion, and to have its property
by a second induction.

- `PoolProofs!TypeCorrect`: `TypeOK`. Inductive with `Shape`, which ties data
  to places: a worker has a job exactly where it should, `send` is reached only
  with jobs left, and `snap` is empty before its stage and short during it.
- `PoolProofs!JobsAtMostOnce`: `AtMostOnce`. It is not inductive: nothing in it
  forbids a job that was queued again after it had settled. `Ownership` adds
  the order that forbids it: jobs pass through the queue in the order of the
  plan, so whatever a worker holds or has settled lies before everything
  queued, and the queue before what is still to be submitted (`QueueInOrder`,
  `HeldOnce`, `SettledBehindQueue`); and a line exists only as a copy of its
  outcome (`LineIsOutcome`, `HandsAgree`). `OwnershipMove` is the common part
  of the steps a worker takes before it counts the outcome.
- `PoolBooksProofs!CountersAlwaysAgree`, `AliasStaysBehind`: `Books` counts each
  counter as the jobs and the workers that have passed its addition
  (`StatsCount`), says where every line is while the file is open
  (`LinesFollow`), and orders the loads of the snapshot (`LoadedInOrder`).
- `PoolBooksProofs!NoJobIsLost`, `SummaryIsExact`: `Stages` says what each stage
  of `main` implies about the queue and the workers, `NothingLost` that without
  a cancellation every submitted job is queued, held or settled,
  `FailuresFollow` where a failure is until it is captured, and `Summary` that a
  drained pool no longer moves while it is being read.
- `PoolBooksProofs!PoolImplementsLedger`: each step maps to the ledger's step
  of one job or to a stutter. `JobLedger` bounds the jobs that run at once by
  the number of workers; `SlotsSuffice` maps each running job to the worker
  that has it, and an injection bounds the cardinality.
- `RetrierProofs!ExecuteKeepsContract`, `AttemptsCorrect`, `CancelEndsAttempts`:
  one invariant `RetryInv` counts the attempts against the loop variable at
  each place of the loop, and records that a late attempt had been allowed
  before the context was done. The delays play no part, so these proofs are
  independent of their width.
- `RetrierProofs!RetrierTypeCorrect`, `BackoffIsDocumented`: `Delayed` says that
  a delay at the sleep is one `computeDelay` may return for the attempt, and
  `DelayBounds` that such a delay lies between the documented bounds: the
  conversion is exact where every product within the rounding fits, the cap
  keeps their order, and the addition is exact where the largest sum fits.
- `ThrottleProofs!RateIsBounded`: `RateBound`. The invariant `RateInv` is a
  budget: tokens in the bucket, what has been granted in excess, and what the
  age of the last refill may still bring at the base rate fit the burst
  together. The excess alone is not inductive; the rate of the moment, which a
  refill applies to the past, only ever brings less.
- `ThrottleProofs!RecoveryIsUnique`, `SlowdownIsWatched`: `OneRecovery` and
  `SlowIsTemporary` together, as neither is inductive: the uniqueness of the
  watcher (`OneWatch`) shows that a recovery which reads an idle
  `throttleUntil` does not exist, so only a restoring one ever ends.
- `ThrottleProofs!SlotsAreExact`: `HostSlots`, inductive with the types of the
  slots (`SlotInv`). `ThrottleTypeCorrect`: `TypeOK`, from the invariants above
  and `TimeInv`: a caller naps no longer than `MaxNap` and swaps in no deadline
  beyond a slowdown, and a recovery sleeps no longer than the deadline it read.
- `ThrottleProofs!SlowdownRunsOut`: the action property `WindowRunsOut`.
  `ValidIsDue` says that a deadline whose comparison can still succeed has
  passed; every swap makes the comparison fail.
- `CollectProofs!NoSecondFetch`, `WalkIsExact`, `ParserIsJoined`: the inductive
  `WalkInv` has a part per concern: a sitemap is requested only after it is
  visited, and the one at hand has not been before (`Requests`); what the parser has sent,
  holds in the channel and has still to send is the document (`Parsing`);
  everything queued or visited belongs to every closed set (`Sound`); and
  everything a visited index lists is visited, queued, or still in the parser's
  hands (`Complete`). At the end the queue and the hands are empty, so the
  visited set is itself closed.
- `CollectProofs!CollectionIsExact`, `CollectTypeCorrect`: the URLs collected so
  far are those of the visited sitemaps that pass the filter, less what is still
  with the parser (`GatheredInvariant`); `KeptElements` and `KeptInjective` then
  say what the filter loop and `dedup` make of them.
- `SettingsProofs!AcceptedConfigIsSound`, `FlagsTouchOnlyTheirs`,
  `SettingsTypeCorrect`: the invariant keeps a configuration `Settled` between
  the validations: everything the first one corrected would be left alone by the
  second (`NormalisedTwice`), which is why the flags survive it. `AxesLeft` says
  that after every override the axes are the loaded ones with `ValuesLeft` so far;
  one more override makes it so for the axis it names (`TargetAxis`, with
  `LeftHasName` for the values a list of overrides has passed on) and leaves the
  others alone (`OtherAxis`).
- `SettingsProofs!RequestsShowTheAxes`: both directions. An axis that has its key
  to itself has its value there in `buildJobInputs` (`HolderShows`), which wins
  over the global ones, and neither fallback replaces it, because acceptance
  leaves no value blank (`ValuesGiven`, `FallbackKeeps`): requests that are equal
  show equal values (`CookieShows`, `HeaderShows`). Conversely every key belongs
  to the last axis that has it (`LastHolds`), so combinations that agree there
  agree on all cookies and headers (`AgreeOnCookies`, `AgreeOnHeaders`), and the
  fallbacks, which ask only whether a value is empty, treat both alike
  (`FallbackAlike`).
- `SettingsProofs!LayersAreOrdered`: the verdict is that of the first matching
  rule (`Verdict`), a rule matches no absent header (`AbsentHeader`), and a prefix
  of the rules that has a match has the first one (`FirstIsEarly`): Cloudflare's
  rules are the first seven, `Age` the last.
- `PlanProofs!PlanTypeCorrect`, `PlanAccountsForAll`, `PriorityComesFirst`,
  `StrideIsEven`, `PlanIsSubmitted`, `LimitsAreHeld`: one invariant `PlanInv` in
  four parts. `Books`: where the URLs went, stage by stage. The list is
  `Ordered` from the priority step on, and every sample is a sublist of it
  (`SamplesAreSublists`, with `StridePositions` for the stride), so it stays so.
  `Counts`: the plan is part of the examined list in its order, each of its URLs
  passed both tests, and the total is the number of planned jobs if an int holds
  it. `Submitted`: the jobs so far are those of the first `pos` URLs. The link
  between counting and enumerating is `JobsOfURL`: `forEachCombo` yields every
  combination once (`LevelStep`, division with remainder), and `comboCount` is
  their number up to the largest int although it divides before each
  multiplication (`CountIsCapped`). `StrideIsEven` is about the exact stride.

Model-checked only, being out of the prover's reach: every liveness property
(`CancelTerminates`, `TerminatesIfTargetsAnswer`, `CancelReturns`, `Terminates`,
`Recovers`, `TokensFlow`, `CancelFreesWaiters`, `CollectionEnds`), and with them
`ENABLED`. The violations of the findings are counterexamples of TLC.

## Findings

1. `pool_summary`: `Wait` returns when the context is done, so the summary is
   taken and the JSONL file closed while workers still count and write
   (`internal/worker/pool.go:168`), against `README.md:297` and
   `cmd/report.go:160`.
2. `pool_timeout`: a target slower than `http.timeout` is treated as cancelled
   by the caller (`internal/worker/pool.go:218`): not failed, not in the
   failures, invisible to `stop_on_error`.
3. `throttle_slowdown`: a recovery's late `SetMultiplier(1.0)` undoes the
   slowdown that a new overload has just started
   (`internal/http/throttle.go:131`). The window stays open at the base rate.
4. `plan_priority`: percent sampling drops priority URLs the comment at
   `cmd/plan.go:38` guarantees.
5. `collect_cancel`: a signal or the deadline during the fetch of a sitemap
   ends the run with exit 1 (`cmd/main.go:343`), against
   `docs/ARCHITECTURE.md:178-179`.

The complementary facts hold: a drained run reports exactly what it did
(`DrainedSummaryExact`), a slowdown always ends (`Recovers`), below the overflow
backoff and limits are as documented, and an axis with a cookie or header of its
own is in every request (`RequestsShowAxes`).

Seen while modelling, without a run of their own:

- A product of the backoff beyond the range of `time.Duration` becomes negative
  and slips under the cap (`internal/retry/retrier.go:105`); the run reaches it,
  and `BackoffAsDocumented` speaks of the products that fit.
- The sum of capped combination counts may wrap and pass `max_jobs`
  (`cmd/plan.go:66`); the run reaches it, and `LimitsHold` speaks of sums that
  fit.
- `comboCount` stops at the largest int (`cmd/plan.go:79-97`), so a
  `max_combos_per_url` of exactly that value refuses nothing; `LimitsHold` speaks
  of smaller caps.
- `Load` validates before the flags are applied, so a `sitemap_url` that only
  `-sitemap` supplies is refused, although an empty path is called "useful when
  overriding everything via CLI flags" (`internal/config/config.go:552-553`).
- A head of fewer bytes than the root element takes makes an index look like a
  sitemap (`cmd/main.go:376`): its sitemaps are then warmed as pages. `misread`
  is that case.
- A second `-axis` of one name is matched with the values the first one left
  (`cmd/main.go:557`), so a value of the file it names again has lost its filters
  and applies to every URL, although `README.md:163-164` says they are preserved
  and `README.md:157` that the flag is repeatable. `ValuesLeft` states what the
  code does: the filters stay as long as every override of the axis names the value.
- `AddCookie` (`internal/http/client.go:225`) drops the bytes a cookie may not
  have, everything outside ASCII among them, so values that differ in nothing else
  are two jobs, with tags of their own, and one request; `README.md:4-5` promises
  an entry per combination. Axes that share the name of a cookie or header, and an
  axis whose header is not sent, come to the same. The run reaches these cases,
  and `RequestsShowAxes` says which combinations are one request.
- The two rules for `X-Drupal-Dynamic-Cache` and `X-Drupal-Cache` come before
  those for `X-Cache`, so of a cache in front of Drupal the inner layer decides.

## Not modelled

- YAML decoding, `${VAR}` expansion, the splitting of a flag at `=` and commas:
  conversions without state. Filters, priorities and cache rules are validated as
  one condition.
- The rounding of the floats but for the retrier's products, and a retry factor
  that is infinite or not a number.
- Of `net/http`'s treatment of a request: line breaks in cookie names, header
  values it refuses to send (the attempt then fails), an axis whose header is
  `Cookie`, to which `AddCookie` appends, and the headers HTTP/2 leaves out.
- Logging, progress lines, dry-run formatting, the encoding of the summary: I/O.
- `net/http` itself: its results are the environment's choice. XML tokenising: a
  document is its kind and its locations.
- The body of a response: the error of draining it is ignored
  (`internal/http/client.go:156`) and nothing depends on the bytes, so no state
  tells a truncated response from a complete one.
- The throttle with one of its features switched off, which skips the steps of
  that feature; the deadline that replaces a later one by the scheduling delay
  of one goroutine (`internal/http/throttle.go:109`).

## Plan

1. **Core, done**: `Outcome`, `JobLedger`, `Pool`, `Retrier`, `Throttle`,
   `Plan`.
2. **Collection, done**: `Patterns`, `Collect`.
3. **Configuration and requests, done**: `Settings`, `Request`.
4. **Proofs, done** for every safety and action property of the passing runs
   and the refinement.
5. **Left: Warm**: workers, each with a retrier, on one throttle, in one module;
   today the three are joined by the contract of `Execute` and by what
   `AcceptedIsSound` guarantees, and the throttle's callers make single attempts.
6. **Left: switched-off features** of the throttle.
