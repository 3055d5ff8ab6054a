# Palisade in TLA+

Palisade is an HTTP reverse proxy: it accepts client connections (plain or TLS,
HTTP/1.1 or HTTP/2), checks each request, forwards it to one of several weighted
upstream backends, tracks their health, limits the rate of each client, masks
parameters in responses, and drains its connections on shutdown.
This directory holds TLA+ models of its parts, the TLC runs that check them on
small instances, and TLAPS proofs of their main invariants for every value of
the constants. `PROJECT.json` is the index: components, runs, the map from
definitions to source lines, hazards, findings and theorems.

    tlc -config MCOverlap.cfg MCOverlap     # one run
    tlapm BalancerProofs.tla                # the proofs of one module

## The system

| Part | State | Operations | Talks to |
|---|---|---|---|
| Upstream pool (`upstream.rs`) | per backend: failure and success counters, healthy flag, cooldown deadline (all atomics, no lock) | `record_success`, `record_failure`, `mark_*`, `arm_cooldown`, `is_eligible` | handlers, health checker, readiness |
| Load balancer (`balancer.rs`) | one atomic running weight per backend | `next` | pool |
| Request pipeline (`proxy.rs`) | per request: where it is in the pipeline | `handle_request`, `build_response` | limiter, balancer, pool |
| Headers (`headers.rs`) | none; transforms header maps | strip, inject, rewrite | pipeline |
| Server (`server.rs`) | connection tasks, two semaphores, drain | `serve` | pipeline |
| Health checker (`server.rs`) | position in its walk of the pool | `spawn_health_checker` | pool |
| Configuration (`config.rs`) | none; validates a file once | `into_runtime` | all |
| Rate limiter (`rate_limit.rs`, cleanup in `server.rs`) | per address: a GCRA cell | `check`, `retain_recent` | pipeline |
| Admin and metrics (`admin.rs`, `metrics.rs`) | counters | readiness, rendering | pool, semaphores |
| Process (`main.rs`, `tls.rs`) | listeners, background tasks | build, bind, spawn, abort | all |

What is hard here: the pool and the balancer take no lock, so a method is
several atomic operations that interleave with those of other threads; a
response is recorded long after its backend was chosen; permits must survive
every way in which a task can end; and the drain, the timeouts and the client's
disappearance race with each other; the limiter's cells are dropped beside the
checks that use them; and a backend must come back whatever its clients do.

## Modules

**Upstream** models `upstream.rs` at the granularity of the single atomic
operation. A thread's `pc` names its next operation, `arg` the backend, `loc` a
time it has read, `ret` where the call returns to. Every method is a chain of
actions in the order of the source; for instance `record_failure` is
`RecordFailure` (store), `FailureAdd` (fetch_add), `FailureSwap`, `ArmNow`
(clock), `ArmStore`. Memory is taken to be sequentially consistent. The counters
have the width `U32Max`, where `fetch_add` wraps and `saturating_add` does not.
The saturation of a `u64` of milliseconds is left out.

**Balancer** extends it with `LoadBalancer::next`, again one action per atomic
operation, the handler that sends a request and records its outcome, and the
health checker that walks the pool (the last thread, if `ActiveChecks`).
`is_eligible` is four reads: flag, flag again, clock, deadline. Local variables
of a scan are reset once dead, which only merges states. The initial
`i64::MIN` of `best_weight` is "no candidate yet" (`best = 0`).

**SmoothWRR** is the abstract specification of the balancer: one atomic
selection. `Spec` selects the first of the greatest weights; `SpecAny`, the
promise that remains when selections overlap, any eligible backend, charged
exactly what the eligible ones were given. **SmoothWRRCycle** counts selections
over a cycle. **BalancerRefinement** maps `Balancer` to it: the abstract weights
are the running weights with the additions of unfinished scans taken back
(history variable `taken`), and a selection takes effect at the `fetch_sub`.

**SelectionHistory** and **HealthHistory** add history variables to `Balancer`:
the backends that were eligible at some instant of a call of `next`; when a
backend was last given a trial. **MCUnavailable** adds the backends that were
eligible throughout a call.

**Server** models `serve`: connections that wait, shake hands and are served,
their requests, the two semaphores, and the loop that accepts, drains and
aborts. A task's watcher (`watchers`) is state of its own, taken at accept and
dropped when the task ends, for it is the watchers that the drain waits for.
`gone` is a history variable: the connections whose client left in the middle of
a request. hyper is external, modelled from its use: an HTTP/1.1 request future
is dropped with its connection, an HTTP/2 one is a task that notices later.

**Proxy** models `handle_request` and `build_response`: the checks in their
order, selection, sending, every outcome with what it records of the backend,
and the collection and masking of a body. The code between two awaits is one
action; at an await the client may leave. A request is the set of things the
checks can find wrong with it, and `limiter.check` is one of them. `head` is the
status of the response that the backend began: it is relayed as it is, so a
client may get a 502 or 504 that is the backend's own and not an error of the
proxy. **Masking**
is `mask_sensitive_data` over texts of tokens (a name with its `=`, the
separator, any other character, a byte that is not UTF-8, and what the proxy
writes for it), with a reference definition that looks at the text at once.
Names are taken to be apart and free of `$`.

**Headers** models the header maps through `handle_request`: a name has lines, a
line has tokens, and a line that `to_str` refuses is `Opaque`. `HeaderMap`'s
`get` returns the first line, `insert` replaces all. `Declared` is what the code
takes from a Connection header, the names in its first line; `Listed`, which the
properties use, is the names in all its lines. The request id is the client's if
it is well formed, else the proxy's own.

**RateLimit** models the limiter, the `Retry-After` of a refusal and the cleanup
task. A cell is how far its theoretical arrival time is ahead of the clock, so
time is a countdown without a bound. governor is external, one atomic step per
call; the second reading of the clock in a refusal, and the three calls of the
cleanup task, are apart. `OverflowChecks` says whether the build checks
arithmetic; if so the task dies when its subtraction underflows. The history
variable `joined` holds the addresses that got a cell since its first count.
**TokenBucket** is its abstract specification.

**Recovery** puts pool, balancer, handlers, health checker and readiness beside
backends that come and go. Here a method is one action, and what the code awaits
is apart; cooldowns count down, so behaviours go on for ever and recovery can be
stated as liveness. `checks` and `gated` range over the four kinds of
deployment: with or without the checker, with or without an orchestrator that
routes by readiness.

**Config** models the acceptance of a file by `into_runtime` and the values it
hands on. Every failed check has the same effect (the process exits with an
error), so their order is abstracted. Numbers are zero or one; the
deserialisation of TOML is left out. **Process** (`MainInit`, `MainNext`,
`MainSpec`) extends it with `main`: TLS,
limiter, binds and spawns in their order with every early exit, signals before
and after they are caught, the drain as one stage, and the aborts.

**Sums** holds the sum of a function over 1..n as a recursive function. A
module whose name ends in `Proofs` holds theorems; `SumProofs` has only lemmas.
The `MC*` modules give constants their values or combine modules for a run.

## Runs

| Run | Checks | Bounds and why they are enough |
|---|---|---|
| `SmoothWRRCycle` | exact shares per cycle; spread at every point; no group of backends, and so no backend, is owed more than a bound under any history of eligibility | 4 backends, all weights 1..3 |
| `MCOverlap` | types; weight conserved; no drift; a selected backend was eligible during the call; a hold-out is at most one cooldown, and an ejection's is never lost; refinement of `SpecAny` | 2 handlers, 2 backends of weights 2 and 1, counters that wrap; a backend can be ejected, tried and promoted under a scan |
| `MCAlone` | refinement of `Spec` | 1 handler and the checker, which changes flags in the middle of a scan; weights 1 and 3, whose cycle has a tie |
| `MCServer` | types; both kinds of permit conserved; a drain that ends before its deadline cuts no task, and no request but of an HTTP/2 client that left; shutdown completes | 3 TLS clients for 2 slots, 2 streams each for 1 permit: both limits are hit |
| `MCProxy` | types, a collected body within the ceiling; no backend touched for a refused request; a backend is credited for each response it began, whatever its status, and blamed where the proxy itself answers 502 or 504; a masked body is the reference masking of what was sent, with its own length; the wait for a response head ends | 1 request (requests share no state of the module), all 64 combinations of faults, one backend without a scheme, backends that answer 200, 502 and 504; texts of up to 7 bytes (two fields with a value) under every list of up to `MaxRules` = 2 rules |
| `MCHeaders` | nothing hop-by-hop, blocked or stripped crosses, and nothing that a Connection header of one readable line lists; forwarding headers are the proxy's; one request id, and whose | Connection of up to two lines that may list names the proxy injects, repeated and unreadable lines, a Host or none and an `X-Forwarded-Host` of the client's, ids absent, usable, repeated and malformed, each configuration switch |
| `MCConfig` (module `Process`) | an accepted file meets the assumptions the other modules make; a start fails only for what the file cannot show; all tasks run while connections are served; a drain is not cut short; starting and stopping end | every file up to two edits from the smallest valid one or from one with every section; each check looks at one field, or at two |
| `MCRateLimit` | types, no cell beyond the burst; refinement of `TokenBucket`; a client that waits as told is let through a millisecond later at most, and waits less than a second too long; a stale cell is dropped, or the cleanup task has died of an address that arrived between its two counts | 2 addresses, 2 concurrent checks, a rate of one and a burst of two; seconds of 2 ms and ms of 2 ticks, so that truncation, rounding and the second clock reading all matter; a build that checks arithmetic, so that the task can die |
| `MCRecovery` | a backend that is back to stay is healthy from some time on; one that is gone for good is ejected for good; readiness settles on the truth | 2 backends of which one is flaky, 2 requests at a time, one slow upload, thresholds 1 and 2, cooldown 1; the four deployments |

Deadlock checking is off only for `MCServer` and `MCConfig`, where serve returns
or the process ends and the model stops. `HealthHistory` and `MCUnavailable`
serve the runs below. `mark_healthy` and `mark_unhealthy`, which no other code of
the proxy calls, are actions of `Upstream` by itself; the proofs cover them and
no run does.

Three runs show a disagreement between the code and what is written about it:

| Run | Shows |
|---|---|
| `MCUnavailable` | `is_eligible` reads the flag down; another thread promotes the backend; `trial_ready` reads the flag up and says no. `next` reports no healthy upstream although the only backend was eligible throughout. |
| `MCHealthSpaced` | Two handlers both find a backend ready for a trial before either arms the cooldown: two trials in a window that is said to have at most one. |
| `MCProxyStall` | A backend that stalls in a body to be masked holds its request for ever: the total timeout covers the wait for the response head only. |

Further differences met while modelling, each visible in the named lines and not
given a run: names listed in a second `Connection` line, or in any line after an
unreadable first one, are not stripped (`headers.rs:21`, while `SECURITY.md:20`
says that hop-by-hop headers "and any listed in a `Connection` header" are;
`NothingScopedCrosses` without its premise of one readable line is violated);
`X-Forwarded-Host` is not injected for a request without `Host`, and one that
the client sent goes on to the backend, trusted or not (`headers.rs:83`,
`proxy.rs:101`); error
responses carry no `X-Request-Id` (`proxy.rs:290`, `README.md:177`);
`max_body_size` and `shutdown_timeout` may be zero (`config.rs:544`, `679`,
`SECURITY.md:15`); a backend without a scheme is accepted and every request to
it is then refused (`config.rs:458`, `proxy.rs:353`); the request permit is
dropped while the response body still streams (`server.rs:159`, `server.rs:35`);
the TLS handshake is under no timeout (`server.rs:191`); a running weight can
pass the total weight, said to bound it (`balancer.rs:35`), when eligibility
comes and goes, even without overlap: six backends of weights 1, 1, 1, 1, 7 and
7 reach 19 of 18 (the bound that holds is `WithinBound`), and with overlapping
selections two backends already do; two concurrent
successes can both report one recovery (`upstream.rs:139`); a success of a
request sent before an ejection promotes the backend within its cooldown, by
neither documented path (`proxy.rs:236`, `upstream.rs:8`); `before - after`
underflows when addresses arrive between the two counts, and where the build
checks arithmetic the cleanup task dies of it, so that it does not go on
"preventing unbounded memory growth" (`server.rs:350`, `server.rs:335`;
`StaleEntriesPruned` without its last disjunct is violated); a
deployment without health checks whose traffic depends on readiness never
recovers once every backend is ejected (`config.rs:421`, `deploy/README.md:63`;
the premise of `Recovers`); a `$` in a masked name is interpreted by the
replacement (`config.rs:730`); a wildcard and a loopback address of one port pass
validation and clash at the bind (`config.rs:661`, `main.rs:161`); a signal
before `serve` first polls `shutdown_signal` kills the process (`server.rs:360`).

## Fairness

`Server`: weak fairness of the drain's deadline, of the end of an aborted task
and of serve's own continuation; tokio fires timers and polls what is ready.
Nothing is assumed of clients, handshakes or backends. `Proxy`: weak fairness of
what a handler does without waiting for others, and of the timer around the
send; nothing of backends or clients. `RateLimit`: weak fairness of the cleanup
task, whose ticker always fires again, and of a handler that is between its two
clock readings; clients may be silent. `Process`: weak fairness of main's own
steps; that a drain ends is `ShutdownCompletes` of `Server`; signals need not
come. `Recovery`: time passes, the checker's walk goes on (each probe has a
timeout), readiness is asked again and again, a request that is let in comes
again and again, and its outcome is recorded. One assumption is about clients:
strong fairness of an answer by each backend, that is, clients do not for ever
leave exactly the requests a backend was about to answer. Backends need not ever
settle; the properties say what follows if one does. Slow uploads are finitely
many. Probes and requests are taken to agree on whether a backend is up. The
other modules have safety properties only.

## Proofs

| Module | Theorem | For every |
|---|---|---|
| `SmoothWRRProofs` | `HistoryBounded` and `CycleBounded`: `GroupBounded` and `WithinBound`; `ExactShares`: `Proportional`; `NeverAhead`: `Smooth` | number of backends, positive weights |
| `BalancerProofs` | of the pool alone, `UpstreamTypeCorrect`; `UpstreamArmed`: `HoldOutBounded` and `EjectedIsArmed` | number of threads and backends, thresholds, cooldown, width, bound on the clock |
| `BalancerProofs` | `TypeCorrect`; `Conserved`: `WeightConserved`; `Armed`: as `UpstreamArmed`; `SelectionSound`: `SelectedWasEligible` | the same, and all positive weights |
| `RefinementProofs` | `OverlapImplements`: `ImplementsSelection`; `NeverDrifts`: `NoDrift` | the same |
| `RefinementProofs` | `DisjointImplements` and `AloneImplements`: `ImplementsSmoothWRR` | the same, as long as no two calls of `next` overlap; with a single handler |
| `ServerProofs` | of the server, `ServerTypeCorrect`; `SlotsNeverLeak`; `PermitsNeverLeak`; `DrainIsGraceful` | finite sets of clients and streams, positive limits |
| `ServerProofs` | of the process, `AcceptedUsable`; `StartSound`: `StartFailsFromOutside`; `TasksServe`: `ServedWithTasks`; `DrainHeeded` | file that can be put together from `Values`, however many fields it changes |
| `HeadersProofs` | `HeadersTypeCorrect`; `ScopedHeadersStayOut`: `NothingScopedCrosses`; `RequestIdOnce`: `OneRequestId`; `ForwardingHeadersHold`: `ForwardingIsTheProxys` | set of requests, responses and configurations |
| `RateLimitProofs` | `LimiterTypeCorrect`; `LimiterIsTokenBucket`: `ImplementsTokenBucket`; `RetryAfterIsRight`: `RetryAfterSuffices`; `RetryAfterNotLong`: `RetryAfterIsTight`; `RateIsKept`: `RateKept` | finite set of addresses, any handlers, rate, burst and clock resolution |
| `ProxyProofs` | `PipelineTypeCorrect`; `ChecksComeFirst`: `RefusedBeforeSelection`; `PipelineBlame`: `BlameMatchesOutcome`; `RulesMaskWhole`; `ResponsesMaskedWhole`: `MaskedWhole` | sets of requests, backends and parameters, ceiling, number of rules; `RulesMaskWhole` for every text and list of rules |

The assumptions are the named ASSUMEs of the modules; those on thresholds,
weights and limits are what `into_runtime` enforces, which `AcceptedUsable`
proves. `ParamAssumption` says that the token of a parameter's name is neither
the separator nor the mask: it stands for text with an `=`, and they have none.

How the arguments go:

- *Round-robin.* `WithinBound` is not inductive: what one backend may be owed
  depends on the others. `GroupBounded` is, once the weights add up to zero. A
  group that holds the winner of a selection gains nothing. In one that does not,
  no eligible member is owed more than the winner after the additions; this, the
  bound of the group with the winner and that of the group without its eligible
  members together give the bound of the group (`GroupArithmetic`). Over a
  cycle, a running weight is what the rounds so far gave less what the selections
  took (`Owed`); a winner's weight after the additions is positive, for they add
  up to the total, so no backend is selected more often than its weight says, and
  when the rounds add up to the total all are selected exactly as often.
- *Cooldown.* `EjectedIsArmed` is inductive only with what threads in flight
  know: a thread between its clock read and its store holds a deadline that is
  at least a cooldown and at most a cooldown from now. It rests on the order of
  the last two stores of a promotion: with the flag first, another thread's
  ejection and arming can fall between them and lose its deadline (the mutant
  `PromoteFlagFirst`).
- *Weights.* `WeightConserved` needs, beside the types, that a thread outside
  its scan has a zero local total. `SumProofs` gives the facts about sums that a
  step uses: changing one term changes the sum by the difference, sums over
  disjoint sets add up. Induction is by a least counterexample.
- *Selection.* A thread in its scan has seen all that is eligible now, the time
  it read has passed, and its candidates have been seen; the deadline it loads
  last is then compared with a time that is no later than the present.
- *Refinement.* `TakenInv`: the local total of a scan is that of the backends it
  has added to, which are all before its position, and its best is one of them.
  So the additions of a scan cancel against its entry in `taken`, every step but
  the charge is a stutter, and the charge is an atomic selection among `taken`.
  That it selects the first of the greatest needs `LeadInv` (the best of a scan
  still leads those it has added to), which other scans break: hence
  `OneAtATime` in `DisjointImplements`. The checker's ejections and promotions,
  and handlers that send and record, do not; `AloneImplements` is the case of one
  handler.
- *Drift.* An overlapping handler may charge a winner that others have charged
  since, so neither `GroupBounded` nor `LeadInv` carries over. `DriftInv` is about
  every group of backends: what the group is owed, plus the most one scan adds
  for each scan that is misled about it, is within an allowance. A scan is misled
  about a group if it has added to a member and yet its best is outside, or its
  best is on the wrong side of a divide. The allowance is concave in the size of
  the group; so a group that is owed nearly all it may has members whose weights
  are above those of all others by more than the unfinished scans can hide, and a
  scan that starts then is not misled. For a single backend, and for all
  but one, it gives the range of `NoDrift`: threads times the square of the
  number of backends times the heaviest weight. With `u32` weights, 2^7 backends
  and 2^16 threads that is below 2^62, so the `i64` weights of such a pool do not
  overflow, which the model, whose weights have no width, takes for granted. The
  range is not claimed to be the least: searched exhaustively, two
  backends of weights 1 and 2 reach 8 with two handlers, 12 with three and 17 with
  four, where it says 16, 24 and 32.
- *Server.* Conservation is an equation between a counter and the cardinality of
  the set of permit holders; each action adds or removes one holder, and the end
  of a task removes a finite set of them. The drain tests the watchers only;
  `DrainInv` adds that they are those of the live tasks, for one is taken before
  the task is spawned, and that a request without a live connection is that of an
  HTTP/2 client that left: a connection that drains ends only when it is quiet.
- *Process.* `StageInv` says what is bound and running at each stage of main, and
  that only an accepted file gets past the first; with it the limiter's refusal
  is unreachable. The drain's theorem needs that signals are caught from the poll
  of `shutdown_signal` on.
- *Headers.* A name that is cleared stays cleared through every later insert of
  another name and every remove; the names that the proxy inserts on the way out
  and on the way back are excepted, but for Content-Length, which masking writes
  only where one was left. A Connection header of one readable line declares what
  it lists (`OneLineDeclares`); any other declares no more than it lists, which is
  why a Host that is not listed survives to become `X-Forwarded-Host`.
  For the forwarding headers the later steps are followed one by one: what an
  insert writes is what the next reads, and none of them touches the others.
  The type invariant rests on every step leaving a name alone, clearing it or
  giving it a single line.
- *Limiter.* The refinement maps a cell to a bucket's level, the tolerance less
  how far the cell is ahead. That dropping cells is a stutter needs the last
  conjunct of `TypeOK`: only a tracked address is ahead. `RetryAfterSuffices`
  needs an invariant of each refusal in progress (as long as no request of the
  address was let through, its remaining wait is the cell's shortfall) and of
  each waiting client; the two roundings are a lemma on division. `RateKept` says
  what a rate is for: in a window that opens at any moment, an address has at most
  its burst and one request for each period let through. Its window
  (`WindowSpec`: the limiter with a count of ticks and of requests since the window
  opened) is in `RateLimitProofs`. It is inductive as: what was let through
  beyond the time that has passed is still ahead of the clock.
- *Pipeline.* Both properties are inductive with the types and with what each
  stage knows: a request past the checks carries none of the flags they look
  for, nothing is recorded before the head has come or failed to, and from then
  on a success is recorded exactly if there is a head (`StageInv`). The status of
  an answer does not tell the two apart, since a backend may answer 502 itself.
- *Masking.* The rules run one after another, each over what the last one wrote;
  the reference looks at the text once. `RuleComposes`: one more rule, on a text
  whose other names are masked already, does what masking all of them at once
  does. Its invariant (`Agree`) follows three scans along the text: the reference
  for the names so far, the rule over what that shows, and the reference for the
  names and the rule's. The theorem is an induction over the rules. `MaskInv` then
  carries it through the pipeline: once a request with a collected body is
  answered, what it was answered with is the masking of that body.

What is computed along a text or a list of rules, and every sum, is a recursive
function, not a recursive operator. Inductions are over the set of the numbers
for which a fact holds (`SetInduction`), or by a least counterexample; that such a
function is what its defining equation says is `RunExists`.

Only model-checked:

- the liveness properties (`ShutdownCompletes`, `HeadWaitEnds`, `StartAndStopEnd`,
  `StaleEntriesPruned`, and `Recovers`, `DownIsEjected` and `ReadinessSettles`,
  which are all that is said of `Recovery`): fairness is beyond the prover;
- the three disagreements above, which are counterexamples.

Every other property of a passing run is also a theorem. `RateKept` is the one
theorem about a property of no run: its window multiplies the states of
`MCRateLimit`, and it follows from an invariant of one line.

## Not modelled

- *Metrics counters* (`metrics.rs`). They are written by relaxed atomic
  additions, and no code of the proxy reads them to decide anything; a scrape
  formats them. Its two gauges are differences of a limit and a semaphore's free
  permits, and that these never exceed the limit is `SlotsConserved` and
  `PermitsConserved`.
- *Deserialisation of TOML and the wording of errors* (`config.rs`, `error.rs`).
  The work of a library and of formatting; the variants, statuses and
  `Retry-After` are modelled.
- *Reading certificates and setting rustls and hyper up* (`tls.rs`, the client
  builders of `proxy.rs`, `PoolConfig`). Settings handed to libraries; that the
  set-up may fail is in `Process`.
- *`lib.rs`*: declarations.
- *`Server` and `Proxy` as one state space.* They share only that a request has a
  permit while its handler runs, which `Server` has as the stage of a request;
  the product of the two adds states and no interaction.
- *Weak memory.* The atomics are sequentially consistent here; the code's loads
  acquire and its stores release, so a store may become visible after a later
  load of the same thread, which the models do not show.
