# GoodputLab: a TLA+ verification project

GoodputLab measures LLM serving topologies (colocated, chunked, prefill/decode
disaggregated, disaggregated with a KV tier).  It is a benchmark rig: a load
generator drives requests through a router and a proxy to vLLM, a controller
scales pools, and a matrix sweep measures hundreds of cells on paid GPUs,
resumes after a pod died, and aggregates what it has.  What can go wrong is
mostly not in one function: a controller that winds up over a long history, a
routing decision that is stale, a pod that dies between two writes, failures
of several requests that cancel out in a total.  These are the things modelled
here.

The modules translate the Python under `src/`.  TLC checks them on small
instances; TLAPS proves the safety properties of the core for all instances.

## Inventory

| Component | State it keeps | Operations | What is hard |
| --- | --- | --- | --- |
| PID controller, `control/pid.py` | integral, previous error | update, reset | anti-windup over arbitrary histories |
| Pool autoscaler, `control/autoscaler.py` | controllers, last flip per pool, thrash counter | tick | drain and dwell gates, other actors resizing pools, starvation |
| Router and pools, `control/router.py`, `control/pool.py` | pool registry, LRU prefix cache | register, update depth, route | stale cache entries, eviction, pools whose keys coincide |
| Matrix sweep, `scripts/run_matrix.py`, `bench/runpod_matrix.py`, `bench/cell_runner.py`, `bench/matrix_aggregator.py`, `bench/matrix_report.py` | one JSON per cell, other JSONs, temporary files, summary | run, resume, re-run, aggregate, report | crashes between steps, partial failure, spend and context gates |
| Request path, `loadgen/client.py`, `scripts/disagg_proxy.py` | slots, telemetry, one connection per hop | send, relay, prefill, decode | concurrency, timeouts, broken streams |
| Reconciliation gate, `core/reconcile.py`, `core/metrics.py` | none | compare telemetry with server counters | failures that cancel out |
| KV tier, `kv/` | LRU store, byte and hit counters | lookup, store, evict, policy | accounting at capacity, cold start |
| Speculative decoder, `spec/eagle.py` | window, counters, enabled flag | propose, enable, disable | auto-disable, topology gate |
| P/D proxy, `scripts/disagg_proxy.py` | one handler per request, no state shared but the HTTP client | chat and text completions, models, health, metrics | handlers interleaved at their awaits, pools that flap between two awaits |
| Sentinel, `tests/sentinel.py`, `scripts/sentinel_daemon.py` | the drift gauge, a fixture on disk | check, pause, stop, record | checks that are given up while their request goes on, rounds without a usable fixture |
| KV scaling study, `bench/kv_scaling/` | block readings; one JSON per cell, three published files | sample, fit, publish, resume, dry run | waves of finishing requests; files written in place by launches that die |
| Live experiment, `scripts/autoscaler_live.py` | replica count, records, status counts | tick loop, traffic task, report | scrapes that are slow, wrong or fail, requests that outlive their phase |
| Workload generators, figures, orchestrator, registry, shell scripts | little or none | | sequential I/O or pure functions |

How they interact.  The load generator calls the router once per request
(`routed_pool_for`) and talks HTTP to vLLM or to the proxy; the proxy calls the
prefill server, then the decode server.  The cell runner runs one trace through
the load generator and turns the telemetry into a cell's JSON; the sweep runs
the cells one after the other, in one process, on one directory; aggregator and
report only read that directory.  The autoscaler is called by a loop that
scrapes queue depths and applies its decisions, beside a task that fires
traffic at the server it scrapes.  The sentinel daemon sends its checks through
the proxy, like any client.  The KV study drives an engine of its own, cell by
cell, and shares only its campaign directory with its earlier launches.  Router
and autoscaler write counters and gauges of the metrics registry, which nothing
reads back.  There are no threads with shared
state: router and autoscaler are single-writer objects, the load generator is
one event loop, and a sweep is one process.  Concurrency is between requests,
between the client, the proxy and the servers, between the autoscaler and
whoever else resizes pools, and between a sweep and the death of its pod.

What makes each correct.  *Controller*: the integral never winds up so far that
the controller is stuck.  *Autoscaler*: range, step, dwell and drain rules for
every pool at every tick; a persistent error is eventually served.  *Router*: a
request goes only to a pool that admits it now and is refused only when none
does; a prefix stays with its pool while that admits; the cache is a bounded LRU
that forgets nothing too early.  *Sweep*: no measured cell is lost or measured
again, and only an explicit `--run-all` may replace one; a summary is what the
directory held, exit 0 means done; spending needs approval; resuming completes.
*Request path*: every request ends in one consistent record; failures that
cancel out do not fool the gate.  *KV study*: a reading describes the whole
batch, and what cannot be read is refused; exit 0 means that the published files
are in step with the cells on disk, and relaunching converges.  *Proxy*: no
status 200 hides an outage, and no request is answered from another's KV blocks.
*Sentinel*: the gauge is set for a reason and follows the pools.  *Live
experiment*: it feeds the autoscaler as the autoscaler assumes, and its report
accounts for every request whose exception was not swallowed.

`PROJECT.json` lists every component with its status, and every hazard with the
properties that cover it.

## Modules

| Module | Models | Composed from |
| --- | --- | --- |
| `PidLaw` | the control law as operators | |
| `Pid` | one `PidController` under arbitrary callers | `PidLaw` |
| `ScalerContract` | what the autoscaler promises (abstract) | |
| `Autoscaler` | `PoolAutoscaler.tick` and the caller that applies it | `PidLaw`, refines `ScalerContract` |
| `Router` | `Router` with its `PoolState`s | |
| `SweepLedger` | what a sweep promises (abstract) | |
| `MatrixSweep` | the sweep process, its directory, the report | refines `SweepLedger` |
| `RequestPath` | client tasks, proxy, servers, gate | |
| `KvEngine` | the engines the KV study drives, block by block | |
| `KvSampler` | the sampling loop and its gates, one cell | `KvEngine` |
| `KvCampaign` | launches of the KV study on one campaign directory | |
| `DisaggProxy` | every route of the proxy, handlers interleaved | |
| `SentinelDaemon` | the daemon and its checks through the proxy | `DisaggProxy` |
| `LiveExperiment` | the live loop, its traffic and its report | `Autoscaler`, whose `Spec` it refines |
| `MC_*` | instances for TLC | the module of that name |
| `PidProofs`, `RouterProofs`, `SweepProofs`, `RequestPathProofs`, `KvSamplerProofs`, `KvCampaignProofs` | theorems | the module of that name |
| `AutoscalerProofs` | theorems | `Autoscaler` and `LiveExperiment` |
| `DisaggProofs` | theorems | `DisaggProxy` and `SentinelDaemon` |

### PidLaw and Pid

`controller` is `_integral` and `_prev_error`; `Update`, `UpdateRejected` and
`Reset` are `update`, its `ValueError` and `reset`.  Floats are replaced by
exact integers: terms are scaled by `dt` where the code divides by it, so no
division occurs and clamping comparisons are exact.  Rounding errors of floats
are therefore not modelled.

### ScalerContract and Autoscaler

`tick()` has no await, so one call is one action, over all pools.  The code
stores the clock value of each pool's last flip and reads only differences to
it; `since` is that difference, counted up to the larger of the two windows it
is compared with (larger values behave alike).  `Round` is Python's
round-half-even.  The caller adds the decisions to its replica counts before
the next tick, as `autoscaler_live` does; `Resize` is anybody else changing the
topology, which the code reads afresh at every tick.  `busy` and `gap` are
history variables: what the last tick saw and when a replica count last
changed.  `ScalerContract` states the promise without PID, rounding or gates;
`KeepsContract` is the refinement, with `gap` and `busy` as its state.
`DwellSilencesThrash` has a dwell of at least the thrash window as its premise; the
default dwell of 0 switches the gate off, and the alarm may then fire.

### Router

One action per method, `route` split by its four outcomes.  The code hashes the
salt and the prompt joined, with nothing in between, so two pools can have the
same key for two prompts, or for one if their salts are equal.  The constant
`KeyOf` gives each pool and prompt its key and may be any function; the hash of
two different byte strings is taken to differ in the instances (`KeyOfMC`,
`KeyOfOwnMC` build keys by joining), while the proofs do not need it.  The cache
is the `OrderedDict` as a sequence, least recently used first; `recent` is a
history of key uses.  `CacheIsLRU` says that the cache is the end of that
history, in order, and that until it is full it holds every key ever used, so
an entry evicted too early is a violation.  `publish_metrics` is not an action:
it computes gauges from the cache and changes nothing the router reads.

### SweepLedger and MatrixSweep

One process runs at a time.  `Refuse` and `Launch` are the gates of `main()`,
the actions of the loop are the steps of `_run`, `run_cell`, `_execute` and
`JsonCellSink.write`, with the temporary file and its replacement as separate
steps; then the summary.  `Crash` may strike between any two steps, and the
operator starts any command line again.  A result is the id it carries and
whether it reconciled; files may be missing, corrupt or misnamed from the
start.  Besides the files of the cells there may be `Others`, which `aggregate`
reads as well and the report only if they are named like a cell (`CellLike`).  A
cell's overflowing prompts are the constant `TooLong`.  `job` remembers the cells
an invocation planned, which is what the preflight samples: `MeasuresOnlyCleared`
excuses from the context gate only a cell that has `SampleCap` planned cells of
its mix before it, where `build_prompt_preflight` stops looking, and not the
rest of a large matrix.

`SweepLedger` has two variables, what has been measured and what has been
published, and an input: whether an explicit re-run was asked for.  Measuring
adds one cell, or replaces one in a re-run, since the help text of `--run-all`
says that it overwrites existing JSONs; publishing copies the ledger.  A summary
may thus be older than the directory, and is never anything but what the
directory held when it was written.  (`run_cell` loads what it finds even under
`--run-all`, see `sweep_run_all` below; the contract does not depend on it.)

### RequestPath

Requests are numbered in trace order.  A client task is queued for the
semaphore, waiting for its arrival, sent, streaming or done.  `hop` is where
the request is in the proxy: prefill call, relay, decode.  The status line is
sent when `StreamingResponse` starts, which is before `relay()` contacts the
decode server.  `wire` holds tokens relayed and not yet read; a broken relay
loses any number of them.  A body cut short ends like a complete one because
`_next_line` swallows `RemoteProtocolError`; other exceptions end in `Raised`.
vLLM, the network and the web framework are external: they may fail wherever
the code can notice.  `server` is what the decode server's counters say.
`Reconciles` is `reconcile().gate_passes()` without the latency comparison
(dropping a conjunct makes `GateIsSound` stronger).  Its success count of the
server (`ServerSuccesses`) is `vllm_request_counts`: a success counter of 0 is
taken for a missing one and the number of requests that are over, or of those
with a first token, takes its place.  So a server that aborted every request after
its tokens passes the gate with clients that count successes, as `gate_fallback`
shows, and `GateIsSound` compares successes only where the server has counted
one; tokens it compares always.  `CellReconciles` is the flag a cell's JSON
carries.  A scrape of the proxy's `/metrics` shows the decode
counters: the parser keeps the last sample of a name with the same labels.
Counters start at zero, a fresh server.  A total over requests (`Total`, and
`SumOver` in `KvEngine`) is the cardinality of a set of tokens, each named by its
request and its place: the same number as the code's `sum`, in a form the
theorems on finite sets apply to.

### KvEngine and KvSampler

A request is absent, waiting (with the part of its prompt that is in the
cache), running or finished; the blocks it holds follow from that.  `FakeMoves`
is `FakeEngineDriver.step`; `VllmMoves` is external and allows whatever the
sampler could observe: no progress, a chunk of the prompt, a token, an end,
preemption.  A setup says how the engine accounts for blocks: some reserved,
the last token not cached yet (the published cells show one of each), prompt
blocks shared, finished requests freed with a delay; and whether outputs are
cumulative.  The driver's `_seen_len` equals the sampler's `generated`, since
request ids are fresh in every sample, so `counted` stands for both.  An
iteration of `sample_decode_window` is one action; every `ValueError` goes
through `Refuse`, which releases the sample and ends the cell.  `truth` is a
history variable: what the engine held when the decode reading was taken.

### KvCampaign

A launch is one process with one command line (`Jobs`): it starts, loads, goes
through its grid cell by cell (`Reuse`, or `Measure` and `SaveCell`), fits
(`Finish`) and writes three files, one action each.  It may die between any two
steps and in the middle of a write, which is in place, so every file can be left
torn (`Dies`); the next launch is any command line again.  What `read_cell_json`
compares is the grid point and a key (n_samples and the model id); block size
and decode length are not compared by the code either, and are constants here.
`Configs` is what `_resolve_theory` ends up with for a revision: the sources it
tries in turn, and their failures, are collapsed to that.  `Fit`, `Explained`,
`DryGate` and `Knee` are the regression, its gates and the knee in exact
integers (sums scaled by the number of cells); a cell's p50 is its blocks and up
to `Extra` more, so that fits pass and fail. `DecodeLive` is the number of
tokens each request has when the decode reading is taken; it is the same for all
cells, where a real engine's waves, and the longer decode window of cells with
many prefill chunks, make it differ.  p95 is not modelled. Exit 1 also stands
for a killed process.

### DisaggProxy and SentinelDaemon

A handler is at one await at a time (`stage`); between two awaits anything may
happen, pools changing condition included.  Both completion routes share their
code path and are one route here.  `served` and `trouble` are history: which
pools served, and whether some pool was not up, at a moment of this request.  A
pool that is `up` answers with the JSON object it should, in time.  One that
`drifted` says 200 as well, with other tokens or a body that is not JSON or not
an object; a silent one makes each call end in its timeout.  Request ids are
only forwarded and not modelled.  `sent` is the KV handle in the decode body,
named by the request whose prefill made it.  The sentinel's check is a
non-streaming completion whose answer is right or wrong (`right`): the
comparison of tokens and logprobs is abstracted to that, and drift is relative
to the fixture, so a fixture recorded from a drifted pool is a drifted pool.
`fixture` says whether there is one for this model, well formed and of this
prompt; it may change at any moment, and a round without it (`NoFixture`) sets
the gauge to 1 and sends nothing.  `GiveUp` is the child's timeout, the
daemon's, or a Ctrl-C that kills the child, and may happen to any check,
whatever the pools do: the request goes on in the proxy, and its answer is
dropped (`Abandoned`).

Two things the properties deliberately do not say.  `/health` probes one pool
after the other, so a 200 does not mean that both were up at one moment:
`OutageShows` says that each served at some moment of the request.  And the
gauge starts at 0 before any check: `GaugeFollows` speaks of what lasts.  It has
two halves.  An outage that lasts shows, with nothing assumed of fixtures or
checks given up, since both only add to the 1s; a recovery shows if from some
point on there is a fixture and no check is given up.  `GaugeJustified` says why
the gauge was set: 0 needs both pools to have served during the check, a 1 that
comes from an answer needs a pool that was not up, a 1 of a round that sent
nothing needs a missing fixture.  The remaining 1s are those of `GiveUp`.

### LiveExperiment

Time is in ticks.  The loop's scrape, decision and sleep are separate steps, and
the traffic task and the server move in between; a scrape takes any latency in
`Latencies`, reads zeros from a body without the two metrics, or raises.  The
decision is `Decided` of `Autoscaler`, the whole of `tick()`, with the clock time
that has really passed; the rest of the iteration (drain assertion, flips,
replica count with its `max(1, ...)`, record) is in the same action, as no await
separates them.  `IsScalerCaller` is the refinement: the loop with its latencies,
phases and failures does to the controller and the replica count only what
`Autoscaler` lets a caller do, so what is checked and proved there applies.
`counted` is the sum of `response_status_counts`.  `one()` counts an answer of any
status and every `httpx.HTTPError`; another exception ends it before it counts
and is dropped by `gather(return_exceptions=True)`, which is `Drops`, counted only
by the history variable `swallowed`.

## Runs

| Run | Instance | Shows |
| --- | --- | --- |
| `pid` | kp 1, ki 1, clamp [-3, 5], 11 errors, dt 0..2 | `NeverLocked`, `RecoversAtOnce` |
| `autoscaler` | a controlled and an uncontrolled pool, 1..4 replicas, step 2, dwell 2, resizes to 0 and 7 | `KeepsContract`, `FlipClockExact`, `DwellSilencesThrash`, `ScalesUp`, `ScalesDown` |
| `router` | 3 pools with salts of which one begins another, 3 prompts of which one ends another, cache of 2, two capacities | `CacheIsLRU`, `CacheBounded`, `AdmitsSafely`, `RefusesOnlyWhenFull`, `PrefixMovesOnlyWhenRefused` |
| `sweep` | 3 cells of 2 mixes and a foreign file, 3 filters, 6 command lines, 13 initial directories, 1 crash | `KeepsLedger`, `ZeroExitMeansDone`, `MeasuresOnlyCleared`, `Completes` |
| `request_path` | 3 requests, 2 slots, up to 2 tokens | `GateIsSound`, `DueRequestsHaveSlots`, `TelemetryConsistent`, `Terminates` |
| `kv_sampler` | 2 requests, prompts of 2 blocks, 4 tokens, 9 engines, 2 samples | `ReadsWholeBatch`, `CoversTokens`, `Released`, `DryRunIsMeasured` |
| `kv_campaign` | 6 command lines on one directory: two smoke cells with different options, the grid with and without approval, a grid with a repeated cell, the dry run | `ZeroExitMeansPublished`, `GoodCellsKept`, `Converges` |
| `disagg_proxy` | a client and the sentinel's connection, two pools with up to 4 conditions, a fixture that comes and goes | `OutageShows`, `NoCrossTalk`, `Answered`, `GaugeJustified`, `GaugeFollows` |
| `live` | 2 phases, up to 3 replicas, scrapes that take one tick, 2 requests a phase | `IsScalerCaller`, `RecordsReplay`, `RequestsAccounted`, `Ends` |

Violations, each a disagreement between the code and what the repository says
of it (quoted under `findings`):

| Run | What TLC shows |
| --- | --- |
| `request_gate` | a cell is marked reconciled although the decode server finished nothing |
| `sweep_summary` | a crash after the last cell and before `summary.json`: no resume ever writes it |
| `kv_revision` | the revision moves between two launches: cells of the old one are published under the new one |

Eight more configurations exhibit disagreements of the same kind and are run by
hand; each ends in a violation (`tlc -config X.cfg M`):

| Configuration, module | What TLC shows | What the repository says |
| --- | --- | --- |
| `live_records_lost`, `MC_Live` | a scrape that raises in a late tick: no record is written | `scripts/autoscaler_live.py:238` "write them even if a late tick raised" |
| `sweep_run_all`, `MC_MatrixSweep` | `--run-all` returns the JSONs on disk instead of measuring | `bench/runpod_matrix.py:147` "Run every cell in the matrix, regardless of existing JSON." |
| `kv_per_step_outputs`, `MC_KvSampler` | with outputs that carry one step's tokens the driver counts one token per request for ever, and the sample is returned | `bench/kv_scaling/measure.py:1270` "token_ids may be cumulative or per-step; handle both." |
| `router_salt`, `MC_Router` | a lookup under one pool's salt finds the entry of another pool with a salt of its own | `control/router.py:163-165` "only entries under THIS pool's salt match [...] pools share no key namespace" |
| `sweep_report`, `MC_MatrixSweep` | the report finds nothing wrong in a directory that `aggregate` refuses, for a misnamed result under a name without `__rate-` | `bench/matrix_report.py:7-9` "Reuses `aggregate` [...] so the contract (skip corrupt, raise on cell_id mismatch) stays consistent" |
| `gate_fallback`, `MC_RequestPath` | the gate passes with a success at the client and none at the server | `core/metrics.py:70-72` "from `vllm:request_success_total` when present; otherwise falls back to total count" |
| `router_batch`, `MC_Router` | a batch request goes to its cached pool although an admissible pool is less loaded | `control/router.py:7` "BATCH requests prefer the lowest-depth pool regardless of cache." |
| `pid_derivative_locks`, `MC_Pid` | with a derivative gain, errors that alternate between 4 and 2 take the integral past the clamp, where it is frozen for ever | `control/pid.py:7-11` on what anti-windup prevents |

Type invariants are stated in the modules that need them; those of `Pid`,
`Autoscaler`, `Router`, `MatrixSweep`, `RequestPath` and `KvSampler` are proved.

Bounds.  Errors reach beyond the clamp on both sides and the clamp is
asymmetric; every dwell window is entered, waited out and met exactly (`Elapsed`
{1, 2} with a dwell of 2).  A pool resized to 7 is more than a step beyond the
maximum of 4, so the ceiling yields a delta larger than the step.  Three prompts
in a cache of two force evictions of touched and untouched entries, capacities 2
and 4 with headroom 50% put depth 1 at the limit of one pool and below that of
the other.  Three cells give the sweep a first, a middle and a last one, two of
one mix and two of one topology; one crash suffices to strike at every step, and
failures are not bounded.  Two slots for three requests make the semaphore
matter; one request has two tokens so that a stream can break between them.
`CountCap`, `ThrashCap`, `MaxCrashes` and `MaxTime` bound counters; each is a
constant. The KV instance has a block of 2 slots and a slack of 1, so that a
preempted or shared prompt exceeds the slack as the study's prompts do; requests
may start up to the whole budget apart.  Deadlock is not checked there: a cell
ends. In `router` the salt of one pool begins the salt of another and one prompt
ends another, so that two pools have a key in common.  The sweep's sample is one
cell per mix and the overflowing cell is the second of its mix, so that it is
seen or not seen according to what was planned before it. A grid of two cells is
the smallest that is fitted; one extra block in one cell makes the slope miss
the theory, in both it does not, and the two values of F put the knee inside and
outside the grid.  One client and one sentinel connection already overlap in the
proxy, in all pairs of routes and stages; a second probe adds only requests
whose answers nobody reads.  Two phases let requests, dwell windows and
controller state cross a phase boundary.

Fairness.  *Autoscaler*: the caller's loop ticks on a period (`WF` of a tick);
`LeftAlone` in the premise says that resizes by others stop.  Time passes at
every tick, as a dwell needs.  *Sweep*: a process that runs takes its next
step; the operator keeps resuming the whole sweep (the documented way to
continue), and neither the server nor the disk fails for ever (`SF` of measuring
and writing).  Crashes are bounded by `MaxCrashes`.  *Request path*: the event
loop runs every task that can run, and a request that hears nothing runs into
httpx's timeout, so `WF` of each client task; nothing is assumed of the proxy or
the servers.  *KV sampler*: the process runs (`WF` of its next step).
*KV campaign*: a process that runs takes its next step, and the operator launches
again; `Converges` assumes in its premise that from some point on it is the same
launch and nothing fails any more.  *Proxy and sentinel*: every call has a
timeout, so each handler moves (`WF` of each), and the daemon's loop runs;
nothing is assumed of the pools.  *Live experiment*: both tasks run, and a
request ends by its own timeout if the server does nothing (`WF` of failing).
httpx's timeouts are per read, so a server that trickles bytes for ever is beyond
what these assumptions, and the code, bound.

## Proofs

The theorems hold for every value of the constants allowed by the named
assumptions (`PidAssumption`, `AutoscalerAssumption`, `LiveAssumption`,
`RouterAssumption`, `SweepAssumption`, `PathAssumption`, `EngineAssumption`,
`SamplerAssumption`, `CampaignAssumption`, `ProxyAssumption`,
`DaemonAssumption`).  These say only that gains are ordered, bounds are numbers,
orders are total, sets the code keeps in lists are finite, names are distinct.
Four say something of the program: the gate's threshold is below 100 percent
(it is 2), arrivals of a trace are sorted, the experiment has one pool that
starts with the one replica it may not go below, and the times and queue depths
that the loop can meet are among those the autoscaler accepts.  Every safety
property a passing run checks is also a theorem.

*PidProofs.*  `TypeCorrect` (outputs lie in the clamp) holds for all gains.
`IntegralStaysWithinClamp` needs no strengthening: an update changes the
integral only when the unclamped output is linear, and with no derivative term
and kp >= 0 a linear output bounds the new integral when the error has the sign
of the change, and the old one bounds it otherwise.  `ControllerNeverLocks` and
`ControllerRecoversAtOnce` follow from it.  `WindupIsBounded` is the weaker bound
that remains for arbitrary gains.

*AutoscalerProofs.*  A lemma bounds `Round(n * k, n')` by `k`, so that the step
never exceeds `StepSize`; another shows what `Bounded` returns.
`FlipClockIsExact` is the inductive invariant that lets the dwell gate, which
reads `since`, imply the contract, which speaks of `gap`.
`AutoscalerKeepsContract` is the refinement, `DwellRulesOutThrash` follows from
the gate.  These four do not use `LiveAssumption`.

The same module proves `LiveExperiment`.  `LiveIsScalerCaller` is the refinement
`IsScalerCaller`: a decision of the loop is a tick of `Autoscaler` whose dt is
the time since the last one, and every other step leaves its variables alone.
The case that needs work is `max(1, replicas + delta)`: it is the identity
because a decision never goes below `MinReplicas`, which the proof takes from
the autoscaler's own invariant.  `LiveInv` adds what the loop knows: the traffic
of a phase is over when the loop is between phases, requests fired are waiting,
running, counted or swallowed (`Balanced`), the files agree with the variables
from the moment they are written (`Reported`), and the last record is the
present replica count (`Recorded`), without which a record's delta could not be
replayed from the one before.  `LiveRecordsReplay` and `LiveRequestsAccounted`
follow; the former also needs that a scale-down was decided with nothing
running, which is the drain gate of `Bounded`.

*RouterProofs.*  `CacheInv` strengthens the properties by the types of the cache
and one entry per key; nothing is assumed of `KeyOf` but its type.  The lemmas
`MoveToEndFacts`, `TouchFacts` and `StoreFacts` say which entry sits where after
a lookup and a store; `CacheStaysBounded`, `RouterAdmitsSafely` and
`PrefixesMoveOnlyWhenRefused` rest on them.  `PrefixCacheIsLRU` compares the
cache with the history position by position.  Its invariant `RecentEnd` adds
that the history names a key once.  That a cache which is not full has forgotten
nothing is a conjunct of the property, and the proof needs it too: an unknown
key that is stored might otherwise sit in the history in front of the cached
ones.  `RouterRefusesOnlyWhenFull` needs that the sort of `_select_admissible`
has a first element: the least depth, and among those the least name, exist
because naturals are well founded (`WFMin` of the library).

*SweepProofs.*  The inductive invariant says besides types that a result being
written is that of a cell of the sweep that has no valid JSON, which is what
makes the replacement add to the ledger instead of overwriting it.  From it
comes the refinement `SweepKeepsLedger`.  A second invariant, `LoopInv`, is
about the loop: what is still to do has passed the gates (`Cleared`), what is
behind has a result unless a cell failed or the loop stopped at one that did not
reconcile (`Covered`), and before the summary no file is misnamed.
`ExitZeroMeansDone` and `GatesGuardMeasurements` come from it; for the latter a
cell of the plan that the preflight did not sample has `SampleCap` planned cells
of its mix before it by definition of the sample, and the plan does not change
while the loop runs.

*RequestPathProofs.*  `PathInv` says of each request alone how its task, its
record, its stage in the proxy, the status line, the tokens in flight and the
server's counters fit together (`Sound`), and of all that slots are taken in
trace order (`Fifo`).  One lemma reduces a step to the request that moves; then
each action is a statement about one tuple of values.  `TelemetryIsConsistent`
and `NoSlotIdles` follow, the latter from `Fifo` and the order of arrivals.
`GateCannotBeFooled` compares sets instead of sums: no client counts a token that
the server did not generate, so the client's tokens are a subset of the
server's, and equal cardinalities make them equal.  If the server has counted a
success, `ServerSuccesses` is its counter, and successes and finished requests are
compared the same way; if it has not, the fallback counter says nothing of
successes, and the theorem claims nothing.  The premise of `GateIsSound`, that the
threshold leaves room for less than one token, is what turns the gate's
tolerance into equality.

*KvSamplerProofs.*  `SamplerInv` relates the sampler's counts to the engine's
(`Agree`: equal if outputs are cumulative, at most one otherwise), says that
both readings are taken or none, that every request has a token from then on,
and that the prefill reading stays below the tokens there are (`Reads`).  The
last two are what makes the gate's lower bound, which holds for scheduled
batches only, apply to every later decode reading.  The steps rest on lemmas
about sums (`SumType`, `SumMonotone`, `SumAtLeast`) and about what one engine
step does to a request (`MoveFacts`: one token at most, none beyond
`max_tokens`, for the fake engine as for anything vLLM may do).
`SamplesAreReleased` and `TypeCorrect` hold for all engines.
`ReadingsAreOfWholeBatch` and `ReadingsCoverTokens` have the hypothesis
`CumulativeOutputs`, which the nine engines of the run satisfy; without it they
are false, as `kv_per_step_outputs` shows.

*KvCampaignProofs.*  `CampaignInv` follows the process: the cells collected so far
are those on disk at the same places of the grid (`Progress`), what is about to
be published is the whole grid, and what has been published is that
(`Publishing`).  A crash may leave any file torn at any step, so the invariant
ties memory to disk only where the process has read or written; a death is
exit 1.  `ExitZeroMeansPublished` is one of its conjuncts, and
`ResumeKeepsGoodCells` follows from the guard of measuring.

*DisaggProofs.*  The invariant is one predicate of a handler, `Sound`.  It is
needed because a reply depends on what earlier awaits found: a pool that serves
now, or served when an earlier await of the request returned, is on record in
the request's history; the KV handle sent on is the request's own or none; and
the check that runs does so on a probe's connection.  A lemma per action keeps
it, for any number of clients and probes; `OutagesShow`, `HandlesDoNotCross` and
`GaugeIsJustified` follow, the last one for any fixture and any check given up.

Only model-checked: liveness (`ScalesUp`, `ScalesDown`, `Completes`,
`Terminates`, `DryRunIsMeasured`, `Converges`, `Answered`, `GaugeFollows`,
`Ends`), which is out of the prover's reach.  What the sums of the regression in
`KvCampaign` compute is not proved either, as that takes induction over data; no
theorem depends on it.

## Other disagreements met while modelling

- `docs/autoscaler/TUNING.md:75-76` says that at target and idle the controller
  returns delta 0; with ki > 0 the remembered integral still yields +1 or -1
  (`control/autoscaler.py:119-128`).
- `control/router.py:152-155` says the lookup is made under each candidate
  pool's salt in turn; one key is computed, under the salt of the selected pool,
  so with different salts an entry of another admitting pool is missed.  And
  lines 163-165 say that pools share no key namespace; salt and prompt are joined
  without a separator (line 75), so with salts `a` and `ab` the prompts `bX` and
  `X` have one key, and two pools without salts share all (`router_salt`).
- `obs/registry.py:132` documents the no-history counter as lookups that found
  no entry; `route()` also counts those that found one whose pool refused.
- `bench/runpod_matrix.py:135-141` logs that a misnamed JSON will be re-run;
  `run_cell` loads it by its file name, so it is never healed and the summary
  fails on every resume (`Completes` therefore excludes such directories).
- `bench/matrix_report.py:7-9` says that the report reuses `aggregate` for a
  consistent contract; line 59 skips names without `__rate-`, which `aggregate`
  reads and may refuse (`sweep_report`).
- `scripts/run_matrix.py:106-111` and its warning at 203-206 say that `--run-all`
  overwrites the JSONs; `run_cell` returns what they hold (`sweep_run_all`).
- `core/metrics.py:70-72` falls back to the total count when the success counter
  is absent; lines 78-79 do so when it is 0 as well (`gate_fallback`).
- `scripts/autoscaler_live.py:147-148` says that individual failures are
  "tolerated but COUNTED"; an exception that is no `httpx.HTTPError` is swallowed
  by the `gather` of line 171 and counted nowhere.
- `bench/preflight.py:225-228` calls the prompt distribution exact because it
  varies with mix and seed only; the seed depends on topology and rate too, so
  cells beyond the sample can overflow unseen (`MeasuresOnlyCleared` holds to the
  gate every cell within the sample).
- `scripts/disagg_proxy.py:54` says status codes are preserved end to end; for
  a streaming request a decode error reaches the client as 200.
- `docs/kv_scaling/EXECUTION.md:154` says of the KV study's cell files
  "Per-cell JSONs are immutable once written; resume never overwrites";
  `read_cell_json` ignores one whose `n_samples` differ and the sweep overwrites
  it (`GoodCellsKept` speaks of the cells the launch can use).
- `docs/kv_scaling/EXECUTION.md:103` asks for R^2 >= 0.98 of a published fit; only
  the dry run is held to it.
- A dry run with the id of a real campaign overwrites its published files; a
  noisy cell that spoils the fit is reused by every later launch, so the
  campaign is refused for ever (`Converges` promises the cells, not the fit).
- `bench/kv_scaling/__main__.py:143` says of exit 2 "do not start"; a
  `RuntimeError` in the middle of the sweep exits 2 as well.
- `scripts/disagg_proxy.py:350` says that the first-token comparison will "never
  crash probe traffic"; a JSON body that is not an object raises an
  `AttributeError`, which is not caught, and the client gets a 500.
- `tests/sentinel.py:283` compares with as many fixture tokens as came back, so
  an answer without logprob tokens passes.
- `kv/tier_policy.py` says that the router calls `should_use_tier`; nothing does.

## Not modelled, and why

Floating-point rounding; the contents of prompts, responses and JSON; the
Prometheus text format; plotting; the random generators of the workloads; two
sweeps or two launches on one directory at a time (the code has no lock and the
documentation runs one); a client that disconnects from the proxy, other than
the sentinel's; request ids; gauges; how a sentinel fixture is recorded (only that
one comes and goes); shell scripts around docker and
ssh; vLLM itself, except for how it may answer.  The KV tier with its policy and
the speculative decoder are simulators that only their own tests call: a model
would need callers the repository does not have.

## Plan

Done: the core (controller, autoscaler, router, sweep, request path), because
everything published depends on it; then the KV study with its campaigns, the
proxy with the sentinel, and the live experiment around the autoscaler.

Proved so far: every safety property of the passing runs, with the three
refinements.

Next:

1. Facts worth having for all constants that no run states yet: the engine's
   pool never holds more than it has, a published fit is that of the cells it
   is published with.
2. The composition of `Router` with `RequestPath`.
