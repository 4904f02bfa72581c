# TLA+ models of the LLM inference observability lab

This directory holds the formal models of the replica router, its fault proxy,
the benchmark client and the analyzers of this repository: TLA+ modules, the
TLC configurations that check them on small instances, and TLAPS proofs for all
values of their constants. `PROJECT.json` says which definition stands for
which lines, what each run checks, and with which mutation of the code each
property is known to fail.

To check a run: `tlc -config MCRouterAccounts.cfg MCRouter`. To check the
proofs: `tlapm RouterProofs.tla`, and the same for each `*Proofs.tla`.

## The system

```
                     GET /metrics                GET /metrics
  benchmark client ----------------+   Prometheus --------+
   main thread, executor threads,  |                      |
   sampler threads                 v                      v
        |  POST              +---------------- router ----------------+
        +------------------> | handler threads over one RouterState   |
        |                    +-----+---------------------+------------+
        |  evidence, records,      |                     |
        v  summaries           replica A            fault proxy -> replica B
   result files ---> analyzers ---> reports
```

| Component | State | Operations | What is hard |
|---|---|---|---|
| Router, request path (`routing/router.py`, `RouterState`, `do_POST`) | per worker: in-flight, attempts, outcomes, run of failures, circuit, latency average; router-wide counters; per handler: attempt, excluded names, last status | `begin_request`, `choose_worker`, `mark_retry`, `complete`, `cancel`; one handler thread per client | handlers interleave between lock acquisitions; errors before, during and after the response; retries; circuits that open while others choose |
| Router, load scraping (`refresh_worker_load`, `prometheus`) | `upstream_*` fields of each worker | one thread per scrape, one fetch per worker, results stored as they come | overlapping scrapes overwrite each other; missing gauges |
| Fault proxy (`routing/slow_worker_proxy.py`) | `FaultState` counters | `next_request`, forward or inject | numbering under concurrency; requests the router gave up on |
| Drain guard (`wait_for_server_drain`) | run of zero samples | poll, time out | decides from old, aggregated, possibly missing gauges; requests on their way from one worker to another are in none |
| Benchmark run (`run_benchmark`) | futures, exported counters, request log, summaries, metadata status | check evidence, start, submit, register, collect, summarise, unwind, write | callbacks run in either thread; an exception or Ctrl-C at any point |
| Workload validation and load plan (`validate_workload`, `scheduled_offset_for_request`, the submission loops) | submitted requests | validate, sleep until due, submit | boundaries; a full pool delays what was due |
| Streaming client (`post_streaming_chat`) | one request | admission, send, read the stream, classify | partial streams, silence, exceptions in handlers |
| Samplers and counter window (`VllmMetricsSampler`, `GpuSampler`, `load_vllm_metrics_summary`) | label, records, rows | periodic and explicit samples, window | stale labels, failed samples, requests that outlive their client, a router that restarts |
| Summaries and parity (`summarize_workload`, `evaluate_prompt_parity`) | none | pure functions | missing values, ties, partial bursts |
| Launch evidence (`capture_server_evidence`, `compare_server_config`, `compare_gpu_topology`) | none | discover, parse, compare | evidence that is missing, or another server's |
| Analyzers (`analyze_saturation.py`, `analyze_month4.py`, `analyze_month5.py`) | none | select rows, compare, report | rows of several runs and servers in one file |
| Incident diagnosis, PyTorch baseline, small tools, dashboards | none | sequential scripts, data | see "Not modelled" |

The correctness properties per component are listed with the runs below. The
hazards, each at its line, are in `PROJECT.json`.

## Modules

| Module | Models | Notes |
|---|---|---|
| `Router` | `RouterState` and `do_POST` | one action per critical section and per way an attempt ends |
| `RouterProperties` | what must hold of `Router` | EXTENDS `Router`; instantiates `RequestDelivery` |
| `RequestDelivery` | the promise to a client | abstract specification |
| `FaultInjection` | router and fault proxy composed | EXTENDS `RouterProperties` |
| `WorkerLoad` | GET /metrics of the router; the requests its workers hold | the scraping pipeline and the shared `upstream_*` fields |
| `DrainGuard` | the guard polling the router | EXTENDS `WorkerLoad` |
| `BenchmarkRun` | `run_benchmark`, executor, exported counters | |
| `Telemetry` | `load_vllm_metrics_summary` | pure operators |
| `CounterWindow` | sampler threads, labels, counter window | EXTENDS `Telemetry`; the vLLM server is external |
| `Workload` | one entry of a workload file, its validation and offsets | pure operators |
| `Summary` | `summarize_workload`, `percentile` | EXTENDS `Workload`; pure operators |
| `ArrivalPlan` | the promise of a load plan | abstract specification |
| `RequestSchedule` | one workload in time: submission, threads, `post_streaming_chat`, summary | EXTENDS `Summary`; instantiates `ArrivalPlan` |
| `RouterWindow` | a router's counters during one workload, and the snapshots of them | EXTENDS `Telemetry` |
| `Evidence` | launch evidence and its comparison | pure operators |
| `Analysis` | prompt parity and the reports | pure operators |
| `Campaign` | servers deployed, runs, files, reports | composes `RouterWindow`, `Evidence`, `Analysis` |
| `RouterProofs` | proofs about `Router` | its refinement of `RequestDelivery` included |
| `FaultProofs`, `GuardProofs`, `BenchmarkProofs`, `CounterProofs`, `ScheduleProofs`, `CampaignProofs` | proofs about `FaultInjection`, `DrainGuard`, `BenchmarkRun`, `CounterWindow`, `RequestSchedule`, `Campaign` | |
| `Sums` | lemmas about sums over finite sets, `Max` and `Min` | used by most of the above |
| `MCRouter`, `MCFaultInjection`, `MCDrainGuard`, `MCRequestSchedule`, `MCCampaign` | values for TLC | names, entries, plans, symmetry |

Operators whose name has an underscore (`Cancel_KeepsInflight`,
`LatencyKey_NoLoad`, ...) are mutations: the code with a plausible bug.
No specification uses them; they show that a property would notice.

### Router

Every method of `RouterState` holds `state.lock` for its whole body, so each is
one atomic step. `do_POST` is the program of a handler thread, with its
position in `pc`:

| `pc` | Where the thread stands in `do_POST` |
|---|---|
| `idle` | before `begin_request` |
| `choose` | at the head of the loop, before `choose_worker` |
| `mark` | after `choose_worker`, before `mark_retry` (second attempt) |
| `dispatched` | inside `urlopen` |
| `streaming` | response headers sent, copying chunks |
| `reply` | after the loop, before the router's own error reply |
| `done`, `aborted` | returned; killed by an exception out of the handler |

`history[r]` is the list of workers tried, from which `excluded` is derived;
`answer[r]` is what the client has received. A reply carries the code of the
last attempt, so an upstream 503 or 502 is the same value as the router's own
503 (no candidate) and 502 (no answer); `5xx` is any other code from 500 up,
`4xx` any code below, and `ErrorCodes` says which of them workers answer with.
A client may leave at any time. During a response this ends as `gone`, and the
books depend on whether the router notices: a failing write is a cancellation,
but while the writes fit the socket's buffer the end of the file makes it a
success (`StreamEof`). Before an error reply it ends as `left`. A circuit is kept as the time that
remains until it closes, and `Tick` lets time pass; this is exact because the
code only compares `circuit_open_until` with the clock. Latencies are natural
numbers, and the moving average may land anywhere between its old value and the
new latency, which includes what every `ewma_alpha` in (0, 1] gives. The error
texts, the log lines and the header fields are left out. The router accepts
`--max-retries` 0 and 1 only, hence `MaxRetriesAssumption`.

`FaultInjection` adds the proxy's `FaultState`: a request sent to the faulty
worker takes a number when its proxy thread runs `next_request`, possibly after
the router has timed out, and the number decides between the injected status
and a forwarded request. The replica behind the proxy may fail too: its errors
are passed on, a replica that cannot be reached becomes a 502, and a stream it
breaks off ends the proxy's connection like a finished one. The other replicas
serve every request, or find it invalid.

### WorkerLoad and DrainGuard

Each scrape is a thread: it fetches all workers in parallel, stores each result
in the shared `WorkerState` as the future completes, then renders. The sum of
the two gauges of a worker is one number (the guard tests both for zero, and
both are non-negative); never scraped, unreachable and without both gauges are
one value, since `prometheus()` treats them alike. A fetch reads the worker's
real load at one moment, is stored at a later one, and rendered at a third.

Nothing is submitted meanwhile: the client that would send new requests is the
one waiting in the guard. What earlier stages left behind is another matter. A
request whose client has timed out is still served by its handler thread in the
router, so it may finish (`Finish`), be given up by the router on a worker that
goes on with it or not (`Leave`), stand in no worker's queue (`between`), and
arrive at a worker of another name (`HandOver`) or nowhere (`GiveUp`). `late`,
`doubtful` and `clean` are history variables: they record which zero samples
may have been taken around such a hand-over.

### BenchmarkRun

`main` is the position of the main thread in `run_benchmark`, from
`CheckEvidence`, which writes the metadata for the first time and may end the
program on a mismatch, through `StartServices`, where a port that is taken
raises before the `try` block (`crashed`), to `Complete` and `WriteSummary`,
where a summary that cannot be written raises after the verdict (`crashed` too).
`executor.submit`, `mark_submitted` and `add_done_callback` are separate steps,
since the executor threads run between them. `FinishRequest` makes the result
visible to `as_completed` before the callbacks run, as `Future.set_result` does.
The closed and the open loop differ in when the main thread submits, which the
interleaving covers. A drain guard is one step that passes or raises. The pool
is a counter of busy threads with a FIFO queue. Ctrl-C may come anywhere, also
while another exception is on its way out.

### CounterWindow and Telemetry

The server holds requests of each workload, counts each at some moment while
it holds it, and keeps a request whose client has timed out until it is done.
`SamplerReadsLabel` and `SamplerWrites` are the two halves of `_sample_once`
under `sample_lock`; `SampleNow` is one step because only the main thread
changes the label. A fetch that fails leaves nothing in `records`: the program
writes such a record without metrics, and no column is made of it. The GPU sampler works the other way round: nvidia-smi
measures (`GpuMeasures`), and the row gets the label that holds afterwards
(`GpuWrites`). Nothing bounds how long nvidia-smi takes: its time-out is 5 s,
while the default guard needs only two samples one second apart. `Place` tells
the first row of a label from the later ones. `Window` and `Delta` in
`Telemetry` are the window of `load_vllm_metrics_summary`.

### RequestSchedule

Time is a count of ticks from `workload_started`. A thread that can go on does
so within its tick, except the main thread, which may wake up `MaxLag` ticks
late. Arrival rates are ticks between arrivals. A stream is a number of data
lines, with or without text, and a connection that is silent for `Timeout`
ticks fails; the time-out bounds every read and not the request, as
in the code. `ClassifyError` takes the markers that the error text contains.
Each request leaves a record with the fields that the summary reads, and
`Summarise` applies `SummarizeWorkload` to them; a percentile takes the value at
a place of the sorted list, which `Ranked` describes by how many values lie
below it. Entries are candidates: those
`validate_workload` refuses never start.

### Campaign

The operator deploys servers and starts one run after the other. A run gathers
its evidence once (`Capture`), may refuse to start, takes what its workloads
measured from `Outcomes`, and leaves its rows if it gets to the end. With
replicas its columns come from `RouterWindow`, where the router
serves, opens and closes circuits, is restarted, and is sampled. `Analyze` runs
the three analyzers over the rows of all finished runs. In `Analysis` and
`Telemetry` a sublist keeps the places that its members had in the whole. A command line is a
sequence of words and options; what the server makes of it (`Settings`) is
external and independent of how the client parses it. The fields of a row are
those that a comparison looks at.

## Runs

| Run | Instance | Shows |
|---|---|---|
| `router_accounts` | `least_inflight`, 3 requests, 2 workers, threshold 2, one retry, error bodies may be unreadable | the counters agree with the threads (`InflightAccounting`, `AttemptAccounting`, `RequestAccounting`) and with the clients (`ClientLedger`, `ReplyTellsOutcome`); circuits open when earned (`OpenCircuitEarned`), ignore 4xx (`ClientErrorsNeutral`), stay open no longer than configured (`TypeOK`) and turn clients away only when all are open (`RefusedOnlyWhenUnhealthy`); `FewestActiveUntilLeak` |
| `router_latency` | `latency_aware`, 3 requests, latencies 1 and 3 | `ColdStartEven`: before there is a measurement requests spread over the workers; `LowestLatency`: what is chosen, before and after |
| `router_delivery` | `round_robin`, 2 requests, 3 workers, two of them with one name, error bodies may be unreadable, one of the clients may stop reading; fair | `DeliverySpec` (refinement of `RequestDelivery`, with liveness), `InflightDrains`, `NoRepeatedWorker`, `RetryOnlyBeforeResponse` |
| `router_leak` | as `router_accounts` | **violated** `FewestActive`: see findings |
| `fault_injection` | `round_robin`, 4 requests, every second one failed, threshold 2; the replica behind the proxy fails, requests may be invalid | `RoundRobinEven`, `InjectedOnSchedule`, `InjectedShowsInRouter`, `MaskedByRetry` |
| `drain_guard` | 2 workers with distinct or equal names, one of them with or without gauges, 1 request, 2 scrapes, 2 stable samples, fair | `DrainedMeansIdle`, `BlindReplicaBlocksGuard`, `GuardEnds` |
| `benchmark_run` | 2 workloads of 4 requests, 2 threads, all failures on, fair | `TypeOK`, `ExportConserved`, `SummarisedIsComplete`, `StatusTellsOutcome`, `RunEnds` |
| `benchmark_raised` | 3 requests that may raise | **violated** `UnexpectedFailuresRetained`: see findings |
| `counter_window` | 2 workloads of 2 requests, 1 residual request, 1 periodic record | `BilledExactly`, `LabelledSamplesPure`, `GpuRowsPure` |
| `counter_fallback` | the same with 2 periodic records and samples that may fail | **violated** `NoEarlierTraffic`: see findings |
| `open_loop` | 8 candidate entries of 2 or 3 requests: steady, bursty, closed loop, with and without admission control, two that validation refuses; fair | `TimingsAddUp`, `DelayBlamesPool`, `AchievedRateSound`, `SummaryAddsUp`, `PlanSpec` (refinement of `ArrivalPlan`, with liveness) |
| `reports` | 4 pairs of runs over 4 command lines; a prefix comparison; a sweep of 4 stages, not in order and with a tie; a run against a router with 2 workers | `ComparedAsLabelled`, `PrefixComparedAtParity`, `BoundaryIsFirst`, `RouterColumnsSound` |

### Bounds

Three concurrent requests are the smallest number at which one handler chooses
while another opens a circuit and a third settles late; two workers are the
minimum the router accepts, and three with a shared name separate "name" from
"worker" and give the round-robin scan something to skip. Round robin is
checked for evenness over four requests. The number of requests bounds every
counter of the router: nothing else is capped there. Threshold 2 tells "opens at
the threshold" from "opens at the first failure", and lets `RoundRobinEven` speak
of workers that have failed; threshold 1 makes circuits open often. Client errors
and the codes 503, 502 and any other of the 5xx are all there in
`router_accounts`; `fault_injection` has the first three, enough for injected,
passed-on and the router's own. Circuits stay open for one tick, during which any number of other
steps may happen. Two latencies with different ratios order the products of
`latency_aware` both ways.

Two scrapes are enough for one to overwrite another's newer answer, in both
directions, and one request on two workers for it to be in either, in both (the
first worker goes on with what was given up), in none, or finished. Two stable
samples tell "one zero sample" from "all of them".

Four requests on two threads let requests be queued, running, finished with and
without callback at once. `MaxPeriodic` (1 in `counter_window` and `reports`, 2
in `counter_fallback`) bounds only how many records the sampler thread writes:
one can carry a stale label, two are needed to bill earlier traffic. One residual request
and two workloads give a label a predecessor and a successor.

In `open_loop`, three requests and bursts of two leave a last burst that is not
full; `max_in_flight` 1 makes a slow request delay the next. `Timeout`,
`MaxLines` and `MaxLag` are 1: a request may be late because of the main thread,
of the pool, or both, and its stream may be silent at each of its places.

In `reports`, `MaxDeploys` 2 allows the server to be replaced between, before
and during both runs of a pair; `MaxAttempts` 2 and `MaxRestarts` 1 give the router
a restart with attempts on either side of it. The five outcomes hold two prompt
averages within the tightest tolerance and one outside it, a p99 at the factor,
an error, a delay, and a workload that measured nothing. Of the four stages of
the sweep two have the same rate, so that the order of the workload file decides
between them.

Symmetry is used over the request identifiers, and in `reports` over the router's
workers, never in a run with a liveness property.

### Fairness

`Router!FairSpec`: what a handler does until a response starts or it has decided
on its error reply ends (weak fairness of `Attempt`): `urlopen` has a time-out,
and locks are held for a few statements. What it writes to a client
(`Deliver`) need not end: `wfile.write` (`routing/router.py:608` and `:672`) has no time-out,
because no handler time-out is set, so a client that stops reading and keeps its
connection holds its handler for ever. `Deliver` is therefore fair for the
clients in `Readers` only, which go on reading or close their connection; the
`router_delivery` run has a client outside `Readers`, and both `Delivery!Spec`
and `InflightDrains` say what is left over for such clients. Each read from a
worker has a time-out, but a worker that sent a byte now and then would keep the
handler: that a worker does not stream for ever, nor send an endless error body,
is an assumption about the worker. Clients are not required to arrive.
`DrainGuard!FairSpec`: fetches have a time-out of 1 s, threads run, and the
deadline of the guard comes (strong fairness of `TimeOut`, because the guard is
only at that test between polls). `Poll` is strongly fair only because the
model reuses a finite set of scrape threads. Nothing is assumed of the requests.
`BenchmarkRun!FairSpec`: the main thread and the pool make progress; requests
and guards end by their time-outs.
`RequestSchedule!FairSpec`: the clock runs, the main thread wakes up, threads
take work and time out. Nothing is assumed of the server: it may stay silent,
and the lines it may send are finite because a stream is.

### Findings

1. `exc.read()` at `routing/router.py:549` runs before `state.complete`. When it
   raises, the in-flight unit leaks for ever (`router_leak`). The accounts are
   therefore stated about the handlers that *hold* a unit, the aborted ones
   included, and `FewestActiveUntilLeak` speaks of the time before such an abort.
2. An exception from the HTTPError handler of `post_streaming_chat` ends the
   run and loses records (`benchmark_raised`).
3. With a failed before or after sample the counter window falls back to all
   records of the label and counts earlier traffic (`counter_fallback`).

### Also worth knowing

What the models brought to light beside the findings; the properties are stated
so that they hold with it.

Router:
- The `latency_aware` key puts workers without a measurement first whatever
  the others' latency and load (`routing/router.py:149`), while
  `routing/README.md:30` says "minimizes EWMA response latency multiplied by
  current load". `LowestLatency` states both halves, and `ColdStartEven` bounds
  what the first costs: among the unmeasured the load decides, so that none of
  them is flooded while its first answer is under way.
- A circuit keeps new requests from being placed, nothing more: a handler that
  chose its worker before another one opened the circuit sends its attempt there
  all the same. The property "nothing is sent to a worker with an open circuit"
  does not hold and nothing promises it.
- A client cannot tell an upstream's 503 or 502, which the router passes on, from
  the router's own; only a reply without `X-Router-Worker` is certainly the
  router's (`ReplyTellsOutcome`).
- A success is not always a body that arrived: the stream may have been closed
  early by the worker, or the client may have left unnoticed. Only the sum over
  the outcomes of a worker is exact (`ClientLedger`).
- A client that stops reading holds its handler and its in-flight unit for ever.
- A round-robin retry skips the worker it has to avoid, and the scan does not come
  back to it: that worker falls behind by one attempt for each such retry
  (`RoundRobinEven`).
- `MaskedByRetry` needs a healthy worker of another name: `excluded` holds
  names, so with equal names there is nobody to retry at.
- Behind the fault proxy a stream that the replica breaks off reads like a
  finished one: the proxy closes a connection without Content-Length. The router
  books a success and clears the worker's run of failures.
- A stream cut mid-way may be a success to the client, which reads to the end
  of the file, while the router counts a failure or a cancellation.

Benchmark run and samplers:
- The drain guard can be deceived only if each of its consecutive zero samples
  met a request on its way from one worker to another (`DrainedMeansIdle`).
- An exporter port that is taken, and a Ctrl-C, leave the status "running" for
  ever; a Ctrl-C after the verdict leaves "completed" without `summary.csv`, and
  so does a `summary.csv` that cannot be written.
- The `usage` event of a stream is used outside the `try`: a value that is not
  an object raises like finding 2.
- GPU rows get the label of the moment nvidia-smi has ended. If nvidia-smi takes
  longer than the stable samples of a guard span, the first row of a workload is
  one of the workload before it; no later one can be (`GpuRowsPure`).

Load and summaries:
- A steady workload with a `burst_size` passes validation, and its achieved rate
  comes out too low; with `burst_size` 0 the summary divides by zero.
  `AchievedRateSound` leaves these entries out of its second half, and its proof
  has "no burst size, or a positive one" as a hypothesis.
- A scheduler delay means a full pool of threads (`DelayBlamesPool`), so the
  saturation report's "load generator limited" may well be the server.
- `timeout_seconds` bounds each read, not the request.
- Admission rejections count in `error_rate`, although `analyze_month4.py:228`
  wants them separated from server failures.

Evidence and reports:
- An option without a value swallows the word that follows it on the launch
  command line, the reason why `Evidence` and the server may disagree.
- An expectation counts as met if either the launch command or the metrics say
  so, and the launch command is that of the process with the lowest number,
  which may be another server's: hence `OwnCommand` in `ComparedAsLabelled`.
- The evidence is gathered once; a server replaced during a run goes unnoticed,
  hence "the server it was started against".
- `prefix_findings` pairs the last shared with the last unique row of a label,
  even from different runs or parity groups, and a row that measured nothing
  passes with its group: these pairs are compared without parity, and the
  premises of `PrefixComparedAtParity` leave them out.
- The "Replica routing" finding of month 5 is not conditioned on verification.
- A sweep whose rows do not differ in a known dimension has no boundary, even
  if its rows have errors: hence the premise of `BoundaryIsFirst`.
- `ratio_text` calls two equal values a 0.0% regression or improvement.

## Proofs

Each theorem holds for every value of the constants that the named assumptions
of its module allow; TLC evaluates these assumptions in each run. They say no
more than what the program checks at start-up or what the data types are:

- Router: a finite set of requests, at least two workers, integers for names,
  threshold at least 1, retries 0 or 1, any codes workers answer with, any set of
  clients that read. `FailEvery` is a natural number. The
  latencies are natural numbers.
- Guard: finitely many scrape threads, a `NoScrape` that is none of them, at
  least one stable sample, any loads, names and silent workers.
- Benchmark run and counter window: at least one workload, request and thread;
  any number of periodic samples and residual requests.
- Load and summaries: entries whose numbers are integers and whose
  `request_count` is a natural number (`EntriesAssumption`); which of them run
  is up to `validate_workload` as modelled.
- Campaigns: a switch on a command line has no value of its own and no word
  behind it that reads like one (`CommandsAssumption`, true of the launch
  commands vLLM accepts); runs expect settings that a server has
  (`ExpectationsAssumption`); a member of a parity group has a tolerance of 1 to
  100 percent, which `validate_workload` demands (`PlansAssumption`, where the
  model has whole percents); what was not measured is `None`
  (`OutcomesAssumption`); the factor is above 1 and the threshold not negative
  (`OptionsAssumption`); the router has finitely many workers.

All safety properties that the passing runs check, invariants, action properties
and the safety half of both refinements, are proved.

### The router

| Theorem | Argument |
|---|---|
| `TypeCorrect` | `ControlInv` ties `pc` to the length of `history`; without it `Worker(r)`, the last element of `history[r]`, need not be a worker, so `TypeOK` is not inductive alone |
| `AccountsCorrect`: `InflightAccounting`, `AttemptAccounting` | `InflightAccounting` relates a counter to the cardinality of the set of handlers that hold a unit. An action keeps every such set (`HoldingKept`), adds one element to one (`HoldingAcquired`) or removes one (`HoldingReleased`). Because the set is not empty when an attempt is settled, the clamp `max(0, inflight - 1)` is never taken, which makes `AttemptAccounting` exact |
| `NeverRepeated`, `RetriesUnseen` | `AnswerInv` ties `pc` to what the client has |
| `RepliesTell` | `StatusInv`: what a client is told is the `last_status` of its handler, which stays the initial 503 until something was tried. Those told of a retryable status with an attempt to spare are then among the handlers that gave up, which `RequestsAccounted` has counted |
| `Delivers`: `Spec => Delivery!SafeSpec` | each action of `Router` is mapped to a step of `RequestDelivery` for the same request, or to a stutter |
| `RequestsAccounted` | each router-wide counter is the cardinality of a set of requests; a handler's step changes at most one of them (`OneHandler`) |
| `LedgerBalances` | `Ledger`: the property for one worker, where a failed attempt is recognised by being followed by another one, or by what its handler is about to do. Each of the ways to settle an attempt adds one element to one of its two sets; `HeadInv`: a client whose response has begun has its head and no more, so that the end of the stream adds its body exactly once |
| `RefusalsJustified` | an action property: a handler that has tried nothing excludes nobody |
| `CircuitsEarned` | needs `RunsCounted`: a run of failures is no longer than the failures |
| `ClientErrorsAreNeutral` | `NeutralInv`: the run of failures of a worker and the client errors told of it together are at most its failures; `FinalInv`: a client error is final, so that what was told stays told |
| `FewestActiveChosen` | cites `AccountsCorrect`: as long as nothing has leaked, the gauge that `choose_worker` compares is the number of requests really in progress |
| `LowestLatencyChosen` | cites `AccountsCorrect`; `MeasuredInv`: a measured average is not 0, so the first component of the key tells the unmeasured (`UnmeasuredFirst`) and the second orders the rest by their product (`ProductOrders`). Hypotheses: error bodies can be read, and no latency is 0 (`0.0` is falsy, so the code would take it for a second) |
| `ColdStartIsEven` | `ColdInv`: an unmeasured worker has settled nothing, so all its attempts are in flight and its gauge, which the key compares, is its number of attempts; and no handler on its way to a retry has tried it, so a worker with a name of its own is a candidate, and its circuit is closed by `OpenCircuitEarned` |
| `RoundRobinIsEven` | `TurnInv`: counts how often the scan has come past each worker (`Passes`), n or n + 1 times, depending on its place before or after `rrIndex`. A worker has no more attempts than that, and one that cannot have been shut out lacks only those of the retries that had to avoid its name (`Avoiding`). `ScanStops` says what one choice does to `Passes`, from what `%` does with the ring distance (`Distance`) |

### The fault proxy, the guard and the benchmark run

| Theorem | Argument |
|---|---|
| `FaultProofs`: `IsRouter` | every step of the composition is a router's or one it does not see, so all the theorems above hold of it |
| `OnSchedule` | the numbers given are 1..`seen`, and n+1 has one multiple of `FailEvery` more than n exactly if it is one |
| `InjectedShows` | `ShowInv`: what is injected is the number of requests with a number to fail, and each of these is waiting or among those whose attempt was settled as a failure (`Failed`), which the router's counter bounds. A request given up before it has a number counts as one that may still be failed |
| `FaultsMasked` | `MaskInv`: circuits of healthy workers stay closed, a second attempt is never at the faulty worker, and the only error reply is to an invalid request. Assumes a worker whose name differs from the faulty one's |
| `GuardProofs`: `DrainedIsIdle` | `DrainedMeansIdle` speaks of the moment the guard passes, its cause lies several scrapes back. `FetchInv`: after a fetch a load can only fall until something is handed over; `LateInv`: while the guard's scrape is not in doubt, no scrape may have fetched before a hand-over, unless its own is among those that did; `StoredInv`: what the guard's own scrape has stored, or another one has written over it, still bounds the load; `AnswerInv`: hence a zero that is rendered without doubt is true; `CleanInv`: after one such sample everything is idle, and stays so. `WaitInv` ties the guard to its scrape. The renderer's sum is taken apart with `Sums` |
| `BlindReplicaBlocks` | `BlindInv`: the fields of a name that only silent workers write are never filled, so the aggregate is never rendered and no zero is ever counted |
| `BenchmarkProofs`: `ExportCorrect`, `SummariesComplete`, `StatusTruthful` | one invariant in parts: what is exported as in flight is the number of callbacks still to run plus the request being registered (`CountInv`); an idle pool leaves no callback behind (`PoolInv`); what the main thread has done where it stands (`MainInv`, `SubmittedInv`, `SummariesInv`, `StatusInv`) |

### Samples, load and summaries

| Theorem | Argument |
|---|---|
| `CounterProofs`: `SamplesAreTheirOwn` | `OwnersInv`: from a guard that passed to the next one the server holds the workload's requests only; `SamplingInv`: a sampler thread between its two halves has read the label of this workload or of the one before, and from the explicit sample on, which waited for `sample_lock`, not the one before. Hypothesis: the guard is enabled |
| `GpuRowsAreTheirOwn` | `GpuInv`: once a label has a row, a measurement that is under way was begun under that label, since there is only one at a time; and from its guard on (`OwnersInv`) the server holds the requests of that label only. No hypothesis on how long a measurement takes |
| `BilledForItsOwn` | `BillInv`: the counter at the snapshots of a phase against the counter now; `DeltaInv`. Hypotheses: the guard is enabled and `/metrics` can be fetched (finding 3 shows what happens otherwise) |
| `ScheduleProofs`: `CarriesOutPlan`: `Spec => Plan!SafeSpec` | requests are submitted and started in turn (`InTurn`), so that the set of started requests is an initial segment and its cardinality is the next to start (`StartedFirst`, `NextToStart`) |
| `TimingsCorrect` | `TimeInv`: the clock has passed what has happened (`Clocked`), and what a finished record says of it (`Told`) |
| `DelaysCorrect` | `PoolInv`: no more are active than threads (`PoolBound`), and at each tick that a request has been waiting beyond the main thread's lag all threads were held by earlier ones (`Blamed`). The property only looks at finished requests, whose waiting is over |
| `RateCorrect` | `RateInv`: requests start in order, so the first and the last start bound the window; then arithmetic of the offsets. Hypothesis: no burst size, or a positive one |
| `SummaryCorrect` | `RowInv`: the kinds of the records partition the requests (`Kinds`), and the time spent on all requests is at most the threads times the time (`SpentFits`), which each tick keeps because of `PoolBound`. That percentiles are ordered follows from `Ranked`, the value with enough others below it, without speaking of a sorted list |

### Campaigns

All four rest on `Inv` (`Placed`, `RowsInv`, `FilesInv`): where the operator
stands, that rows are those of the run at hand and the files those of earlier
ones, and that every row has the fields of its workload.

| Theorem | Argument |
|---|---|
| `ComparisonsTrue` | a row is marked verified only if its run was (`RowOk`), and `EvidenceTrue`: a setting found in evidence that is the server's own, and equal to the expectation, is the server's setting, whichever part of the evidence was missing. The latter is a statement about two readings of a command line, `LaunchConfig` and `Settings`, and needs `CommandsAssumption` |
| `PrefixesAtParity` | `ParityInv`: the rows of one run and group that passed are within each other's tolerance. It is kept because the check was made on the extremes of the group with its narrowest tolerance (`WithinTolerance`), and a run appends the rows of its own groups only |
| `CandidateIsMildest` | no strengthening beyond `Inv`: for any rows, the first place in the stable sort (`SortedFirst`) is the least of the smallest values, and of the degraded ones too (`Leads`). The order of the workload file enters only through ties |
| `ColumnsReliable` | `WindowInv`: each snapshot accounts for every attempt it shows (`Balanced`); what the counters have grown by since the first named snapshot is what was seen, or less after a restart (`SinceBefore`); at the second they stand as they are shown (`AtAfter`); the first comes before the second. From these `ColumnsInv` follows when `Summarise` takes the maps, the sums and the extremes of the window |

### Sums and extremes

`SumOver`, `Max` and `Min` are defined by folds and `CHOOSE`. `Sums` proves that
a sum of integers over a finite set adds one term at a time (`SumUpdate`), that
it is monotone (`SumMonotonic`), and what follows from these. The library's
induction theorems cannot be used, because they take a predicate for a
parameter; the induction here is by a least counterexample (`LeastNatural`, from
`WellFoundedInduction`), with a set for the predicate, so that every step stays
first-order. The function that a fold recurses through exists on every finite
set (`IterExists`).

Three constructs have no axioms in the prover: `SelectSeq`, `SortSeq` and
`@@`. A list of rows is therefore a function from places to rows in `Analysis`
and `Telemetry`, restricted to a set of places where the code builds a sublist;
a sort is an order on places; the fields of two records are put together by
`Joined`.

### Only model-checked

- All liveness (`InflightDrains`, `GuardEnds`, `RunEnds`, the liveness parts of
  `DeliverySpec` and `PlanSpec`), which is out of the prover's reach.
- That the mutations are caught, and the three violations: these are runs.

## Not modelled, and why

- Prompt building (`build_prompt`): it searches for a text of a given number of
  tokens, and its outcome depends on the tokenizer, which is not in the
  repository. That a longer text has at least as many tokens, the only fact the
  search rests on, is not guaranteed. `RequestSchedule` takes the target as met.
- Incident diagnosis: independent threshold rules over one row, without state;
  a model would repeat the rules.
- The PyTorch baseline: sequential measurement scripts, numerics and profiling.
- Small tools, dashboards, alerts, workload files, reports: input and output,
  data and prose.
- In the analyzers: the diagnosis sentences, `ratio_text`, the scaling metrics
  of month 5, the tables. In the fault proxy: the text of its metrics.
- Within the modelled parts: start-up and shutdown of the servers, the text of
  metrics and log lines, wall-clock times of records, redaction of secrets,
  collection of versions, keep-alive of HTTP connections, a `metadata.json` or
  a log file that cannot be written.

## Plan

Done: all models named above, and a proof of every safety property that the
passing runs check.

Next, in this order:

1. Proofs that go beyond what the runs ask: that the router's columns and the
   launch evidence fit what `Analysis` reads, and a refinement of `DrainGuard`
   by an abstract "idle until the next stage" specification.
2. A bound on how many GPU rows a workload loses to the one before it, with a
   clock for nvidia-smi and the guard.
3. The scaling metrics of month 5.
