----------------------------- MODULE Telemetry ------------------------------
(***************************************************************************)
(* What load_vllm_metrics_summary (src/scripts/benchmark_vllm.py) makes of *)
(* the snapshots of one workload: counters over a window, gauges over all  *)
(* of them, and one map per column from the router's workers.              *)
(*                                                                         *)
(* A snapshot has a phase and, from a router, metrics: a function from     *)
(* some of the pairs <<family, worker>> to numbers.                        *)
(***************************************************************************)
EXTENDS Integers, Sequences, SequencesExt, FiniteSetsExt, Functions

None == -1

\* Where in the sequence the snapshots of a phase are.
OfPhase(snapshots, phase) == {i \in DOMAIN snapshots : snapshots[i].phase = phase}

\* counter_snapshots: the last snapshot of each phase, or all of them if one
\* phase has none.
Window(snapshots) ==
  LET before == OfPhase(snapshots, "before_workload")
      after  == OfPhase(snapshots, "after_workload")
  IN  IF before # {} /\ after # {}
      THEN <<snapshots[Max(before)], snapshots[Max(after)]>>
      ELSE snapshots

\* Mutation: from the lowest to the highest value, as for a gauge.
Delta_Range(values) ==
  IF DOMAIN values = {} THEN None ELSE Max(Range(values)) - Min(Range(values))

\* The last of some values.
Latest(values) == values[Max(DOMAIN values)]

\* counter_delta: max(0.0, last - first), 0 for a single value.
Delta(values) ==
  IF DOMAIN values = {} THEN None
  ELSE Max({0, Latest(values) - values[Min(DOMAIN values)]})

\* The values of a metric in the snapshots that have it.
Present(snapshots, metric) ==
  [k \in {i \in DOMAIN snapshots : metric \in DOMAIN snapshots[i].metrics} |->
     snapshots[k].metrics[metric]]

MatchingMetricNames(snapshots, family) ==
  {metric \in UNION {DOMAIN r.metrics : r \in Range(snapshots)} : metric[1] = family}

\* A map from the workers of a family to what Value makes of their metric, as
\* far as that is something.
WorkerMap(snapshots, family, Value(_)) ==
  LET named == {metric \in MatchingMetricNames(snapshots, family) :
                  Value(metric) # None}
  IN  [worker \in {metric[2] : metric \in named} |-> Value(<<family, worker>>)]

WorkerCounterMap(snapshots, family) ==
  WorkerMap(snapshots, family, LAMBDA m : Delta(Present(Window(snapshots), m)))

WorkerMaximumMap(snapshots, family) ==
  WorkerMap(snapshots, family, LAMBDA m : Max(Range(Present(snapshots, m))))

WorkerLatestMap(snapshots, family) ==
  WorkerMap(snapshots, family, LAMBDA m : Latest(Present(snapshots, m)))

Sum(map) == MapThenSumSet(LAMBDA worker : map[worker], DOMAIN map)

\* router_circuit_open_workers_max: the most circuits open in one snapshot.
CircuitOpenMax(snapshots) ==
  LET metrics == MatchingMetricNames(snapshots, "circuit_open")
      Open(r) == Cardinality({m \in metrics \cap DOMAIN r.metrics : r.metrics[m] # 0})
  IN  IF metrics = {} THEN None ELSE Max({Open(r) : r \in Range(snapshots)})

\* router_worker_attempt_imbalance_pct, as <<difference, largest>>.
Imbalance(requests) ==
  LET deltas == Range(requests)
  IN  IF Cardinality(DOMAIN requests) >= 2 /\ Max(deltas) > 0
      THEN <<Max(deltas) - Min(deltas), Max(deltas)>>
      ELSE IF Cardinality(DOMAIN requests) = 1 THEN <<0, 1>> ELSE <<None, None>>

\* A router renders both gauges of every worker, so the states "unknown" and
\* "routable_metrics_unknown" do not arise.
HealthStates(snapshots) ==
  LET open == WorkerLatestMap(snapshots, "circuit_open")
      up   == WorkerLatestMap(snapshots, "upstream_metrics_up")
  IN  [worker \in DOMAIN open |->
         IF open[worker] # 0 THEN "circuit_open"
         ELSE IF up[worker] # 0 THEN "routable_metrics_up"
         ELSE "metrics_unreachable"]

\* The columns from the router.  Its own counters (retries, no healthy worker)
\* are taken like a worker's and left out here, as are durations.
RouterColumns(snapshots) ==
  LET requests == WorkerCounterMap(snapshots, "attempts")
      errors   == WorkerCounterMap(snapshots, "failures")
  IN  [request_counts |-> requests,
       success_counts |-> WorkerCounterMap(snapshots, "successes"),
       error_counts |-> errors,
       cancellation_counts |-> WorkerCounterMap(snapshots, "cancellations"),
       failures |-> IF DOMAIN errors = {} THEN None ELSE Sum(errors),
       imbalance |-> Imbalance(requests),
       active_max |-> WorkerMaximumMap(snapshots, "inflight"),
       circuit_open_workers_max |-> CircuitOpenMax(snapshots),
       health_states |-> HealthStates(snapshots)]
=============================================================================
