------------------------------ MODULE Summary -------------------------------
(***************************************************************************)
(* What run_benchmark computes from the records of one workload: the       *)
(* summary row (summarize_workload in src/scripts/benchmark_vllm.py).      *)
(*                                                                         *)
(* A request record is a record with the fields the summary reads.  Times  *)
(* are ticks.  A percentile is returned times 100, which makes the linear  *)
(* interpolation exact; a quotient is a pair <<numerator, denominator>>.   *)
(***************************************************************************)
EXTENDS Workload

NoRatio == <<0, 0>>
Ratio(a, b) == IF b > 0 THEN <<a, b>> ELSE NoRatio

\* Mutation: the values are taken as they come.
Ranked_Unsorted(values, n) ==
  values[CHOOSE k \in DOMAIN values : Cardinality({j \in DOMAIN values : j <= k}) = n]

\* The value at place n of the sorted values.
Ranked(values, n) ==
  CHOOSE v \in Range(values) :
    /\ Cardinality({k \in DOMAIN values : values[k] < v}) < n
    /\ Cardinality({k \in DOMAIN values : values[k] <= v}) >= n

\* percentile, with q in percent.
Percentile(values, q) ==
  IF DOMAIN values = {} THEN None
  ELSE LET pos == (Cardinality(DOMAIN values) - 1) * q
           lower == pos \div 100
           weight == pos % 100
       IN  IF weight = 0 THEN Ranked(values, lower + 1) * 100
           ELSE Ranked(values, lower + 1) * (100 - weight)
                  + Ranked(values, lower + 2) * weight

Number(rows, Test(_)) == Cardinality({k \in DOMAIN rows : Test(rows[k])})

\* Where the successful requests are.
Successes(rows) == {k \in DOMAIN rows : rows[k].success}

\* The values of a field that are there, at some of the rows.
Values(rows, places, field) ==
  [k \in {k \in places : Given(rows[k][field])} |-> rows[k][field]]

Total(values) == MapThenSumSet(LAMBDA k : values[k], DOMAIN values)

\* Mutation: the last burst is taken to be a full one.
AchievedWindow_FullBurst(w, starts, n) ==
  LET burst == IF Given(w.burst_size) THEN w.burst_size ELSE 1
      span == Max(starts) - Min(starts)
  IN  Max({span + burst * w.interval, n * w.interval})

\* The observed start span and one arrival window for the last burst, but no
\* less than the plan takes.  burst_size counts for a steady workload too.
AchievedWindow(w, starts, n) ==
  LET burst == IF Given(w.burst_size) THEN w.burst_size ELSE 1
      final == IF n % burst = 0 THEN burst ELSE n % burst
      span == Max(starts) - Min(starts)
  IN  Max({span + final * w.interval, n * w.interval})

AchievedRate(w, rows) ==
  LET starts == Values(rows, DOMAIN rows, "start")
  IN  IF OpenLoop(w) /\ Cardinality(DOMAIN starts) > 1
      THEN Ratio(Len(rows), AchievedWindow(w, Range(starts), Len(rows)))
      ELSE NoRatio

\* estimated_gpu_cost_usd and what it buys; hourly_cost is None without one.
Cost(hourly_cost, wall) == IF Given(hourly_cost) THEN hourly_cost * wall ELSE None
CostPer(cost, n) == IF Given(cost) THEN Ratio(cost, n) ELSE NoRatio

OfType(rows, type) == Number(rows, LAMBDA r : r.error_type = type)

SummarizeWorkload(w, rows, wall, gpu, metrics, hourly_cost) ==
  LET successes == Successes(rows)
      n == Len(rows)
      ok == Cardinality(successes)
      latencies == Values(rows, successes, "latency")
      ttfts == Values(rows, successes, "ttft")
      output == Total(Values(rows, successes, "output_tokens"))
      prompts == Values(rows, successes, "prompt_tokens")
      cost == Cost(hourly_cost, wall)
  IN  [workload |-> w.name, load_mode |-> w.load_mode,
       prompt_parity_group |-> w.parity_group,
       prompt_parity_max_delta_pct |-> w.parity_tolerance,
       request_count |-> n, success_count |-> ok, error_count |-> n - ok,
       timeout_count |-> Number(rows, LAMBDA r : r.timeout),
       oom_count |-> Number(rows, LAMBDA r : r.oom),
       rejected_count |-> Number(rows, LAMBDA r : r.rejected),
       admission_rejected_count |-> OfType(rows, "admission_rejected"),
       nccl_error_count |-> OfType(rows, "nccl_error"),
       distributed_worker_error_count |->
         OfType(rows, "distributed_worker_error"),
       error_rate |-> Ratio(n - ok, n),
       latency_p50 |-> Percentile(latencies, 50),
       latency_p95 |-> Percentile(latencies, 95),
       latency_p99 |-> Percentile(latencies, 99),
       ttft_p95 |-> Percentile(ttfts, 95),
       scheduler_delay_p95 |-> Percentile(Values(rows, DOMAIN rows, "delay"), 95),
       scheduled_latency_p95 |->
         Percentile(Values(rows, successes, "scheduled_latency"), 95),
       achieved_rate |-> AchievedRate(w, rows),
       prompt_tokens_avg |-> Ratio(Total(prompts), Cardinality(DOMAIN prompts)),
       requests_per_sec |-> Ratio(ok, wall),
       output_tokens_per_sec |-> Ratio(output, wall),
       gpu |-> gpu, metrics |-> metrics,
       cost_per_output_token |-> CostPer(cost, output),
       cost_per_successful_request |-> CostPer(cost, ok),
       wall_time |-> wall]
=============================================================================
