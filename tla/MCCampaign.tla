----------------------------- MODULE MCCampaign -----------------------------
\* Campaign for TLC: two variants of a switch, of which one may be started next to
\* another server; a prefix comparison; a sweep; and a run against a router.
EXTENDS Campaign

MCDefaults == [prefix_caching |-> "false"]
Switch == Option("prefix_caching", "")
MCSwitched ==
  {<<>>, <<Switch>>, <<Switch, Word("model")>>, <<Switch, Negation("prefix_caching")>>}

MCStage ==
  [workload |-> "stage", analysis_group |-> "none", prefix_mode |-> "none",
   parity_group |-> "none", parity_tolerance |-> None, concurrency |-> None,
   target_request_rate |-> None, prompt_tokens_target |-> None, max_tokens |-> 8,
   burst_size |-> None]

MCPrefix(mode, tolerance) ==
  [MCStage EXCEPT !.workload = mode, !.analysis_group = "prefix_cache",
                  !.prefix_mode = mode, !.parity_group = "prefix",
                  !.parity_tolerance = tolerance]

MCRate(name, rate) == [MCStage EXCEPT !.workload = name, !.target_request_rate = rate]

MCRun ==
  [label |-> "variant", override |-> <<>>, others |-> {}, local |-> TRUE,
   expected |-> <<>>, gpu_name |-> "", gpu_count |-> 0, replicas |-> FALSE,
   workloads |-> <<MCStage>>]

MCExpect(text) == [MCRun EXCEPT !.label = text, !.expected = [prefix_caching |-> text]]

MCOther == [pid |-> 1, argv |-> <<Switch>>]

MCVariants ==
  {<<MCExpect("on"), MCExpect("off")>>,
   <<MCExpect("on"), MCRun>>,
   <<[MCExpect("on") EXCEPT !.others = {MCOther}, !.gpu_name = "h100"],
     [MCExpect("on") EXCEPT !.local = FALSE, !.gpu_count = 1]>>,
   <<[MCExpect("on") EXCEPT !.override = <<Switch>>], MCExpect("on")>>}

MCSingle ==
  {[MCRun EXCEPT !.workloads =
      <<MCPrefix("unique", 2), MCPrefix("shared", 10), MCPrefix("none", 2)>>],
   [MCRun EXCEPT !.workloads =
      <<MCRate("high", 4), MCRate("low", 1), MCRate("middle", 2), MCRate("again", 1)>>],
   [MCRun EXCEPT !.replicas = TRUE]}

MCCampaigns ==
  {[runs |-> runs, commands |-> MCSwitched] : runs \in MCVariants}
    \cup {[runs |-> <<run>>, commands |-> {<<>>}] : run \in MCSingle}

MCHostGpus == <<{"h100", "80gb"}>>

MCOutcome(avg, p99, errors, delay) ==
  [prompt_tokens_avg |-> avg, latency_p99 |-> p99, error_count |-> errors,
   scheduler_delay_p95 |-> delay]

MCOutcomes ==
  {MCOutcome(100, 1, 0, 0), MCOutcome(101, 2, 0, 0), MCOutcome(110, 1, 0, 2),
   MCOutcome(110, 1, 1, 0), MCOutcome(None, None, 1, None)}

MCSymmetry == Permutations(Workers)
=============================================================================
