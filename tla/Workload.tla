------------------------------ MODULE Workload ------------------------------
(***************************************************************************)
(* One entry of "runs" in a workload file (src/scripts/benchmark_vllm.py). *)
(*                                                                         *)
(* An entry is a record.  prompt_tokens and prompt_tokens_pattern are one  *)
(* sequence, "targets", empty without a target; arrival_rate_rps is the    *)
(* number of ticks between two arrivals, "interval"; a number that is not  *)
(* given is None.                                                          *)
(***************************************************************************)
EXTENDS Integers, Sequences, FiniteSets, FiniteSetsExt, Functions

None == -1

Given(x) == x # None

OpenLoop(w) == w.load_mode = "open_loop"

Bursty(w) == w.arrival_pattern = "bursty"

\* prompt_token_target_for_request, for requests counted from 0.
PromptTarget(w, i) ==
  IF w.targets = <<>> THEN None ELSE w.targets[(i % Len(w.targets)) + 1]

\* scheduled_offset_for_request.
ScheduledOffset(w, i) ==
  IF Bursty(w) THEN (i \div w.burst_size) * w.burst_size * w.interval
  ELSE i * w.interval

\* The tick before which request i is not submitted.
Due(w, i) == IF OpenLoop(w) THEN ScheduledOffset(w, i) ELSE 0

\* Threads of the executor.
InFlightLimit(w) == IF OpenLoop(w) THEN w.max_in_flight ELSE w.concurrency

-----------------------------------------------------------------------------
(* validate_workload, one part for each group of its checks. *)

ValidSizes(w) ==
  /\ w.request_count >= 1 /\ w.max_tokens >= 1
  /\ \A t \in Range(w.targets) : t >= 1

FitsContext(w, max_model_len) ==
  Given(max_model_len) /\ w.targets # <<>> =>
    Max(Range(w.targets)) + w.max_tokens < max_model_len

ValidPrefix(w) ==
  /\ w.prefix_mode \in {"none", "shared", "unique"}
  /\ w.prefix_mode # "none" =>
       /\ w.shared_prefix_tokens >= 1
       /\ \A t \in Range(w.targets) : w.shared_prefix_tokens < t

\* The tolerance is a percentage, and only needed in a parity group.
ValidParity(w) ==
  w.parity_group # "none" => w.parity_tolerance \in 1..100

ValidAdmission(w) ==
  w.admission_action # "none" =>
    w.admission_action \in {"reject", "truncate"} /\ w.admission_limit >= 1

ValidLoad(w) ==
  CASE w.load_mode = "closed_loop" -> w.concurrency >= 1
    [] w.load_mode = "open_loop" ->
         /\ w.interval >= 1 /\ w.max_in_flight >= 1
         /\ w.arrival_pattern \in {"steady", "bursty"}
         /\ Bursty(w) => w.burst_size >= 2
    [] OTHER -> FALSE

ValidRun(w, max_model_len) ==
  /\ ValidSizes(w) /\ FitsContext(w, max_model_len) /\ ValidPrefix(w)
  /\ ValidParity(w) /\ ValidAdmission(w) /\ ValidLoad(w)

ValidWorkload(runs, max_model_len) ==
  /\ runs # <<>>
  /\ Given(max_model_len) => max_model_len >= 1
  /\ \A j \in DOMAIN runs : ValidRun(runs[j], max_model_len)
  /\ \A j, k \in DOMAIN runs : runs[j].name = runs[k].name => j = k
=============================================================================
