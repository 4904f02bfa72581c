------------------------------ MODULE Analysis ------------------------------
(***************************************************************************)
(* What is made of the summary rows of finished runs: the prompt parity    *)
(* check (evaluate_prompt_parity in src/scripts/benchmark_vllm.py) and the *)
(* reports (src/scripts/analyze_saturation.py, analyze_month4.py and       *)
(* analyze_month5.py).                                                     *)
(*                                                                         *)
(* Rows are records, a missing number is None.  A list of rows is a        *)
(* function from their places, numbers in the order of the file, so that   *)
(* the rows of a group keep their places.  A report is the set of its      *)
(* findings; the numbers that a finding prints are those of its rows.      *)
(***************************************************************************)
EXTENDS Integers, FiniteSets, FiniteSetsExt, Functions

None == -1
Given(x) == x # None

\* Mutation: the group is held to its widest tolerance.
PromptParity_Widest(rows, group) ==
  LET members == RestrictValues(rows, LAMBDA r : r.parity_group = group)
      measured == {k \in DOMAIN members : Given(members[k].prompt_tokens_avg)}
      values == {members[k].prompt_tokens_avg : k \in measured}
      given == {r.parity_tolerance : r \in Range(members)} \ {None}
      tolerance == IF given = {} THEN 2 ELSE Max(given)
  IN  /\ Cardinality(measured) >= 2 /\ Max(values) > 0
      /\ (Max(values) - Min(values)) * 100 <= tolerance * Max(values)

\* evaluate_prompt_parity, passed: rows that measured nothing do not count.
PromptParity(rows, group) ==
  LET members == RestrictValues(rows, LAMBDA r : r.parity_group = group)
      measured == {k \in DOMAIN members : Given(members[k].prompt_tokens_avg)}
      values == {members[k].prompt_tokens_avg : k \in measured}
      given == {r.parity_tolerance : r \in Range(members)} \ {None}
      tolerance == IF given = {} THEN 2 ELSE Min(given)
  IN  /\ Cardinality(measured) >= 2 /\ Max(values) > 0
      /\ (Max(values) - Min(values)) * 100 <= tolerance * Max(values)

\* The rows with prompt_parity_passed filled in.
WithParity(rows) ==
  [k \in DOMAIN rows |->
     [rows[k] EXCEPT !.prompt_parity_passed =
        rows[k].parity_group # "none" /\ PromptParity(rows, rows[k].parity_group)]]

-----------------------------------------------------------------------------
(* analyze_saturation *)

Dimensions == <<"target_request_rate", "concurrency", "prompt_tokens_target",
                "max_tokens", "burst_size">>

VaryingDimension(rows) ==
  LET varying == {d \in DOMAIN Dimensions :
        Cardinality({r[Dimensions[d]] : r \in Range(rows)} \ {None}) > 1}
  IN  IF varying = {} THEN "workload" ELSE Dimensions[Min(varying)]

\* Mutation: the rows stay in the order of the workload file.
SortedBefore_Unsorted(rows, dimension, i, j) == i < j

\* sorted_rows, whose sort is stable: does row i come before row j?  A row
\* without the dimension sorts as 0.
SortedBefore(rows, dimension, i, j) ==
  LET Key(k) == Max({rows[k][dimension], 0})
  IN  Key(i) < Key(j) \/ (Key(i) = Key(j) /\ i < j)

\* The first of some places in the sorted order.
SortedFirst(rows, dimension, places) ==
  CHOOSE i \in places :
    \A j \in places \ {i} : SortedBefore(rows, dimension, i, j)

Reasons(rows, first, k, factor, threshold) ==
  LET baseline == rows[first].latency_p99
  IN  {reason \in {"latency", "errors", "scheduler_delay"} :
         \/ /\ reason = "latency"
            /\ k # first /\ baseline > 0 /\ rows[k].latency_p99 > 0
            /\ rows[k].latency_p99 >= baseline * factor
         \/ reason = "errors" /\ rows[k].error_count > 0
         \/ reason = "scheduler_delay" /\ rows[k].scheduler_delay_p95 > threshold}

\* The place of the first row with a reason, None without one.
DetectBoundary(rows, dimension, factor, threshold) ==
  LET first == SortedFirst(rows, dimension, DOMAIN rows)
      degraded == {k \in DOMAIN rows : Reasons(rows, first, k, factor, threshold) # {}}
  IN  IF dimension = "workload" \/ degraded = {} THEN None
      ELSE SortedFirst(rows, dimension, degraded)

\* One finding for each analysis group of a run.
SaturationFindings(rows, factor, threshold) ==
  {LET members == RestrictValues(rows, LAMBDA r : r.analysis_group = group)
       dimension == VaryingDimension(members)
   IN  [rows |-> members, dimension |-> dimension,
        boundary |-> DetectBoundary(members, dimension, factor, threshold)] :
     group \in {r.analysis_group : r \in Range(rows)}}

-----------------------------------------------------------------------------
(* analyze_month4 and analyze_month5 *)

\* The last row of each mode under a label, in every label that has both.
PrefixFindings(rows) ==
  LET Of(label, mode) ==
        {k \in DOMAIN rows : /\ rows[k].server_config_label = label
                             /\ rows[k].analysis_group = "prefix_cache"
                             /\ rows[k].prefix_mode = mode}
      labels == {label \in {r.server_config_label : r \in Range(rows)} :
                   Of(label, "shared") # {} /\ Of(label, "unique") # {}}
  IN  {LET shared == rows[Max(Of(label, "shared"))]
           unique == rows[Max(Of(label, "unique"))]
       IN  [shared |-> shared, unique |-> unique,
            accepted |-> shared.prompt_parity_passed /\ unique.prompt_parity_passed] :
         label \in labels}

\* Mutation: one verified deployment is enough.
Comparison_Either(baseline, candidate) ==
  [baseline |-> baseline, candidate |-> candidate,
   accepted |-> \/ baseline.server_config_verified
                \/ candidate.server_config_verified]

Comparison(baseline, candidate) ==
  [baseline |-> baseline, candidate |-> candidate,
   accepted |-> /\ baseline.server_config_verified
                /\ candidate.server_config_verified]

\* The rows of the same workload that come after row i.
LaterOfWorkload(rows, i) ==
  {j \in DOMAIN rows : i < j /\ rows[j].workload = rows[i].workload}

\* cross_variant_findings of month 4: each row with the next one of its workload.
CrossVariantFindings(rows) ==
  {Comparison(rows[i], rows[Min(LaterOfWorkload(rows, i))]) :
     i \in {k \in DOMAIN rows : LaterOfWorkload(rows, k) # {}}}

\* build_findings of month 5: the first row of a workload with each other one.
DeploymentFindings(rows) ==
  UNION {{Comparison(rows[i], rows[j]) : j \in LaterOfWorkload(rows, i)} :
    i \in {k \in DOMAIN rows :
              \A h \in DOMAIN rows : k \notin LaterOfWorkload(rows, h)}}
=============================================================================
