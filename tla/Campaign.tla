------------------------------ MODULE Campaign ------------------------------
(***************************************************************************)
(* A series of benchmark runs and the reports over them: the operator      *)
(* deploys servers and starts one run after the other; each run gathers    *)
(* its evidence, refuses to start on a mismatch, summarises its workloads  *)
(* (run_benchmark in src/scripts/benchmark_vllm.py) and, if it gets to the *)
(* end, leaves the files that the analyzers read.                          *)
(*                                                                         *)
(* A run does not look at its server's configuration again, although the   *)
(* operator may deploy another one at any time.                            *)
(***************************************************************************)
EXTENDS RouterWindow, Evidence

A == INSTANCE Analysis

CONSTANTS
  Campaigns,     \* planned runs and the command lines of the servers for them
  Switches,      \* options that take no value
  Defaults,      \* the settings of a server that is told nothing
  HostGpus,      \* names of the GPUs of the benchmark host
  Outcomes,      \* what a workload may measure
  MaxDeploys,    \* bound: servers that are deployed
  LatencyFactor, DelayThreshold   \* options of analyze_saturation

\* A switch is given no value, and no word behind one reads like a value of it.
ASSUME CommandsAssumption ==
  \A c \in Campaigns : \A argv \in c.commands : \A i \in DOMAIN argv :
    argv[i].key \in Switches =>
      /\ argv[i].text = ""
      /\ i + 1 \in DOMAIN argv /\ argv[i + 1].key = "" =>
           Normalize(argv[i + 1].text) \notin {"true", "false"}

\* What a run expects are settings a server has, a switch to be on or off.
ASSUME ExpectationsAssumption ==
  \A c \in Campaigns : \A i \in DOMAIN c.runs : \A key \in DOMAIN c.runs[i].expected :
    /\ key \in DOMAIN Defaults
    /\ key \in Switches => Normalize(c.runs[i].expected[key]) \in {"true", "false"}

\* Commands and plans are sequences; a member of a parity group has a tolerance,
\* see validate_workload.
ASSUME PlansAssumption ==
  \A c \in Campaigns :
    /\ \A argv \in c.commands : argv \in Seq(Range(argv))
    /\ \A i \in DOMAIN c.runs :
         /\ c.runs[i].workloads \in Seq(Range(c.runs[i].workloads))
         /\ \A w \in Range(c.runs[i].workloads) :
              /\ DOMAIN w = {"workload", "analysis_group", "prefix_mode",
                             "parity_group", "parity_tolerance"}
                              \cup Range(A!Dimensions)
              /\ w.parity_tolerance \in Int
              /\ w.parity_group # "none" => w.parity_tolerance \in 1..100
              /\ \A d \in Range(A!Dimensions) : w[d] \in Int

\* A number that was not measured is None.
ASSUME OutcomesAssumption ==
  Outcomes \subseteq [prompt_tokens_avg : Nat \cup {None}, latency_p99 : Int,
                      error_count : Nat, scheduler_delay_p95 : Int]

ASSUME OptionsAssumption ==
  LatencyFactor \in Int /\ LatencyFactor > 1 /\ DelayThreshold \in Nat

VARIABLES
  campaign,
  server,    \* the command line of the server under test
  deploys,
  at,        \* the run that is next or under way
  phase,     \* where it stands
  began,     \* the server that each run was started against
  verified,  \* config_verified of the run under way
  rows,      \* summary_rows
  columns,   \* the router's columns of its last row, until the next window opens
  files,     \* the rows of the finished runs, in order
  report

campaignVars == <<campaign, server, deploys, at, phase, began, verified, rows,
                  columns, files, report>>
vars == <<campaignVars, windowVars>>

NoColumns == <<>>
NoReport == <<>>

Init ==
  /\ WindowInit
  /\ campaign \in Campaigns
  /\ server \in campaign.commands /\ deploys = 0
  /\ at = 1 /\ phase = "between"
  /\ began = <<>> /\ verified = FALSE
  /\ rows = <<>> /\ columns = NoColumns
  /\ files = <<>> /\ report = NoReport

Plan == campaign.runs[at]

-----------------------------------------------------------------------------
(* The server, which is external. *)

\* What it makes of its command line: a switch takes no value.
Settings(argv) ==
  LET config == LaunchConfig(argv)
      At(key) == Max({i \in DOMAIN argv : argv[i].key = key})
  IN  [key \in DOMAIN Defaults |->
         IF key \notin DOMAIN config THEN Defaults[key]
         ELSE IF key \in Switches THEN IF argv[At(key)].negated THEN "false" ELSE "true"
         ELSE config[key]]

\* A vLLM server shows its settings in its metrics, a router does not.
ConfigMetrics == IF Plan.replicas THEN {} ELSE {Settings(server)}

Deploy ==
  /\ deploys < MaxDeploys /\ phase # "reported"
  /\ server' \in campaign.commands \ {server}
  /\ deploys' = deploys + 1
  /\ UNCHANGED <<campaign, at, phase, began, verified, rows, columns, files,
                 report, windowVars>>

-----------------------------------------------------------------------------
(* One run. *)

\* Its server's process is on this host unless the plan says otherwise.
Processes ==
  Plan.others \cup IF Plan.local THEN {[pid |-> 5, argv |-> server]} ELSE {}

NextRun ==
  /\ at' = at + 1
  /\ phase' = "between"
  /\ rows' = <<>>
  /\ snapshots' = <<>>
  /\ UNCHANGED <<campaign, server, deploys, report, counts, seen, held, attempts,
                 restarts, reset>>

\* capture_server_evidence and compare_gpu_topology, whose sources may fail.
Capture ==
  /\ phase = "between" /\ at \in DOMAIN campaign.runs
  /\ began' = Append(began, server)
  /\ \E config_metrics \in {ConfigMetrics, {}}, gpus \in {HostGpus, <<>>} :
       LET config == CompareServerConfig(Plan.expected,
                       LaunchConfig(DiscoverLaunch(Plan.override, Processes)),
                       config_metrics)
           hardware == CompareGpuTopology(gpus, Plan.gpu_name, Plan.gpu_count)
       IN  IF Mismatches(config) \cup Mismatches(hardware) # {}
           THEN NextRun /\ UNCHANGED <<verified, columns, files>>
           ELSE /\ verified' = Verified(config)
                /\ phase' = IF Plan.replicas THEN "before" ELSE "measured"
                /\ UNCHANGED <<campaign, server, deploys, at, rows, columns, files,
                               report, windowVars>>

\* The workload's two snapshots and, up to the second one, the router's work.
SampleBefore ==
  /\ phase = "before"
  /\ SampleNow("before_workload")
  /\ phase' = "load"
  /\ columns' = NoColumns
  /\ UNCHANGED <<campaign, server, deploys, at, began, verified, rows, files,
                 report>>

SampleAfter ==
  /\ phase = "load"
  /\ SampleNow("after_workload")
  /\ phase' = "measured"
  /\ UNCHANGED <<campaign, server, deploys, at, began, verified, rows, columns,
                 files, report>>

Traffic ==
  /\ phase \in {"before", "load"}
  /\ RouterStep
  /\ UNCHANGED campaignVars

\* A record with the fields of two.
Joined(a, b) ==
  [field \in DOMAIN a \cup DOMAIN b |-> IF field \in DOMAIN a THEN a[field] ELSE b[field]]

\* The summary row of the next workload.
Summarise ==
  /\ phase = "measured" /\ Len(rows) < Len(Plan.workloads)
  /\ \E measured \in Outcomes :
       rows' = Append(rows, Joined(Joined(measured, Plan.workloads[Len(rows) + 1]),
         [run |-> at, server_config_label |-> Plan.label,
          server_config_verified |-> verified, prompt_parity_passed |-> FALSE]))
  /\ columns' = IF Plan.replicas THEN RouterColumns(snapshots) ELSE NoColumns
  /\ phase' = IF Plan.replicas /\ Len(rows) + 1 < Len(Plan.workloads)
              THEN "before" ELSE phase
  /\ snapshots' = IF phase' = "before" THEN <<>> ELSE snapshots
  /\ UNCHANGED <<campaign, server, deploys, at, began, verified, files, report,
                 counts, seen, held, attempts, restarts, reset>>

\* A guard that times out, or anything else that raises, ends the run.
Fail ==
  /\ phase \in {"before", "load", "measured"}
  /\ NextRun
  /\ columns' = NoColumns
  /\ UNCHANGED <<began, verified, files>>

\* The parity check, whatever its result, and summary.csv.
Complete ==
  /\ phase = "measured" /\ Len(rows) = Len(Plan.workloads)
  /\ files' = files \o A!WithParity(rows)
  /\ NextRun
  /\ columns' = NoColumns
  /\ UNCHANGED <<began, verified>>

\* The operator gives the finished runs to the analyzers, in order.
Analyze ==
  /\ phase = "between" /\ at \notin DOMAIN campaign.runs /\ files # <<>>
  /\ phase' = "reported"
  /\ report' =
       [saturation |-> UNION {
          A!SaturationFindings(RestrictValues(files, LAMBDA r : r.run = k),
                               LatencyFactor, DelayThreshold) :
            k \in {r.run : r \in Range(files)}},
        prefix |-> A!PrefixFindings(files),
        compared |-> A!CrossVariantFindings(files) \cup A!DeploymentFindings(files)]
  /\ UNCHANGED <<campaign, server, deploys, at, began, verified, rows, columns,
                 files, windowVars>>

Ended == phase \in {"between", "reported"} /\ at \notin DOMAIN campaign.runs /\ UNCHANGED vars

Next ==
  \/ Deploy \/ Capture \/ SampleBefore \/ SampleAfter \/ Traffic \/ Summarise
  \/ Fail \/ Complete \/ Analyze \/ Ended

Spec == Init /\ [][Next]_vars
-----------------------------------------------------------------------------

\* The launch command of a run, if there was one, was its server's own.
OwnCommand(run) ==
  campaign.runs[run].override \in {<<>>, began[run]} /\ campaign.runs[run].others = {}

\* Two runs are compared only under what is known of their servers: each had
\* expectations, and the server it was started against met all of them unless
\* the launch command was another server's.  So a run that expects a setting
\* is never compared as if it had it, however the server was told, whatever
\* part of the evidence was missing and whichever server was there before.
ComparedAsLabelled ==
  phase = "reported" => \A f \in report.compared : f.accepted =>
    \A run \in {f.baseline.run, f.candidate.run} :
      LET expected == campaign.runs[run].expected IN
      /\ DOMAIN expected # {}
      /\ OwnCommand(run) => \A key \in DOMAIN expected :
           Normalize(Settings(began[run])[key]) = Normalize(expected[key])

\* Shared and unique prefixes of one run and parity group are compared only if
\* what the two measured for their prompts is within the tolerance of both; a
\* row that measured nothing may pass with its group, but it has no numbers.
PrefixComparedAtParity ==
  phase = "reported" => \A f \in report.prefix :
    LET a == f.shared.prompt_tokens_avg
        b == f.unique.prompt_tokens_avg
    IN  /\ f.accepted
        /\ f.shared.run = f.unique.run
        /\ f.shared.parity_group = f.unique.parity_group
        /\ a # None /\ b # None
        => \A r \in {f.shared, f.unique} :
             (Max({a, b}) - Min({a, b})) * 100 <= r.parity_tolerance * Max({a, b})

\* The degradation candidate of a sweep is its mildest degraded stage: nothing
\* below it failed or waited for the client, and a sweep without a candidate
\* has no such stage and none whose p99 reached the factor over the mildest
\* stage's, in whatever order the workload file lists them.
BoundaryIsFirst ==
  phase = "reported" => \A f \in report.saturation : f.dimension # "workload" =>
    LET stages == DOMAIN f.rows
        Value(i) == Max({f.rows[i][f.dimension], 0})
        mildest == Min({i \in stages : \A j \in stages : Value(i) <= Value(j)})
        Troubled(r) == r.error_count > 0 \/ r.scheduler_delay_p95 > DelayThreshold
        Slow(i) ==
          LET reference == f.rows[mildest].latency_p99
          IN  /\ i # mildest /\ reference > 0
              /\ f.rows[i].latency_p99 >= reference * LatencyFactor
        degraded == {i \in stages : Troubled(f.rows[i]) \/ Slow(i)}
    IN  IF f.boundary = None THEN degraded = {}
        ELSE /\ f.boundary \in degraded
             /\ \A i \in degraded : Value(i) >= Value(f.boundary)

\* See ColumnsSound.
RouterColumnsSound == columns # NoColumns => ColumnsSound(columns)
=============================================================================
