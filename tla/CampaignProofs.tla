--------------------------- MODULE CampaignProofs ----------------------------
(***************************************************************************)
(* Proofs that what is reported of a series of benchmark runs can be       *)
(* relied upon, for any campaigns, commands, settings, plans, outcomes and *)
(* numbers of workers: that runs are compared only as what their servers   *)
(* were, prefixes only at parity, that the candidate of a sweep is its     *)
(* mildest degraded stage, and that the router's columns are what the      *)
(* router did.                                                             *)
(***************************************************************************)
EXTENDS Campaign, SequenceTheorems, Sums

-----------------------------------------------------------------------------
(* Sequences *)

IsSeq(s) == s \in Seq(Range(s))

\* What a sequence is, and what Append and \o make of it.
LEMMA SeqFacts ==
  ASSUME NEW s, IsSeq(s)
  PROVE  /\ Len(s) \in Nat /\ DOMAIN s = 1..Len(s)
         /\ \A i \in 1..Len(s) : i \in Nat
BY DEF IsSeq

LEMMA Retyped ==
  ASSUME NEW S, NEW t \in Seq(S)
  PROVE  IsSeq(t)
<1>1. t \in [1..Len(t) -> S] /\ Len(t) \in Nat /\ DOMAIN t = 1..Len(t)
  BY LenProperties
<1>2. t \in [1..Len(t) -> Range(t)]
  BY <1>1 DEF Range
<1> QED
  BY <1>1, <1>2, SeqDef DEF IsSeq

LEMMA AppendFacts ==
  ASSUME NEW s, IsSeq(s), NEW e
  PROVE  /\ IsSeq(Append(s, e)) /\ Len(Append(s, e)) = Len(s) + 1
         /\ DOMAIN Append(s, e) = 1..(Len(s) + 1)
         /\ \A i \in 1..Len(s) : Append(s, e)[i] = s[i]
         /\ Append(s, e)[Len(s) + 1] = e
<1> DEFINE S == Range(s) \cup {e}
           t == Append(s, e)
<1>1. s \in Seq(S) /\ e \in S
  BY DEF IsSeq
<1>2. /\ t \in Seq(S) /\ Len(t) = Len(s) + 1
      /\ \A i \in 1..Len(s) : t[i] = s[i]
      /\ t[Len(s) + 1] = e
  BY <1>1
<1>3. Len(s) \in Nat /\ DOMAIN t = 1..(Len(s) + 1)
  BY <1>1, <1>2
<1>4. IsSeq(t)
  BY <1>2, Retyped
<1> QED
  BY <1>2, <1>3, <1>4

LEMMA ConcatFacts ==
  ASSUME NEW s, NEW u, IsSeq(s), IsSeq(u)
  PROVE  /\ IsSeq(s \o u) /\ Len(s \o u) = Len(s) + Len(u)
         /\ DOMAIN (s \o u) = 1..(Len(s) + Len(u))
         /\ \A i \in 1..(Len(s) + Len(u)) :
              \/ i \in 1..Len(s) /\ (s \o u)[i] = s[i]
              \/ i - Len(s) \in 1..Len(u) /\ (s \o u)[i] = u[i - Len(s)]
<1> DEFINE S == Range(s) \cup Range(u)
           t == s \o u
<1>1. s \in Seq(S) /\ u \in Seq(S)
  BY DEF IsSeq
<1>2. /\ t \in Seq(S) /\ Len(t) = Len(s) + Len(u)
      /\ \A i \in 1..(Len(s) + Len(u)) :
           t[i] = IF i <= Len(s) THEN s[i] ELSE u[i - Len(s)]
  BY <1>1
<1>3. Len(s) \in Nat /\ Len(u) \in Nat /\ DOMAIN t = 1..(Len(s) + Len(u))
  BY <1>1, <1>2
<1>4. IsSeq(t)
  BY <1>2, Retyped
<1>5. ASSUME NEW i \in 1..(Len(s) + Len(u))
      PROVE  \/ i \in 1..Len(s) /\ t[i] = s[i]
             \/ i - Len(s) \in 1..Len(u) /\ t[i] = u[i - Len(s)]
  BY <1>2, <1>3
<1> QED
  BY <1>2, <1>3, <1>4, <1>5
-----------------------------------------------------------------------------
(* Where a campaign stands *)

Trusted(run) ==
  LET expected == campaign.runs[run].expected IN
  /\ DOMAIN expected # {}
  /\ OwnCommand(run) => \A key \in DOMAIN expected :
       Normalize(Settings(began[run])[key]) = Normalize(expected[key])

Running == phase \in {"before", "load", "measured"}

Fields ==
  {"run", "server_config_label", "server_config_verified", "prompt_parity_passed",
   "prompt_tokens_avg", "latency_p99", "error_count", "scheduler_delay_p95",
   "workload", "analysis_group", "prefix_mode", "parity_group", "parity_tolerance"}
    \cup Range(A!Dimensions)

\* A row has the numbers of its workload, and is verified only if its run was.
RowOk(r) ==
  /\ DOMAIN r = Fields
  /\ r.run \in 1..Len(began)
  /\ r.server_config_verified => Trusted(r.run)
  /\ r.parity_group # "none" => r.parity_tolerance \in 1..100
  /\ r.prompt_tokens_avg \in Nat \cup {None}
  /\ r.latency_p99 \in Int /\ r.error_count \in Int /\ r.scheduler_delay_p95 \in Int
  /\ \A d \in Range(A!Dimensions) : r[d] \in Int

Placed ==
  /\ campaign \in Campaigns /\ server \in campaign.commands
  /\ at \in Nat \ {0}
  /\ phase \in {"between", "reported"} \/ (Running /\ at \in DOMAIN campaign.runs)
  /\ IsSeq(began) /\ Len(began) = IF Running THEN at ELSE at - 1
  /\ Running /\ verified => Trusted(at)

RowsInv ==
  /\ IsSeq(rows) /\ (Running \/ rows = <<>>)
  /\ \A k \in DOMAIN rows : RowOk(rows[k]) /\ rows[k].run = at

FilesInv ==
  /\ IsSeq(files)
  /\ \A k \in DOMAIN files : RowOk(files[k]) /\ files[k].run < at

Inv == Placed /\ RowsInv /\ FilesInv

\* What a run expects is what its server does, if the evidence that was not
\* missing is of that server and met it.
LEMMA EvidenceTrue ==
  ASSUME campaign \in Campaigns, server \in campaign.commands,
         at \in DOMAIN campaign.runs, Plan.override \in {<<>>, server},
         Plan.others = {},
         NEW metrics \in {ConfigMetrics, {}}, NEW key \in DOMAIN Plan.expected,
         NEW config \in {LaunchConfig(DiscoverLaunch(Plan.override, Processes))}
                           \cup metrics,
         key \in DOMAIN config,
         Normalize(config[key]) = Normalize(Plan.expected[key])
  PROVE  Normalize(Settings(server)[key]) = Normalize(Plan.expected[key])
<1> DEFINE argv == DiscoverLaunch(Plan.override, Processes)
           wanted == Normalize(Plan.expected[key])
<1>1. key \in DOMAIN Defaults /\ (key \in Switches => wanted \in {"true", "false"})
  BY ExpectationsAssumption DEF Plan
<1>2. CASE config \in metrics
  <2>1. config = Settings(server)
    BY <1>2 DEF ConfigMetrics
  <2> QED
    BY <2>1
<1>3. CASE config = LaunchConfig(argv)
  <2>1. argv \in {<<>>, server}
    <3>1. CASE Processes = {}
      BY <3>1 DEF DiscoverLaunch
    <3>2. CASE Processes = {[pid |-> 5, argv |-> server]}
      BY <3>2 DEF DiscoverLaunch
    <3> QED
      BY <3>1, <3>2 DEF Processes
  <2>2. argv = server
    <3>1. DOMAIN LaunchConfig(<<>>) = {a.key : a \in Range(<<>>)} \ {""}
      BY DEF LaunchConfig
    <3>2. Range(<<>>) = {}
      <4>1. <<>> \in Seq({})
        BY EmptySeq
      <4>2. \A i \in DOMAIN <<>> : <<>>[i] \in {}
        BY <4>1, LenProperties, ElementOfSeq
      <4> QED
        BY <4>2 DEF Range
    <3> QED
      BY <1>3, <2>1, <3>1, <3>2
  <2> DEFINE places == {i \in DOMAIN server : server[i].key = key}
             last == Max(places)
             value == IF server[last].negated THEN "false"
                      ELSE IF server[last].text # "" THEN server[last].text
                      ELSE IF last < Len(server) /\ server[last + 1].key = ""
                           THEN server[last + 1].text
                      ELSE "true"
  <2>3. key \in DOMAIN LaunchConfig(server) /\ config[key] = value
    BY <1>3, <2>2 DEF LaunchConfig
  <2>4. Settings(server)[key] =
          IF key \in Switches THEN IF server[last].negated THEN "false" ELSE "true"
          ELSE LaunchConfig(server)[key]
    BY <1>1, <2>3 DEF Settings
  <2>5. CASE key \notin Switches
    BY <1>3, <2>2, <2>4, <2>5
  <2>6. CASE key \in Switches
    <3>1. IsSeq(server) /\ Len(server) \in Nat /\ DOMAIN server = 1..Len(server)
      BY PlansAssumption, SeqFacts DEF IsSeq
    <3>2. places # {}
      <4>1. DOMAIN LaunchConfig(server) = {a.key : a \in Range(server)} \ {""}
        BY DEF LaunchConfig
      <4>2. \E a \in Range(server) : a.key = key
        BY <2>3, <4>1
      <4> QED
        BY <4>2 DEF Range
    <3>3. places \subseteq DOMAIN server /\ IsFiniteSet(places)
      <4>1. 1 \in Int /\ Len(server) \in Int
        BY <3>1
      <4>2. IsFiniteSet(1..Len(server))
        BY <4>1, FS_Interval
      <4> QED
        BY <3>1, <4>2, FS_Subset
    <3>4. last \in places
      <4>1. places \subseteq Int
        BY <3>1
      <4> HIDE DEF places
      <4> QED
        BY <3>2, <3>3, <4>1, Extremes
    <3>5. last \in 1..Len(server) /\ server[last].key \in Switches
      BY <2>6, <3>1, <3>4
    <3> HIDE DEF last
    <3>6. server[last].text = ""
      BY <3>1, <3>5, CommandsAssumption
    <3>7. CASE server[last].negated
      BY <2>3, <2>4, <2>6, <3>7
    <3>8. CASE ~server[last].negated /\ last < Len(server) /\ server[last + 1].key = ""
      <4>1. last < Len(server)
        BY <3>8
      <4>2. last + 1 \in DOMAIN server
        BY <3>1, <3>5, <4>1
      <4>3. Normalize(server[last + 1].text) \notin {"true", "false"}
        BY <3>1, <3>5, <3>8, <4>2, CommandsAssumption
      <4> QED
        BY <1>1, <2>3, <2>6, <3>6, <3>8, <4>3
    <3>9. CASE ~server[last].negated /\ ~(last < Len(server) /\ server[last + 1].key = "")
      BY <2>3, <2>4, <2>6, <3>6, <3>9
    <3> QED
      BY <3>7, <3>8, <3>9
  <2> QED
    BY <2>5, <2>6
<1> QED
  BY <1>2, <1>3

-----------------------------------------------------------------------------
(* The rows of a run *)

\* The dimensions of a sweep.
LEMMA DimensionNames ==
  Range(A!Dimensions) = {"target_request_rate", "concurrency",
                         "prompt_tokens_target", "max_tokens", "burst_size"}
<1>1. A!Dimensions = <<"target_request_rate", "concurrency",
                       "prompt_tokens_target", "max_tokens", "burst_size">>
  BY DEF A!Dimensions
<1>2. DOMAIN A!Dimensions = 1..5
  BY <1>1
<1>3. 1..5 = {1, 2, 3, 4, 5}
  OBVIOUS
<1> QED
  BY <1>1, <1>2, <1>3 DEF Range

Own == [run |-> at, server_config_label |-> Plan.label,
        server_config_verified |-> verified, prompt_parity_passed |-> FALSE]

RowOf(measured, w) == Joined(Joined(measured, w), Own)

NewRowOk(r) ==
  /\ DOMAIN r = Fields
  /\ r.run = at /\ r.server_config_verified = verified
  /\ r.parity_group # "none" => r.parity_tolerance \in 1..100
  /\ r.prompt_tokens_avg \in Nat \cup {None}
  /\ r.latency_p99 \in Int /\ r.error_count \in Int
  /\ r.scheduler_delay_p95 \in Int
  /\ \A d \in Range(A!Dimensions) : r[d] \in Int

\* A summary row has what its workload, its measurements and its run are.
LEMMA NewRow ==
  ASSUME campaign \in Campaigns, at \in DOMAIN campaign.runs,
         NEW measured \in Outcomes, NEW w \in Range(Plan.workloads),
         NEW r, r = RowOf(measured, w)
  PROVE  NewRowOk(r)
<1> DEFINE t == Joined(measured, w)
<1>1. /\ DOMAIN measured = {"prompt_tokens_avg", "latency_p99", "error_count",
                            "scheduler_delay_p95"}
      /\ measured.prompt_tokens_avg \in Nat \cup {None}
      /\ measured.latency_p99 \in Int /\ measured.error_count \in Int
      /\ measured.scheduler_delay_p95 \in Int
  BY OutcomesAssumption
<1>2. Range(A!Dimensions) = {"target_request_rate", "concurrency",
                             "prompt_tokens_target", "max_tokens", "burst_size"}
  BY DimensionNames
<1>3. /\ DOMAIN w = {"workload", "analysis_group", "prefix_mode", "parity_group",
                     "parity_tolerance"} \cup Range(A!Dimensions)
      /\ w.parity_tolerance \in Int
      /\ w.parity_group # "none" => w.parity_tolerance \in 1..100
      /\ \A d \in Range(A!Dimensions) : w[d] \in Int
  BY PlansAssumption DEF Plan
<1>4. /\ Own.run = at /\ Own.server_config_verified = verified
      /\ DOMAIN Own = {"run", "server_config_label", "server_config_verified",
                       "prompt_parity_passed"}
  BY DEF Own
<1>5. /\ \A x \in DOMAIN measured : r[x] = measured[x]
      /\ \A x \in DOMAIN w \ DOMAIN measured : r[x] = w[x]
      /\ \A x \in DOMAIN Own \ (DOMAIN measured \cup DOMAIN w) : r[x] = Own[x]
      /\ DOMAIN r = DOMAIN measured \cup DOMAIN w \cup DOMAIN Own
  <2>1. /\ DOMAIN t = DOMAIN measured \cup DOMAIN w
        /\ \A x \in DOMAIN t : t[x] = IF x \in DOMAIN measured THEN measured[x] ELSE w[x]
    BY DEF Joined
  <2>2. r = Joined(t, Own)
    BY DEF RowOf
  <2> HIDE DEF t
  <2>3. /\ DOMAIN r = DOMAIN t \cup DOMAIN Own
        /\ \A x \in DOMAIN r : r[x] = IF x \in DOMAIN t THEN t[x] ELSE Own[x]
    BY <2>2 DEF Joined
  <2> QED
    BY <2>1, <2>3
<1>6. DOMAIN r = Fields
  BY <1>1, <1>3, <1>4, <1>5 DEF Fields
<1>7. /\ r.prompt_tokens_avg = measured.prompt_tokens_avg
      /\ r.latency_p99 = measured.latency_p99
      /\ r.error_count = measured.error_count
      /\ r.scheduler_delay_p95 = measured.scheduler_delay_p95
  BY <1>1, <1>5
<1>8. r.parity_group = w.parity_group /\ r.parity_tolerance = w.parity_tolerance
  BY <1>1, <1>3, <1>5
<1>9. \A d \in Range(A!Dimensions) : r[d] = w[d]
  BY <1>1, <1>2, <1>3, <1>5
<1>10. r.run = at /\ r.server_config_verified = verified
  BY <1>1, <1>2, <1>3, <1>4, <1>5
<1> QED
  BY <1>1, <1>3, <1>7, <1>8, <1>9, <1>10, <1>6 DEF NewRowOk

LEMMA EmptyIsSeq == IsSeq(<<>>) /\ Len(<<>>) = 0 /\ DOMAIN <<>> = {}
<1>1. <<>> \in Seq({})
  BY EmptySeq
<1>2. IsSeq(<<>>) /\ Len(<<>>) = 0
  BY <1>1, Retyped, EmptySeq
<1> QED
  BY <1>2, SeqFacts

LEMMA InvInit == Init => Inv
<1> SUFFICES ASSUME Init PROVE Inv
  OBVIOUS
<1> QED
  BY EmptyIsSeq DEF Init, Inv, Placed, RowsInv, FilesInv, Running

\* What is known of a row depends on the plan of its run and on its server.
LEMMA RowsKept ==
  ASSUME campaign' = campaign, Placed, IsSeq(began'), Len(began) <= Len(began'),
         \A i \in 1..Len(began) : began'[i] = began[i]
  PROVE  /\ \A run \in 1..Len(began) : Trusted(run) => Trusted(run)'
         /\ \A r : RowOk(r) => RowOk(r)'
<1>1. Len(began) \in Nat /\ Len(began') \in Nat
  BY SeqFacts DEF Placed
<1>2. \A run \in 1..Len(began) : Trusted(run) => Trusted(run)'
  BY DEF Trusted, OwnCommand
<1>3. ASSUME NEW r, RowOk(r) PROVE RowOk(r)'
  <2>1. r.run \in 1..Len(began) /\ r.run \in 1..Len(began')
    BY <1>1, <1>3 DEF RowOk
  <2>2. r.server_config_verified => Trusted(r.run)'
    BY <1>2, <1>3, <2>1 DEF RowOk
  <2> QED
    BY <1>3, <2>1, <2>2 DEF RowOk
<1> QED
  BY <1>2, <1>3

\* The same where a run has not been started.
LEMMA RowsSame ==
  ASSUME campaign' = campaign, began' = began, Placed
  PROVE  /\ \A run : Trusted(run) => Trusted(run)'
         /\ \A r : RowOk(r) => RowOk(r)'
BY DEF Trusted, OwnCommand, RowOk

\* A run that was started has its server at its place.
LEMMA CaptureNext == Inv /\ Capture => Inv'
<1> SUFFICES ASSUME Inv, Capture PROVE Inv'
  OBVIOUS
<1> DEFINE launch == LaunchConfig(DiscoverLaunch(Plan.override, Processes))
           Config(m) == CompareServerConfig(Plan.expected, launch, m)
<1>1. /\ phase = "between" /\ at \in DOMAIN campaign.runs
      /\ began' = Append(began, server) /\ campaign' = campaign /\ server' = server
      /\ files' = files /\ rows = <<>> /\ Len(began) = at - 1 /\ at \in Nat \ {0}
      /\ IsSeq(began)
  BY DEF Capture, NextRun, Inv, Placed, RowsInv, Running
<1>2. /\ IsSeq(began') /\ Len(began') = at /\ began'[at] = server
      /\ \A i \in 1..Len(began) : began'[i] = began[i]
  BY <1>1, AppendFacts
<1>3. \A r : RowOk(r) => RowOk(r)'
  BY <1>1, <1>2, RowsKept DEF Inv
<1>4. CASE /\ at' = at + 1 /\ phase' = "between" /\ rows' = <<>>
  <2>1. Placed'
    BY <1>1, <1>2, <1>4 DEF Inv, Placed, Running
  <2>2. RowsInv'
    BY <1>4, EmptyIsSeq DEF RowsInv
  <2>3. FilesInv'
    BY <1>1, <1>3, <1>4 DEF Inv, FilesInv, RowOk
  <2> QED
    BY <2>1, <2>2, <2>3 DEF Inv
<1>5. ASSUME NEW metrics \in {ConfigMetrics, {}}, Mismatches(Config(metrics)) = {},
             verified' = Verified(Config(metrics)),
             phase' = IF Plan.replicas THEN "before" ELSE "measured",
             at' = at, rows' = rows
      PROVE  Inv'
  <2>1. ASSUME verified' PROVE Trusted(at)'
    <3>1. DOMAIN Plan.expected # {}
      BY <1>5, <2>1 DEF Verified, CompareServerConfig
    <3>2. ASSUME OwnCommand(at)', NEW key \in DOMAIN Plan.expected
          PROVE  Normalize(Settings(server)[key]) = Normalize(Plan.expected[key])
      <4>1. Plan.override \in {<<>>, server} /\ Plan.others = {}
        BY <1>1, <1>2, <1>5, <3>2 DEF OwnCommand, Plan
      <4>2. \E config \in {launch} \cup metrics :
              key \in DOMAIN config
              /\ Normalize(config[key]) = Normalize(Plan.expected[key])
        <5> DEFINE Met(k) == \E config \in {launch} \cup metrics :
                               /\ k \in DOMAIN config
                               /\ Normalize(config[k]) = Normalize(Plan.expected[k])
        <5>1. Config(metrics) =
                {[key |-> k, matched |-> Met(k)] : k \in DOMAIN Plan.expected}
          BY Zenon DEF CompareServerConfig
        <5> HIDE DEF Met
        <5>2. [key |-> key, matched |-> Met(key)] \in Config(metrics)
          BY <5>1
        <5>3. ~(~[key |-> key, matched |-> Met(key)].matched)
          BY <1>5, <5>2 DEF Mismatches
        <5>4. Met(key)
          BY <5>3
        <5> QED
          BY <5>4 DEF Met
      <4> HIDE DEF launch
      <4>3. PICK config \in {launch} \cup metrics :
              key \in DOMAIN config
              /\ Normalize(config[key]) = Normalize(Plan.expected[key])
        BY <4>2
      <4>4. campaign \in Campaigns /\ server \in campaign.commands
        BY DEF Inv, Placed
      <4> QED
        BY <1>1, <1>5, <4>1, <4>3, <4>4, EvidenceTrue DEF launch
    <3> QED
      BY <1>1, <1>2, <1>5, <3>1, <3>2 DEF Trusted, Plan
  <2>2. Placed'
    BY <1>1, <1>2, <1>5, <2>1 DEF Inv, Placed, Running
  <2>3. RowsInv'
    BY <1>1, <1>5, <2>2, EmptyIsSeq DEF RowsInv, Running
  <2>4. FilesInv'
    BY <1>1, <1>3, <1>5 DEF Inv, FilesInv
  <2> QED
    BY <2>2, <2>3, <2>4 DEF Inv
<1> QED
  BY <1>4, <1>5 DEF Capture, NextRun

\* The rows of summary.csv are those of the run, with the result of the check.
LEMMA ParityRows ==
  ASSUME RowsInv
  PROVE  /\ IsSeq(A!WithParity(rows)) /\ Len(A!WithParity(rows)) = Len(rows)
         /\ \A k \in 1..Len(rows) :
              LET r == A!WithParity(rows)[k] IN
              /\ DOMAIN r = Fields
              /\ r.prompt_parity_passed <=>
                   /\ rows[k].parity_group # "none"
                   /\ A!PromptParity(rows, rows[k].parity_group)
              /\ \A x \in Fields \ {"prompt_parity_passed"} : r[x] = rows[k][x]
<1> DEFINE t == A!WithParity(rows)
           Passed(k) == /\ rows[k].parity_group # "none"
                        /\ A!PromptParity(rows, rows[k].parity_group)
<1>1. Len(rows) \in Nat /\ DOMAIN rows = 1..Len(rows)
  BY SeqFacts DEF RowsInv
<1>2. t = [k \in 1..Len(rows) |-> [rows[k] EXCEPT !.prompt_parity_passed = Passed(k)]]
  BY <1>1, Zenon DEF A!WithParity
<1> HIDE DEF t, Passed
<1>3. t \in Seq(Range(t)) /\ Len(t) = Len(rows)
  <2>1. t \in [1..Len(rows) -> Range(t)]
    BY <1>2 DEF Range
  <2>2. t \in Seq(Range(t))
    BY <1>1, <2>1, SeqDef
  <2> QED
    BY <1>1, <1>2, <2>2, LenProperties
<1>4. ASSUME NEW k \in 1..Len(rows)
      PROVE  /\ DOMAIN t[k] = Fields
             /\ t[k].prompt_parity_passed = Passed(k)
             /\ \A x \in Fields \ {"prompt_parity_passed"} : t[k][x] = rows[k][x]
  <2>1. DOMAIN rows[k] = Fields /\ "prompt_parity_passed" \in Fields
    BY <1>1 DEF RowsInv, RowOk, Fields
  <2>2. t[k] = [rows[k] EXCEPT !.prompt_parity_passed = Passed(k)]
    BY <1>2
  <2> QED
    BY <2>1, <2>2
<1> QED
  BY <1>3, <1>4 DEF t, Passed, IsSeq

\* So they say of their run what its rows said.
LEMMA ParityRowsOk ==
  ASSUME RowsInv, NEW k \in 1..Len(rows)
  PROVE  RowOk(A!WithParity(rows)[k]) /\ A!WithParity(rows)[k].run = at
<1> DEFINE r == A!WithParity(rows)[k]
<1>1. DOMAIN r = Fields /\ \A x \in Fields \ {"prompt_parity_passed"} : r[x] = rows[k][x]
  BY ParityRows
<1>2. RowOk(rows[k]) /\ rows[k].run = at
  BY SeqFacts DEF RowsInv
<1> HIDE DEF r
<1>3. /\ r.run = rows[k].run /\ r.server_config_verified = rows[k].server_config_verified
      /\ r.parity_group = rows[k].parity_group
      /\ r.parity_tolerance = rows[k].parity_tolerance
      /\ r.prompt_tokens_avg = rows[k].prompt_tokens_avg
      /\ r.latency_p99 = rows[k].latency_p99 /\ r.error_count = rows[k].error_count
      /\ r.scheduler_delay_p95 = rows[k].scheduler_delay_p95
  BY <1>1 DEF Fields
<1>4. \A d \in Range(A!Dimensions) : r[d] = rows[k][d]
  <2>1. "prompt_parity_passed" \notin Range(A!Dimensions)
    BY DimensionNames
  <2> QED
    BY <1>1, <2>1 DEF Fields
<1> QED
  BY <1>1, <1>2, <1>3, <1>4 DEF RowOk, r

LEMMA SummariseNext == Inv /\ Summarise => Inv'
<1> SUFFICES ASSUME Inv, Summarise PROVE Inv'
  OBVIOUS
<1>1. /\ phase = "measured" /\ Running /\ Len(rows) < Len(Plan.workloads)
      /\ at \in DOMAIN campaign.runs /\ campaign \in Campaigns
      /\ UNCHANGED <<campaign, server, at, began, verified, files>>
      /\ phase' \in {"before", "measured"}
  BY DEF Summarise, Inv, Placed, Running
<1>2. Placed'
  BY <1>1 DEF Inv, Placed, Running, Trusted, OwnCommand
<1>3. \A r : RowOk(r) => RowOk(r)'
  BY <1>1, RowsSame DEF Inv
<1>4. FilesInv'
  BY <1>1, <1>3 DEF Inv, FilesInv
<1>5. RowsInv'
  <2>1. IsSeq(rows) /\ Len(rows) \in Nat /\ DOMAIN rows = 1..Len(rows)
    BY SeqFacts DEF Inv, RowsInv
  <2>2. Plan.workloads[Len(rows) + 1] \in Range(Plan.workloads)
    <3>1. IsSeq(Plan.workloads)
      BY <1>1, PlansAssumption DEF IsSeq, Plan
    <3>2. Len(rows) + 1 \in DOMAIN Plan.workloads
      BY <1>1, <2>1, <3>1, SeqFacts
    <3> QED
      BY <3>2 DEF Range
  <2>3. PICK measured \in Outcomes :
          rows' = Append(rows, RowOf(measured, Plan.workloads[Len(rows) + 1]))
    BY DEF Summarise, RowOf, Own
  <2> DEFINE r == RowOf(measured, Plan.workloads[Len(rows) + 1])
  <2>4. NewRowOk(r)
    BY <1>1, <2>2, NewRow
  <2> HIDE DEF r
  <2>5. at \in 1..Len(began) /\ (verified => Trusted(at))
    BY <1>1 DEF Inv, Placed
  <2>6. RowOk(r)
    BY <2>4, <2>5 DEF RowOk, NewRowOk
  <2>7. rows' = Append(rows, r)
    BY <2>3 DEF r
  <2>8. /\ IsSeq(rows') /\ DOMAIN rows' = 1..(Len(rows) + 1)
        /\ \A k \in 1..Len(rows) : rows'[k] = rows[k]
        /\ rows'[Len(rows) + 1] = r
    BY <2>1, <2>7, AppendFacts
  <2>9. ASSUME NEW k \in DOMAIN rows' PROVE RowOk(rows'[k]) /\ rows'[k].run = at
    <3>1. k \in 1..Len(rows) \/ k = Len(rows) + 1
      BY <2>1, <2>8
    <3>2. CASE k \in 1..Len(rows)
      BY <2>1, <2>8, <3>2 DEF Inv, RowsInv
    <3>3. CASE k = Len(rows) + 1
      BY <2>4, <2>6, <2>8, <3>3 DEF NewRowOk
    <3> QED
      BY <3>1, <3>2, <3>3
  <2> QED
    BY <1>1, <1>3, <2>8, <2>9 DEF RowsInv, Running
<1> QED
  BY <1>2, <1>4, <1>5 DEF Inv

LEMMA CompleteNext == Inv /\ Complete => Inv'
<1> SUFFICES ASSUME Inv, Complete PROVE Inv'
  OBVIOUS
<1> DEFINE t == A!WithParity(rows)
<1>1. /\ Running /\ at' = at + 1 /\ phase' = "between" /\ rows' = <<>>
      /\ files' = files \o t /\ UNCHANGED <<campaign, server, began, verified>>
      /\ Len(began) = at /\ at \in Nat \ {0} /\ IsSeq(files)
  BY DEF Complete, NextRun, Running, Inv, Placed, FilesInv
<1>2. Placed'
  BY <1>1 DEF Inv, Placed, Running
<1>3. RowsInv'
  BY <1>1, EmptyIsSeq DEF RowsInv
<1>4. \A r : RowOk(r) => RowOk(r)'
  BY <1>1, RowsSame DEF Inv
<1>5. FilesInv'
  <2>1. /\ IsSeq(t) /\ Len(t) = Len(rows)
        /\ \A k \in 1..Len(rows) : RowOk(t[k]) /\ t[k].run = at
    BY ParityRows, ParityRowsOk DEF Inv
  <2> HIDE DEF t
  <2>2. Len(files) \in Nat /\ DOMAIN files = 1..Len(files)
    BY <1>1, SeqFacts
  <2>3. /\ IsSeq(files') /\ DOMAIN files' = 1..(Len(files) + Len(t))
        /\ \A i \in 1..(Len(files) + Len(t)) :
             \/ i \in 1..Len(files) /\ files'[i] = files[i]
             \/ i - Len(files) \in 1..Len(t) /\ files'[i] = t[i - Len(files)]
    BY <1>1, <2>1, ConcatFacts
  <2>4. ASSUME NEW i \in DOMAIN files'
        PROVE  RowOk(files'[i]) /\ files'[i].run < at + 1
    <3>1. CASE i \in 1..Len(files) /\ files'[i] = files[i]
      <4>1. RowOk(files[i]) /\ files[i].run < at
        BY <2>2, <3>1 DEF Inv, FilesInv
      <4>2. files[i].run \in Int
        BY <1>1, <4>1 DEF RowOk
      <4> QED
        BY <1>1, <3>1, <4>1, <4>2
    <3>2. CASE i - Len(files) \in 1..Len(t) /\ files'[i] = t[i - Len(files)]
      BY <1>1, <2>1, <3>2
    <3> QED
      BY <2>3, <3>1, <3>2
  <2> QED
    BY <1>1, <1>4, <2>3, <2>4 DEF FilesInv
<1> QED
  BY <1>2, <1>3, <1>5 DEF Inv

LEMMA InvNext == Inv /\ [Next]_vars => Inv'
<1> SUFFICES ASSUME Inv, [Next]_vars PROVE Inv'
  OBVIOUS
<1>1. ASSUME UNCHANGED <<campaign, began, verified, at, rows, files>>,
             server' \in campaign.commands,
             phase' = phase \/ (Running /\ Running') \/ (~Running /\ phase' = "reported")
      PROVE  Inv'
  <2>1. \A r : RowOk(r) => RowOk(r)'
    BY <1>1, RowsSame DEF Inv
  <2>2. Running' <=> Running
    BY <1>1 DEF Running, Inv, Placed
  <2>3. Placed'
    BY <1>1, <2>2 DEF Inv, Placed, Running, Trusted, OwnCommand
  <2>4. RowsInv'
    BY <1>1, <2>1, <2>2 DEF Inv, RowsInv
  <2>5. FilesInv'
    BY <1>1, <2>1 DEF Inv, FilesInv
  <2> QED
    BY <2>3, <2>4, <2>5 DEF Inv
<1>2. CASE Fail
  <2>1. /\ Running /\ at' = at + 1 /\ phase' = "between" /\ rows' = <<>>
        /\ UNCHANGED <<campaign, server, began, verified, files>>
        /\ Len(began) = at /\ at \in Nat \ {0}
    BY <1>2 DEF Fail, NextRun, Running, Inv, Placed
  <2>2. Placed'
    BY <2>1 DEF Inv, Placed, Running
  <2>3. RowsInv'
    BY <2>1, EmptyIsSeq DEF RowsInv
  <2>4. FilesInv'
    <3>1. \A r : RowOk(r) => RowOk(r)' /\ r.run \in Int
      BY <2>1, RowsSame DEF Inv, RowOk
    <3> QED
      BY <2>1, <3>1 DEF Inv, FilesInv
  <2> QED
    BY <2>2, <2>3, <2>4 DEF Inv
<1>3. CASE Deploy \/ SampleBefore \/ SampleAfter \/ Traffic \/ Analyze \/ UNCHANGED vars
  <2>1. server \in campaign.commands
    BY DEF Inv, Placed
  <2>2. CASE Deploy
    BY <1>1, <2>2 DEF Deploy
  <2>3. CASE SampleBefore \/ SampleAfter
    BY <1>1, <2>1, <2>3 DEF SampleBefore, SampleAfter, Running
  <2>4. CASE Traffic \/ UNCHANGED vars
    BY <1>1, <2>1, <2>4 DEF Traffic, vars, campaignVars
  <2>5. CASE Analyze
    BY <1>1, <2>1, <2>5 DEF Analyze, Running
  <2> QED
    BY <1>3, <2>2, <2>3, <2>4, <2>5
<1> QED
  BY <1>2, <1>3, CaptureNext, SummariseNext, CompleteNext DEF Next, Ended

-----------------------------------------------------------------------------
(* What is compared *)

\* A report is made by Analyze, once.
LEMMA Reported ==
  ASSUME Inv, [Next]_vars, phase' = "reported"
  PROVE  /\ UNCHANGED <<campaign, began, files>>
         /\ Analyze \/ (phase = "reported" /\ report' = report)
<1>1. CASE Capture \/ Fail \/ Complete
  BY <1>1 DEF Capture, Fail, Complete, NextRun
<1>2. CASE SampleBefore \/ SampleAfter
  BY <1>2 DEF SampleBefore, SampleAfter
<1>3. CASE Summarise
  BY <1>3 DEF Summarise
<1>4. CASE Deploy \/ Traffic
  BY <1>4 DEF Deploy, Traffic, campaignVars
<1>5. CASE Analyze
  BY <1>5 DEF Analyze
<1>6. CASE UNCHANGED vars
  BY <1>6 DEF vars, campaignVars
<1> QED
  BY <1>1, <1>2, <1>3, <1>4, <1>5, <1>6 DEF Next, Ended

LEMMA SameExtremes ==
  /\ \A S : A!Max(S) = Max(S) /\ A!Min(S) = Min(S)
  /\ \A f : A!Range(f) = Range(f)
BY DEF A!Max, Max, A!Min, Min, A!Range, Range

\* Every comparison is one of two rows.
LEMMA ComparedRows ==
  ASSUME IsSeq(files),
         NEW f \in A!CrossVariantFindings(files) \cup A!DeploymentFindings(files)
  PROVE  \E i, j \in DOMAIN files : f = A!Comparison(files[i], files[j])
<1>1. CASE f \in A!CrossVariantFindings(files)
  <2>1. PICK i \in DOMAIN files :
          /\ A!LaterOfWorkload(files, i) # {}
          /\ f = A!Comparison(files[i], files[Min(A!LaterOfWorkload(files, i))])
    BY <1>1, SameExtremes DEF A!CrossVariantFindings
  <2> DEFINE later == A!LaterOfWorkload(files, i)
  <2>2. later \subseteq DOMAIN files /\ DOMAIN files = 1..Len(files) /\ Len(files) \in Nat
    BY SeqFacts DEF A!LaterOfWorkload
  <2>3. later # {} /\ later \subseteq Nat
    BY <2>1, <2>2
  <2>4. Min(later) \in later
    BY <2>3, Smallest
  <2> QED
    BY <2>1, <2>2, <2>4
<1>2. CASE f \in A!DeploymentFindings(files)
  BY <1>2 DEF A!DeploymentFindings, A!LaterOfWorkload
<1> QED
  BY <1>1, <1>2

LEMMA ComparedNext ==
  Inv /\ ComparedAsLabelled /\ [Next]_vars => ComparedAsLabelled'
<1> SUFFICES ASSUME Inv, ComparedAsLabelled, [Next]_vars, phase' = "reported"
             PROVE  ComparedAsLabelled'
  BY DEF ComparedAsLabelled
<1>1. UNCHANGED <<campaign, began, files>>
  BY Reported
<1>2. \A run : Trusted(run) => Trusted(run)'
  BY <1>1 DEF Trusted, OwnCommand
<1>3. CASE phase = "reported" /\ report' = report
  <2>1. \A f \in report.compared : f.accepted =>
          \A run \in {f.baseline.run, f.candidate.run} : Trusted(run)
    BY <1>3 DEF ComparedAsLabelled, Trusted
  <2>2. \A f \in report'.compared : f.accepted =>
          \A run \in {f.baseline.run, f.candidate.run} : Trusted(run)'
    BY <1>3, <1>2, <2>1
  <2> QED
    BY <2>2 DEF ComparedAsLabelled, Trusted
<1>4. CASE Analyze
  <2>1. ASSUME NEW f \in report'.compared, f.accepted,
               NEW run \in {f.baseline.run, f.candidate.run}
        PROVE  Trusted(run)
    <3>1. f \in A!CrossVariantFindings(files) \cup A!DeploymentFindings(files)
      BY <1>4, <2>1 DEF Analyze
    <3>2. PICK i, j \in DOMAIN files : f = A!Comparison(files[i], files[j])
      BY <3>1, ComparedRows DEF Inv, FilesInv
    <3>3. /\ f.baseline = files[i] /\ f.candidate = files[j]
          /\ files[i].server_config_verified /\ files[j].server_config_verified
      BY <2>1, <3>2 DEF A!Comparison
    <3>4. RowOk(files[i]) /\ RowOk(files[j])
      BY DEF Inv, FilesInv
    <3> QED
      BY <2>1, <3>3, <3>4 DEF RowOk
  <2>2. \A f \in report'.compared : f.accepted =>
          \A run \in {f.baseline.run, f.candidate.run} : Trusted(run)'
    BY <1>2, <2>1
  <2> QED
    BY <2>2 DEF ComparedAsLabelled, Trusted
<1> QED
  BY <1>3, <1>4, Reported

-----------------------------------------------------------------------------
(* Prompt parity *)

LEMMA FiniteRange ==
  ASSUME NEW f, f \in [DOMAIN f -> Range(f)], IsFiniteSet(DOMAIN f)
  PROVE  IsFiniteSet(Range(f))
<1>1. f \in Surjection(DOMAIN f, Range(f))
  BY DEF Range, Surjection
<1> QED
  BY <1>1, FS_Surjection

\* Two of several numbers are as close to one another as all of them are, and
\* a wider tolerance than the narrowest allows it too.
LEMMA WithinTolerance ==
  ASSUME NEW hi \in Nat, NEW lo \in Nat, NEW a \in Nat, NEW b \in Nat,
         NEW least \in 1..100, NEW own \in 1..100, least <= own,
         (hi - lo) * 100 <= least * hi,
         lo <= a, a <= b, b <= hi
  PROVE  (b - a) * 100 <= own * b
<1>1. (100 - least) * b <= (100 - least) * hi
  <2>1. \A n, p, q \in Nat : p <= q => n * p <= n * q
    OBVIOUS
  <2>2. 100 - least \in Nat
    OBVIOUS
  <2> QED
    BY <2>1, <2>2
<1>2. (100 - least) * hi = 100 * hi - least * hi /\ (100 - least) * b = 100 * b - least * b
  OBVIOUS
<1>3. least * hi \in Int /\ least * b \in Int /\ own * b \in Int
  OBVIOUS
<1>4. 100 * b - least * b <= 100 * lo
  BY <1>1, <1>2, <1>3
<1>5. (b - a) * 100 <= least * b
  BY <1>3, <1>4
<1>6. least * b <= own * b
  <2>1. \A n \in Nat : n * b >= 0
    OBVIOUS
  <2>2. own - least \in Nat /\ (own - least) * b = own * b - least * b
    OBVIOUS
  <2> QED
    BY <1>3, <2>1, <2>2
<1> QED
  BY <1>3, <1>5, <1>6

AtParity(r, s) ==
  LET a == r.prompt_tokens_avg
      b == s.prompt_tokens_avg
  IN  a # None /\ b # None =>
        \A q \in {r, s} :
          (Max({a, b}) - Min({a, b})) * 100 <= q.parity_tolerance * Max({a, b})

\* The members of a group that passed are within the tolerance of each.
LEMMA GroupAtParity ==
  ASSUME RowsInv, NEW i \in DOMAIN rows, NEW j \in DOMAIN rows,
         rows[i].parity_group = rows[j].parity_group,
         rows[i].parity_group # "none",
         A!PromptParity(rows, rows[i].parity_group)
  PROVE  AtParity(rows[i], rows[j])
<1> DEFINE group == rows[i].parity_group
           places == {k \in DOMAIN rows : rows[k].parity_group = group}
           members == [k \in places |-> rows[k]]
           measured == {k \in places : rows[k].prompt_tokens_avg # None}
           values == {rows[k].prompt_tokens_avg : k \in measured}
           given == {rows[k].parity_tolerance : k \in places} \ {None}
           avg == [k \in measured |-> rows[k].prompt_tokens_avg]
           a == rows[i].prompt_tokens_avg
           b == rows[j].prompt_tokens_avg
<1>1. DOMAIN rows = 1..Len(rows) /\ Len(rows) \in Nat
  BY SeqFacts DEF RowsInv
<1>2. \A k \in places : /\ rows[k].parity_tolerance \in 1..100
                        /\ rows[k].prompt_tokens_avg \in Nat \cup {None}
  BY DEF RowsInv, RowOk
<1>3. IsFiniteSet(values)
  <2>1. IsFiniteSet(1..Len(rows))
    BY <1>1, FS_Interval
  <2>2. IsFiniteSet(measured)
    BY <1>1, <2>1, FS_Subset
  <2>3. avg \in [DOMAIN avg -> Range(avg)] /\ DOMAIN avg = measured
    BY DEF Range
  <2>4. Range(avg) = values
    BY DEF Range
  <2> HIDE DEF avg, values, measured
  <2> QED
    BY <2>2, <2>3, <2>4, FiniteRange
<1>4. values \subseteq Nat /\ given \subseteq Nat
  BY <1>2
<1>5. i \in places /\ j \in places /\ None \notin 1..100
  BY DEF None, A!None
<1>6. rows[i].parity_tolerance \in given /\ rows[j].parity_tolerance \in given
  BY <1>2, <1>5
<1>7. /\ Min(given) \in 1..100 /\ Min(given) <= rows[i].parity_tolerance
      /\ Min(given) <= rows[j].parity_tolerance
  <2>1. given # {}
    BY <1>6
  <2>2. Min(given) \in given /\ \A x \in given : Min(given) <= x
    BY <1>4, <2>1, Smallest
  <2> QED
    BY <1>2, <1>6, <2>2
<1>8. (Max(values) - Min(values)) * 100 <= Min(given) * Max(values)
  <2>1. A!RestrictValues(rows, LAMBDA r : r.parity_group = group) = members
    BY DEF A!RestrictValues, A!Restrict
  <2>2. {k \in DOMAIN members : A!Given(members[k].prompt_tokens_avg)} = measured
    BY DEF A!Given, A!None, None
  <2>3. {members[k].prompt_tokens_avg : k \in measured} = values
    OBVIOUS
  <2>4. {r.parity_tolerance : r \in A!Range(members)} \ {A!None} = given
    BY DEF A!Range, A!None, None
  <2>5. given # {}
    BY <1>6
  <2> HIDE DEF group, values, given, members, measured
  <2> QED
    BY <2>1, <2>2, <2>3, <2>4, <2>5, SameExtremes DEF A!PromptParity, group
<1>9. ASSUME a # None, b # None, NEW q \in {rows[i], rows[j]}
      PROVE  (Max({a, b}) - Min({a, b})) * 100 <= q.parity_tolerance * Max({a, b})
  <2>1. a \in values /\ b \in values /\ a \in Nat /\ b \in Nat
    BY <1>2, <1>5, <1>9
  <2>2. /\ Max(values) \in values /\ \A x \in values : x <= Max(values)
        /\ Min(values) \in values /\ \A x \in values : Min(values) <= x
    <3>1. values # {} /\ values \subseteq Int
      BY <1>4, <2>1
    <3> HIDE DEF values
    <3> QED
      BY <1>3, <3>1, Extremes
  <2> DEFINE hi == Max(values)
             lo == Min(values)
             least == Min(given)
             own == q.parity_tolerance
  <2>3. own \in 1..100 /\ least \in 1..100 /\ least <= own
    BY <1>2, <1>5, <1>7
  <2>4. hi \in Nat /\ lo \in Nat /\ (hi - lo) * 100 <= least * hi
    BY <1>4, <1>8, <2>2
  <2>5. lo <= a /\ lo <= b /\ a <= hi /\ b <= hi
    BY <2>1, <2>2
  <2>6. a \in Nat /\ b \in Nat
    BY <2>1
  <2> HIDE DEF a, b, hi, lo, least, own
  <2>7. a <= b => (b - a) * 100 <= own * b
    BY <2>3, <2>4, <2>5, <2>6, WithinTolerance
  <2>8. b <= a => (a - b) * 100 <= own * a
    BY <2>3, <2>4, <2>5, <2>6, WithinTolerance
  <2>9. a \in Int /\ b \in Int
    BY <2>6
  <2>10. /\ Max({a, b}) = IF a >= b THEN a ELSE b
         /\ Min({a, b}) = IF a <= b THEN a ELSE b
    BY <2>9, OfTwo
  <2>11. (Max({a, b}) - Min({a, b})) * 100 <= own * Max({a, b})
    <3>1. CASE a <= b /\ a # b
      <4>1. Max({a, b}) = b /\ Min({a, b}) = a
        BY <2>9, <2>10, <3>1
      <4> QED
        BY <2>7, <3>1, <4>1
    <3>2. CASE b <= a
      <4>1. Max({a, b}) = a /\ Min({a, b}) = b
        BY <2>9, <2>10, <3>2
      <4> QED
        BY <2>8, <3>2, <4>1
    <3> QED
      BY <2>9, <3>1, <3>2
  <2> QED
    BY <2>11 DEF own, a, b
<1> QED
  BY <1>9 DEF AtParity

\* The rows of a group of a run that passed the check are at parity.
ParityInv ==
  \A i, j \in DOMAIN files :
    /\ files[i].prompt_parity_passed
    /\ files[i].run = files[j].run
    /\ files[i].parity_group = files[j].parity_group
    => AtParity(files[i], files[j])

LEMMA ParityNext == Inv /\ ParityInv /\ [Next]_vars => ParityInv'
<1> SUFFICES ASSUME Inv, ParityInv, [Next]_vars PROVE ParityInv'
  OBVIOUS
<1>1. CASE files' = files
  BY <1>1 DEF ParityInv, AtParity
<1>2. CASE Complete
  <2> DEFINE t == A!WithParity(rows)
  <2>1. files' = files \o t /\ IsSeq(files) /\ at \in Nat
    BY <1>2 DEF Complete, Inv, FilesInv, Placed
  <2>2. /\ IsSeq(t) /\ Len(t) = Len(rows) /\ Len(rows) \in Nat
        /\ DOMAIN rows = 1..Len(rows)
        /\ \A k \in 1..Len(rows) : t[k].run = at
    BY ParityRows, ParityRowsOk, SeqFacts DEF Inv, RowsInv
  <2>3. ASSUME NEW k \in 1..Len(rows)
        PROVE  /\ t[k].prompt_parity_passed <=>
                    /\ rows[k].parity_group # "none"
                    /\ A!PromptParity(rows, rows[k].parity_group)
               /\ t[k].parity_group = rows[k].parity_group
               /\ t[k].parity_tolerance = rows[k].parity_tolerance
               /\ t[k].prompt_tokens_avg = rows[k].prompt_tokens_avg
    BY ParityRows DEF Inv, Fields
  <2>4. ASSUME NEW k \in 1..Len(rows), NEW l \in 1..Len(rows),
               t[k].prompt_parity_passed, t[k].parity_group = t[l].parity_group
        PROVE  AtParity(t[k], t[l])
    <3>1. AtParity(rows[k], rows[l])
      BY <2>2, <2>3, <2>4, GroupAtParity DEF Inv
    <3> HIDE DEF t
    <3> QED
      BY <2>3, <3>1 DEF AtParity
  <2> HIDE DEF t
  <2>5. /\ DOMAIN files' = 1..(Len(files) + Len(t))
        /\ \A i \in 1..(Len(files) + Len(t)) :
             \/ i \in 1..Len(files) /\ files'[i] = files[i]
             \/ i - Len(files) \in 1..Len(t) /\ files'[i] = t[i - Len(files)]
    BY <2>1, <2>2, ConcatFacts
  <2>6. /\ DOMAIN files = 1..Len(files)
        /\ \A k \in DOMAIN files : files[k].run # at
    <3>1. \A k \in DOMAIN files : files[k].run \in Int /\ files[k].run < at
      BY DEF Inv, FilesInv, RowOk
    <3> QED
      BY <2>1, <3>1, SeqFacts
  <2>7. ASSUME NEW i \in DOMAIN files', NEW j \in DOMAIN files',
               files'[i].prompt_parity_passed, files'[i].run = files'[j].run,
               files'[i].parity_group = files'[j].parity_group
        PROVE  AtParity(files'[i], files'[j])
    <3>1. CASE i \in 1..Len(files) /\ files'[i] = files[i]
      <4>1. j \in 1..Len(files) /\ files'[j] = files[j]
        BY <2>2, <2>5, <2>6, <2>7, <3>1
      <4>2. AtParity(files[i], files[j])
        BY <2>6, <2>7, <3>1, <4>1 DEF ParityInv
      <4> QED
        BY <3>1, <4>1, <4>2
    <3>2. CASE i - Len(files) \in 1..Len(t) /\ files'[i] = t[i - Len(files)]
      <4>1. j - Len(files) \in 1..Len(t) /\ files'[j] = t[j - Len(files)]
        BY <2>2, <2>5, <2>6, <2>7, <3>2
      <4>2. AtParity(t[i - Len(files)], t[j - Len(files)])
        BY <2>2, <2>4, <2>7, <3>2, <4>1
      <4> QED
        BY <3>2, <4>1, <4>2
    <3> QED
      BY <2>5, <3>1, <3>2
  <2>8. \A r, s : AtParity(r, s) => AtParity(r, s)'
    BY DEF AtParity
  <2> QED
    BY <2>7, <2>8 DEF ParityInv
<1>3. CASE Capture \/ Fail
  BY <1>1, <1>3 DEF Capture, Fail, NextRun
<1>4. CASE Deploy \/ SampleBefore \/ SampleAfter \/ Traffic \/ Summarise \/ Analyze
  BY <1>1, <1>4 DEF Deploy, SampleBefore, SampleAfter, Traffic, campaignVars, Summarise,
     Analyze
<1> QED
  BY <1>1, <1>2, <1>3, <1>4 DEF Next, Ended, vars, campaignVars

LEMMA PrefixNext ==
  Inv /\ ParityInv /\ PrefixComparedAtParity /\ [Next]_vars => PrefixComparedAtParity'
<1> SUFFICES ASSUME Inv, ParityInv, PrefixComparedAtParity, [Next]_vars,
                    phase' = "reported"
             PROVE  PrefixComparedAtParity'
  BY DEF PrefixComparedAtParity
<1>1. CASE phase = "reported" /\ report' = report
  BY <1>1 DEF PrefixComparedAtParity
<1>2. CASE Analyze
  <2>1. ASSUME NEW f \in A!PrefixFindings(files)
        PROVE  \E i, j \in DOMAIN files :
                 /\ f.shared = files[i] /\ f.unique = files[j]
                 /\ f.accepted <=> (files[i].prompt_parity_passed
                                      /\ files[j].prompt_parity_passed)
    <3> DEFINE Of(label, mode) ==
                 {k \in DOMAIN files : /\ files[k].server_config_label = label
                                       /\ files[k].analysis_group = "prefix_cache"
                                       /\ files[k].prefix_mode = mode}
    <3>1. PICK label :
            /\ Of(label, "shared") # {} /\ Of(label, "unique") # {}
            /\ f = [shared |-> files[A!Max(Of(label, "shared"))],
                    unique |-> files[A!Max(Of(label, "unique"))],
                    accepted |->
                      /\ files[A!Max(Of(label, "shared"))].prompt_parity_passed
                      /\ files[A!Max(Of(label, "unique"))].prompt_parity_passed]
      BY <2>1, Zenon DEF A!PrefixFindings
    <3>2. DOMAIN files = 1..Len(files) /\ Len(files) \in Nat
      BY SeqFacts DEF Inv, FilesInv
    <3>3. ASSUME NEW S \in SUBSET DOMAIN files, S # {} PROVE A!Max(S) \in DOMAIN files
      <4>1. IsFiniteSet(DOMAIN files)
        BY <3>2, FS_Interval
      <4>2. IsFiniteSet(S) /\ S \subseteq Int
        BY <3>2, <4>1, FS_Subset
      <4> QED
        BY <3>3, <4>2, Extremes, SameExtremes
    <3>4. /\ Of(label, "shared") \in SUBSET DOMAIN files
          /\ Of(label, "unique") \in SUBSET DOMAIN files
      OBVIOUS
    <3> HIDE DEF Of
    <3>5. /\ A!Max(Of(label, "shared")) \in DOMAIN files
          /\ A!Max(Of(label, "unique")) \in DOMAIN files
      BY <3>1, <3>3, <3>4
    <3> QED
      BY <3>1, <3>5
  <2>2. report'.prefix = A!PrefixFindings(files)
    BY <1>2 DEF Analyze
  <2>3. ASSUME NEW f \in report'.prefix, f.accepted,
               f.shared.run = f.unique.run,
               f.shared.parity_group = f.unique.parity_group
        PROVE  AtParity(f.shared, f.unique)
    BY <2>1, <2>2, <2>3 DEF ParityInv
  <2> QED
    BY <2>3 DEF PrefixComparedAtParity, AtParity
<1> QED
  BY <1>1, <1>2, Reported

-----------------------------------------------------------------------------
(* The degradation candidate *)

Key(g, d, k) == Max({g[k][d], 0})

Stages(g, d) == DOMAIN g \subseteq Nat /\ \A k \in DOMAIN g : g[k][d] \in Int

LEMMA KeyNat ==
  ASSUME NEW g, NEW d, Stages(g, d), NEW k \in DOMAIN g
  PROVE  Key(g, d, k) \in Nat
<1> DEFINE v == g[k][d]
<1>1. v \in Int /\ 0 \in Int
  BY DEF Stages
<1> HIDE DEF v
<1>2. Max({v, 0}) = IF v >= 0 THEN v ELSE 0
  BY <1>1, OfTwo
<1> QED
  BY <1>1, <1>2 DEF Key, v

Leads(g, d, first, places) ==
  /\ first \in places
  /\ \A j \in places : \/ Key(g, d, first) < Key(g, d, j)
                       \/ Key(g, d, first) = Key(g, d, j) /\ first <= j

\* The sorted order has a first place.
LEMMA FirstLeads ==
  ASSUME NEW g, NEW d, Stages(g, d), NEW places, places \subseteq DOMAIN g,
         places # {}
  PROVE  Leads(g, d, A!SortedFirst(g, d, places), places)
<1> DEFINE K(k) == Key(g, d, k)
           keys == {K(k) : k \in places}
           First(i) == \A j \in places \ {i} : A!SortedBefore(g, d, i, j)
<1>1. \A k \in places : K(k) \in Nat /\ k \in Nat
  BY KeyNat DEF Stages
<1>2. \A i, j : A!SortedBefore(g, d, i, j) <=> (K(i) < K(j) \/ (K(i) = K(j) /\ i < j))
  BY SameExtremes DEF A!SortedBefore, Key
<1> HIDE DEF K
<1>3. PICK m \in keys : \A n \in keys : m <= n
  <2>1. keys \subseteq Nat /\ keys # {}
    BY <1>1
  <2> HIDE DEF keys
  <2> QED
    BY <2>1, LeastNatural
<1>4. PICK i \in {k \in places : K(k) = m} : \A j \in {k \in places : K(k) = m} : i <= j
  <2> DEFINE ties == {k \in places : K(k) = m}
  <2>1. ties \subseteq Nat /\ ties # {}
    BY <1>1, <1>3
  <2> HIDE DEF ties
  <2>2. \E i \in ties : \A j \in ties : i <= j
    BY <2>1, LeastNatural
  <2> QED
    BY <2>2 DEF ties
<1>5. \A j \in places : m <= K(j)
  BY <1>3
<1>6. First(i)
  <2> SUFFICES ASSUME NEW j \in places, j # i PROVE K(i) < K(j) \/ (K(i) = K(j) /\ i < j)
    BY <1>2
  <2>1. CASE K(j) = m
    <3>1. i <= j
      BY <1>4, <2>1
    <3> QED
      BY <1>1, <1>4, <2>1, <3>1
  <2>2. CASE K(j) # m
    BY <1>1, <1>4, <1>5, <2>2
  <2> QED
    BY <2>1, <2>2
<1>7. A!SortedFirst(g, d, places) = CHOOSE k \in places : First(k)
  BY DEF A!SortedFirst
<1> DEFINE first == A!SortedFirst(g, d, places)
<1> HIDE DEF First, first
<1>8. first \in places /\ First(first)
  BY <1>4, <1>6, <1>7 DEF first
<1>9. \A j \in places : K(first) < K(j) \/ (K(first) = K(j) /\ first <= j)
  BY <1>1, <1>2, <1>8 DEF First
<1> QED
  BY <1>8, <1>9 DEF Leads, K, first

\* What makes a stage degraded, as BoundaryIsFirst has it.
Worse(g, d, k) ==
  LET mildest == Min({i \in DOMAIN g :
                        \A j \in DOMAIN g : Max({g[i][d], 0}) <= Max({g[j][d], 0})})
      reference == g[mildest].latency_p99
  IN  \/ g[k].error_count > 0 \/ g[k].scheduler_delay_p95 > DelayThreshold
      \/ /\ k # mildest /\ reference > 0
         /\ g[k].latency_p99 >= reference * LatencyFactor

LEMMA MildestIsFirst ==
  ASSUME NEW g, NEW d, Stages(g, d), DOMAIN g # {}
  PROVE  Min({i \in DOMAIN g : \A j \in DOMAIN g : Max({g[i][d], 0}) <= Max({g[j][d], 0})})
           = A!SortedFirst(g, d, DOMAIN g)
<1> DEFINE mild == {i \in DOMAIN g : \A j \in DOMAIN g : Key(g, d, i) <= Key(g, d, j)}
           first == A!SortedFirst(g, d, DOMAIN g)
<1>1. Leads(g, d, first, DOMAIN g)
  BY FirstLeads
<1> HIDE DEF first
<1>2. \A k \in DOMAIN g : Key(g, d, k) \in Nat /\ k \in Nat
  BY KeyNat DEF Stages
<1>3. first \in mild
  BY <1>1, <1>2 DEF Leads
<1>4. mild \subseteq Nat
  BY <1>2
<1>5. Min(mild) \in mild /\ Min(mild) <= first
  <2> HIDE DEF mild
  <2> QED
    BY <1>3, <1>4, Smallest
<1>6. Min(mild) = first
  <2> DEFINE m == Min(mild)
  <2>1. m \in DOMAIN g /\ Key(g, d, m) <= Key(g, d, first) /\ first \in DOMAIN g
    BY <1>3, <1>5
  <2> HIDE DEF m, mild
  <2>2. first <= m
    BY <1>1, <1>2, <2>1 DEF Leads
  <2> QED
    BY <1>2, <1>5, <2>1, <2>2 DEF m
<1> QED
  BY <1>6 DEF first, Key

LEMMA ReasonsAreWorse ==
  ASSUME NEW g, NEW d, Stages(g, d), NEW k \in DOMAIN g,
         \A i \in DOMAIN g : g[i].latency_p99 \in Int
  PROVE  A!Reasons(g, A!SortedFirst(g, d, DOMAIN g), k, LatencyFactor, DelayThreshold) # {}
           <=> Worse(g, d, k)
<1> DEFINE first == A!SortedFirst(g, d, DOMAIN g)
           base == g[first].latency_p99
           mine == g[k].latency_p99
<1>1. first \in DOMAIN g
  BY FirstLeads DEF Leads
<1>2. Min({i \in DOMAIN g :
             \A j \in DOMAIN g : Max({g[i][d], 0}) <= Max({g[j][d], 0})}) = first
  BY MildestIsFirst
<1> HIDE DEF first
<1>3. base \in Int /\ mine \in Int
  BY <1>1
<1>4. Worse(g, d, k) <=>
        \/ g[k].error_count > 0 \/ g[k].scheduler_delay_p95 > DelayThreshold
        \/ k # first /\ base > 0 /\ mine >= base * LatencyFactor
  BY <1>2 DEF Worse
<1>5. A!Reasons(g, first, k, LatencyFactor, DelayThreshold) # {} <=>
        \/ g[k].error_count > 0 \/ g[k].scheduler_delay_p95 > DelayThreshold
        \/ k # first /\ base > 0 /\ mine > 0 /\ mine >= base * LatencyFactor
  BY DEF A!Reasons
<1> HIDE DEF base, mine
<1>6. base > 0 /\ mine >= base * LatencyFactor => mine > 0
  <2> SUFFICES ASSUME base > 0, mine >= base * LatencyFactor PROVE mine > 0
    OBVIOUS
  <2>1. \A p, q \in Nat : p > 0 /\ q > 0 => p * q > 0 /\ p * q \in Int
    OBVIOUS
  <2>2. base \in Nat /\ LatencyFactor \in Nat /\ LatencyFactor > 0
    BY <1>3, OptionsAssumption
  <2>3. base * LatencyFactor > 0 /\ base * LatencyFactor \in Int
    BY <2>1, <2>2
  <2> QED
    BY <1>3, <2>3
<1> QED
  BY <1>4, <1>5, <1>6 DEF first

\* The candidate is the mildest degraded stage.
LEMMA BoundaryOf ==
  ASSUME NEW g, NEW d, Stages(g, d), DOMAIN g # {}, d # "workload",
         \A i \in DOMAIN g : g[i].latency_p99 \in Int,
         NEW b, b = A!DetectBoundary(g, d, LatencyFactor, DelayThreshold)
  PROVE  IF b = None THEN {k \in DOMAIN g : Worse(g, d, k)} = {}
         ELSE /\ b \in {k \in DOMAIN g : Worse(g, d, k)}
              /\ \A i \in {k \in DOMAIN g : Worse(g, d, k)} :
                   Max({g[i][d], 0}) >= Max({g[b][d], 0})
<1> DEFINE degraded == {k \in DOMAIN g : Worse(g, d, k)}
<1>1. b = IF degraded = {} THEN None ELSE A!SortedFirst(g, d, degraded)
  <2>1. {k \in DOMAIN g : A!Reasons(g, A!SortedFirst(g, d, DOMAIN g), k, LatencyFactor,
                                    DelayThreshold) # {}} = degraded
    BY ReasonsAreWorse
  <2> HIDE DEF degraded
  <2> QED
    BY <2>1 DEF A!DetectBoundary, A!None, None
<1> HIDE DEF degraded
<1>2. degraded \subseteq DOMAIN g
  BY DEF degraded
<1>3. ASSUME degraded # {}
      PROVE  /\ b # None /\ b \in degraded
             /\ \A i \in degraded : Key(g, d, i) >= Key(g, d, b)
  <2>1. Leads(g, d, b, degraded)
    BY <1>1, <1>2, <1>3, FirstLeads
  <2>2. b \in degraded /\ b \in Nat
    BY <1>2, <2>1 DEF Leads, Stages
  <2>3. \A k \in degraded : Key(g, d, k) \in Nat
    BY <1>2, KeyNat
  <2> QED
    BY <2>1, <2>2, <2>3 DEF Leads, None
<1> QED
  BY <1>1, <1>3 DEF degraded, Key

RunRows(run) == RestrictValues(files, LAMBDA r : r.run = run)

RunFindings(run) == A!SaturationFindings(RunRows(run), LatencyFactor, DelayThreshold)

\* A sweep is some of the rows of the runs, by a dimension in which they vary.
LEMMA SweepIs ==
  ASSUME Inv, NEW run, NEW f \in RunFindings(run)
  PROVE  /\ f.dimension = "workload" \/ f.dimension \in Range(A!Dimensions)
         /\ f.boundary = A!DetectBoundary(f.rows, f.dimension, LatencyFactor,
                                          DelayThreshold)
         /\ DOMAIN f.rows # {} /\ DOMAIN f.rows \subseteq Nat
         /\ \A k \in DOMAIN f.rows : RowOk(f.rows[k])
<1> DEFINE own == RunRows(run)
           Group(group) == A!RestrictValues(own, LAMBDA r : r.analysis_group = group)
<1>1. /\ DOMAIN own \subseteq DOMAIN files /\ \A k \in DOMAIN own : own[k] = files[k]
  BY DEF RunRows, RestrictValues, Restrict
<1>2. \A group : /\ DOMAIN Group(group)
                      = {k \in DOMAIN own : own[k].analysis_group = group}
                 /\ \A k \in DOMAIN Group(group) : Group(group)[k] = own[k]
  BY DEF A!RestrictValues, A!Restrict
<1>3. PICK group \in {r.analysis_group : r \in A!Range(own)} :
        f = [rows |-> Group(group), dimension |-> A!VaryingDimension(Group(group)),
             boundary |-> A!DetectBoundary(Group(group), A!VaryingDimension(Group(group)),
                                           LatencyFactor, DelayThreshold)]
  BY Zenon DEF RunFindings, A!SaturationFindings
<1> HIDE DEF own, Group
<1>4. /\ f.rows = Group(group) /\ f.dimension = A!VaryingDimension(f.rows)
      /\ f.boundary = A!DetectBoundary(f.rows, f.dimension, LatencyFactor, DelayThreshold)
  BY <1>3
<1>5. DOMAIN f.rows # {}
  BY <1>2, <1>3, <1>4 DEF A!Range
<1>6. \A k \in DOMAIN f.rows : k \in DOMAIN files /\ f.rows[k] = files[k]
  <2>1. /\ DOMAIN f.rows = {k \in DOMAIN own : own[k].analysis_group = group}
        /\ \A k \in DOMAIN f.rows : f.rows[k] = own[k]
    BY <1>2, <1>4
  <2> QED
    BY <1>1, <2>1
<1>7. DOMAIN files \subseteq Nat
  BY SeqFacts DEF Inv, FilesInv
<1>8. f.dimension = "workload" \/ f.dimension \in Range(A!Dimensions)
  <2> DEFINE varying == {d \in DOMAIN A!Dimensions :
               A!Cardinality({r[A!Dimensions[d]] : r \in A!Range(f.rows)} \ {A!None}) > 1}
  <2>1. DOMAIN A!Dimensions \subseteq Nat
    BY DEF A!Dimensions
  <2>2. varying \subseteq DOMAIN A!Dimensions
    OBVIOUS
  <2>3. f.dimension = IF varying = {} THEN "workload" ELSE A!Dimensions[Min(varying)]
    BY <1>4, SameExtremes DEF A!VaryingDimension
  <2> HIDE DEF varying
  <2>4. CASE varying # {}
    <3>1. Min(varying) \in varying
      BY <2>1, <2>2, <2>4, Smallest
    <3> QED
      BY <2>2, <2>3, <2>4, <3>1 DEF Range
  <2> QED
    BY <2>3, <2>4
<1> QED
  BY <1>4, <1>5, <1>6, <1>7, <1>8 DEF Inv, FilesInv

LEMMA BoundaryNext ==
  Inv /\ BoundaryIsFirst /\ [Next]_vars => BoundaryIsFirst'
<1> SUFFICES ASSUME Inv, BoundaryIsFirst, [Next]_vars, phase' = "reported"
             PROVE  BoundaryIsFirst'
  BY DEF BoundaryIsFirst
<1>1. CASE phase = "reported" /\ report' = report
  BY <1>1 DEF BoundaryIsFirst
<1>2. CASE Analyze
  <2>1. ASSUME NEW f \in report'.saturation, f.dimension # "workload"
        PROVE  IF f.boundary = None
               THEN {k \in DOMAIN f.rows : Worse(f.rows, f.dimension, k)} = {}
               ELSE /\ f.boundary \in {k \in DOMAIN f.rows : Worse(f.rows, f.dimension, k)}
                    /\ \A i \in {k \in DOMAIN f.rows : Worse(f.rows, f.dimension, k)} :
                         Max({f.rows[i][f.dimension], 0})
                           >= Max({f.rows[f.boundary][f.dimension], 0})
    <3>1. report'.saturation = UNION {RunFindings(k) : k \in {r.run : r \in Range(files)}}
      BY <1>2 DEF Analyze, RunFindings, RunRows
    <3>2. PICK run : f \in RunFindings(run)
      BY <2>1, <3>1
    <3>3. /\ f.dimension \in Range(A!Dimensions)
          /\ f.boundary = A!DetectBoundary(f.rows, f.dimension, LatencyFactor,
                                           DelayThreshold)
          /\ DOMAIN f.rows # {} /\ DOMAIN f.rows \subseteq Nat
          /\ \A k \in DOMAIN f.rows : RowOk(f.rows[k])
      BY <2>1, <3>2, SweepIs
    <3>4. /\ Stages(f.rows, f.dimension)
          /\ \A k \in DOMAIN f.rows : f.rows[k].latency_p99 \in Int
      BY <3>3 DEF Stages, RowOk
    <3> QED
      BY <2>1, <3>3, <3>4, BoundaryOf
  <2> QED
    BY <2>1 DEF BoundaryIsFirst, Worse
<1> QED
  BY <1>1, <1>2, Reported

-----------------------------------------------------------------------------
(* The router's counters *)

Values == Counters \cup Gauges

Balanced(c) == c.attempts = c.successes + c.failures + c.cancellations + c.inflight

CountsInv ==
  /\ counts \in [Workers -> [Values -> Nat]]
  /\ seen \in [Workers -> [Counters -> Nat]]
  /\ held \in [{"before_workload", "after_workload"} -> [Workers -> Nat]]
  /\ \A w \in Workers : Balanced(counts[w])

\* What a snapshot has of a worker.
Of(r, w) == [v \in Values |-> r.metrics[<<v, w>>]]

SnapshotOk(r) ==
  /\ r.phase \in {"none", "before_workload", "after_workload"}
  /\ DOMAIN r.metrics = Values \X Workers
  /\ \A m \in DOMAIN r.metrics : r.metrics[m] \in Nat
  /\ \A w \in Workers : Balanced(Of(r, w))

\* Since the first named snapshot the counters have grown by what was seen; a
\* router that was restarted has not counted more than that.
SinceBefore(r) ==
  \A w \in Workers :
    /\ r.metrics[<<"inflight", w>>] = held["before_workload"][w]
    /\ \A c \in Counters :
         IF reset THEN counts[w][c] <= seen[w][c]
                  ELSE counts[w][c] = r.metrics[<<c, w>>] + seen[w][c]

\* The second one shows the counters as they still are.
AtAfter(r) ==
  \A w \in Workers :
    /\ counts[w].inflight = held["after_workload"][w]
    /\ \A c \in Counters : r.metrics[<<c, w>>] = counts[w][c]

SnapshotsInv ==
  /\ IsSeq(snapshots) /\ reset \in BOOLEAN
  /\ \A i \in DOMAIN snapshots : SnapshotOk(snapshots[i])
  /\ \A i \in DOMAIN snapshots :
       /\ snapshots[i].phase = "before_workload" =>
            phase \in {"load", "measured"} /\ SinceBefore(snapshots[i])
       /\ snapshots[i].phase = "after_workload" =>
            phase = "measured" /\ AtAfter(snapshots[i])
  /\ \A i, j \in DOMAIN snapshots :
       snapshots[i].phase = "before_workload" /\ snapshots[j].phase = "after_workload"
         => i < j

WindowInv == CountsInv /\ SnapshotsInv

\* A step of the router changes the numbers of one worker.
LEMMA WorkerChange ==
  ASSUME CountsInv, NEW w \in Workers,
         counts' = [v \in Workers |-> counts'[v]],
         counts'[w] = [k \in Values |-> counts'[w][k]],
         \A v \in Workers \ {w} : counts'[v] = counts[v] /\ seen'[v] = seen[v],
         \A k \in Values : counts'[w][k] \in Nat, Balanced(counts'[w]),
         seen' \in [Workers -> [Counters -> Nat]], held' = held,
         \A k \in Counters : counts'[w][k] - counts[w][k] = seen'[w][k] - seen[w][k]
  PROVE  /\ CountsInv'
         /\ \A v \in Workers : \A k \in Counters :
              counts'[v][k] - counts[v][k] = seen'[v][k] - seen[v][k]
<1>1. /\ counts \in [Workers -> [Values -> Nat]] /\ seen \in [Workers -> [Counters -> Nat]]
      /\ Counters \subseteq Values
  BY DEF CountsInv, Values
<1>2. counts'[w] \in [Values -> Nat]
  OBVIOUS
<1>3. \A v \in Workers : counts'[v] \in [Values -> Nat] /\ Balanced(counts'[v])
  BY <1>1, <1>2 DEF CountsInv
<1>4. counts' \in [Workers -> [Values -> Nat]]
  BY <1>3
<1>5. CountsInv'
  BY <1>3, <1>4 DEF CountsInv, Balanced, Values, Counters, Gauges
<1>6. ASSUME NEW v \in Workers, NEW k \in Counters
      PROVE  counts'[v][k] - counts[v][k] = seen'[v][k] - seen[v][k]
  <2>1. CASE v = w
    BY <2>1
  <2>2. CASE v # w
    <3>1. /\ counts'[v] = counts[v] /\ seen'[v] = seen[v]
          /\ counts[v][k] \in Nat /\ seen[v][k] \in Nat
      BY <1>1, <2>2
    <3> QED
      BY <3>1
  <2> QED
    BY <2>1, <2>2
<1> QED
  BY <1>5, <1>6

LEMMA WorkerStep ==
  ASSUME CountsInv, NEW w \in Workers, Dispatch(w) \/ Settle(w) \/ CloseCircuit(w)
  PROVE  /\ CountsInv' /\ snapshots' = snapshots /\ reset' = reset /\ held' = held
         /\ \A v \in Workers : \A k \in Counters :
              counts'[v][k] - counts[v][k] = seen'[v][k] - seen[v][k]
<1>1. /\ counts \in [Workers -> [Values -> Nat]] /\ seen \in [Workers -> [Counters -> Nat]]
      /\ Balanced(counts[w])
  BY DEF CountsInv
<1>2. /\ Counters = {"attempts", "successes", "failures", "cancellations"}
      /\ Values = Counters \cup {"inflight", "circuit_open", "upstream_metrics_up"}
  BY DEF Values, Counters, Gauges
<1>3. \A k \in Counters : counts[w][k] \in Nat /\ seen[w][k] \in Nat
  BY <1>1, <1>2
<1>4. counts[w].inflight \in Nat /\ \A k \in Values : counts[w][k] \in Nat
  BY <1>1, <1>2
<1>5. CASE Dispatch(w)
  <2>1. /\ counts' = [counts EXCEPT ![w].attempts = @ + 1, ![w].inflight = @ + 1]
        /\ seen' = [seen EXCEPT ![w].attempts = @ + 1]
        /\ held' = held /\ snapshots' = snapshots /\ reset' = reset
    BY <1>5 DEF Dispatch
  <2>2. /\ counts' = [v \in Workers |-> counts'[v]]
        /\ counts'[w] = [k \in Values |-> counts'[w][k]]
        /\ \A v \in Workers \ {w} : counts'[v] = counts[v]
    BY <1>1, <2>1, Zenon
  <2>3. /\ counts'[w].attempts = counts[w].attempts + 1
        /\ counts'[w].inflight = counts[w].inflight + 1
        /\ \A k \in Values \ {"attempts", "inflight"} : counts'[w][k] = counts[w][k]
    <3>1. "attempts" \in Values /\ "inflight" \in Values
      BY <1>2
    <3> QED
      BY <1>1, <2>1, <3>1, Zenon
  <2>4. /\ seen' = [v \in Workers |-> seen'[v]]
        /\ seen'[w] = [k \in Counters |-> seen'[w][k]]
        /\ \A v \in Workers \ {w} : seen'[v] = seen[v]
    BY <1>1, <2>1, Zenon
  <2>5. /\ seen'[w].attempts = seen[w].attempts + 1
        /\ \A k \in Counters \ {"attempts"} : seen'[w][k] = seen[w][k]
    <3>1. "attempts" \in Counters
      BY <1>2
    <3> QED
      BY <1>1, <2>1, <3>1, Zenon
  <2>6. \A k \in Values : counts'[w][k] \in Nat
    BY <1>2, <1>4, <2>3
  <2>7. seen' \in [Workers -> [Counters -> Nat]]
    <3>1. \A k \in Counters : seen'[w][k] \in Nat
      BY <1>3, <2>5
    <3>2. \A v \in Workers : seen'[v] \in [Counters -> Nat]
      BY <1>1, <2>4, <3>1
    <3> QED
      BY <2>4, <3>2
  <2>8. Balanced(counts'[w])
    BY <1>1, <1>2, <1>4, <2>3 DEF Balanced
  <2>9. \A k \in Counters : counts'[w][k] - counts[w][k] = seen'[w][k] - seen[w][k]
    BY <1>2, <1>3, <2>3, <2>5
  <2> QED
    BY <2>1, <2>2, <2>4, <2>6, <2>7, <2>8, <2>9, WorkerChange
<1>6. CASE Settle(w)
  <2>1. PICK outcome \in Counters \ {"attempts"}, open \in {0, 1} :
          /\ counts[w].inflight > 0
          /\ counts' = [counts EXCEPT ![w][outcome] = @ + 1, ![w].inflight = @ - 1,
                                      ![w].circuit_open = Max({@, open})]
          /\ seen' = [seen EXCEPT ![w][outcome] = @ + 1]
          /\ held' = held /\ snapshots' = snapshots /\ reset' = reset
    BY <1>6, Zenon DEF Settle
  <2>2. /\ counts' = [v \in Workers |-> counts'[v]]
        /\ counts'[w] = [k \in Values |-> counts'[w][k]]
        /\ \A v \in Workers \ {w} : counts'[v] = counts[v]
    BY <1>1, <2>1, Zenon
  <2>3. /\ counts'[w][outcome] = counts[w][outcome] + 1
        /\ counts'[w].inflight = counts[w].inflight - 1
        /\ counts'[w].circuit_open = Max({counts[w].circuit_open, open})
        /\ \A k \in Values \ {outcome, "inflight", "circuit_open"} :
             counts'[w][k] = counts[w][k]
    <3>1. /\ outcome \in Values /\ "inflight" \in Values /\ "circuit_open" \in Values
          /\ outcome # "inflight" /\ outcome # "circuit_open"
      BY <1>2
    <3> QED
      BY <1>1, <2>1, <3>1, Zenon
  <2>4. /\ seen' = [v \in Workers |-> seen'[v]]
        /\ seen'[w] = [k \in Counters |-> seen'[w][k]]
        /\ \A v \in Workers \ {w} : seen'[v] = seen[v]
    BY <1>1, <2>1, Zenon
  <2>5. /\ seen'[w][outcome] = seen[w][outcome] + 1
        /\ \A k \in Counters \ {outcome} : seen'[w][k] = seen[w][k]
    BY <1>1, <2>1, Zenon
  <2>6. \A k \in Values : counts'[w][k] \in Nat
    <3>1. Max({counts[w].circuit_open, open}) \in Nat
      <4>1. counts[w].circuit_open \in Nat /\ counts[w].circuit_open \in Int
            /\ open \in Int /\ open \in Nat
        BY <1>2, <1>4
      <4> QED
        BY <4>1, OfTwo
    <3>2. /\ counts[w].inflight - 1 \in Nat /\ counts[w][outcome] + 1 \in Nat
          /\ outcome \in Values
      <4>1. counts[w].inflight - 1 \in Nat
        <5>1. counts[w].inflight > 0
          BY <2>1, Zenon
        <5> QED
          BY <1>4, <5>1
      <4>2. outcome \in Values
        BY <1>2
      <4> QED
        BY <1>4, <4>1, <4>2
    <3>3. ASSUME NEW k \in Values PROVE counts'[w][k] \in Nat
      <4>1. k = outcome \/ k = "inflight" \/ k = "circuit_open"
            \/ k \in Values \ {outcome, "inflight", "circuit_open"}
        OBVIOUS
      <4> QED
        BY <1>4, <2>3, <3>1, <3>2, <4>1
    <3> QED
      BY <3>3
  <2>7. seen' \in [Workers -> [Counters -> Nat]]
    <3>1. \A k \in Counters : seen'[w][k] \in Nat
      BY <1>3, <2>5
    <3>2. \A v \in Workers : seen'[v] \in [Counters -> Nat]
      BY <1>1, <2>4, <3>1
    <3> QED
      BY <2>4, <3>2
  <2>8. Balanced(counts'[w])
    <3>1. outcome \in {"successes", "failures", "cancellations"}
      BY <1>2
    <3> QED
      BY <1>1, <1>2, <1>4, <2>3, <3>1 DEF Balanced
  <2>9. \A k \in Counters : counts'[w][k] - counts[w][k] = seen'[w][k] - seen[w][k]
    BY <1>2, <1>3, <2>3, <2>5
  <2> QED
    BY <2>1, <2>2, <2>4, <2>6, <2>7, <2>8, <2>9, WorkerChange
<1>7. CASE CloseCircuit(w)
  <2>1. /\ counts' = [counts EXCEPT ![w].circuit_open = 0]
        /\ seen' = seen /\ held' = held /\ snapshots' = snapshots /\ reset' = reset
    BY <1>7 DEF CloseCircuit
  <2>2. /\ counts' = [v \in Workers |-> counts'[v]]
        /\ counts'[w] = [k \in Values |-> counts'[w][k]]
        /\ \A v \in Workers \ {w} : counts'[v] = counts[v] /\ seen'[v] = seen[v]
        /\ seen' \in [Workers -> [Counters -> Nat]]
    BY <1>1, <2>1, Zenon
  <2>3. /\ counts'[w].circuit_open = 0
        /\ \A k \in Values \ {"circuit_open"} : counts'[w][k] = counts[w][k]
    <3>1. "circuit_open" \in Values
      BY <1>2
    <3> QED
      BY <1>1, <2>1, <3>1, Zenon
  <2>4. \A k \in Values : counts'[w][k] \in Nat
    BY <1>2, <1>4, <2>3
  <2>5. Balanced(counts'[w])
    BY <1>1, <1>2, <2>3 DEF Balanced
  <2>6. \A k \in Counters : counts'[w][k] - counts[w][k] = seen'[w][k] - seen[w][k]
    BY <1>2, <1>3, <2>1, <2>3
  <2> QED
    BY <2>1, <2>2, <2>4, <2>5, <2>6, WorkerChange
<1> QED
  BY <1>5, <1>6, <1>7

\* A snapshot shows the counters of the moment.
LEMMA SnapshotIs ==
  ASSUME CountsInv, NEW p \in {"none", "before_workload", "after_workload"}, Snapshot(p)
  PROVE  \E r : /\ snapshots' = Append(snapshots, r)
                /\ SnapshotOk(r) /\ r.phase = p
                /\ \A w \in Workers : \A v \in Counters \cup {"inflight"} :
                     r.metrics[<<v, w>>] = counts[w][v]
<1>1. PICK up \in {0, 1} : snapshots' = Append(snapshots,
        [phase |-> p,
         metrics |-> [m \in Values \X Workers |->
                        IF m[1] = "upstream_metrics_up" THEN up ELSE counts[m[2]][m[1]]]])
  BY DEF Snapshot, Values
<1> DEFINE metrics == [m \in Values \X Workers |->
                         IF m[1] = "upstream_metrics_up" THEN up ELSE counts[m[2]][m[1]]]
           r == [phase |-> p, metrics |-> metrics]
<1>2. snapshots' = Append(snapshots, r)
  BY <1>1
<1>3. \A w \in Workers : \A v \in Values : counts[w][v] \in Nat
  BY DEF CountsInv
<1>4. /\ DOMAIN metrics = Values \X Workers
      /\ \A w \in Workers : \A v \in Values :
           metrics[<<v, w>>] = IF v = "upstream_metrics_up" THEN up ELSE counts[w][v]
  OBVIOUS
<1> HIDE DEF metrics
<1>5. \A m \in DOMAIN metrics : metrics[m] \in Nat
  <2> SUFFICES ASSUME NEW v \in Values, NEW w \in Workers PROVE metrics[<<v, w>>] \in Nat
    BY <1>4
  <2> QED
    BY <1>3, <1>4
<1>6. \A w \in Workers : \A v \in Counters \cup {"inflight"} :
        metrics[<<v, w>>] = counts[w][v]
  BY <1>4 DEF Values, Counters, Gauges
<1>7. r.phase = p /\ r.metrics = metrics
  OBVIOUS
<1> HIDE DEF r
<1>8. \A w \in Workers : Balanced(Of(r, w))
  <2> SUFFICES ASSUME NEW w \in Workers PROVE Balanced(Of(r, w))
    OBVIOUS
  <2>1. \A v \in Counters \cup {"inflight"} : Of(r, w)[v] = counts[w][v]
    BY <1>6, <1>7 DEF Of, Values, Gauges
  <2>2. Balanced(counts[w])
    BY DEF CountsInv
  <2> QED
    BY <2>1, <2>2 DEF Balanced, Counters
<1>9. SnapshotOk(r)
  BY <1>4, <1>5, <1>7, <1>8 DEF SnapshotOk
<1> QED
  BY <1>2, <1>6, <1>7, <1>9

LEMMA WindowInitially == Init => WindowInv
<1> SUFFICES ASSUME Init PROVE WindowInv
  OBVIOUS
<1>1. CountsInv
  BY DEF Init, WindowInit, CountsInv, Fresh, NoEvents, Values, Balanced, Counters, Gauges
<1>2. SnapshotsInv
  BY EmptyIsSeq DEF Init, WindowInit, SnapshotsInv
<1> QED
  BY <1>1, <1>2 DEF WindowInv

\* With no snapshots there is nothing to keep.
LEMMA NoSnapshots ==
  ASSUME WindowInv, snapshots' = <<>>, UNCHANGED <<counts, seen, held, reset>>
  PROVE  WindowInv'
<1>1. CountsInv'
  BY DEF WindowInv, CountsInv, Balanced
<1>2. SnapshotsInv'
  BY EmptyIsSeq DEF WindowInv, SnapshotsInv
<1> QED
  BY <1>1, <1>2 DEF WindowInv

LEMMA SampleBeforeNext == WindowInv /\ SampleBefore => WindowInv'
<1> SUFFICES ASSUME WindowInv, SampleBefore PROVE WindowInv'
  OBVIOUS
<1>1. /\ phase = "before" /\ phase' = "load" /\ counts' = counts
      /\ Snapshot("before_workload") \/ snapshots' = snapshots
      /\ held' = [held EXCEPT !["before_workload"] = [w \in Workers |-> counts[w].inflight]]
      /\ seen' = NoEvents /\ reset' = FALSE
  BY DEF SampleBefore, SampleNow
<1>2. CountsInv'
  <2>1. counts \in [Workers -> [Values -> Nat]] /\ "inflight" \in Values
    BY DEF WindowInv, CountsInv, Values, Gauges
  <2>2. [w \in Workers |-> counts[w].inflight] \in [Workers -> Nat]
    BY <2>1
  <2>3. held' \in [{"before_workload", "after_workload"} -> [Workers -> Nat]]
    BY <1>1, <2>2 DEF WindowInv, CountsInv
  <2>4. seen' \in [Workers -> [Counters -> Nat]]
    BY <1>1 DEF NoEvents
  <2> QED
    BY <1>1, <2>3, <2>4 DEF WindowInv, CountsInv, Balanced
<1>3. \A i \in DOMAIN snapshots : SnapshotOk(snapshots[i]) /\ snapshots[i].phase = "none"
  BY <1>1 DEF WindowInv, SnapshotsInv, SnapshotOk
<1>4. IsSeq(snapshots) /\ DOMAIN snapshots = 1..Len(snapshots) /\ Len(snapshots) \in Nat
  BY SeqFacts DEF WindowInv, SnapshotsInv
<1>5. \A s : SnapshotOk(s) => SnapshotOk(s)'
  BY DEF SnapshotOk, Balanced, Of
<1>6. CASE snapshots' = snapshots
  <2>1. SnapshotsInv'
    BY <1>1, <1>3, <1>4, <1>6, <1>5 DEF SnapshotsInv
  <2> QED
    BY <1>2, <2>1 DEF WindowInv
<1>7. CASE Snapshot("before_workload")
  <2>1. PICK r : /\ snapshots' = Append(snapshots, r)
                 /\ SnapshotOk(r) /\ r.phase = "before_workload"
                 /\ \A w \in Workers : \A v \in Counters \cup {"inflight"} :
                      r.metrics[<<v, w>>] = counts[w][v]
    BY <1>7, SnapshotIs DEF WindowInv
  <2>2. /\ IsSeq(snapshots') /\ DOMAIN snapshots' = 1..(Len(snapshots) + 1)
        /\ \A i \in 1..Len(snapshots) : snapshots'[i] = snapshots[i]
        /\ snapshots'[Len(snapshots) + 1] = r
    BY <1>4, <2>1, AppendFacts
  <2>3. ASSUME NEW w \in Workers
        PROVE  /\ r.metrics[<<"inflight", w>>] = held'["before_workload"][w]
               /\ \A c \in Counters : counts'[w][c] = r.metrics[<<c, w>>] + seen'[w][c]
    <3>1. held'["before_workload"][w] = counts[w].inflight
      BY <1>1 DEF WindowInv, CountsInv
    <3>2. \A c \in Counters : seen'[w][c] = 0 /\ counts[w][c] \in Nat
      BY <1>1 DEF NoEvents, WindowInv, CountsInv, Values
    <3> QED
      BY <1>1, <2>1, <3>1, <3>2
  <2>4. SinceBefore(r)'
    BY <1>1, <2>3 DEF SinceBefore
  <2>5. ASSUME NEW i \in DOMAIN snapshots'
        PROVE  /\ SnapshotOk(snapshots'[i])
               /\ snapshots'[i].phase # "after_workload"
               /\ snapshots'[i].phase = "before_workload" => snapshots'[i] = r
    <3>1. i \in DOMAIN snapshots \/ i = Len(snapshots) + 1
      BY <1>4, <2>2
    <3> QED
      BY <1>3, <1>4, <2>1, <2>2, <3>1
  <2>6. SnapshotsInv'
    BY <1>1, <1>5, <2>2, <2>4, <2>5 DEF SnapshotsInv
  <2> QED
    BY <1>2, <2>6 DEF WindowInv
<1> QED
  BY <1>1, <1>6, <1>7

LEMMA SampleAfterNext == WindowInv /\ SampleAfter => WindowInv'
<1> SUFFICES ASSUME WindowInv, SampleAfter PROVE WindowInv'
  OBVIOUS
<1>1. /\ phase = "load" /\ phase' = "measured" /\ counts' = counts
      /\ Snapshot("after_workload") \/ snapshots' = snapshots
      /\ held' = [held EXCEPT !["after_workload"] = [w \in Workers |-> counts[w].inflight]]
      /\ seen' = seen /\ reset' = reset
  BY DEF SampleAfter, SampleNow, WindowInv, SnapshotsInv
<1>2. CountsInv'
  <2>1. counts \in [Workers -> [Values -> Nat]] /\ "inflight" \in Values
    BY DEF WindowInv, CountsInv, Values, Gauges
  <2>2. [w \in Workers |-> counts[w].inflight] \in [Workers -> Nat]
    BY <2>1
  <2>3. held' \in [{"before_workload", "after_workload"} -> [Workers -> Nat]]
    BY <1>1, <2>2 DEF WindowInv, CountsInv
  <2> QED
    BY <1>1, <2>3 DEF WindowInv, CountsInv, Balanced
<1>3. \A s : SnapshotOk(s) => SnapshotOk(s)'
  BY DEF SnapshotOk, Balanced, Of
<1>4. \A w \in Workers : /\ held'["before_workload"][w] = held["before_workload"][w]
                         /\ held'["after_workload"][w] = counts[w].inflight
  BY <1>1 DEF WindowInv, CountsInv
<1>5. \A s : SinceBefore(s) => SinceBefore(s)'
  BY <1>1, <1>4 DEF SinceBefore
<1>6. IsSeq(snapshots) /\ DOMAIN snapshots = 1..Len(snapshots) /\ Len(snapshots) \in Nat
  BY SeqFacts DEF WindowInv, SnapshotsInv
<1>7. \A i \in DOMAIN snapshots :
        /\ SnapshotOk(snapshots[i]) /\ snapshots[i].phase # "after_workload"
        /\ snapshots[i].phase = "before_workload" => SinceBefore(snapshots[i])
  BY <1>1 DEF WindowInv, SnapshotsInv
<1>8. CASE snapshots' = snapshots
  <2>1. SnapshotsInv'
    BY <1>1, <1>3, <1>5, <1>7, <1>8 DEF WindowInv, SnapshotsInv
  <2> QED
    BY <1>2, <2>1 DEF WindowInv
<1>9. CASE Snapshot("after_workload")
  <2>1. PICK r : /\ snapshots' = Append(snapshots, r)
                 /\ SnapshotOk(r) /\ r.phase = "after_workload"
                 /\ \A w \in Workers : \A v \in Counters \cup {"inflight"} :
                      r.metrics[<<v, w>>] = counts[w][v]
    BY <1>9, SnapshotIs DEF WindowInv
  <2>2. /\ IsSeq(snapshots') /\ DOMAIN snapshots' = 1..(Len(snapshots) + 1)
        /\ \A i \in 1..Len(snapshots) : snapshots'[i] = snapshots[i]
        /\ snapshots'[Len(snapshots) + 1] = r
    BY <1>6, <2>1, AppendFacts
  <2>3. AtAfter(r)'
    BY <1>1, <1>4, <2>1 DEF AtAfter
  <2>4. ASSUME NEW i \in DOMAIN snapshots'
        PROVE  /\ SnapshotOk(snapshots'[i])
               /\ snapshots'[i].phase = "before_workload" =>
                    i \in 1..Len(snapshots) /\ SinceBefore(snapshots'[i])
               /\ snapshots'[i].phase = "after_workload" =>
                    i = Len(snapshots) + 1 /\ snapshots'[i] = r
    <3>1. CASE i \in 1..Len(snapshots)
      BY <1>6, <1>7, <2>2, <3>1
    <3>2. CASE i = Len(snapshots) + 1
      BY <2>1, <2>2, <3>2
    <3> QED
      BY <1>6, <2>2, <3>1, <3>2
  <2>5. \A i, j \in DOMAIN snapshots' :
          snapshots'[i].phase = "before_workload" /\ snapshots'[j].phase = "after_workload"
            => i < j
    BY <1>6, <2>4
  <2>6. reset' \in BOOLEAN
    BY <1>1 DEF WindowInv, SnapshotsInv
  <2>7. SnapshotsInv'
    BY <1>1, <1>3, <1>5, <2>2, <2>3, <2>4, <2>5, <2>6 DEF SnapshotsInv
  <2> QED
    BY <1>2, <2>7 DEF WindowInv
<1> QED
  BY <1>1, <1>8, <1>9

LEMMA TrafficNext == WindowInv /\ Traffic => WindowInv'
<1> SUFFICES ASSUME WindowInv, Traffic PROVE WindowInv'
  OBVIOUS
<1>1. phase \in {"before", "load"} /\ phase' = phase
  BY DEF Traffic, campaignVars
<1>2. \A s : SnapshotOk(s) => SnapshotOk(s)'
  BY DEF SnapshotOk, Balanced, Of
<1>3. IsSeq(snapshots) /\ DOMAIN snapshots = 1..Len(snapshots) /\ Len(snapshots) \in Nat
  BY SeqFacts DEF WindowInv, SnapshotsInv
<1>4. \A i \in DOMAIN snapshots :
        /\ SnapshotOk(snapshots[i]) /\ snapshots[i].phase # "after_workload"
        /\ snapshots[i].phase = "before_workload" =>
             phase = "load" /\ SinceBefore(snapshots[i])
  BY <1>1 DEF WindowInv, SnapshotsInv
<1>5. /\ counts \in [Workers -> [Values -> Nat]] /\ seen \in [Workers -> [Counters -> Nat]]
      /\ Counters \subseteq Values
  BY DEF WindowInv, CountsInv, Values
<1>6. \A w \in Workers : \A c \in Counters : counts[w][c] \in Nat /\ seen[w][c] \in Nat
  BY <1>5
<1>7. ASSUME snapshots' = snapshots, CountsInv', reset' \in BOOLEAN,
             \A s : SnapshotOk(s) /\ SinceBefore(s) => SinceBefore(s)'
      PROVE  WindowInv'
  <2>1. SnapshotsInv'
    BY <1>1, <1>2, <1>3, <1>4, <1>7 DEF SnapshotsInv
  <2> QED
    BY <1>7, <2>1 DEF WindowInv
<1>8. CASE \E w \in Workers : Dispatch(w) \/ Settle(w) \/ CloseCircuit(w)
  <2>1. /\ CountsInv' /\ snapshots' = snapshots /\ reset' = reset /\ held' = held
        /\ \A v \in Workers : \A k \in Counters :
             counts'[v][k] - counts[v][k] = seen'[v][k] - seen[v][k]
    BY <1>8, WorkerStep DEF WindowInv
  <2>2. \A v \in Workers : \A k \in Counters : counts'[v][k] \in Nat /\ seen'[v][k] \in Nat
    BY <2>1 DEF CountsInv, Values
  <2>3. ASSUME NEW s, SnapshotOk(s), SinceBefore(s) PROVE SinceBefore(s)'
    <3>1. \A v \in Workers : \A k \in Counters : s.metrics[<<k, v>>] \in Nat
      BY <2>3 DEF SnapshotOk, Values
    <3>2. ASSUME NEW v \in Workers, NEW k \in Counters
          PROVE  IF reset THEN counts'[v][k] <= seen'[v][k]
                 ELSE counts'[v][k] = s.metrics[<<k, v>>] + seen'[v][k]
      <4> DEFINE a == counts[v][k]
                 b == counts'[v][k]
                 c == seen[v][k]
                 d == seen'[v][k]
                 e == s.metrics[<<k, v>>]
      <4>1. /\ a \in Nat /\ b \in Nat /\ c \in Nat /\ d \in Nat /\ e \in Nat
            /\ b - a = d - c
        BY <1>6, <2>1, <2>2, <3>1
      <4>2. IF reset THEN a <= c ELSE a = e + c
        BY <2>3 DEF SinceBefore
      <4> HIDE DEF a, b, c, d, e
      <4>3. IF reset THEN b <= d ELSE b = e + d
        BY <4>1, <4>2
      <4> QED
        BY <4>3 DEF b, d, e
    <3> QED
      BY <2>1, <2>3, <3>2 DEF SinceBefore
  <2>4. reset' \in BOOLEAN
    BY <2>1 DEF WindowInv, SnapshotsInv
  <2> QED
    BY <1>7, <2>1, <2>3, <2>4
<1>9. CASE RestartRouter
  <2>1. /\ counts' = [w \in Workers |-> Fresh] /\ reset' = TRUE
        /\ seen' = seen /\ held' = held /\ snapshots' = snapshots
    BY <1>9 DEF RestartRouter
  <2>2. CountsInv'
    <3>1. counts' \in [Workers -> [Values -> Nat]]
      BY <2>1 DEF Fresh, Values
    <3>2. \A w \in Workers : Balanced(counts'[w])
      BY <2>1 DEF Fresh, Values, Balanced, Counters, Gauges
    <3> QED
      BY <2>1, <3>1, <3>2 DEF WindowInv, CountsInv, Balanced
  <2>3. \A s : SinceBefore(s) => SinceBefore(s)'
    <3>1. \A w \in Workers : \A c \in Counters : counts'[w][c] <= seen[w][c]
      BY <1>6, <2>1 DEF Fresh
    <3> QED
      BY <2>1, <3>1 DEF SinceBefore
  <2> QED
    BY <1>7, <2>1, <2>2, <2>3
<1>10. CASE SamplePeriodically
  <2>1. Snapshot("none") /\ UNCHANGED <<counts, seen, held, reset>>
    BY <1>10 DEF SamplePeriodically
  <2>2. PICK r : snapshots' = Append(snapshots, r) /\ SnapshotOk(r) /\ r.phase = "none"
    BY <2>1, SnapshotIs DEF WindowInv
  <2>3. /\ IsSeq(snapshots') /\ DOMAIN snapshots' = 1..(Len(snapshots) + 1)
        /\ \A i \in 1..Len(snapshots) : snapshots'[i] = snapshots[i]
        /\ snapshots'[Len(snapshots) + 1] = r
    BY <1>3, <2>2, AppendFacts
  <2>4. \A s : SinceBefore(s) => SinceBefore(s)'
    BY <2>1 DEF SinceBefore
  <2>5. ASSUME NEW i \in DOMAIN snapshots'
        PROVE  /\ SnapshotOk(snapshots'[i]) /\ snapshots'[i].phase # "after_workload"
               /\ snapshots'[i].phase = "before_workload" =>
                    phase = "load" /\ SinceBefore(snapshots'[i])
    <3>1. CASE i \in 1..Len(snapshots)
      BY <1>3, <1>4, <2>3, <3>1
    <3>2. CASE i = Len(snapshots) + 1
      BY <2>2, <2>3, <3>2
    <3> QED
      BY <1>3, <2>3, <3>1, <3>2
  <2>6. CountsInv'
    BY <2>1 DEF WindowInv, CountsInv, Balanced
  <2>7. SnapshotsInv'
    BY <1>1, <1>2, <2>1, <2>3, <2>4, <2>5 DEF WindowInv, SnapshotsInv
  <2> QED
    BY <2>6, <2>7 DEF WindowInv
<1> QED
  BY <1>8, <1>9, <1>10 DEF Traffic, RouterStep

\* Over a window a counter grows from the first to the last value, or not at all.
LEMMA DeltaIs ==
  ASSUME NEW n \in Nat \ {0}, NEW values \in [1..n -> Nat]
  PROVE  /\ Latest(values) = values[n]
         /\ Delta(values) = IF values[n] >= values[1] THEN values[n] - values[1] ELSE 0
<1>1. DOMAIN values = 1..n /\ 1 \in 1..n /\ n \in 1..n
  OBVIOUS
<1>2. Latest(values) = values[n] /\ values[Min(DOMAIN values)] = values[1]
  BY <1>1, AllPlaces DEF Latest
<1> DEFINE grown == values[n] - values[1]
<1>3. grown \in Int /\ 0 \in Int /\ (grown >= 0 <=> values[n] >= values[1])
  BY <1>1
<1>4. Delta(values) = Max({0, grown})
  BY <1>1, <1>2 DEF Delta
<1> HIDE DEF grown
<1>5. Max({0, grown}) = IF 0 >= grown THEN 0 ELSE grown
  BY <1>3, OfTwo
<1>6. Delta(values) = IF grown >= 0 THEN grown ELSE 0
  BY <1>3, <1>4, <1>5
<1> QED
  BY <1>2, <1>3, <1>6 DEF grown

\* The snapshots that have a worker's metric are all of them.
LEMMA PresentIs ==
  ASSUME NEW t, IsSeq(t), \A i \in DOMAIN t : SnapshotOk(t[i]),
         NEW v \in Values, NEW w \in Workers
  PROVE  /\ Present(t, <<v, w>>) \in [1..Len(t) -> Nat]
         /\ \A i \in 1..Len(t) : Present(t, <<v, w>>)[i] = t[i].metrics[<<v, w>>]
<1>1. DOMAIN t = 1..Len(t)
  BY SeqFacts
<1>2. \A i \in 1..Len(t) : /\ <<v, w>> \in DOMAIN t[i].metrics
                           /\ t[i].metrics[<<v, w>>] \in Nat
  BY <1>1 DEF SnapshotOk
<1>3. Present(t, <<v, w>>) = [i \in 1..Len(t) |-> t[i].metrics[<<v, w>>]]
  BY <1>1, <1>2 DEF Present
<1> QED
  BY <1>2, <1>3

LEMMA NamesAre ==
  ASSUME SnapshotsInv, NEW v \in Values
  PROVE  MatchingMetricNames(snapshots, v)
           = IF snapshots = <<>> THEN {} ELSE {<<v, w>> : w \in Workers}
<1>1. DOMAIN snapshots = 1..Len(snapshots) /\ Len(snapshots) \in Nat /\ IsSeq(snapshots)
  BY SeqFacts DEF SnapshotsInv
<1>2. \A r \in Range(snapshots) : DOMAIN r.metrics = Values \X Workers
  BY DEF Range, SnapshotsInv, SnapshotOk
<1>3. CASE snapshots = <<>>
  BY <1>3, EmptyIsSeq DEF MatchingMetricNames, Range
<1>4. CASE snapshots # <<>>
  <2>1. Range(snapshots) # {}
    <3>1. Len(snapshots) # 0
      BY <1>1, <1>4, EmptySeq DEF IsSeq
    <3>2. 1 \in DOMAIN snapshots
      BY <1>1, <3>1
    <3> QED
      BY <3>2 DEF Range
  <2>2. UNION {DOMAIN r.metrics : r \in Range(snapshots)} = Values \X Workers
    BY <1>2, <2>1
  <2>3. {m \in Values \X Workers : m[1] = v} = {<<v, w>> : w \in Workers}
    OBVIOUS
  <2> QED
    BY <1>4, <2>2, <2>3 DEF MatchingMetricNames
<1> QED
  BY <1>3, <1>4

\* The snapshots that the counters are taken from.
LEMMA WindowIs ==
  ASSUME SnapshotsInv, snapshots # <<>>
  PROVE  /\ IsSeq(Window(snapshots)) /\ Len(Window(snapshots)) \in Nat \ {0}
         /\ \A i \in DOMAIN Window(snapshots) : SnapshotOk(Window(snapshots)[i])
         /\ Taken("before_workload") /\ Taken("after_workload") =>
              \E i \in OfPhase(snapshots, "before_workload"),
                 j \in OfPhase(snapshots, "after_workload") :
                Window(snapshots) = <<snapshots[i], snapshots[j]>>
<1>1. DOMAIN snapshots = 1..Len(snapshots) /\ Len(snapshots) \in Nat \ {0}
  <2>1. DOMAIN snapshots = 1..Len(snapshots) /\ Len(snapshots) \in Nat /\ IsSeq(snapshots)
    BY SeqFacts DEF SnapshotsInv
  <2>2. Len(snapshots) # 0
    BY <2>1, EmptySeq DEF IsSeq
  <2> QED
    BY <2>1, <2>2
<1>2. ASSUME NEW p, OfPhase(snapshots, p) # {}
      PROVE  Max(OfPhase(snapshots, p)) \in OfPhase(snapshots, p)
  <2>1. OfPhase(snapshots, p) \subseteq 1..Len(snapshots)
    BY <1>1 DEF OfPhase
  <2>2. IsFiniteSet(1..Len(snapshots))
    BY <1>1, FS_Interval
  <2>3. IsFiniteSet(OfPhase(snapshots, p)) /\ OfPhase(snapshots, p) \subseteq Int
    BY <1>1, <2>1, <2>2, FS_Subset
  <2> QED
    BY <1>2, <2>3, Extremes
<1>3. CASE Taken("before_workload") /\ Taken("after_workload")
  <2> DEFINE i == Max(OfPhase(snapshots, "before_workload"))
             j == Max(OfPhase(snapshots, "after_workload"))
             a == snapshots[i]
             b == snapshots[j]
  <2>1. /\ i \in OfPhase(snapshots, "before_workload")
        /\ j \in OfPhase(snapshots, "after_workload")
    BY <1>2, <1>3 DEF Taken
  <2>2. Window(snapshots) = <<a, b>>
    BY <1>3 DEF Window, Taken
  <2>3. SnapshotOk(a) /\ SnapshotOk(b)
    BY <2>1 DEF OfPhase, SnapshotsInv
  <2> HIDE DEF i, j
  <2>4. \E k \in OfPhase(snapshots, "before_workload"),
           l \in OfPhase(snapshots, "after_workload") :
          Window(snapshots) = <<snapshots[k], snapshots[l]>>
    BY <2>1, <2>2
  <2> HIDE DEF a, b
  <2>5. <<a, b>> \in Seq({a, b}) /\ Len(<<a, b>>) = 2
    OBVIOUS
  <2>6. IsSeq(<<a, b>>)
    BY <2>5, Retyped
  <2>7. \A k \in DOMAIN <<a, b>> : SnapshotOk(<<a, b>>[k])
    BY <2>3
  <2> QED
    BY <2>2, <2>4, <2>5, <2>6, <2>7
<1>4. CASE ~(Taken("before_workload") /\ Taken("after_workload"))
  <2>1. Window(snapshots) = snapshots
    BY <1>4 DEF Window, Taken
  <2> QED
    BY <1>1, <1>4, <2>1 DEF SnapshotsInv
<1> QED
  BY <1>3, <1>4

Grows(v, w) == Delta(Present(Window(snapshots), <<v, w>>))

Shown == IF snapshots = <<>> THEN {} ELSE Workers

\* A column of counts has every worker, unless there are no snapshots at all.
LEMMA CountColumn ==
  ASSUME SnapshotsInv, NEW v \in Counters
  PROVE  /\ WorkerCounterMap(snapshots, v) = [w \in Shown |-> Grows(v, w)]
         /\ \A w \in Shown : Grows(v, w) \in Nat
<1> DEFINE named == {m \in MatchingMetricNames(snapshots, v) :
                       Delta(Present(Window(snapshots), m)) # None}
<1>1. WorkerCounterMap(snapshots, v) = [w \in {m[2] : m \in named} |-> Grows(v, w)]
  BY Zenon DEF WorkerCounterMap, WorkerMap, Grows
<1>2. v \in Values
  BY DEF Values
<1>3. CASE snapshots = <<>>
  <2>1. named = {}
    BY <1>2, <1>3, NamesAre
  <2> QED
    BY <1>1, <1>3, <2>1 DEF Shown
<1>4. CASE snapshots # <<>>
  <2>1. \A w \in Workers : Grows(v, w) \in Nat
    <3> SUFFICES ASSUME NEW w \in Workers PROVE Grows(v, w) \in Nat
      OBVIOUS
    <3> DEFINE t == Window(snapshots)
               n == Len(t)
               values == Present(t, <<v, w>>)
    <3>1. IsSeq(t) /\ n \in Nat \ {0} /\ \A i \in DOMAIN t : SnapshotOk(t[i])
      BY <1>4, WindowIs
    <3> HIDE DEF t
    <3>2. values \in [1..n -> Nat]
      BY <1>2, <3>1, PresentIs
    <3> HIDE DEF n, values
    <3>3. values[n] \in Nat /\ values[1] \in Nat
      BY <3>1, <3>2
    <3>4. Delta(values) \in Nat
      BY <3>1, <3>2, <3>3, DeltaIs
    <3> QED
      BY <3>4 DEF Grows, values, t
  <2>2. named = {<<v, w>> : w \in Workers}
    <3>1. MatchingMetricNames(snapshots, v) = {<<v, w>> : w \in Workers}
      BY <1>2, <1>4, NamesAre
    <3>2. None \notin Nat
      BY DEF None
    <3> QED
      BY <2>1, <3>1, <3>2 DEF Grows
  <2> HIDE DEF named
  <2>3. {m[2] : m \in named} = Workers
    <3>1. \A w \in Workers : <<v, w>> \in named /\ <<v, w>>[2] = w
      BY <2>2
    <3>2. \A m \in named : m[2] \in Workers
      BY <2>2
    <3> QED
      BY <3>1, <3>2
  <2> QED
    BY <1>1, <1>4, <2>1, <2>3 DEF Shown
<1> QED
  BY <1>3, <1>4

\* Between the named snapshots a column has what was seen.
LEMMA GrowthSeen ==
  ASSUME WindowInv, Taken("before_workload"), Taken("after_workload"), NEW w \in Workers
  PROVE  /\ \A v \in Counters : /\ Grows(v, w) <= seen[w][v]
                                /\ ~reset => Grows(v, w) = seen[w][v]
         /\ ~reset => seen[w].attempts
                        = seen[w].successes + seen[w].failures + seen[w].cancellations
                            + (held["after_workload"][w] - held["before_workload"][w])
<1>1. snapshots # <<>>
  BY EmptyIsSeq DEF Taken, OfPhase
<1>2. PICK i \in OfPhase(snapshots, "before_workload"),
           j \in OfPhase(snapshots, "after_workload") :
        Window(snapshots) = <<snapshots[i], snapshots[j]>>
  BY <1>1, WindowIs DEF WindowInv
<1> DEFINE a == snapshots[i]
           b == snapshots[j]
<1>3. /\ SnapshotOk(a) /\ SinceBefore(a) /\ SnapshotOk(b) /\ AtAfter(b)
  BY DEF WindowInv, SnapshotsInv, OfPhase
<1>4. Window(snapshots) = <<a, b>>
  BY <1>2
<1> HIDE DEF a, b
<1>5. ASSUME NEW v \in Values
      PROVE  /\ Grows(v, w) = IF b.metrics[<<v, w>>] >= a.metrics[<<v, w>>]
                              THEN b.metrics[<<v, w>>] - a.metrics[<<v, w>>] ELSE 0
             /\ a.metrics[<<v, w>>] \in Nat /\ b.metrics[<<v, w>>] \in Nat
  <2> DEFINE t == <<a, b>>
             values == Present(t, <<v, w>>)
  <2>1. IsSeq(t) /\ Len(t) = 2 /\ \A k \in DOMAIN t : SnapshotOk(t[k])
    BY <1>1, <1>4, WindowIs DEF WindowInv
  <2>2. t[1] = a /\ t[2] = b
    OBVIOUS
  <2> HIDE DEF t
  <2>3. /\ values \in [1..2 -> Nat]
        /\ \A k \in 1..2 : values[k] = t[k].metrics[<<v, w>>]
    BY <2>1, PresentIs
  <2> HIDE DEF values
  <2>4. values[1] = a.metrics[<<v, w>>] /\ values[2] = b.metrics[<<v, w>>]
        /\ values[1] \in Nat /\ values[2] \in Nat
    BY <2>2, <2>3
  <2>5. Delta(values) = IF values[2] >= values[1] THEN values[2] - values[1] ELSE 0
    <3>1. 2 \in Nat \ {0}
      OBVIOUS
    <3> QED
      BY <2>3, <3>1, DeltaIs
  <2>6. Grows(v, w) = Delta(values)
    BY <1>4 DEF Grows, values, t
  <2> QED
    BY <2>4, <2>5, <2>6
<1>6. ASSUME NEW v \in Counters
      PROVE  /\ Grows(v, w) <= seen[w][v]
             /\ ~reset => /\ Grows(v, w) = seen[w][v]
                          /\ b.metrics[<<v, w>>] = a.metrics[<<v, w>>] + seen[w][v]
             /\ seen[w][v] \in Nat
  <2> DEFINE x == a.metrics[<<v, w>>]
             y == b.metrics[<<v, w>>]
             s == seen[w][v]
  <2>1. v \in Values /\ s \in Nat
    BY DEF Values, WindowInv, CountsInv
  <2>2. /\ x \in Nat /\ y \in Nat
        /\ Grows(v, w) = IF y >= x THEN y - x ELSE 0
    BY <1>5, <2>1
  <2>3. IF reset THEN y <= s ELSE y = x + s
    <3>1. y = counts[w][v]
      BY <1>3 DEF AtAfter
    <3>2. IF reset THEN counts[w][v] <= s ELSE counts[w][v] = x + s
      BY <1>3 DEF SinceBefore
    <3> HIDE DEF x, y, s
    <3> QED
      BY <3>1, <3>2
  <2> HIDE DEF x, y, s
  <2>4. Grows(v, w) <= s /\ (~reset => Grows(v, w) = s)
    BY <2>1, <2>2, <2>3
  <2> QED
    BY <2>1, <2>3, <2>4 DEF x, y, s
<1>7. ASSUME ~reset
      PROVE  seen[w].attempts
               = seen[w].successes + seen[w].failures + seen[w].cancellations
                   + (held["after_workload"][w] - held["before_workload"][w])
  <2> DEFINE p(v) == a.metrics[<<v, w>>]
             q(v) == b.metrics[<<v, w>>]
  <2>1. /\ p("attempts") = p("successes") + p("failures") + p("cancellations")
                             + p("inflight")
        /\ q("attempts") = q("successes") + q("failures") + q("cancellations")
                             + q("inflight")
    <3>1. Balanced(Of(a, w)) /\ Balanced(Of(b, w))
      BY <1>3 DEF SnapshotOk
    <3> QED
      BY <3>1 DEF Balanced, Of, Values, Counters, Gauges
  <2>2. p("inflight") = held["before_workload"][w]
    BY <1>3 DEF SinceBefore
  <2>3. q("inflight") = held["after_workload"][w]
    <3>1. Balanced(counts[w]) /\ counts[w].inflight = held["after_workload"][w]
      BY <1>3 DEF WindowInv, CountsInv, AtAfter
    <3>2. \A v \in Counters : q(v) = counts[w][v]
      BY <1>3 DEF AtAfter
    <3>3. /\ q("attempts") = counts[w].attempts /\ q("successes") = counts[w].successes
          /\ q("failures") = counts[w].failures
          /\ q("cancellations") = counts[w].cancellations
      BY <3>2 DEF Counters
    <3>4. \A v \in Values : counts[w][v] \in Nat /\ q(v) \in Nat
      BY <1>5 DEF WindowInv, CountsInv
    <3>5. \A v \in {"attempts", "successes", "failures", "cancellations", "inflight"} :
            counts[w][v] \in Nat /\ q(v) \in Nat
      BY <3>4 DEF Values, Counters, Gauges
    <3> HIDE DEF q
    <3> QED
      BY <2>1, <3>1, <3>3, <3>5 DEF Balanced
  <2>4. \A v \in Counters : q(v) = p(v) + seen[w][v] /\ seen[w][v] \in Nat
    BY <1>6, <1>7
  <2>5. \A v \in {"attempts", "successes", "failures", "cancellations", "inflight"} :
          p(v) \in Nat /\ q(v) \in Nat
    BY <1>5 DEF Values, Counters, Gauges
  <2>6. \A v \in {"attempts", "successes", "failures", "cancellations"} :
          q(v) = p(v) + seen[w][v] /\ seen[w][v] \in Nat
    BY <2>4 DEF Counters
  <2> HIDE DEF p, q
  <2> QED
    BY <2>1, <2>2, <2>3, <2>5, <2>6
<1> QED
  BY <1>6, <1>7

\* The workers with an open circuit are those of the last snapshot.
LEMMA OpenAre ==
  ASSUME SnapshotsInv
  PROVE  LET health == HealthStates(snapshots)
             open == {w \in DOMAIN health : health[w] = "circuit_open"}
         IN  /\ open \subseteq Workers
             /\ open # {} => snapshots # <<>>
             /\ \A w \in open :
                  snapshots[Len(snapshots)].metrics[<<"circuit_open", w>>] # 0
<1> DEFINE AtLast(w) == Latest(Present(snapshots, <<"circuit_open", w>>))
           named == {m \in MatchingMetricNames(snapshots, "circuit_open") :
                       Latest(Present(snapshots, m)) # None}
           map == WorkerLatestMap(snapshots, "circuit_open")
           up == WorkerLatestMap(snapshots, "upstream_metrics_up")
           health == HealthStates(snapshots)
           open == {w \in DOMAIN health : health[w] = "circuit_open"}
<1>1. map = [w \in {m[2] : m \in named} |-> AtLast(w)]
  BY Zenon DEF WorkerLatestMap, WorkerMap
<1>2. "circuit_open" \in Values
  BY DEF Values, Gauges
<1>3. DOMAIN map \subseteq Shown /\ \A w \in DOMAIN map : map[w] = AtLast(w)
  <2>1. MatchingMetricNames(snapshots, "circuit_open")
          = {<<"circuit_open", w>> : w \in Shown}
    BY <1>2, NamesAre DEF Shown
  <2>2. \A m \in named : m[2] \in Shown
    BY <2>1
  <2> HIDE DEF named, AtLast, map
  <2> QED
    BY <1>1, <2>2
<1>4. health = [w \in DOMAIN map |-> IF map[w] # 0 THEN "circuit_open"
                                     ELSE IF up[w] # 0 THEN "routable_metrics_up"
                                     ELSE "metrics_unreachable"]
  BY DEF HealthStates
<1> HIDE DEF map, up, health
<1>5. \A w \in open : w \in Shown /\ AtLast(w) # 0
  BY <1>3, <1>4
<1>6. ASSUME NEW w \in Shown
      PROVE  AtLast(w) = snapshots[Len(snapshots)].metrics[<<"circuit_open", w>>]
  <2> DEFINE n == Len(snapshots)
             values == Present(snapshots, <<"circuit_open", w>>)
  <2>1. w \in Workers /\ snapshots # <<>>
    BY <1>6 DEF Shown
  <2>2. n \in Nat \ {0}
    <3>1. n \in Nat /\ IsSeq(snapshots)
      BY SeqFacts DEF SnapshotsInv
    <3> QED
      BY <2>1, <3>1, EmptySeq DEF IsSeq
  <2>3. /\ values \in [1..n -> Nat]
        /\ \A k \in 1..n : values[k] = snapshots[k].metrics[<<"circuit_open", w>>]
    BY <1>2, <2>1, PresentIs DEF SnapshotsInv
  <2>4. n \in 1..n
    BY <2>2
  <2> HIDE DEF n, values
  <2>5. Latest(values) = values[n]
    BY <2>2, <2>3, DeltaIs
  <2> QED
    BY <2>3, <2>4, <2>5 DEF values, n
<1> HIDE DEF AtLast
<1> QED
  BY <1>5, <1>6 DEF Shown, health

\* There are no more of them than the most circuits open in one snapshot.
LEMMA OpenCounted ==
  ASSUME SnapshotsInv,
         NEW open, open # {}, open \subseteq Workers, snapshots # <<>>,
         \A w \in open : snapshots[Len(snapshots)].metrics[<<"circuit_open", w>>] # 0
  PROVE  Cardinality(open) <= CircuitOpenMax(snapshots)
<1> DEFINE metrics == MatchingMetricNames(snapshots, "circuit_open")
           Open(r) == {m \in metrics \cap DOMAIN r.metrics : r.metrics[m] # 0}
           Counted(r) == Cardinality(Open(r))
           totals == {Counted(r) : r \in Range(snapshots)}
           last == snapshots[Len(snapshots)]
<1>1. metrics = {<<"circuit_open", w>> : w \in Workers}
  BY NamesAre DEF Values, Gauges
<1>2. metrics # {}
  BY <1>1
<1>3. CircuitOpenMax(snapshots) = Max(totals)
  BY <1>2, Zenon DEF CircuitOpenMax
<1>4. /\ DOMAIN snapshots = 1..Len(snapshots) /\ Len(snapshots) \in Nat \ {0}
      /\ snapshots \in [DOMAIN snapshots -> Range(snapshots)]
  <2>1. DOMAIN snapshots = 1..Len(snapshots) /\ Len(snapshots) \in Nat /\ IsSeq(snapshots)
    BY SeqFacts DEF SnapshotsInv
  <2>2. Len(snapshots) # 0
    BY <2>1, EmptySeq DEF IsSeq
  <2>3. snapshots \in [1..Len(snapshots) -> Range(snapshots)]
    BY <2>1, LenProperties DEF IsSeq
  <2> QED
    BY <2>1, <2>2, <2>3
<1>5. IsFiniteSet(Range(snapshots)) /\ last \in Range(snapshots)
  <2>1. IsFiniteSet(DOMAIN snapshots)
    BY <1>4, FS_Interval
  <2>2. Len(snapshots) \in DOMAIN snapshots
    BY <1>4
  <2> QED
    BY <1>4, <2>1, <2>2, FiniteRange DEF Range
<1>6. IsFiniteSet(metrics)
  <2> DEFINE f == [w \in Workers |-> <<"circuit_open", w>>]
  <2>1. f \in Surjection(Workers, metrics)
    BY <1>1 DEF Surjection
  <2> QED
    BY <2>1, FS_Surjection, BoundsAssumption
<1>7. \A r : IsFiniteSet(Open(r)) /\ Counted(r) \in Nat
  <2> TAKE r
  <2>1. Open(r) \in SUBSET metrics
    OBVIOUS
  <2> HIDE DEF metrics
  <2>2. IsFiniteSet(Open(r))
    BY <1>6, <2>1, FS_Subset
  <2> QED
    BY <2>2, FS_CardinalityType
<1>8. IsFiniteSet(totals) /\ totals \subseteq Int /\ Counted(last) \in totals
  <2>1. \A r : Counted(r) \in Nat
    BY <1>7
  <2> HIDE DEF Counted, last
  <2> DEFINE f == [r \in Range(snapshots) |-> Counted(r)]
  <2>2. f \in Surjection(Range(snapshots), totals)
    BY DEF Surjection
  <2>3. IsFiniteSet(totals)
    BY <1>5, <2>2, FS_Surjection
  <2> QED
    BY <1>5, <2>1, <2>3
<1>9. Counted(last) <= Max(totals)
  <2> HIDE DEF totals, Counted, last
  <2>1. totals # {}
    BY <1>8
  <2> QED
    BY <1>8, <2>1, Extremes
<1>10. Cardinality(open) <= Counted(last)
  <2> DEFINE f == [w \in open |-> <<"circuit_open", w>>]
  <2>1. SnapshotOk(last)
    BY <1>4, <1>5 DEF SnapshotsInv, Range
  <2>2. \A w \in open : <<"circuit_open", w>> \in Open(last)
    <3> SUFFICES ASSUME NEW w \in open PROVE <<"circuit_open", w>> \in Open(last)
      OBVIOUS
    <3>1. <<"circuit_open", w>> \in metrics
      BY <1>1
    <3>2. <<"circuit_open", w>> \in DOMAIN last.metrics
      BY <2>1 DEF SnapshotOk, Values, Gauges
    <3> HIDE DEF metrics
    <3> QED
      BY <3>1, <3>2
  <2>3. f \in Injection(open, Open(last))
    <3> HIDE DEF Open
    <3>1. f \in [open -> Open(last)]
      BY <2>2
    <3>2. \A x, y \in open : f[x] = f[y] => x = y
      OBVIOUS
    <3> QED
      BY <3>1, <3>2 DEF Injection, IsInjective
  <2> HIDE DEF f, Open
  <2> QED
    BY <1>7, <2>3, FS_Injection
<1>11. Cardinality(open) \in Nat /\ Counted(last) \in Nat
  BY <1>7, BoundsAssumption, FS_Subset, FS_CardinalityType
<1> HIDE DEF totals, Counted, last
<1> QED
  <2>1. Max(totals) \in Int
    <3>1. totals # {}
      BY <1>8
    <3> QED
      BY <1>8, <3>1, Extremes
  <2> QED
    BY <1>3, <1>9, <1>10, <1>11, <2>1

\* No imbalance is shown only where all have as much.
LEMMA BalancedRequests ==
  ASSUME NEW requests, IsFiniteSet(DOMAIN requests),
         requests \in [DOMAIN requests -> Nat],
         Imbalance(requests)[1] = 0,
         NEW v \in DOMAIN requests, NEW w \in DOMAIN requests
  PROVE  requests[v] = requests[w]
<1> DEFINE deltas == Range(requests)
<1>1. IsFiniteSet(deltas) /\ deltas \subseteq Int /\ requests[v] \in deltas
      /\ requests[w] \in deltas
  <2>1. requests \in [DOMAIN requests -> Range(requests)]
    BY DEF Range
  <2>2. IsFiniteSet(deltas)
    BY <2>1, FiniteRange
  <2> QED
    BY <2>2 DEF Range
<1>2. CASE Cardinality(DOMAIN requests) >= 2 /\ Max(deltas) > 0
  <2>1. Max(deltas) - Min(deltas) = 0
    BY <1>2 DEF Imbalance
  <2> HIDE DEF deltas
  <2>2. deltas # {}
    BY <1>1
  <2>3. /\ Max(deltas) \in deltas /\ \A x \in deltas : x <= Max(deltas)
        /\ Min(deltas) \in deltas /\ \A x \in deltas : Min(deltas) <= x
    BY <1>1, <2>2, Extremes
  <2>4. Max(deltas) \in Int /\ Min(deltas) \in Int
    BY <1>1, <2>3
  <2>5. Max(deltas) = Min(deltas)
    BY <2>1, <2>4
  <2>6. \A x \in deltas : x = Max(deltas)
    <3>1. \A x \in deltas : x \in Int /\ x <= Max(deltas) /\ Min(deltas) <= x
      BY <1>1, <2>3
    <3> QED
      BY <2>4, <2>5, <3>1
  <2> QED
    BY <1>1, <2>6
<1>3. CASE ~(Cardinality(DOMAIN requests) >= 2 /\ Max(deltas) > 0)
  <2>1. Cardinality(DOMAIN requests) = 1
    BY <1>3 DEF Imbalance, None
  <2>2. \E x : DOMAIN requests = {x}
    BY <2>1, FS_Singleton
  <2> QED
    BY <2>2
<1> QED
  BY <1>2, <1>3

\* The columns that a summary row gets can be relied upon.
LEMMA ColumnsHold ==
  ASSUME WindowInv
  PROVE  ColumnsSound(RouterColumns(snapshots))
<1> DEFINE cols == RouterColumns(snapshots)
           Map(v) == [w \in Shown |-> Grows(v, w)]
<1>1. /\ cols.request_counts = WorkerCounterMap(snapshots, "attempts")
      /\ cols.success_counts = WorkerCounterMap(snapshots, "successes")
      /\ cols.error_counts = WorkerCounterMap(snapshots, "failures")
      /\ cols.cancellation_counts = WorkerCounterMap(snapshots, "cancellations")
      /\ cols.imbalance = Imbalance(cols.request_counts)
      /\ cols.circuit_open_workers_max = CircuitOpenMax(snapshots)
      /\ cols.health_states = HealthStates(snapshots)
  BY DEF RouterColumns
<1> HIDE DEF cols
<1>2. \A v \in Counters : WorkerCounterMap(snapshots, v) = Map(v)
  BY CountColumn DEF WindowInv
<1>3. /\ cols.request_counts = Map("attempts") /\ cols.success_counts = Map("successes")
      /\ cols.error_counts = Map("failures")
      /\ cols.cancellation_counts = Map("cancellations")
  BY <1>1, <1>2 DEF Counters
<1>4. ASSUME Taken("before_workload"), Taken("after_workload"), NEW w \in Workers
      PROVE  /\ cols.request_counts[w] = Grows("attempts", w)
             /\ cols.success_counts[w] = Grows("successes", w)
             /\ cols.error_counts[w] = Grows("failures", w)
             /\ cols.cancellation_counts[w] = Grows("cancellations", w)
  <2>1. w \in Shown
    BY <1>4, EmptyIsSeq DEF Shown, Taken, OfPhase
  <2> QED
    BY <1>3, <2>1
<1>5. ASSUME Taken("before_workload"), Taken("after_workload"),
             NEW c \in {<<"request_counts", "attempts">>, <<"success_counts", "successes">>,
                        <<"error_counts", "failures">>,
                        <<"cancellation_counts", "cancellations">>},
             NEW w \in Workers
      PROVE  /\ cols[c[1]][w] <= seen[w][c[2]]
             /\ ~reset => cols[c[1]][w] = seen[w][c[2]]
  <2>1. c[2] \in Counters /\ cols[c[1]][w] = Grows(c[2], w)
    BY <1>4, <1>5 DEF Counters
  <2> QED
    BY <1>5, <2>1, GrowthSeen
<1>6. ASSUME Taken("before_workload"), Taken("after_workload"), ~reset, NEW w \in Workers
      PROVE  cols.request_counts[w]
               = cols.success_counts[w] + cols.error_counts[w]
                   + cols.cancellation_counts[w]
                   + (held["after_workload"][w] - held["before_workload"][w])
  <2>1. \A v \in Counters : Grows(v, w) = seen[w][v]
    BY <1>6, GrowthSeen
  <2>2. seen[w].attempts
          = seen[w].successes + seen[w].failures + seen[w].cancellations
              + (held["after_workload"][w] - held["before_workload"][w])
    BY <1>6, GrowthSeen
  <2>3. /\ Grows("attempts", w) = seen[w].attempts
        /\ Grows("successes", w) = seen[w].successes
        /\ Grows("failures", w) = seen[w].failures
        /\ Grows("cancellations", w) = seen[w].cancellations
    BY <2>1 DEF Counters
  <2> QED
    BY <1>4, <1>6, <2>2, <2>3
<1>7. LET open == {w \in DOMAIN cols.health_states : cols.health_states[w] = "circuit_open"}
      IN  open # {} => Cardinality(open) <= cols.circuit_open_workers_max
  BY <1>1, OpenAre, OpenCounted DEF WindowInv
<1>8. ASSUME cols.imbalance[1] = 0,
             NEW v \in DOMAIN cols.request_counts, NEW w \in DOMAIN cols.request_counts
      PROVE  cols.request_counts[v] = cols.request_counts[w]
  <2> DEFINE requests == cols.request_counts
  <2>1. requests = Map("attempts")
    BY <1>3
  <2>2. \A x \in Shown : Grows("attempts", x) \in Nat
    BY CountColumn DEF WindowInv, Counters
  <2>3. requests \in [DOMAIN requests -> Nat] /\ DOMAIN requests = Shown
    BY <2>1, <2>2
  <2>4. IsFiniteSet(Shown)
    BY BoundsAssumption, FS_EmptySet DEF Shown
  <2>5. Imbalance(requests)[1] = 0
    BY <1>1, <1>8
  <2>6. v \in DOMAIN requests /\ w \in DOMAIN requests
    BY <1>8
  <2> HIDE DEF requests
  <2>7. requests[v] = requests[w]
    BY <2>3, <2>4, <2>5, <2>6, BalancedRequests
  <2> QED
    BY <2>7 DEF requests
<1>9. ColumnsSound(cols)
  BY <1>5, <1>6, <1>7, <1>8 DEF ColumnsSound
<1> QED
  BY <1>9 DEF cols

ColumnsInv ==
  columns # NoColumns => phase \in {"before", "measured"} /\ ColumnsSound(columns)

LEMMA WindowNext == WindowInv /\ [Next]_vars => WindowInv'
<1> SUFFICES ASSUME WindowInv, [Next]_vars PROVE WindowInv'
  OBVIOUS
<1>1. ASSUME UNCHANGED windowVars,
             phase' = phase \/ phase \notin {"load", "measured"}
      PROVE  WindowInv'
  <2>1. CountsInv'
    BY <1>1 DEF windowVars, WindowInv, CountsInv, Balanced
  <2>2. \A s : /\ SnapshotOk(s) => SnapshotOk(s)'
               /\ SinceBefore(s) => SinceBefore(s)'
               /\ AtAfter(s) => AtAfter(s)'
    BY <1>1 DEF windowVars, SnapshotOk, Balanced, Of, SinceBefore, AtAfter
  <2>3. SnapshotsInv'
    <3>1. /\ snapshots' = snapshots /\ reset' = reset
          /\ IsSeq(snapshots) /\ reset \in BOOLEAN
          /\ \A i \in DOMAIN snapshots : SnapshotOk(snapshots[i])
      BY <1>1 DEF windowVars, WindowInv, SnapshotsInv
    <3>2. \A i \in DOMAIN snapshots :
            /\ snapshots[i].phase = "before_workload" =>
                 phase' \in {"load", "measured"} /\ SinceBefore(snapshots[i])
            /\ snapshots[i].phase = "after_workload" =>
                 phase' = "measured" /\ AtAfter(snapshots[i])
      BY <1>1 DEF WindowInv, SnapshotsInv
    <3>3. \A i, j \in DOMAIN snapshots :
            snapshots[i].phase = "before_workload" /\ snapshots[j].phase = "after_workload"
              => i < j
      BY DEF WindowInv, SnapshotsInv
    <3> QED
      BY <2>2, <3>1, <3>2, <3>3 DEF SnapshotsInv
  <2> QED
    BY <2>1, <2>3 DEF WindowInv
<1>2. CASE NextRun
  BY <1>2, NoSnapshots DEF NextRun
<1>3. CASE Capture
  BY <1>1, <1>2, <1>3 DEF Capture
<1>4. CASE Summarise
  <2>1. /\ UNCHANGED <<counts, seen, held, attempts, restarts, reset>>
        /\ \/ phase' = phase /\ snapshots' = snapshots
           \/ snapshots' = <<>>
    BY <1>4 DEF Summarise
  <2> QED
    <3>1. CASE phase' = phase /\ snapshots' = snapshots
      BY <1>1, <2>1, <3>1 DEF windowVars
    <3>2. CASE snapshots' = <<>>
      BY <2>1, <3>2, NoSnapshots
    <3> QED
      BY <2>1, <3>1, <3>2
<1>5. CASE Fail \/ Complete
  BY <1>2, <1>5 DEF Fail, Complete
<1>6. CASE Deploy \/ Analyze \/ UNCHANGED vars
  BY <1>1, <1>6 DEF Deploy, Analyze, vars, campaignVars
<1> QED
  BY <1>3, <1>4, <1>5, <1>6, SampleBeforeNext, SampleAfterNext, TrafficNext
     DEF Next, Ended

LEMMA ColumnsNext == WindowInv /\ ColumnsInv /\ [Next]_vars => ColumnsInv'
<1> SUFFICES ASSUME WindowInv, ColumnsInv, [Next]_vars, columns' # NoColumns
             PROVE  phase' \in {"before", "measured"} /\ ColumnsSound(columns)'
  BY DEF ColumnsInv
<1>1. WindowInv'
  BY WindowNext
<1>2. ASSUME columns' = columns, phase' = "before" PROVE ColumnsSound(columns)'
  <2>1. ~(Taken("before_workload")')
    BY <1>1, <1>2 DEF WindowInv, SnapshotsInv, Taken, OfPhase
  <2> QED
    BY <1>2, <2>1 DEF ColumnsInv, ColumnsSound
<1>3. ASSUME columns' = columns, UNCHANGED windowVars PROVE ColumnsSound(columns)'
  BY <1>3 DEF ColumnsInv, ColumnsSound, windowVars, Taken
<1>4. CASE Deploy \/ UNCHANGED vars
  BY <1>3, <1>4 DEF Deploy, vars, campaignVars, ColumnsInv
<1>5. CASE Capture \/ Analyze \/ SampleBefore \/ SampleAfter \/ Fail \/ Complete
  BY <1>5 DEF Capture, Analyze, SampleBefore, SampleAfter, Fail, Complete, ColumnsInv
<1>6. CASE Traffic
  BY <1>2, <1>6 DEF Traffic, campaignVars, ColumnsInv
<1>7. CASE Summarise
  <2>1. /\ columns' = RouterColumns(snapshots) /\ phase' \in {"before", "measured"}
        /\ UNCHANGED <<seen, held, reset>>
        /\ snapshots' = snapshots \/ phase' = "before"
    BY <1>7 DEF Summarise
  <2>2. ColumnsSound(RouterColumns(snapshots))
    BY ColumnsHold
  <2>3. CASE snapshots' = snapshots
    BY <2>1, <2>2, <2>3 DEF ColumnsSound, Taken
  <2>4. CASE phase' = "before"
    <3>1. ~(Taken("before_workload")')
      BY <1>1, <2>4 DEF WindowInv, SnapshotsInv, Taken, OfPhase
    <3> QED
      BY <2>1, <2>2, <3>1 DEF ColumnsSound
  <2> QED
    BY <2>1, <2>3, <2>4
<1> QED
  BY <1>4, <1>5, <1>6, <1>7 DEF Next, Ended
-----------------------------------------------------------------------------
(* The theorems *)

LEMMA InvAlways == Spec => []Inv
<1> QED
  BY InvInit, InvNext, PTL DEF Spec

\* Two runs are compared only under what is known of their servers: a run that
\* expects a setting is never compared as if it had it, whatever part of the
\* evidence was missing and whichever server was there before.
THEOREM ComparisonsTrue == Spec => []ComparedAsLabelled
<1>1. Init => ComparedAsLabelled
  BY DEF Init, ComparedAsLabelled
<1> QED
  BY <1>1, InvAlways, ComparedNext, PTL DEF Spec

\* Shared and unique prefixes are compared only if what they measured for their
\* prompts is within the tolerance of both.
THEOREM PrefixesAtParity == Spec => []PrefixComparedAtParity
<1>1. Init => ParityInv /\ PrefixComparedAtParity
  BY EmptyIsSeq DEF Init, ParityInv, PrefixComparedAtParity
<1> QED
  BY <1>1, InvAlways, ParityNext, PrefixNext, PTL DEF Spec

\* The degradation candidate of a sweep is its mildest degraded stage, in
\* whatever order the workload file lists them.
THEOREM CandidateIsMildest == Spec => []BoundaryIsFirst
<1>1. Init => BoundaryIsFirst
  BY DEF Init, BoundaryIsFirst
<1> QED
  BY <1>1, InvAlways, BoundaryNext, PTL DEF Spec

\* The router's columns count nothing that did not happen during the workload,
\* and all of it unless the router was restarted; they agree with one another.
THEOREM ColumnsReliable == Spec => []RouterColumnsSound
<1>1. Init => WindowInv /\ ColumnsInv
  BY WindowInitially DEF Init, ColumnsInv
<1>2. ColumnsInv => RouterColumnsSound
  BY DEF ColumnsInv, RouterColumnsSound
<1> QED
  BY <1>1, <1>2, WindowNext, ColumnsNext, PTL DEF Spec
=============================================================================
