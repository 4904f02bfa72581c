------------------------------ MODULE Evidence ------------------------------
(***************************************************************************)
(* The evidence a benchmark gathers about the server before it starts      *)
(* (capture_server_evidence, compare_gpu_topology and the functions they   *)
(* use in src/scripts/benchmark_vllm.py).                                  *)
(*                                                                         *)
(* An argument of a command line is a record: a word has the key "", an    *)
(* option its key and the text after "=", or "" without one; negated is    *)
(* set for --no-enable-....  Texts are in lower case, numbers written      *)
(* alike.                                                                  *)
(***************************************************************************)
EXTENDS Integers, Sequences, FiniteSets, FiniteSetsExt, Functions

Word(text) == [key |-> "", text |-> text, negated |-> FALSE]
Option(key, text) == [key |-> key, text |-> text, negated |-> FALSE]
Negation(key) == [key |-> key, text |-> "", negated |-> TRUE]

\* discover_vllm_launch_command: the command given, or that of the process
\* with the lowest number that looks like a server; <<>> without one.
DiscoverLaunch(override, processes) ==
  IF override # <<>> THEN override
  ELSE IF processes = {} THEN <<>>
  ELSE (CHOOSE p \in processes : \A q \in processes : p.pid <= q.pid).argv

\* normalize_config_value.
Normalize(text) ==
  CASE text \in {"yes", "on", "true"} -> "true"
    [] text \in {"no", "off", "false"} -> "false"
    [] OTHER -> text

\* Mutation: the first mention of an option counts.
LaunchConfig_First(argv) ==
  LET At(key) == Min({i \in DOMAIN argv : argv[i].key = key})
      Value(i) ==
        IF argv[i].negated THEN "false"
        ELSE IF argv[i].text # "" THEN argv[i].text
        ELSE IF i < Len(argv) /\ argv[i + 1].key = "" THEN argv[i + 1].text
        ELSE "true"
  IN  [key \in {a.key : a \in Range(argv)} \ {""} |-> Value(At(key))]

\* launch_config_from_argv: the last mention of an option counts; without "=",
\* a word that follows is its value.
LaunchConfig(argv) ==
  LET At(key) == Max({i \in DOMAIN argv : argv[i].key = key})
      Value(i) ==
        IF argv[i].negated THEN "false"
        ELSE IF argv[i].text # "" THEN argv[i].text
        ELSE IF i < Len(argv) /\ argv[i + 1].key = "" THEN argv[i + 1].text
        ELSE "true"
  IN  [key \in {a.key : a \in Range(argv)} \ {""} |-> Value(At(key))]

\* Mutation: an expectation nothing is known about is taken as met.
CompareServerConfig_Lenient(expected, launch_config, metrics_config) ==
  {[key |-> key, matched |->
      \A config \in {launch_config} \cup metrics_config :
        key \in DOMAIN config => Normalize(config[key]) = Normalize(expected[key])] :
     key \in DOMAIN expected}

\* compare_server_config: an expectation is met if the command line or one of
\* the config metrics says so, whatever the others say.
CompareServerConfig(expected, launch_config, metrics_config) ==
  {[key |-> key, matched |->
      \E config \in {launch_config} \cup metrics_config :
        key \in DOMAIN config /\ Normalize(config[key]) = Normalize(expected[key])] :
     key \in DOMAIN expected}

\* compare_gpu_topology; gpus is a sequence of names, a name the set of the
\* texts it contains.  Expectations not given are "" and 0.
CompareGpuTopology(gpus, name, count) ==
  {[key |-> "gpu_name_contains",
    matched |-> gpus # <<>> /\ \A gpu \in Range(gpus) : name \in gpu] :
     x \in {name} \ {""}}
    \cup {[key |-> "local_gpu_count", matched |-> Len(gpus) = count] :
            x \in {count} \ {0}}

Mismatches(comparisons) == {c \in comparisons : ~c.matched}

\* config_verified and hardware_verified in the analyzers.
Verified(comparisons) == comparisons # {} /\ Mismatches(comparisons) = {}
=============================================================================
