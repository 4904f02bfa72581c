---------------------------- MODULE CounterWindow ----------------------------
(***************************************************************************)
(* What a workload is billed for: the threads that sample vLLM's counters  *)
(* and the GPUs during run_benchmark (src/scripts/benchmark_vllm.py), and  *)
(* the rows that load_vllm_metrics_summary and load_gpu_summary pick out.  *)
(* The vLLM sampler reads its label first and holds a lock until it has    *)
(* written; the GPU sampler measures first and reads its label afterwards. *)
(*                                                                         *)
(* The server is external: it holds requests of each workload, counts each *)
(* once at some moment while it holds it, and may go on with one whose     *)
(* client has timed out.  Workload 0 is traffic from before the run.       *)
(***************************************************************************)
EXTENDS Telemetry

CONSTANTS
  NumWorkloads,     \* entries of "runs"
  RequestCount,     \* requests of each workload
  Residual,         \* requests of earlier traffic the server may still hold
  StableSamples,    \* --drain-stable-samples
  MaxPeriodic,      \* bound on the records of the sampler thread
  GuardEnabled,     \* not --disable-drain-guard
  SampleMayFail     \* may fetching /metrics for a record fail?

Workloads == 1..NumWorkloads
Origins == 0..NumWorkloads

ASSUME SizesAssumption ==
  /\ NumWorkloads \in Nat \ {0} /\ RequestCount \in Nat \ {0}
  /\ Residual \in Nat /\ MaxPeriodic \in Nat /\ StableSamples \in Nat \ {0}
ASSUME SwitchesAssumption ==
  GuardEnabled \in BOOLEAN /\ SampleMayFail \in BOOLEAN

VARIABLES
  main, workload,     \* the main thread and the entry of "runs" it works on
  toSend,             \* requests it has still to submit
  zeros,              \* consecutive_zero_samples of the guard
  waiting, counted,   \* server: requests held, before and after being counted
  served,             \* server: requests counted so far; their sum is the counter
  label,              \* workload_name of the VllmMetricsSampler
  sampling,           \* the label the sampler thread has read, if it samples
  periodic,           \* records it has written
  records,            \* the snapshots in vllm_metrics.jsonl, per workload label
  measured,           \* whose requests the GPU sampler's measurement saw
  gpu_rows,           \* gpu_metrics.csv: <<label, whose requests, which row>>
  delta               \* per workload, the counter delta in its summary row

serverVars  == <<waiting, counted, served>>
samplerVars == <<sampling, periodic>>
gpuVars     == <<measured, gpu_rows>>
mainVars    == <<main, workload, toSend, zeros, label, delta>>
vars == <<mainVars, serverVars, samplerVars, records, gpuVars>>

NoRun == {None}      \* nvidia-smi is not running

Init ==
  /\ main = "setWorkload" /\ workload = 1 /\ toSend = 0 /\ zeros = 0
  /\ waiting \in {[o \in Origins |-> IF o = 0 THEN n ELSE 0] : n \in 0..Residual}
  /\ counted = [o \in Origins |-> 0]
  /\ served  = [o \in Origins |-> 0]
  /\ label = 0           \* "unassigned"
  /\ sampling = None /\ periodic = 0
  /\ records = [o \in Origins |-> <<>>]
  /\ delta = [k \in Workloads |-> None]
  /\ measured = NoRun /\ gpu_rows = {}

Held == [o \in Origins |-> waiting[o] + counted[o]]
HeldByAll == Sum(Held)
Owners == {o \in Origins : Held[o] > 0}
Counter == Sum(served)

-----------------------------------------------------------------------------
(* The server *)

Count(o) ==
  /\ waiting[o] > 0
  /\ waiting' = [waiting EXCEPT ![o] = @ - 1]
  /\ counted' = [counted EXCEPT ![o] = @ + 1]
  /\ served' = [served EXCEPT ![o] = @ + 1]
  /\ UNCHANGED <<mainVars, samplerVars, records, gpuVars>>

Release(o) ==
  /\ counted[o] > 0
  /\ counted' = [counted EXCEPT ![o] = @ - 1]
  /\ UNCHANGED <<mainVars, samplerVars, records, waiting, served, gpuVars>>

-----------------------------------------------------------------------------
(* The GPU sampler's thread: nvidia-smi measures ... *)

GpuMeasures ==
  /\ measured = NoRun
  /\ measured' = Owners
  /\ UNCHANGED <<mainVars, serverVars, samplerVars, records, gpu_rows>>

\* Is the next row the first one of its label?
Place == IF \E row \in gpu_rows : row[1] = label THEN "later" ELSE "first"

\* ... and, unless it failed or timed out, its rows get the label of now.
GpuWrites ==
  /\ measured # NoRun
  /\ gpu_rows' \in {gpu_rows, gpu_rows \cup {<<label, measured, Place>>}}
  /\ measured' = NoRun
  /\ UNCHANGED <<mainVars, serverVars, samplerVars, records>>

-----------------------------------------------------------------------------
(* The records.  others: whose requests the server held beside its own. *)

Record(phase, name) ==
  [phase |-> phase, value |-> Counter, others |-> Owners \ {name}]

\* A record with an error instead of metrics is passed over by the summary and
\* not kept here.
Write(name, phase) ==
  \/ records' = [records EXCEPT ![name] = Append(@, Record(phase, name))]
  \/ SampleMayFail /\ UNCHANGED records

\* The sampler thread takes sample_lock and reads the label first ...
SamplerReadsLabel ==
  /\ sampling = None
  /\ periodic < MaxPeriodic
  /\ sampling' = label
  /\ UNCHANGED <<mainVars, serverVars, periodic, records, gpuVars>>

\* ... then it fetches, writes and releases the lock.
SamplerWrites ==
  /\ sampling # None
  /\ Write(sampling, "none")
  /\ sampling' = None
  /\ periodic' = periodic + 1
  /\ UNCHANGED <<mainVars, serverVars, gpuVars>>

\* sample_now, in the main thread, waits for sample_lock.  The label cannot
\* change meanwhile, so its three steps are one.

LockFree == sampling = None

\* Mutation: sample_lock is not taken.
SampleNow_NoLock(phase, then) ==
  /\ Write(label, phase)
  /\ main' = then
  /\ UNCHANGED <<workload, toSend, zeros, label, delta, serverVars, samplerVars,
                 gpuVars>>

SampleNow(phase, then) ==
  /\ LockFree
  /\ Write(label, phase)
  /\ main' = then
  /\ UNCHANGED <<workload, toSend, zeros, label, delta, serverVars, samplerVars,
                 gpuVars>>

-----------------------------------------------------------------------------
(* load_vllm_metrics_summary *)

CounterSnapshots(k) == Window(records[k])

CounterDelta(k) ==
  LET present == CounterSnapshots(k)
  IN  Delta([i \in DOMAIN present |-> present[i].value])

-----------------------------------------------------------------------------
(* The main thread *)

SetWorkload ==
  /\ main = "setWorkload"
  /\ label' = workload
  /\ zeros' = 0
  /\ main' = IF GuardEnabled THEN "drainBefore" ELSE "sampleBefore"
  /\ UNCHANGED <<workload, toSend, delta, serverVars, samplerVars, records,
                 gpuVars>>

Idle == HeldByAll = 0

\* One poll of wait_for_server_drain; a failed one counts like a busy one.
Poll(at, then) ==
  /\ main = at
  /\ \E seen \in {Idle, FALSE} :
       /\ zeros' = IF seen THEN zeros + 1 ELSE 0
       /\ main' = IF zeros' >= StableSamples THEN then ELSE at
  /\ UNCHANGED <<workload, toSend, label, delta, serverVars, samplerVars, records,
                 gpuVars>>

DrainBefore == Poll("drainBefore", "sampleBefore")
DrainAfter  == Poll("drainAfter", "sampleAfter")

SampleBefore ==
  main = "sampleBefore" /\ SampleNow("before_workload", "start")

Start ==
  /\ main = "start"
  /\ toSend' = RequestCount
  /\ main' = "send"
  /\ UNCHANGED <<workload, zeros, label, delta, serverVars, samplerVars, records,
                 gpuVars>>

Send ==
  /\ main = "send"
  /\ toSend > 0
  /\ toSend' = toSend - 1
  /\ waiting' = [waiting EXCEPT ![workload] = @ + 1]
  /\ UNCHANGED <<main, workload, zeros, label, delta, counted, served,
                 samplerVars, records, gpuVars>>

\* Mutation: the second guard is skipped.
ClientsDone_NoGuard ==
  /\ main = "send" /\ toSend = 0
  /\ zeros' = 0
  /\ main' = "sampleAfter"
  /\ UNCHANGED <<workload, toSend, label, delta, serverVars, samplerVars, records,
                 gpuVars>>

\* Every client has its result; one that timed out leaves its request behind.
ClientsDone ==
  /\ main = "send" /\ toSend = 0
  /\ zeros' = 0
  /\ main' = IF GuardEnabled THEN "drainAfter" ELSE "sampleAfter"
  /\ UNCHANGED <<workload, toSend, label, delta, serverVars, samplerVars, records,
                 gpuVars>>

SampleAfter ==
  main = "sampleAfter" /\ SampleNow("after_workload", "summarise")

Summarise ==
  /\ main = "summarise"
  /\ delta' = [delta EXCEPT ![workload] = CounterDelta(workload)]
  /\ IF workload < NumWorkloads
     THEN main' = "setWorkload" /\ workload' = workload + 1
     ELSE main' = "ended" /\ UNCHANGED workload
  /\ UNCHANGED <<toSend, zeros, label, serverVars, samplerVars, records, gpuVars>>

\* The guard's deadline: the run is aborted.
GuardTimesOut ==
  /\ main \in {"drainBefore", "drainAfter"}
  /\ main' = "ended"
  /\ UNCHANGED <<workload, toSend, zeros, label, delta, serverVars, samplerVars,
                 records, gpuVars>>

Ended == main = "ended" /\ UNCHANGED vars

Next ==
  \/ SetWorkload \/ DrainBefore \/ SampleBefore \/ Start \/ Send \/ ClientsDone
  \/ DrainAfter \/ SampleAfter \/ Summarise \/ GuardTimesOut \/ Ended
  \/ SamplerReadsLabel \/ SamplerWrites \/ GpuMeasures \/ GpuWrites
  \/ \E o \in Origins : Count(o) \/ Release(o)

Spec == Init /\ [][Next]_vars

-----------------------------------------------------------------------------

\* A workload is billed for exactly its own requests: the counter delta of its
\* summary row is the number of its requests the server counted, neither more
\* (earlier traffic, the next workload) nor less (requests of clients that
\* timed out and were counted after the last client had its result).
BilledExactly ==
  \A k \in Workloads : delta[k] # None => delta[k] = served[k]

\* A record filed under a workload was taken while the server held nobody
\* else's requests, so the maxima of its gauges are its own: the label of a
\* sample cannot grow stale while the sample is under way.  Only traffic from
\* before the run may show under the first workload, until its guard passes.
LabelledSamplesPure ==
  \A k \in Workloads : \A i \in DOMAIN records[k] :
    records[k][i].others \subseteq IF k = 1 THEN {0} ELSE {}

\* load_gpu_summary takes the rows of a label for the workload's own, although
\* a row gets the label of the moment nvidia-smi has ended, not of the moment
\* it measured.  With the guard at most one row per change of workload is filed
\* wrongly, the first, however long nvidia-smi takes: every later row of a
\* label saw only the requests of its own workload.
GpuRowsPure ==
  GuardEnabled =>
    \A row \in gpu_rows :
      row[1] > 1 /\ row[3] = "later" => row[2] \subseteq {row[1]}

\* No workload is billed for traffic from before it.
NoEarlierTraffic ==
  \A k \in Workloads : delta[k] <= served[k]
=============================================================================
