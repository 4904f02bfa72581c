---------------------------- MODULE BenchmarkRun ----------------------------
(***************************************************************************)
(* One run of the load generator: run_benchmark, its ThreadPoolExecutor    *)
(* and the counters it exports (src/scripts/benchmark_vllm.py).  The main  *)
(* thread takes the workloads in turn: guard, submit every request, read   *)
(* the results as they complete, leave the executor, guard, summarise.     *)
(* The executor's threads run post_streaming_chat and, when a request      *)
(* ends, the done-callback that updates the exported counters.             *)
(***************************************************************************)
EXTENDS Naturals, Sequences, FiniteSets

CONSTANTS
  NumWorkloads,   \* how many entries "runs" has
  RequestCount,   \* requests of each workload
  Concurrency,    \* threads of the executor (concurrency or max_in_flight)
  MayRaise,       \* may post_streaming_chat let an exception out?
  GuardMayFail,   \* may the drain guard time out?
  MayInterrupt    \* may the operator press Ctrl-C?

Workloads == 1..NumWorkloads
Indices == 1..RequestCount

ASSUME SizesAssumption ==
  /\ NumWorkloads \in Nat \ {0} /\ RequestCount \in Nat \ {0}
  /\ Concurrency \in Nat \ {0}
ASSUME SwitchesAssumption ==
  /\ MayRaise \in BOOLEAN /\ GuardMayFail \in BOOLEAN /\ MayInterrupt \in BOOLEAN

VARIABLES
  main,       \* where the main thread stands
  workload,   \* the entry of "runs" it works on
  next,       \* the index it submits
  future,     \* state of the workload's futures
  result,     \* what each future holds
  callback,   \* whether the done-callback is attached and has run
  collected,  \* futures as_completed has yielded
  queue,      \* work queue of the executor
  submitted, inflight, completed,   \* BenchmarkMetricsState, per workload
  request_log,  \* the rows of requests.jsonl, <<workload, index>>
  summaries,    \* workloads that have a summary row
  status        \* metadata["status"]

exportVars == <<submitted, inflight, completed>>
poolVars   == <<future, result, callback, queue>>
outVars    == <<request_log, summaries, status>>
vars == <<main, workload, next, collected, poolVars, exportVars, outVars>>

NoFuture == [i \in Indices |-> "none"]

Init ==
  /\ main = "evidence" /\ workload = 1 /\ next = 1
  /\ future = NoFuture /\ result = NoFuture /\ callback = NoFuture
  /\ collected = {} /\ queue = <<>>
  /\ submitted = [k \in Workloads |-> 0]
  /\ inflight  = [k \in Workloads |-> 0]
  /\ completed = [k \in Workloads |-> 0]
  /\ request_log = {} /\ summaries = {} /\ status = "unwritten"

-----------------------------------------------------------------------------
(* BenchmarkMetricsState *)

MarkSubmitted(k) ==
  /\ submitted' = [submitted EXCEPT ![k] = @ + 1]
  /\ inflight' = [inflight EXCEPT ![k] = @ + 1]
  /\ UNCHANGED completed

Observe(k) ==
  /\ inflight' = [inflight EXCEPT ![k] = IF @ > 0 THEN @ - 1 ELSE 0]
  /\ completed' = [completed EXCEPT ![k] = @ + 1]
  /\ UNCHANGED submitted

-----------------------------------------------------------------------------
(* The executor's threads *)

Busy == {i \in Indices : future[i] = "running" \/ callback[i] = "invoking"}

\* A free thread takes the oldest work item.
StartRequest ==
  /\ queue # <<>>
  /\ Cardinality(Busy) < Concurrency
  /\ future' = [future EXCEPT ![Head(queue)] = "running"]
  /\ queue' = Tail(queue)
  /\ UNCHANGED <<main, workload, next, result, callback, collected, exportVars,
                 outVars>>

\* post_streaming_chat ends with a result row, successful or not, or raises
\* (exc.read() in its HTTPError handler may).  set_result wakes the main
\* thread first and calls the callbacks it finds afterwards.
FinishRequest(i) ==
  /\ future[i] = "running"
  /\ future' = [future EXCEPT ![i] = "finished"]
  /\ \E r \in {"row"} \cup IF MayRaise THEN {"raised"} ELSE {} :
       result' = [result EXCEPT ![i] = r]
  /\ callback' =
       [callback EXCEPT ![i] = IF @ = "attached" THEN "invoking" ELSE @]
  /\ UNCHANGED <<main, workload, next, queue, collected, exportVars, outVars>>

\* observe_completed counts a raised exception as an error of its type.
InvokeCallback(i) ==
  /\ callback[i] = "invoking"
  /\ callback' = [callback EXCEPT ![i] = "done"]
  /\ Observe(workload)
  /\ UNCHANGED <<main, workload, next, future, result, queue, collected, outVars>>

-----------------------------------------------------------------------------
(* The main thread *)

Goto(label) == main' = label

Over == {"ended", "killed", "crashed"}

\* The metadata is written for the first time; a server configuration, then a
\* GPU topology, other than expected ends the program before anything starts.
CheckEvidence ==
  /\ main = "evidence"
  /\ \/ status' = "running" /\ Goto("start")
     \/ /\ status' \in {"server_config_mismatch", "hardware_evidence_mismatch"}
        /\ Goto("ended")
  /\ UNCHANGED <<workload, next, collected, poolVars, exportVars, request_log,
                 summaries>>

\* BenchmarkMetricsServer binds its port, or raises OSError before the try
\* block; then the samplers and the server start.
StartServices ==
  /\ main = "start"
  /\ Goto("drainBefore") \/ Goto("crashed")
  /\ UNCHANGED <<workload, next, collected, poolVars, exportVars, outVars>>

\* wait_for_server_drain, before the workload.
DrainBefore ==
  /\ main = "drainBefore"
  /\ Goto("submit")
  /\ next' = 1 /\ collected' = {}
  /\ future' = NoFuture /\ result' = NoFuture /\ callback' = NoFuture
  /\ UNCHANGED <<workload, queue, exportVars, outVars>>

\* Mutation: the callback is there before the request has been counted.
Submit_AttachFirst ==
  /\ main = "submit"
  /\ future' = [future EXCEPT ![next] = "queued"]
  /\ callback' = [callback EXCEPT ![next] = "attached"]
  /\ queue' = Append(queue, next)
  /\ Goto("mark")
  /\ UNCHANGED <<workload, next, result, collected, exportVars, outVars>>

\* executor.submit ...
Submit ==
  /\ main = "submit"
  /\ future' = [future EXCEPT ![next] = "queued"]
  /\ queue' = Append(queue, next)
  /\ Goto("mark")
  /\ UNCHANGED <<workload, next, result, callback, collected, exportVars, outVars>>

\* ... then register_future: count it ...
Mark ==
  /\ main = "mark"
  /\ MarkSubmitted(workload)
  /\ Goto("attach")
  /\ UNCHANGED <<workload, next, collected, poolVars, outVars>>

\* ... and add_done_callback, which runs the callback at once, in this thread,
\* when the future has finished.
Attach ==
  /\ main = "attach"
  /\ IF future[next] = "finished"
     THEN callback' = [callback EXCEPT ![next] = "done"] /\ Observe(workload)
     ELSE callback' = [callback EXCEPT ![next] = "attached"] /\ UNCHANGED exportVars
  /\ next' = next + 1
  /\ Goto(IF next < RequestCount THEN "submit" ELSE "collect")
  /\ UNCHANGED <<workload, future, result, queue, collected, outVars>>

\* Mutation: a request that raised is skipped.
Collect_SkipsRaised(i) ==
  /\ main = "collect"
  /\ future[i] = "finished" /\ i \notin collected
  /\ collected' = collected \cup {i}
  /\ request_log' = IF result[i] = "row"
       THEN request_log \cup {<<workload, i>>} ELSE request_log
  /\ Goto(IF collected' = Indices THEN "shutdown" ELSE "collect")
  /\ UNCHANGED <<workload, next, poolVars, exportVars, summaries, status>>

\* Mutation: the result loop counts the completion as well.
Collect_ObservesToo(i) ==
  /\ main = "collect"
  /\ future[i] = "finished" /\ i \notin collected
  /\ collected' = collected \cup {i}
  /\ Observe(workload)
  /\ IF result[i] = "row"
     THEN /\ request_log' = request_log \cup {<<workload, i>>}
          /\ Goto(IF collected' = Indices THEN "shutdown" ELSE "collect")
     ELSE Goto("unwind") /\ UNCHANGED request_log
  /\ UNCHANGED <<workload, next, poolVars, summaries, status>>

\* as_completed yields a finished future; its row is written to the log, or
\* its exception leaves the loop.
Collect(i) ==
  /\ main = "collect"
  /\ future[i] = "finished" /\ i \notin collected
  /\ collected' = collected \cup {i}
  /\ IF result[i] = "row"
     THEN /\ request_log' = request_log \cup {<<workload, i>>}
          /\ Goto(IF collected' = Indices THEN "shutdown" ELSE "collect")
     ELSE Goto("unwind") /\ UNCHANGED request_log
  /\ UNCHANGED <<workload, next, poolVars, exportVars, summaries, status>>

\* Mutation: leaving waits only when every request has been collected.
PoolIdle_Collected == queue = <<>> /\ Busy = {} /\ collected = Indices

\* executor.__exit__ joins the threads: whatever is queued still runs.
PoolIdle == queue = <<>> /\ Busy = {}

Shutdown ==
  /\ main = "shutdown"
  /\ PoolIdle
  /\ Goto("drainAfter")
  /\ UNCHANGED <<workload, next, collected, poolVars, exportVars, outVars>>

\* The second guard passes and the workload gets its summary row.
Summarise ==
  /\ main = "drainAfter"
  /\ summaries' = summaries \cup {workload}
  /\ IF workload < NumWorkloads
     THEN workload' = workload + 1 /\ Goto("drainBefore")
     ELSE UNCHANGED workload /\ Goto("finish")
  /\ UNCHANGED <<next, collected, poolVars, exportVars, request_log, status>>

\* The guard timed out: RuntimeError.
GuardFails ==
  /\ GuardMayFail
  /\ main \in {"drainBefore", "drainAfter"}
  /\ Goto("unwind")
  /\ UNCHANGED <<workload, next, collected, poolVars, exportVars, outVars>>

\* Ctrl-C reaches the main thread anywhere: before and after the try block too,
\* and while another exception is on its way out.
Interrupt ==
  /\ MayInterrupt
  /\ main \notin {"interrupted"} \cup Over
  /\ Goto("interrupted")
  /\ UNCHANGED <<workload, next, collected, poolVars, exportVars, outVars>>

\* Mutation: the finally block leaves the metadata alone.
Unwind_NoVerdict ==
  /\ main \in {"unwind", "interrupted"}
  /\ PoolIdle
  /\ Goto(IF main = "unwind" THEN "ended" ELSE "killed")
  /\ UNCHANGED <<workload, next, collected, poolVars, exportVars, outVars>>

\* The exception passes executor.__exit__ and reaches the finally block, which
\* rewrites the metadata only for an Exception.
Unwind ==
  /\ main \in {"unwind", "interrupted"}
  /\ PoolIdle
  /\ status' = IF main = "unwind" THEN "failed" ELSE status
  /\ Goto(IF main = "unwind" THEN "ended" ELSE "killed")
  /\ UNCHANGED <<workload, next, collected, poolVars, exportVars, request_log,
                 summaries>>

\* After the loop: the verdict on prompt parity is the data's ...
Complete ==
  /\ main = "finish"
  /\ status' \in {"completed", "prompt_parity_failed"}
  /\ Goto("write")
  /\ UNCHANGED <<workload, next, collected, poolVars, exportVars, request_log,
                 summaries>>

\* ... and only then summary.csv and summary.md are written, which may fail.
WriteSummary ==
  /\ main = "write"
  /\ Goto("ended") \/ Goto("crashed")
  /\ UNCHANGED <<workload, next, collected, poolVars, exportVars, outVars>>

Ended == main \in Over /\ UNCHANGED vars

MainStep ==
  \/ CheckEvidence \/ StartServices
  \/ DrainBefore \/ Submit \/ Mark \/ Attach
  \/ \E i \in Indices : Collect(i)
  \/ Shutdown \/ Summarise
  \/ Unwind \/ Complete \/ WriteSummary

PoolStep ==
  \/ StartRequest
  \/ \E i \in Indices : FinishRequest(i) \/ InvokeCallback(i)

Next == MainStep \/ PoolStep \/ GuardFails \/ Interrupt \/ Ended

Spec == Init /\ [][Next]_vars

\* The guard and every request end by their timeouts, and threads run.
FairSpec == Spec /\ WF_vars(MainStep) /\ WF_vars(PoolStep)

-----------------------------------------------------------------------------

TypeOK ==
  /\ main \in {"evidence", "start", "drainBefore", "submit", "mark", "attach",
               "collect", "shutdown", "drainAfter", "finish", "write", "unwind",
               "interrupted"} \cup Over
  /\ workload \in Workloads /\ next \in 1..(RequestCount + 1)
  /\ future \in [Indices -> {"none", "queued", "running", "finished"}]
  /\ result \in [Indices -> {"none", "row", "raised"}]
  /\ callback \in [Indices -> {"none", "attached", "invoking", "done"}]
  /\ collected \subseteq Indices
  /\ queue \in Seq(Indices)
  /\ submitted \in [Workloads -> 0..RequestCount]
  /\ inflight \in [Workloads -> 0..RequestCount]
  /\ completed \in [Workloads -> 0..RequestCount]
  /\ request_log \subseteq Workloads \X Indices
  /\ summaries \subseteq Workloads
  /\ status \in {"unwritten", "running", "server_config_mismatch",
                 "hardware_evidence_mismatch", "failed", "completed",
                 "prompt_parity_failed"}

\* At every scrape the exported counters add up: what was submitted is either
\* in flight or completed.  It takes mark_submitted to come before the
\* callback of the same request, whichever thread runs it.
ExportConserved ==
  \A k \in Workloads : submitted[k] = inflight[k] + completed[k]

\* A workload with a summary row is complete: each of its requests has its row
\* in requests.jsonl, and the exported counters have settled, although the
\* main thread learns of a result before its callback has run.
SummarisedIsComplete ==
  \A k \in summaries :
    /\ \A i \in Indices : <<k, i>> \in request_log
    /\ submitted[k] = RequestCount /\ completed[k] = RequestCount
    /\ inflight[k] = 0

\* When the program has ended, the status in metadata.json is the truth: it
\* completed exactly when every workload was summarised, it names a mismatch
\* only if no request was made, and it failed otherwise.  A Ctrl-C leaves it
\* as it was, "running" even on the way out of a failure, or completed with
\* no summary.csv; an exporter port that is taken leaves it "running" for good,
\* and a summary.csv that cannot be written leaves it completed.
StatusTellsOutcome ==
  /\ main = "ended" =>
       /\ status \notin {"unwritten", "running"}
       /\ status \in {"completed", "prompt_parity_failed"} <=> summaries = Workloads
       /\ status # "failed" /\ summaries # Workloads =>
            future = NoFuture /\ request_log = {}
  /\ main = "killed" =>
       IF summaries = Workloads THEN status \notin {"unwritten", "failed"}
       ELSE status \in {"unwritten", "running"}
  /\ main = "crashed" =>
       IF summaries = Workloads THEN status \in {"completed", "prompt_parity_failed"}
       ELSE status = "running" /\ future = NoFuture

\* A failed run still holds the record of every request that was made in its
\* last workload, the unexpected failures included.
UnexpectedFailuresRetained ==
  main = "ended" /\ status = "failed" =>
    \A i \in Indices : future[i] = "finished" => <<workload, i>> \in request_log

\* The run ends, whatever fails: no exception leaves it waiting for a thread.
RunEnds == <>(main \in Over)
=============================================================================
