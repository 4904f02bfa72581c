-------------------------- MODULE RequestSchedule ---------------------------
(***************************************************************************)
(* One workload of the load generator in time (run_benchmark and           *)
(* post_streaming_chat in src/scripts/benchmark_vllm.py).  The main thread *)
(* sleeps until each request is due and submits it; the executor's threads *)
(* take the requests in turn, decide about admission, send, and read the   *)
(* stream; every request leaves one record, and the records one summary.   *)
(*                                                                         *)
(* Time is a count of ticks from workload_started.  A thread that can go   *)
(* on does so within its tick, except the main thread, which may wake up   *)
(* MaxLag ticks late.                                                      *)
(***************************************************************************)
EXTENDS Summary

CONSTANTS
  Entries,      \* candidate entries of a workload file
  MaxModelLen,  \* the file's max_model_len, or None
  Failures,     \* <<status, markers of the body>> of HTTP error answers
  Breaks,       \* markers of the exceptions that end a request otherwise
  Timeout,      \* timeout_seconds, in ticks
  MaxLines,     \* data lines of a stream
  MaxLag        \* how late the main thread may wake up, in ticks

ASSUME TimesAssumption == Timeout \in Nat \ {0} /\ MaxLag \in Nat /\ MaxLines \in Nat
ASSUME EntriesAssumption ==
  \A run \in Entries :
    /\ run.request_count \in Nat
    /\ {run.interval, run.burst_size, run.max_in_flight, run.concurrency} \subseteq Int

VARIABLES
  w,         \* the entry that runs
  now,
  submitted, \* how many requests have been submitted
  state,     \* where each request stands
  started,   \* started_perf of each request
  heard,     \* when its connection last gave something
  lines,     \* data lines read
  texts,     \* those that held text
  ttft,      \* ttft_s
  record,    \* the result row
  summary    \* the summary row

vars == <<w, now, submitted, state, started, heard, lines, texts, ttft, record,
          summary>>

Requests == 0..(w.request_count - 1)

In(s) == {i \in Requests : state[i] = s}
Active == In("sending") \cup In("streaming")
Done == In("done") = Requests

NoRecord == [success |-> FALSE]
NoSummary == [request_count |-> 0]

\* run_benchmark calls validate_workload first.
Accepted(run) == ValidWorkload(<<run>>, MaxModelLen)

Init ==
  /\ w \in {run \in Entries : Accepted(run)}
  /\ now = 0 /\ submitted = 0
  /\ state = [i \in Requests |-> "planned"]
  /\ started = [i \in Requests |-> None]
  /\ heard = [i \in Requests |-> None]
  /\ lines = [i \in Requests |-> 0]
  /\ texts = [i \in Requests |-> 0]
  /\ ttft = [i \in Requests |-> None]
  /\ record = [i \in Requests |-> NoRecord]
  /\ summary = NoSummary

-----------------------------------------------------------------------------
(* The record of a request. *)

\* classify_error: the first of these that the message or the status shows.
ClassifyError(markers, status) ==
  CASE "nccl" \in markers -> "nccl_error"
    [] "nccl" \notin markers /\ "worker" \in markers -> "distributed_worker_error"
    [] markers \cap {"nccl", "worker"} = {}
       /\ (status = 429 \/ "rejected" \in markers) -> "rejected"
    [] OTHER ->
         IF "oom" \in markers THEN "oom"
         ELSE IF "timeout" \in markers THEN "timeout"
         ELSE IF "network" \in markers THEN "network_error"
         ELSE IF status >= 500 THEN "server_error"
         ELSE IF status >= 400 THEN "client_error"
         ELSE "error"

Oversized(i) ==
  /\ w.admission_action # "none" /\ Given(PromptTarget(w, i))
  /\ PromptTarget(w, i) > w.admission_limit

Rejected(i) == Oversized(i) /\ w.admission_action = "reject"

\* effective_prompt_tokens_target.
PromptSize(i) == IF Oversized(i) THEN w.admission_limit ELSE PromptTarget(w, i)

\* Mutation: the delay is taken from the start of the workload.
Record_DelayFromStart(i, type, start, tokens) ==
  [success |-> type = "none", error_type |-> type,
   timeout |-> type = "timeout", oom |-> type = "oom",
   rejected |-> type \in {"rejected", "admission_rejected"},
   latency |-> now - start, ttft |-> IF type = "none" THEN ttft[i] ELSE None,
   prompt_tokens |-> IF type # "none" THEN None
                     ELSE IF Given(PromptSize(i)) THEN PromptSize(i) ELSE 1,
   output_tokens |-> tokens, start |-> start,
   scheduled_offset |-> IF OpenLoop(w) THEN Due(w, i) ELSE None,
   delay |-> IF OpenLoop(w) THEN start ELSE None,
   scheduled_latency |-> IF OpenLoop(w) THEN now - Due(w, i) ELSE None]

\* A row of requests.jsonl that ends now.  scheduling_fields: without an open
\* loop there is nothing to be late for.  Tokens are counted by the lines of
\* text, as the usage event of the stream counts them.
Record(i, type, start, tokens) ==
  [success |-> type = "none", error_type |-> type,
   timeout |-> type = "timeout", oom |-> type = "oom",
   rejected |-> type \in {"rejected", "admission_rejected"},
   latency |-> now - start, ttft |-> IF type = "none" THEN ttft[i] ELSE None,
   prompt_tokens |-> IF type # "none" THEN None
                     ELSE IF Given(PromptSize(i)) THEN PromptSize(i) ELSE 1,
   output_tokens |-> tokens, start |-> start,
   scheduled_offset |-> IF OpenLoop(w) THEN Due(w, i) ELSE None,
   delay |-> IF OpenLoop(w) THEN Max({0, start - Due(w, i)}) ELSE None,
   scheduled_latency |-> IF OpenLoop(w) THEN now - Due(w, i) ELSE None]

AdmissionRecord(i) == Record(i, "admission_rejected", now, 0)
FailureRecord(i, type) == Record(i, type, started[i], 0)
SuccessRecord(i) == Record(i, "none", started[i], texts[i])

-----------------------------------------------------------------------------
(* The threads. *)

\* time.sleep until the request is due, then executor.submit.
Submit ==
  /\ submitted \in Requests
  /\ now >= Due(w, submitted)
  /\ submitted' = submitted + 1
  /\ state' = [state EXCEPT ![submitted] = "queued"]
  /\ UNCHANGED <<w, now, started, heard, lines, texts, ttft, record, summary>>

\* Mutation: the executor has one thread, whatever the limit.
ThreadFree_Single == Active = {}

ThreadFree == Cardinality(Active) < InFlightLimit(w)

End(i, row) ==
  /\ state' = [state EXCEPT ![i] = "done"]
  /\ record' = [record EXCEPT ![i] = row]
  /\ heard' = [heard EXCEPT ![i] = None]
  /\ lines' = [lines EXCEPT ![i] = 0]
  /\ texts' = [texts EXCEPT ![i] = 0]
  /\ ttft' = [ttft EXCEPT ![i] = None]
  /\ UNCHANGED <<w, now, submitted, summary>>

\* Mutation: the request that was submitted last goes first.
Take_Newest(i) ==
  /\ ThreadFree
  /\ i \in In("queued") /\ i = Max(In("queued"))
  /\ ~Rejected(i)
  /\ state' = [state EXCEPT ![i] = "sending"]
  /\ started' = [started EXCEPT ![i] = now]
  /\ heard' = [heard EXCEPT ![i] = now]
  /\ UNCHANGED <<w, now, submitted, lines, texts, ttft, record, summary>>

\* A free thread takes the oldest request, builds the prompt and sends it.
Take(i) ==
  /\ ThreadFree
  /\ i \in In("queued") /\ i = Min(In("queued"))
  /\ ~Rejected(i)
  /\ state' = [state EXCEPT ![i] = "sending"]
  /\ started' = [started EXCEPT ![i] = now]
  /\ heard' = [heard EXCEPT ![i] = now]
  /\ UNCHANGED <<w, now, submitted, lines, texts, ttft, record, summary>>

\* ... or turns it away.
TurnAway(i) ==
  /\ ThreadFree
  /\ i \in In("queued") /\ i = Min(In("queued"))
  /\ Rejected(i)
  /\ started' = [started EXCEPT ![i] = now]
  /\ End(i, AdmissionRecord(i))

\* The status line and the headers arrive.
Respond(i) ==
  /\ i \in In("sending")
  /\ state' = [state EXCEPT ![i] = "streaming"]
  /\ heard' = [heard EXCEPT ![i] = now]
  /\ UNCHANGED <<w, now, submitted, started, lines, texts, ttft, record, summary>>

\* HTTPError, its body read at once.
Refuse(i) ==
  /\ i \in In("sending")
  /\ \E f \in Failures : End(i, FailureRecord(i, ClassifyError(f[2], f[1])))
  /\ UNCHANGED started

\* URLError, a reset connection, an incomplete read.
Break(i) ==
  /\ i \in Active
  /\ \E markers \in Breaks : End(i, FailureRecord(i, ClassifyError(markers, None)))
  /\ UNCHANGED started

\* A data line, with or without text; comments and empty lines are the latter.
ReadLine(i) ==
  /\ i \in In("streaming")
  /\ lines[i] < MaxLines
  /\ lines' = [lines EXCEPT ![i] = @ + 1]
  /\ heard' = [heard EXCEPT ![i] = now]
  /\ \/ UNCHANGED <<texts, ttft>>
     \/ /\ texts' = [texts EXCEPT ![i] = @ + 1]
        /\ ttft' = [ttft EXCEPT ![i] = IF @ = None THEN now - started[i] ELSE @]
  /\ UNCHANGED <<w, now, submitted, state, started, record, summary>>

\* data: [DONE], or the end of the stream without it.
Finish(i) ==
  /\ i \in In("streaming")
  /\ End(i, SuccessRecord(i))
  /\ UNCHANGED started

\* The connection has been silent for timeout_seconds.
TimeOut(i) ==
  /\ i \in Active
  /\ now - heard[i] >= Timeout
  /\ End(i, FailureRecord(i, ClassifyError({"timeout", "network"}, None)))
  /\ UNCHANGED started

RecordSequence == [k \in 1..w.request_count |-> record[k - 1]]

\* Every future has been collected.
Summarise ==
  /\ Done
  /\ summary = NoSummary
  /\ summary' = SummarizeWorkload(w, RecordSequence, now, <<>>, <<>>, 1)
  /\ UNCHANGED <<w, now, submitted, state, started, heard, lines, texts, ttft,
                 record>>

Tick ==
  /\ ~Done
  /\ submitted \in Requests => now < Due(w, submitted) + MaxLag
  /\ ThreadFree => In("queued") = {}
  /\ \A i \in Active : now - heard[i] < Timeout
  /\ now' = now + 1
  /\ UNCHANGED <<w, submitted, state, started, heard, lines, texts, ttft, record,
                 summary>>

RequestStep(i) ==
  Take(i) \/ TurnAway(i) \/ Respond(i) \/ Refuse(i) \/ Break(i) \/ ReadLine(i)
    \/ Finish(i) \/ TimeOut(i)

Ended == summary # NoSummary /\ UNCHANGED vars

Next == Submit \/ (\E i \in Requests : RequestStep(i)) \/ Tick \/ Summarise \/ Ended

Spec == Init /\ [][Next]_vars

\* Time passes, the main thread wakes up, threads take work and time out.
FairSpec ==
  /\ Spec
  /\ WF_vars(Tick) /\ WF_vars(Submit) /\ WF_vars(Summarise)
  /\ WF_vars(\E i \in Requests : Take(i) \/ TurnAway(i) \/ TimeOut(i))
-----------------------------------------------------------------------------

Plan == INSTANCE ArrivalPlan WITH
  due <- [i \in Requests |-> Due(w, i)],
  limit <- InFlightLimit(w),
  clock <- now,
  arrived <- submitted,
  begun <- Cardinality({i \in Requests : started[i] # None}),
  ended <- In("done")

\* The client carries out its plan: no request before it is due or out of turn,
\* never more under way than threads, and in the end one record for each,
\* whatever the server answers and however long it keeps a stream going.
PlanSpec == Plan!Spec

\* The latency a record is scheduled to have is what was spent waiting for a
\* thread plus what was spent on the request, so that a slow server cannot hide
\* behind the queue in front of it.  The first token is part of the latency and
\* is there exactly when there was text.
TimingsAddUp ==
  Done => \A i \in Requests :
    LET r == record[i] IN
    /\ OpenLoop(w) =>
         /\ r.scheduled_latency = r.delay + r.latency
         /\ r.delay = r.start - r.scheduled_offset
    /\ r.success =>
         /\ r.ttft <= r.latency
         /\ r.ttft = None <=> r.output_tokens = 0

\* A scheduler delay beyond the main thread's own lag has one cause: from the
\* moment the request could have started until it did, every thread was busy
\* with earlier requests.  It says nothing of how fast the client is.
DelayBlamesPool ==
  Done => \A i \in Requests : record[i].delay > MaxLag =>
    \A t \in (Due(w, i) + MaxLag)..(record[i].start - 1) :
      InFlightLimit(w) = Cardinality(
        {j \in 0..(i - 1) :
           started[j] <= t /\ t < started[j] + record[j].latency})

\* The achieved start rate never exceeds the target, and it falls below it
\* exactly when the requests took longer to start than planned, a last burst
\* that is not full included.  A burst_size in a steady workload, which
\* validate_workload lets pass, spoils the second half.
AchievedRateSound ==
  LET rate == summary.achieved_rate
      first == started[0]
      last == started[w.request_count - 1]
      planned == Due(w, w.request_count - 1)
  IN  summary # NoSummary /\ OpenLoop(w) /\ w.request_count > 1 =>
        /\ rate[1] * w.interval <= rate[2]
        /\ Bursty(w) \/ ~Given(w.burst_size) =>
             (rate[1] * w.interval < rate[2] <=> last - first > planned)

\* The columns of a summary row agree with each other and with the records:
\* percentiles are in order, the scheduled latency is never below the latency,
\* failures are counted once and by one class, admission rejections among them,
\* and the time spent on requests fits into threads times wall time.
SummaryAddsUp ==
  LET classes == summary.timeout_count + summary.oom_count
                   + summary.rejected_count + summary.nccl_error_count
                   + summary.distributed_worker_error_count
      failed == {i \in Requests : ~record[i].success}
  IN  summary # NoSummary =>
        /\ summary.latency_p50 <= summary.latency_p95
        /\ summary.latency_p95 <= summary.latency_p99
        /\ OpenLoop(w) => summary.latency_p95 <= summary.scheduled_latency_p95
        /\ summary.success_count + summary.error_count = w.request_count
        /\ classes <= summary.error_count
        /\ summary.error_count - summary.admission_rejected_count
             = Cardinality({i \in failed : ~Rejected(i)})
        /\ Total([i \in Requests |-> record[i].latency])
             <= InFlightLimit(w) * summary.wall_time
=============================================================================
