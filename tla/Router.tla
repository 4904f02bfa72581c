------------------------------- MODULE Router -------------------------------
(***************************************************************************)
(* The replica router (src/routing/router.py): every client POST is served *)
(* by a thread of its own running do_POST, and all the threads share one   *)
(* RouterState.  Each method of RouterState holds state.lock for its whole *)
(* body, so it is one atomic step; between two such steps the threads      *)
(* interleave freely.                                                      *)
(*                                                                         *)
(* The circuit of a worker is kept as the time left until it closes        *)
(* (circuit_open_until - now, never below 0) and Tick lets time pass.      *)
(* Latencies and their moving average live on an integer grid.             *)
(***************************************************************************)
EXTENDS Integers, Sequences, FiniteSets

CONSTANTS
  Requests,         \* the client POSTs, one handler thread each
  NumWorkers,       \* how many --worker options were given
  Name,             \* the name of each worker, ordered like the strings
  Policy,           \* --policy
  FailureThreshold, \* --failure-threshold
  OpenTicks,        \* --circuit-open-seconds
  MaxRetries,       \* --max-retries
  ErrorCodes,       \* the error codes the workers can answer with
  Latencies,        \* the attempt durations the environment can produce
  OneSecond,        \* the grid value of the literal 1.0 in choose_worker
  ErrorBodyMayFail, \* may reading the body of an HTTP error raise?
  Readers           \* the clients that go on reading, or close their connection

Workers == 1..NumWorkers

\* The codes a reply can carry: a worker may answer with any of them, the
\* router sends 503 and 502 of its own.  5xx is any other code from 500 up, 4xx
\* any code below.
Retryable == {"503", "502", "5xx"}
Statuses  == Retryable \cup {"4xx"}

ASSUME RequestsAssumption == IsFiniteSet(Requests)
ASSUME WorkersAssumption == NumWorkers \in Nat /\ NumWorkers >= 2
ASSUME NameAssumption == Name \in [Workers -> Int]
ASSUME PolicyAssumption ==
  Policy \in {"round_robin", "least_inflight", "latency_aware"}
ASSUME ThresholdAssumption == FailureThreshold \in Nat /\ FailureThreshold >= 1
ASSUME OpenTicksAssumption == OpenTicks \in Nat /\ OpenTicks >= 1
ASSUME MaxRetriesAssumption == MaxRetries \in {0, 1}
ASSUME ErrorCodesAssumption == ErrorCodes \subseteq Statuses
ASSUME LatenciesAssumption == Latencies \subseteq Nat /\ OneSecond \in Nat
ASSUME ErrorBodyAssumption == ErrorBodyMayFail \in BOOLEAN
ASSUME ReadersAssumption == Readers \subseteq Requests

VARIABLES
  \* RouterState
  requests, retries, noHealthy, rrIndex,
  \* WorkerState, one function per field
  inflight, attempts, successes, failures, cancellations, consecutive,
  openFor, durations, ewma,
  \* the local state of the handler threads
  pc, history, lastStatus,
  \* what each client has received so far
  answer

routerVars  == <<requests, retries, noHealthy, rrIndex>>
outcomeVars == <<successes, failures, cancellations, consecutive, openFor,
                 durations, ewma>>
workerVars  == <<inflight, attempts, outcomeVars>>
handlerVars == <<pc, history, lastStatus, answer>>
vars        == <<routerVars, workerVars, handlerVars>>

Unmeasured == -1     \* ewma_latency_s is None

\* What a client has: nothing, an error, the head of a response, and of its body
\* all, a part, or as much as came before it left; or it had left before the
\* error was written; or its connection was dropped without a reply.
Answers ==
  Statuses \cup {"none", "head", "whole", "cut", "gone", "left", "dropped"}
Control  == {"idle", "choose", "mark", "dispatched", "streaming", "reply",
             "done", "aborted"}

Init ==
  /\ requests = 0 /\ retries = 0 /\ noHealthy = 0 /\ rrIndex = 0
  /\ inflight      = [w \in Workers |-> 0]
  /\ attempts      = [w \in Workers |-> 0]
  /\ successes     = [w \in Workers |-> 0]
  /\ failures      = [w \in Workers |-> 0]
  /\ cancellations = [w \in Workers |-> 0]
  /\ consecutive   = [w \in Workers |-> 0]
  /\ openFor       = [w \in Workers |-> 0]
  /\ durations     = [w \in Workers |-> 0]
  /\ ewma          = [w \in Workers |-> Unmeasured]
  /\ pc            = [r \in Requests |-> "idle"]
  /\ history       = [r \in Requests |-> <<>>]
  /\ lastStatus    = [r \in Requests |-> "503"]
  /\ answer        = [r \in Requests |-> "none"]

-----------------------------------------------------------------------------
(* choose_worker *)

\* Mutation: excluded.add is forgotten.
Excluded_Forgotten(r) == {}

\* The names a handler has already tried: its set `excluded`.
Excluded(r) == {Name[history[r][i]] : i \in DOMAIN history[r]}

\* Mutation: a worker with any recent failure is passed over.
Candidates_AnyFailure(r) ==
  {w \in Workers : Name[w] \notin Excluded(r) /\ consecutive[w] = 0}

Candidates(r) ==
  {w \in Workers : Name[w] \notin Excluded(r) /\ openFor[w] = 0}

\* Mutation: the scan always starts at the first worker.
RingDistance_FromFirst(w) == w - 1

\* How far the round-robin scan walks from round_robin_index to reach w.
RingDistance(w) == (w - 1 - rrIndex) % NumWorkers

\* Tuple comparison, as Python's min() does it.
LexLess(s, t) ==
  \E i \in DOMAIN s : s[i] < t[i] /\ \A j \in 1..(i - 1) : s[j] = t[j]

\* Mutation: lifetime attempts before current load.
InflightKey_AttemptsFirst(w) == <<attempts[w], inflight[w], Name[w], w>>

\* The position w ends both keys because min() keeps the first of equals.
InflightKey(w) == <<inflight[w], attempts[w], Name[w], w>>

\* An average of 0 falls back to 1.0 like a missing one: 0.0 is falsy.
LatencyWeight(w) == IF ewma[w] \in {Unmeasured, 0} THEN OneSecond ELSE ewma[w]

\* Mutation: the request about to be placed is not counted as load.
LatencyKey_NoPlusOne(w) ==
  <<IF ewma[w] = Unmeasured THEN 0 ELSE 1,
    LatencyWeight(w) * inflight[w], inflight[w], Name[w], w>>

\* Mutation: the load is not looked at.
LatencyKey_NoLoad(w) ==
  <<IF ewma[w] = Unmeasured THEN 0 ELSE 1, LatencyWeight(w), Name[w], w>>

LatencyKey(w) ==
  <<IF ewma[w] = Unmeasured THEN 0 ELSE 1,
    LatencyWeight(w) * (inflight[w] + 1), inflight[w], Name[w], w>>

Preferred(w, C) ==
  \A v \in C \ {w} :
    CASE Policy = "round_robin"    -> RingDistance(w) < RingDistance(v)
      [] Policy = "least_inflight" -> LexLess(InflightKey(w), InflightKey(v))
      [] Policy = "latency_aware"  -> LexLess(LatencyKey(w), LatencyKey(v))

-----------------------------------------------------------------------------
(* complete and cancel *)

\* The moving average lands between its old value and the new latency.
Blend(old, latency) ==
  IF old = Unmeasured THEN {latency}
  ELSE (old .. latency) \cup (latency .. old)

\* What complete and cancel have in common.
Release(w) ==
  /\ inflight' = [inflight EXCEPT ![w] = IF @ > 0 THEN @ - 1 ELSE 0]
  /\ durations' = [durations EXCEPT ![w] = @ + 1]
  /\ \E latency \in Latencies : \E average \in Blend(ewma[w], latency) :
       ewma' = [ewma EXCEPT ![w] = average]
  /\ UNCHANGED attempts

CompleteSuccess(w) ==
  /\ Release(w)
  /\ successes' = [successes EXCEPT ![w] = @ + 1]
  /\ consecutive' = [consecutive EXCEPT ![w] = 0]
  /\ UNCHANGED <<failures, cancellations, openFor>>

\* Mutation: the threshold is compared with the count plus one.
CompleteFailure_OpensEarly(w, circuitFailure) ==
  /\ Release(w)
  /\ failures' = [failures EXCEPT ![w] = @ + 1]
  /\ consecutive' =
       [consecutive EXCEPT ![w] = IF circuitFailure THEN @ + 1 ELSE @]
  /\ openFor' = [openFor EXCEPT ![w] =
       IF circuitFailure /\ consecutive[w] + 2 >= FailureThreshold
       THEN OpenTicks ELSE @]
  /\ UNCHANGED <<successes, cancellations>>

\* Mutation: circuit_open_until grows by circuit_open_seconds with every failure.
CompleteFailure_Extends(w, circuitFailure) ==
  /\ Release(w)
  /\ failures' = [failures EXCEPT ![w] = @ + 1]
  /\ consecutive' =
       [consecutive EXCEPT ![w] = IF circuitFailure THEN @ + 1 ELSE @]
  /\ openFor' = [openFor EXCEPT ![w] =
       IF circuitFailure /\ consecutive[w] + 1 >= FailureThreshold
       THEN @ + OpenTicks ELSE @]
  /\ UNCHANGED <<successes, cancellations>>

CompleteFailure(w, circuitFailure) ==
  /\ Release(w)
  /\ failures' = [failures EXCEPT ![w] = @ + 1]
  /\ consecutive' =
       [consecutive EXCEPT ![w] = IF circuitFailure THEN @ + 1 ELSE @]
  /\ openFor' = [openFor EXCEPT ![w] =
       IF circuitFailure /\ consecutive[w] + 1 >= FailureThreshold
       THEN OpenTicks ELSE @]
  /\ UNCHANGED <<successes, cancellations>>

\* Mutations: a cancellation that keeps its in-flight unit, and one that is
\* released but not counted.
Cancel_KeepsInflight(w) ==
  /\ durations' = [durations EXCEPT ![w] = @ + 1]
  /\ cancellations' = [cancellations EXCEPT ![w] = @ + 1]
  /\ UNCHANGED <<inflight, attempts, ewma, successes, failures, consecutive,
                 openFor>>

Cancel_Uncounted(w) ==
  Release(w)
  /\ UNCHANGED <<successes, failures, cancellations, consecutive, openFor>>

Cancel(w) ==
  /\ Release(w)
  /\ cancellations' = [cancellations EXCEPT ![w] = @ + 1]
  /\ UNCHANGED <<successes, failures, consecutive, openFor>>

-----------------------------------------------------------------------------
(* do_POST *)

Goto(r, label) == pc' = [pc EXCEPT ![r] = label]

Worker(r) == history[r][Len(history[r])]

\* The attempt just made may be followed by another one.
RetryLeft(r) == Len(history[r]) <= MaxRetries

BeginRequest(r) ==
  /\ pc[r] = "idle"
  /\ requests' = requests + 1
  /\ Goto(r, "choose")
  /\ UNCHANGED <<retries, noHealthy, rrIndex, workerVars, history, lastStatus,
                 answer>>

\* A second or later attempt still has to call mark_retry, under the lock
\* again, before it goes out.
ChooseWorker(r) ==
  /\ pc[r] = "choose"
  /\ \E w \in Candidates(r) :
       /\ Preferred(w, Candidates(r))
       /\ inflight' = [inflight EXCEPT ![w] = @ + 1]
       /\ attempts' = [attempts EXCEPT ![w] = @ + 1]
       /\ rrIndex' = IF Policy = "round_robin" THEN w % NumWorkers ELSE rrIndex
       /\ history' = [history EXCEPT ![r] = Append(@, w)]
  /\ Goto(r, IF history[r] = <<>> THEN "dispatched" ELSE "mark")
  /\ UNCHANGED <<requests, retries, noHealthy, outcomeVars, lastStatus, answer>>

\* Mutation: giving up is not counted.
ChooseNone_Uncounted(r) ==
  /\ pc[r] = "choose"
  /\ Candidates(r) = {}
  /\ Goto(r, "reply")
  /\ UNCHANGED <<routerVars, workerVars, history, lastStatus, answer>>

ChooseNone(r) ==
  /\ pc[r] = "choose"
  /\ Candidates(r) = {}
  /\ noHealthy' = noHealthy + 1
  /\ Goto(r, "reply")
  /\ UNCHANGED <<requests, retries, rrIndex, workerVars, history, lastStatus,
                 answer>>

MarkRetry(r) ==
  /\ pc[r] = "mark"
  /\ retries' = retries + 1
  /\ Goto(r, "dispatched")
  /\ UNCHANGED <<requests, noHealthy, rrIndex, workerVars, history, lastStatus,
                 answer>>

\* Mutations: every error is retried, none is, every error counts against the
\* circuit.
HttpError_RetriesAll(r, status) ==
  /\ pc[r] = "dispatched"
  /\ lastStatus' = [lastStatus EXCEPT ![r] = status]
  /\ CompleteFailure(Worker(r), status \in Retryable)
  /\ Goto(r, IF RetryLeft(r) THEN "choose" ELSE "reply")
  /\ UNCHANGED <<routerVars, history, answer>>

HttpError_NoRetry(r, status) ==
  /\ pc[r] = "dispatched"
  /\ lastStatus' = [lastStatus EXCEPT ![r] = status]
  /\ CompleteFailure(Worker(r), status \in Retryable)
  /\ Goto(r, "reply")
  /\ UNCHANGED <<routerVars, history, answer>>

HttpError_AllCount(r, status) ==
  /\ pc[r] = "dispatched"
  /\ lastStatus' = [lastStatus EXCEPT ![r] = status]
  /\ CompleteFailure(Worker(r), TRUE)
  /\ Goto(r, IF status \in Retryable /\ RetryLeft(r) THEN "choose" ELSE "reply")
  /\ UNCHANGED <<routerVars, history, answer>>

\* urlopen raised HTTPError.  A code of 500 or more counts against the circuit
\* and may be retried; a smaller one does neither.
HttpError(r, status) ==
  /\ pc[r] = "dispatched"
  /\ lastStatus' = [lastStatus EXCEPT ![r] = status]
  /\ CompleteFailure(Worker(r), status \in Retryable)
  /\ Goto(r, IF status \in Retryable /\ RetryLeft(r) THEN "choose" ELSE "reply")
  /\ UNCHANGED <<routerVars, history, answer>>

\* exc.read() raised before state.complete was called: the exception leaves
\* do_POST, the attempt is never settled and the client gets no reply.
HttpErrorUnreadable(r, status) ==
  /\ ErrorBodyMayFail
  /\ pc[r] = "dispatched"
  /\ lastStatus' = [lastStatus EXCEPT ![r] = status]
  /\ answer' = [answer EXCEPT ![r] = "dropped"]
  /\ Goto(r, "aborted")
  /\ UNCHANGED <<routerVars, workerVars, history>>

\* Mutation: a refused or reset connection is taken for a client that left.
Unreachable_AsCancel(r) ==
  /\ pc[r] = "dispatched"
  /\ lastStatus' = [lastStatus EXCEPT ![r] = "502"]
  /\ Cancel(Worker(r))
  /\ Goto(r, IF RetryLeft(r) THEN "choose" ELSE "reply")
  /\ UNCHANGED <<routerVars, history, answer>>

\* urlopen raised anything else: refused, unreachable, timed out.
Unreachable(r) ==
  /\ pc[r] = "dispatched"
  /\ lastStatus' = [lastStatus EXCEPT ![r] = "502"]
  /\ CompleteFailure(Worker(r), TRUE)
  /\ Goto(r, IF RetryLeft(r) THEN "choose" ELSE "reply")
  /\ UNCHANGED <<routerVars, history, answer>>

\* urlopen returned: the status line and headers go to the client.
StartResponse(r) ==
  /\ pc[r] = "dispatched"
  /\ answer' = [answer EXCEPT ![r] = "head"]
  /\ Goto(r, "streaming")
  /\ UNCHANGED <<routerVars, workerVars, history, lastStatus>>

\* Every way out of the streaming block ends the handler.
EndStream(r, received) ==
  /\ pc[r] = "streaming"
  /\ answer' = [answer EXCEPT ![r] = received]
  /\ Goto(r, "done")
  /\ UNCHANGED <<routerVars, history, lastStatus>>

\* End of file.  A body the worker closed early reads like a finished one, and a
\* client that has left goes unnoticed while the writes fit the socket's buffer.
StreamEof(r) ==
  /\ \E received \in {"whole", "cut", "gone"} : EndStream(r, received)
  /\ CompleteSuccess(Worker(r))

\* Mutation: a broken stream is retried although the response has started.
StreamError_Retries(r) ==
  /\ pc[r] = "streaming"
  /\ CompleteFailure(Worker(r), TRUE)
  /\ Goto(r, IF RetryLeft(r) THEN "choose" ELSE "done")
  /\ UNCHANGED <<routerVars, history, lastStatus, answer>>

\* A read timeout or a malformed chunk; the client may be gone by then.
StreamError(r) ==
  /\ \E received \in {"gone", "cut"} : EndStream(r, received)
  /\ CompleteFailure(Worker(r), TRUE)

\* BrokenPipeError or ConnectionResetError: the client went away, or the
\* worker reset its connection, which raises the same class.
StreamReset(r) ==
  /\ \E received \in {"gone", "cut"} : EndStream(r, received)
  /\ Cancel(Worker(r))

\* The reply after the loop; writing it fails when the client has left.
ErrorReply(r) ==
  /\ pc[r] = "reply"
  /\ \E received \in {lastStatus[r], "left"} :
       answer' = [answer EXCEPT ![r] = received]
  /\ Goto(r, "done")
  /\ UNCHANGED <<routerVars, workerVars, history, lastStatus>>

\* Time passes.
Tick ==
  /\ openFor' = [w \in Workers |-> IF openFor[w] > 0 THEN openFor[w] - 1 ELSE 0]
  /\ UNCHANGED <<routerVars, inflight, attempts, successes, failures,
                 cancellations, consecutive, durations, ewma, handlerVars>>

Choose(r) == ChooseWorker(r) \/ ChooseNone(r)

UpstreamAnswers(r) ==
  \/ \E status \in ErrorCodes :
       HttpError(r, status) \/ HttpErrorUnreadable(r, status)
  \/ Unreachable(r)
  \/ StartResponse(r)

StreamEnds(r) == StreamEof(r) \/ StreamError(r) \/ StreamReset(r)

Handler(r) ==
  \/ BeginRequest(r)
  \/ Choose(r)
  \/ MarkRetry(r)
  \/ UpstreamAnswers(r)
  \/ StreamEnds(r)
  \/ ErrorReply(r)

Next == Tick \/ \E r \in Requests : Handler(r)

Spec == Init /\ [][Next]_vars

\* A started handler keeps running.  urlopen and each read end at the latest
\* when their timeout expires, and a worker does not answer for ever; but a
\* write to a client has no timeout, so what writes to one ends only if that
\* client reads on or closes its connection.
Attempt(r) == Choose(r) \/ MarkRetry(r) \/ UpstreamAnswers(r)
Deliver(r) == StreamEnds(r) \/ ErrorReply(r)

FairSpec ==
  /\ Spec
  /\ WF_vars(Tick)
  /\ \A r \in Requests : WF_vars(Attempt(r))
  /\ \A r \in Readers : WF_vars(Deliver(r))
=============================================================================
