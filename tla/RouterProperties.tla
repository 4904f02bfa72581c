-------------------------- MODULE RouterProperties --------------------------
(***************************************************************************)
(* What must hold of the router: its type invariant, the accounts that tie *)
(* the shared counters to the handler threads, the circuit breaker, the    *)
(* three policies, the promise to the client, and progress.                *)
(***************************************************************************)
EXTENDS Router, FiniteSetsExt

\* Every variable stays in its domain (WorkerState and RouterState fields); in
\* particular no circuit stays open for longer than circuit_open_seconds after
\* the failure that opened it or kept it open, however many more come in late.
TypeOK ==
  /\ requests \in Nat /\ retries \in Nat /\ noHealthy \in Nat
  /\ rrIndex \in 0..(NumWorkers - 1)
  /\ inflight \in [Workers -> Nat] /\ attempts \in [Workers -> Nat]
  /\ successes \in [Workers -> Nat] /\ failures \in [Workers -> Nat]
  /\ cancellations \in [Workers -> Nat] /\ consecutive \in [Workers -> Nat]
  /\ durations \in [Workers -> Nat]
  /\ openFor \in [Workers -> 0..OpenTicks]
  /\ ewma \in [Workers -> Nat \cup {Unmeasured}]
  /\ pc \in [Requests -> Control]
  /\ history \in [Requests -> Seq(Workers)]
  /\ lastStatus \in [Requests -> Statuses]
  /\ answer \in [Requests -> Answers]

\* Where a handler stands tells how many attempts it has made: before the
\* loop none, inside an attempt at least one, back in the loop at most
\* MaxRetries, never more than MaxRetries + 1 (the loop of do_POST).
ControlInv ==
  \A r \in Requests :
    /\ pc[r] = "idle" => history[r] = <<>>
    /\ pc[r] \in {"mark", "dispatched", "streaming", "aborted"} =>
         Len(history[r]) >= 1
    /\ pc[r] = "mark" => Len(history[r]) >= 2
    /\ pc[r] = "choose" => Len(history[r]) <= MaxRetries
    /\ Len(history[r]) <= MaxRetries + 1

-----------------------------------------------------------------------------
(* Accounts *)

\* The requests really in progress at w, and those that hold one of its
\* in-flight units: the same unless a handler died without settling.
Active(w) ==
  {r \in Requests : pc[r] \in {"mark", "dispatched", "streaming"} /\ Worker(r) = w}

Holding(w) ==
  {r \in Requests :
     pc[r] \in {"mark", "dispatched", "streaming", "aborted"} /\ Worker(r) = w}

\* The shared in-flight gauge of a worker is exactly the number of handler
\* threads that took a unit in choose_worker and did not give it back through
\* complete or cancel, so the clamp max(0, inflight - 1) never hides a double
\* release (RouterState.choose_worker, complete, cancel).
InflightAccounting == \A w \in Workers : inflight[w] = Cardinality(Holding(w))

\* Every attempt ever made is in flight or was settled exactly once, as a
\* success, a failure or a cancellation, and each settlement recorded one
\* duration (WorkerState counters published by /metrics).
AttemptAccounting ==
  \A w \in Workers :
    /\ attempts[w] =
         inflight[w] + successes[w] + failures[w] + cancellations[w]
    /\ durations[w] = successes[w] + failures[w] + cancellations[w]

\* A request that ran out of workers with attempts to spare.
GaveUp(r) ==
  /\ pc[r] \in {"reply", "done"}
  /\ Len(history[r]) <= MaxRetries
  /\ answer[r] \notin {"whole", "cut", "gone"}
  /\ history[r] = <<>> \/ lastStatus[r] \in Retryable

\* The router-wide counters agree with the handlers: one request per started
\* handler, one retry per second attempt (late by the handlers between
\* choose_worker and mark_retry), one no_healthy_worker per handler that had
\* an attempt left and found no candidate.
RequestAccounting ==
  /\ requests = Cardinality({r \in Requests : pc[r] # "idle"})
  /\ retries =
       Cardinality({r \in Requests : Len(history[r]) = 2 /\ pc[r] # "mark"})
  /\ noHealthy = Cardinality({r \in Requests : GaveUp(r)})

\* The attempts at w that came to nothing before a response had started, as the
\* handlers and the clients have seen them.
FailedAttempts(w) ==
  {attempt \in Requests \X (1..(MaxRetries + 1)) :
     LET r == attempt[1]
         i == attempt[2]
     IN  /\ i \in DOMAIN history[r]
         /\ history[r][i] = w
         /\ \/ i < Len(history[r])
            \/ pc[r] \in {"choose", "reply"}
            \/ answer[r] \in Statuses \cup {"left"}}

\* The requests whose client has got a body from w that ended in one of ways.
BodiesFrom(w, ways) == {r \in Requests : answer[r] \in ways /\ Worker(r) = w}

\* What /metrics says of a worker agrees with what the clients saw of it: each
\* whole body is one of its successes, each attempt that came to nothing before
\* a response had started is one of its failures, and everything else it is
\* credited with is a body that was cut short or whose client left.
ClientLedger ==
  \A w \in Workers :
    /\ Cardinality(BodiesFrom(w, {"whole"})) <= successes[w]
    /\ Cardinality(FailedAttempts(w)) <= failures[w]
    /\ successes[w] + failures[w] + cancellations[w] =
         Cardinality(FailedAttempts(w))
           + Cardinality(BodiesFrom(w, {"whole", "cut", "gone"}))

-----------------------------------------------------------------------------
(* Retries *)

\* A request never goes to one worker name twice, even when several workers
\* share a name (the set excluded of do_POST holds names).
NoRepeatedWorker ==
  \A r \in Requests :
    \A i, j \in DOMAIN history[r] :
      i # j => Name[history[r][i]] # Name[history[r][j]]

\* Another attempt is made only for a client that has received nothing yet,
\* and only after the previous one failed with a code from 500 up or without one:
\* a 4xx, a started stream and a departed client are final.
RetryOnlyBeforeResponse ==
  [][\A r \in Requests :
       history'[r] # history[r] =>
         /\ answer[r] = "none" /\ answer'[r] = "none"
         /\ history[r] # <<>> => lastStatus[r] \in Retryable]_vars

\* What an error reply tells: one without an X-Router-Worker header, which is
\* sent as soon as any worker was tried, is the router's own 503; and a client
\* that is told of a retryable status while it had an attempt left is one of
\* those that no_healthy_worker_requests counts (the reply after the loop).
ReplyTellsOutcome ==
  /\ \A r \in Requests :
       history[r] = <<>> => answer[r] \in {"none", "503", "left"}
  /\ Cardinality({r \in Requests : /\ answer[r] \in Retryable
                                   /\ Len(history[r]) <= MaxRetries})
       <= noHealthy

-----------------------------------------------------------------------------
(* Circuit breaker *)

\* An open circuit was earned: the worker had FailureThreshold failures, and
\* if the run of failures no longer shows, a success that was already in
\* flight ended it (complete clears consecutive_failures, not the circuit).
OpenCircuitEarned ==
  \A w \in Workers :
    openFor[w] > 0 =>
      /\ failures[w] >= FailureThreshold
      /\ consecutive[w] >= FailureThreshold \/ successes[w] > 0

\* Client errors never count toward a circuit: a failure that a client was
\* told of as a 4xx is outside the run of failures of its worker.
ClientErrorsNeutral ==
  \A w \in Workers :
    consecutive[w] +
      Cardinality({r \in Requests : /\ pc[r] \in {"reply", "done"}
                                    /\ lastStatus[r] = "4xx"
                                    /\ Worker(r) = w}) <= failures[w]

\* The probe: /health answers 200 while some circuit is closed.
Healthy == \E w \in Workers : openFor[w] = 0

\* A client is turned away with 503 before any attempt only when /health,
\* asked at that moment, would have answered 503 too.
RefusedOnlyWhenUnhealthy ==
  [][\A r \in Requests :
       pc[r] = "choose" /\ pc'[r] = "reply" /\ history[r] = <<>> => ~Healthy]_vars

-----------------------------------------------------------------------------
(* Policies *)

ChosenFor(r) == history'[r][Len(history'[r])]

ChoosesFewestActive ==
  Policy = "least_inflight" =>
    \A r \in Requests : history'[r] # history[r] =>
      \A v \in Candidates(r) :
        Cardinality(Active(ChosenFor(r))) <= Cardinality(Active(v))

\* least_inflight sends each attempt to a candidate with the fewest requests
\* really in progress, not just the smallest gauge (choose_worker).
FewestActive == [][ChoosesFewestActive]_vars

\* The same, as long as no handler has died without settling its attempt.
FewestActiveUntilLeak ==
  [][(\A r \in Requests : pc[r] # "aborted") => ChoosesFewestActive]_vars

\* The requests whose retry had to avoid the name of w.
Avoiding(w) ==
  {r \in Requests : Len(history[r]) = 2 /\ Name[history[r][1]] = Name[w]}

\* round_robin spreads attempts evenly, also while other circuits are open and
\* requests are retried: a worker that has not failed often enough to be shut
\* out is at most one attempt behind any other, plus the retries that had to
\* avoid its name (the scan skips it then and does not come back to it).
RoundRobinEven ==
  Policy = "round_robin" =>
    \A v, w \in Workers :
      failures[w] < FailureThreshold =>
        attempts[v] <= attempts[w] + 1 + Cardinality(Avoiding(w))

\* latency_aware gives an attempt to a candidate that has not been measured, the
\* one with the fewest requests in progress, while there is one, and otherwise
\* to the candidate with the smallest product of average latency and load.
ChoosesByLatency ==
  Policy = "latency_aware" =>
    \A r \in Requests : history'[r] # history[r] =>
      LET Load(w)    == Cardinality(Active(w))
          unmeasured == {w \in Candidates(r) : ewma[w] = Unmeasured}
          chosen     == ChosenFor(r)
      IN  IF unmeasured # {}
          THEN chosen \in unmeasured /\ \A v \in unmeasured : Load(chosen) <= Load(v)
          ELSE \A v \in Candidates(r) :
                 ewma[chosen] * (Load(chosen) + 1) <= ewma[v] * (Load(v) + 1)

LowestLatency == [][ChoosesByLatency]_vars

\* A cold start is even: until a worker has been measured, no other one gets
\* more than one attempt ahead of it, however slow the first answers are and
\* whichever circuits open meanwhile (unless two workers share its name).
ColdStartEven ==
  Policy = "latency_aware" =>
    \A v, w \in Workers :
      ewma[w] = Unmeasured /\ (\A u \in Workers \ {w} : Name[u] # Name[w]) =>
        attempts[v] <= attempts[w] + 1

-----------------------------------------------------------------------------
(* The promise to the client, and progress *)

Phase(label) ==
  CASE label = "idle"                                    -> "new"
    [] label \in {"choose", "mark", "dispatched", "reply"} -> "pending"
    [] label = "streaming"                               -> "responding"
    [] label \in {"done", "aborted"}                     -> "closed"

\* The router implements RequestDelivery: attempts on distinct names, bounded,
\* all before the single response, and every request closed in the end.
Delivery ==
  INSTANCE RequestDelivery WITH
    Names       <- {Name[w] : w \in Workers},
    MaxAttempts <- MaxRetries + 1,
    phase       <- [r \in Requests |-> Phase(pc[r])],
    tried       <- [r \in Requests |-> Excluded(r)]

DeliverySpec == Delivery!Spec

\* Whatever is in flight at a worker is given back in the end: once the clients
\* submit nothing more, a gauge counts only the handlers that died without
\* settling and those that write to a client which has stopped reading.
InflightDrains ==
  <>[](\A w \in Workers :
         inflight[w] <=
           Cardinality({r \in Holding(w) :
                          \/ pc[r] = "aborted"
                          \/ pc[r] = "streaming" /\ r \notin Readers}))
=============================================================================
