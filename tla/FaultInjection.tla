--------------------------- MODULE FaultInjection ---------------------------
(***************************************************************************)
(* The router in front of one replica that sits behind the fault proxy     *)
(* (src/routing/slow_worker_proxy.py) and may itself fail, and of replicas *)
(* that serve every valid request.  The proxy's handler threads share a    *)
(* FaultState; it numbers the requests as they arrive and fails every      *)
(* FailEvery-th of them.                                                   *)
(*                                                                         *)
(* The delay of the proxy may exceed the router's --upstream-timeout, so   *)
(* the router may give an attempt up at any time, also before the proxy's  *)
(* thread has numbered it.                                                 *)
(***************************************************************************)
EXTENDS RouterProperties

CONSTANTS
  Faulty,      \* the worker behind the proxy
  FailEvery    \* --fail-every; 0 disables

ASSUME FaultyAssumption == Faulty \in Workers
ASSUME FailEveryAssumption == FailEvery \in Nat

VARIABLES
  seen,        \* FaultState.requests
  injected,    \* FaultState.injected_failures
  number       \* per request, its request_number; 0 before it has one

proxyVars == <<seen, injected, number>>
faultVars == <<vars, proxyVars>>

FaultInit ==
  Init /\ seen = 0 /\ injected = 0 /\ number = [r \in Requests |-> 0]

ShouldFail(n) == FailEvery > 0 /\ n % FailEvery = 0

\* The router has sent r to the proxy, and may have given up waiting since.
SentToProxy(r) ==
  /\ \E i \in DOMAIN history[r] : history[r][i] = Faulty
  /\ ~(pc[r] = "mark" /\ Worker(r) = Faulty)

\* Mutation: the verdict is taken before the request is counted.
NextRequest_VerdictFirst(r) ==
  /\ SentToProxy(r) /\ number[r] = 0
  /\ seen' = seen + 1
  /\ number' = [number EXCEPT ![r] = seen + 1]
  /\ injected' = IF ShouldFail(seen) THEN injected + 1 ELSE injected
  /\ UNCHANGED vars

NextRequest(r) ==
  /\ SentToProxy(r) /\ number[r] = 0
  /\ seen' = seen + 1
  /\ number' = [number EXCEPT ![r] = seen']
  /\ injected' = IF ShouldFail(seen') THEN injected + 1 ELSE injected
  /\ UNCHANGED vars

\* A replica that is in order takes the request or finds it invalid.
Served(r) ==
  StartResponse(r) \/ \E status \in ErrorCodes \ Retryable : HttpError(r, status)

\* Mutation: a request that should fail is forwarded.
ProxyReplies_Forwards(r) ==
  /\ number[r] > 0
  /\ Served(r) \/ \E status \in Retryable \cap ErrorCodes : HttpError(r, status)

\* The rest of the proxy's do_POST: the injected status; or what the replica
\* answers, an error being passed on; or 502 when it cannot be reached.
ProxyReplies(r) ==
  /\ number[r] > 0
  /\ \/ \E status \in Retryable \cap ErrorCodes : HttpError(r, status)
     \/ ~ShouldFail(number[r]) /\ Served(r)

\* If reading the body of the replica's error raises, the proxy's thread dies
\* and its connection closes without an answer.
ReplicaAnswers(r) ==
  /\ pc[r] = "dispatched"
  /\ IF Worker(r) = Faulty
     THEN ProxyReplies(r) \/ Unreachable(r)
     ELSE Served(r)

\* The other replicas finish every stream they start; a client may leave, which
\* the router notices or not.  When the replica behind the proxy breaks a stream
\* off, the proxy just closes its connection, which reads like the end of the
\* file; when it falls silent the router's time-out strikes; when the proxy dies
\* the connection is reset.
StreamServed(r) ==
  /\ pc[r] = "streaming"
  /\ \/ EndStream(r, "whole") /\ CompleteSuccess(Worker(r))
     \/ EndStream(r, "gone") /\ (CompleteSuccess(Worker(r)) \/ Cancel(Worker(r)))
     \/ Worker(r) = Faulty /\ StreamEnds(r)

FaultNext ==
  \/ \E r \in Requests : NextRequest(r)
  \/ /\ UNCHANGED proxyVars
     /\ \/ Tick
        \/ \E r \in Requests :
             \/ BeginRequest(r) \/ Choose(r) \/ MarkRetry(r)
             \/ ReplicaAnswers(r) \/ StreamServed(r) \/ ErrorReply(r)

FaultSpec == FaultInit /\ [][FaultNext]_faultVars

-----------------------------------------------------------------------------

\* The proxy injects on schedule whatever its threads do: k requests carry the
\* numbers 1..k, each once, and exactly every FailEvery-th is a failure
\* (FaultState.next_request).
InjectedOnSchedule ==
  /\ {number[r] : r \in Requests} \ {0} = 1..seen
  /\ injected = (IF FailEvery = 0 THEN 0 ELSE seen \div FailEvery)

\* Requests whose injected failure the router has not seen.
InjectedWaiting ==
  {r \in Requests : /\ pc[r] = "dispatched" /\ Worker(r) = Faulty
                    /\ number[r] > 0 /\ ShouldFail(number[r])}

\* Every injected failure shows in the router's failure counter of that worker,
\* or its attempt is still waiting there: also if the router gave the attempt
\* up before the proxy's thread had numbered it.
InjectedShowsInRouter == injected <= failures[Faulty] + Cardinality(InjectedWaiting)

\* One retry hides one faulty replica: with --max-retries 1 and every other
\* replica healthy, no client is ever told of an error that is not its own, not
\* by an injected failure, a time-out, a failing replica behind the proxy or an
\* open circuit.  Only a stream that has begun may still be cut.
MaskedByRetry ==
  MaxRetries = 1 =>
    \A r \in Requests : answer[r] \notin Retryable \cup {"dropped"}
=============================================================================
