---------------------------- MODULE RouterProofs -----------------------------
(***************************************************************************)
(* Machine-checked proofs about the router, for any number of requests and *)
(* workers, any names, policy, threshold and latencies.  The first half is *)
(* about what choose_worker and complete do: the accounts, which workers   *)
(* are left alone, when the router gives up, and which worker it prefers   *)
(* under each policy.  The second half is about what one client receives:  *)
(* the router's treatment of a request is a behaviour of RequestDelivery,  *)
(* and its counters agree with the handlers and with the clients.          *)
(***************************************************************************)
EXTENDS RouterProperties, FiniteSetTheorems, TLAPS

\* A release writes only worker records and keeps them in their domains.
LEMMA ReleaseType ==
  ASSUME TypeOK, NEW w \in Workers, Release(w)
  PROVE  /\ inflight' \in [Workers -> Nat]
         /\ durations' \in [Workers -> Nat]
         /\ ewma' \in [Workers -> Nat \cup {Unmeasured}]
         /\ attempts' = attempts
<1>0. PICK latency \in Latencies : \E average \in Blend(ewma[w], latency) :
        ewma' = [ewma EXCEPT ![w] = average]
  BY DEF Release
<1>1. PICK average \in Blend(ewma[w], latency) :
        ewma' = [ewma EXCEPT ![w] = average]
  BY <1>0
<1>2. latency \in Nat /\ ewma[w] \in Nat \cup {Unmeasured}
  BY LatenciesAssumption DEF TypeOK
<1>3. average \in Nat
  BY <1>1, <1>2 DEF Blend, Unmeasured
<1>4. ewma' \in [Workers -> Nat \cup {Unmeasured}]
  BY <1>1, <1>3 DEF TypeOK
<1> QED
  BY <1>4 DEF Release, TypeOK

\* The three ways to settle an attempt keep every worker field in its domain.
LEMMA SettleType ==
  ASSUME TypeOK, NEW w \in Workers,
         \/ CompleteSuccess(w)
         \/ \E c \in BOOLEAN : CompleteFailure(w, c)
         \/ Cancel(w)
  PROVE  /\ inflight' \in [Workers -> Nat] /\ attempts' \in [Workers -> Nat]
         /\ successes' \in [Workers -> Nat] /\ failures' \in [Workers -> Nat]
         /\ cancellations' \in [Workers -> Nat]
         /\ consecutive' \in [Workers -> Nat]
         /\ durations' \in [Workers -> Nat]
         /\ openFor' \in [Workers -> 0..OpenTicks]
         /\ ewma' \in [Workers -> Nat \cup {Unmeasured}]
<1>1. Release(w)
  BY DEF CompleteSuccess, CompleteFailure, Cancel
<1>2. /\ inflight' \in [Workers -> Nat] /\ durations' \in [Workers -> Nat]
      /\ ewma' \in [Workers -> Nat \cup {Unmeasured}] /\ attempts' = attempts
  BY <1>1, ReleaseType
<1>3. CASE CompleteSuccess(w)
  <2>1. successes' \in [Workers -> Nat] /\ consecutive' \in [Workers -> Nat]
    BY <1>3 DEF CompleteSuccess, TypeOK
  <2>2. UNCHANGED <<failures, cancellations, openFor>>
    BY <1>3 DEF CompleteSuccess
  <2> QED
    BY <1>2, <2>1, <2>2 DEF TypeOK
<1>4. CASE \E c \in BOOLEAN : CompleteFailure(w, c)
  <2>1. PICK c \in BOOLEAN : CompleteFailure(w, c)
    BY <1>4
  <2>2. failures' \in [Workers -> Nat] /\ consecutive' \in [Workers -> Nat]
    BY <2>1 DEF CompleteFailure, TypeOK
  <2>3. openFor' \in [Workers -> 0..OpenTicks]
    BY <2>1, OpenTicksAssumption DEF CompleteFailure, TypeOK
  <2>4. UNCHANGED <<successes, cancellations>>
    BY <2>1 DEF CompleteFailure
  <2> QED
    BY <1>2, <2>2, <2>3, <2>4 DEF TypeOK
<1>5. CASE Cancel(w)
  <2>1. cancellations' \in [Workers -> Nat]
    BY <1>5 DEF Cancel, TypeOK
  <2>2. UNCHANGED <<successes, failures, consecutive, openFor>>
    BY <1>5 DEF Cancel
  <2> QED
    BY <1>2, <2>1, <2>2 DEF TypeOK
<1> QED
  BY <1>3, <1>4, <1>5

\* Inside an attempt the handler has a current worker.
LEMMA CurrentWorker ==
  ASSUME TypeOK, ControlInv, NEW r \in Requests,
         pc[r] \in {"mark", "dispatched", "streaming", "aborted"}
  PROVE  Worker(r) \in Workers
<1>1. history[r] \in Seq(Workers) /\ Len(history[r]) >= 1
  BY DEF TypeOK, ControlInv
<1> QED
  BY <1>1 DEF Worker

\* An HTTP error settles the attempt as a failure, for the circuit or not.
LEMMA ErrorSettles ==
  ASSUME NEW r \in Requests, NEW status, HttpError(r, status)
  PROVE  \E c \in BOOLEAN : CompleteFailure(Worker(r), c)
<1> DEFINE c == status \in Retryable
<1>1. CompleteFailure(Worker(r), c)
  BY DEF HttpError
<1>2. c \in BOOLEAN
  OBVIOUS
<1> HIDE DEF c
<1> QED
  BY <1>1, <1>2

LEMMA InitInvariant == Init => TypeOK /\ ControlInv
<1> SUFFICES ASSUME Init PROVE TypeOK /\ ControlInv
  OBVIOUS
<1>1. TypeOK
  BY WorkersAssumption, OpenTicksAssumption
     DEF Init, TypeOK, Statuses, Retryable, Answers, Control, Unmeasured
<1>2. ControlInv
  BY MaxRetriesAssumption DEF Init, ControlInv
<1> QED
  BY <1>1, <1>2

\* Every step of a handler and of the clock keeps the variables in their
\* domains and the attempt count in step with the program counter.
LEMMA NextInvariant ==
  TypeOK /\ ControlInv /\ [Next]_vars => TypeOK' /\ ControlInv'
<1> SUFFICES ASSUME TypeOK, ControlInv, [Next]_vars
             PROVE  TypeOK' /\ ControlInv'
  OBVIOUS
<1> USE ErrorCodesAssumption
        DEF Statuses, Retryable, Answers, Control, Goto, routerVars, handlerVars,
            workerVars, outcomeVars
<1>1. ASSUME NEW r \in Requests, BeginRequest(r) PROVE TypeOK' /\ ControlInv'
  <2>1. TypeOK'
    BY <1>1 DEF BeginRequest, TypeOK
  <2>2. ControlInv'
    BY <1>1, MaxRetriesAssumption DEF BeginRequest, TypeOK, ControlInv
  <2> QED
    BY <2>1, <2>2
<1>2. ASSUME NEW r \in Requests, ChooseWorker(r) PROVE TypeOK' /\ ControlInv'
  <2>1. PICK w \in Workers :
          /\ inflight' = [inflight EXCEPT ![w] = @ + 1]
          /\ attempts' = [attempts EXCEPT ![w] = @ + 1]
          /\ rrIndex' = IF Policy = "round_robin" THEN w % NumWorkers ELSE rrIndex
          /\ history' = [history EXCEPT ![r] = Append(@, w)]
    BY <1>2 DEF ChooseWorker, Candidates
  <2>2. w % NumWorkers \in 0..(NumWorkers - 1)
    BY WorkersAssumption DEF Workers
  <2>3. /\ history' \in [Requests -> Seq(Workers)]
        /\ Len(history'[r]) = Len(history[r]) + 1
        /\ \A q \in Requests \ {r} : history'[q] = history[q]
    BY <2>1 DEF TypeOK
  <2>4. TypeOK'
    <3>0. rrIndex' \in 0..(NumWorkers - 1)
      <4>1. rrIndex' = w % NumWorkers \/ rrIndex' = rrIndex
        BY <2>1
      <4> QED
        BY <2>2, <4>1 DEF TypeOK
    <3>1. inflight' \in [Workers -> Nat] /\ attempts' \in [Workers -> Nat]
      <4>1. inflight \in [Workers -> Nat] /\ attempts \in [Workers -> Nat]
        BY DEF TypeOK
      <4>2. inflight' \in [Workers -> Nat]
        BY <2>1, <4>1
      <4>3. attempts' \in [Workers -> Nat]
        BY <2>1, <4>1
      <4> QED
        BY <4>2, <4>3
    <3>2. pc' \in [Requests -> Control]
      BY <1>2 DEF ChooseWorker, TypeOK
    <3>3. UNCHANGED <<requests, retries, noHealthy, outcomeVars, lastStatus, answer>>
      BY <1>2 DEF ChooseWorker
    <3> QED
      BY <2>3, <3>0, <3>1, <3>2, <3>3 DEF TypeOK
  <2>5. pc' = [pc EXCEPT ![r] = IF history[r] = <<>> THEN "dispatched" ELSE "mark"]
        /\ pc[r] = "choose"
    BY <1>2 DEF ChooseWorker
  <2>6. history[r] \in Seq(Workers) /\ (history[r] # <<>> => Len(history[r]) >= 1)
    BY DEF TypeOK
  <2>7. ControlInv'
    <3> SUFFICES ASSUME NEW q \in Requests
                 PROVE  /\ pc'[q] = "idle" => history'[q] = <<>>
                        /\ pc'[q] \in {"mark", "dispatched", "streaming", "aborted"}
                             => Len(history'[q]) >= 1
                        /\ pc'[q] = "mark" => Len(history'[q]) >= 2
                        /\ pc'[q] = "choose" => Len(history'[q]) <= MaxRetries
                        /\ Len(history'[q]) <= MaxRetries + 1
      BY DEF ControlInv
    <3>1. CASE q = r
      <4>1. Len(history[r]) \in Nat /\ Len(history[r]) <= MaxRetries
        BY <2>5, <2>6 DEF ControlInv
      <4>2. pc'[r] = IF history[r] = <<>> THEN "dispatched" ELSE "mark"
        BY <2>5 DEF TypeOK
      <4> QED
        BY <3>1, <2>3, <2>6, <4>1, <4>2, MaxRetriesAssumption
    <3>2. CASE q # r
      BY <3>2, <2>3, <2>5 DEF ControlInv, TypeOK
    <3> QED
      BY <3>1, <3>2
  <2> QED
    BY <2>4, <2>7
<1>3. ASSUME NEW r \in Requests, ChooseNone(r) PROVE TypeOK' /\ ControlInv'
  <2>1. TypeOK'
    BY <1>3 DEF ChooseNone, TypeOK
  <2>2. ControlInv'
    BY <1>3 DEF ChooseNone, TypeOK, ControlInv
  <2> QED
    BY <2>1, <2>2
<1>4. ASSUME NEW r \in Requests, MarkRetry(r) PROVE TypeOK' /\ ControlInv'
  <2>1. TypeOK'
    BY <1>4 DEF MarkRetry, TypeOK
  <2>2. ControlInv'
    BY <1>4 DEF MarkRetry, TypeOK, ControlInv
  <2> QED
    BY <2>1, <2>2
<1>5. ASSUME NEW r \in Requests, NEW status \in ErrorCodes, HttpError(r, status)
      PROVE TypeOK' /\ ControlInv'
  <2>1. Worker(r) \in Workers
    BY <1>5, CurrentWorker DEF HttpError
  <2>2. \E c \in BOOLEAN : CompleteFailure(Worker(r), c)
    BY <1>5, ErrorSettles
  <2>3. TypeOK'
    BY <1>5, <2>1, <2>2, SettleType DEF HttpError, TypeOK
  <2>4. ControlInv'
    BY <1>5 DEF HttpError, RetryLeft, TypeOK, ControlInv
  <2> QED
    BY <2>3, <2>4
<1>6. ASSUME NEW r \in Requests, NEW status \in ErrorCodes,
             HttpErrorUnreadable(r, status)
      PROVE TypeOK' /\ ControlInv'
  <2>1. TypeOK'
    BY <1>6 DEF HttpErrorUnreadable, TypeOK
  <2>2. ControlInv'
    BY <1>6 DEF HttpErrorUnreadable, TypeOK, ControlInv
  <2> QED
    BY <2>1, <2>2
<1>7. ASSUME NEW r \in Requests, Unreachable(r) PROVE TypeOK' /\ ControlInv'
  <2>1. Worker(r) \in Workers
    BY <1>7, CurrentWorker DEF Unreachable
  <2>2. \E c \in BOOLEAN : CompleteFailure(Worker(r), c)
    BY <1>7 DEF Unreachable
  <2>3. TypeOK'
    BY <1>7, <2>1, <2>2, SettleType DEF Unreachable, TypeOK
  <2>4. ControlInv'
    BY <1>7 DEF Unreachable, RetryLeft, TypeOK, ControlInv
  <2> QED
    BY <2>3, <2>4
<1>8. ASSUME NEW r \in Requests, StartResponse(r) PROVE TypeOK' /\ ControlInv'
  <2>1. TypeOK'
    BY <1>8 DEF StartResponse, TypeOK
  <2>2. ControlInv'
    BY <1>8 DEF StartResponse, TypeOK, ControlInv
  <2> QED
    BY <2>1, <2>2
<1>9. ASSUME NEW r \in Requests, StreamEnds(r) PROVE TypeOK' /\ ControlInv'
  <2>1. PICK received \in {"whole", "cut", "gone"} : EndStream(r, received)
    BY <1>9 DEF StreamEnds, StreamEof, StreamError, StreamReset
  <2>2. Worker(r) \in Workers
    BY <2>1, CurrentWorker DEF EndStream
  <2>3. \/ CompleteSuccess(Worker(r))
        \/ \E c \in BOOLEAN : CompleteFailure(Worker(r), c)
        \/ Cancel(Worker(r))
    BY <1>9 DEF StreamEnds, StreamEof, StreamError, StreamReset
  <2>4. TypeOK'
    BY <2>1, <2>2, <2>3, SettleType DEF EndStream, TypeOK
  <2>5. ControlInv'
    BY <2>1 DEF EndStream, TypeOK, ControlInv
  <2> QED
    BY <2>4, <2>5
<1>10. ASSUME NEW r \in Requests, ErrorReply(r) PROVE TypeOK' /\ ControlInv'
  <2>1. TypeOK'
    BY <1>10 DEF ErrorReply, TypeOK
  <2>2. ControlInv'
    BY <1>10 DEF ErrorReply, TypeOK, ControlInv
  <2> QED
    BY <2>1, <2>2
<1>11. CASE Tick
  <2>1. openFor' \in [Workers -> 0..OpenTicks]
    BY <1>11, OpenTicksAssumption DEF Tick, TypeOK
  <2>2. TypeOK'
    BY <1>11, <2>1 DEF Tick, TypeOK
  <2>3. ControlInv'
    BY <1>11 DEF Tick, ControlInv
  <2> QED
    BY <2>2, <2>3
<1>12. CASE UNCHANGED vars
  BY <1>12 DEF vars, TypeOK, ControlInv
<1> QED
  BY <1>1, <1>2, <1>3, <1>4, <1>5, <1>6, <1>7, <1>8, <1>9, <1>10, <1>11, <1>12
     DEF Next, Handler, Choose, UpstreamAnswers

\* Every variable stays in its domain in every behaviour, and a handler's
\* attempts stay within MaxRetries + 1.
THEOREM TypeCorrect == Spec => []TypeOK /\ []ControlInv
<1>1. Init => TypeOK /\ ControlInv
  BY InitInvariant
<1>2. TypeOK /\ ControlInv /\ [Next]_vars => TypeOK' /\ ControlInv'
  BY NextInvariant
<1> QED
  BY <1>1, <1>2, PTL DEF Spec

-----------------------------------------------------------------------------
(* The accounts of the worker counters *)

InAttempt == {"mark", "dispatched", "streaming", "aborted"}

LEMMA HoldingFinite ==
  ASSUME NEW w \in Workers
  PROVE  IsFiniteSet(Holding(w)) /\ Cardinality(Holding(w)) \in Nat
<1>1. Holding(w) \subseteq Requests
  BY DEF Holding
<1>2. IsFiniteSet(Holding(w))
  BY <1>1, RequestsAssumption, FS_Subset
<1> QED
  BY <1>2, FS_CardinalityType

\* A step that moves no handler into or out of an attempt holds what it held.
LEMMA HoldingKept ==
  ASSUME NEW w \in Workers, history' = history,
         \A q \in Requests : pc[q] \in InAttempt <=> pc'[q] \in InAttempt
  PROVE  Holding(w)' = Holding(w)
  BY DEF Holding, InAttempt, Worker

\* choose_worker makes the handler hold the worker it selected, and no other.
LEMMA HoldingAcquired ==
  ASSUME TypeOK, NEW r \in Requests, NEW w \in Workers, NEW v \in Workers,
         pc[r] = "choose",
         NEW label \in {"dispatched", "mark"}, pc' = [pc EXCEPT ![r] = label],
         history' = [history EXCEPT ![r] = Append(@, w)]
  PROVE  /\ v = w => Holding(v)' = Holding(v) \cup {r} /\ r \notin Holding(v)
         /\ v # w => Holding(v)' = Holding(v)
<1>1. history[r] \in Seq(Workers)
  BY DEF TypeOK
<1>2. history'[r] = Append(history[r], w)
  BY DEF TypeOK
<1>3. Worker(r)' = w
  BY <1>1, <1>2 DEF Worker
<1>4. \A q \in Requests \ {r} : Worker(q)' = Worker(q) /\ pc'[q] = pc[q]
  BY DEF Worker, TypeOK
<1>5. pc'[r] = label
  BY DEF TypeOK
<1> QED
  BY <1>3, <1>4, <1>5 DEF Holding

\* Settling an attempt gives back exactly the unit of its own worker.
LEMMA HoldingReleased ==
  ASSUME TypeOK, NEW r \in Requests, NEW v \in Workers,
         pc[r] \in {"dispatched", "streaming"},
         NEW label \in {"choose", "reply", "done"},
         pc' = [pc EXCEPT ![r] = label], history' = history
  PROVE  /\ v = Worker(r) =>
              Holding(v)' = Holding(v) \ {r} /\ r \in Holding(v)
         /\ v # Worker(r) => Holding(v)' = Holding(v)
<1>1. \A q \in Requests : Worker(q)' = Worker(q)
  BY DEF Worker
<1>2. pc'[r] = label /\ \A q \in Requests \ {r} : pc'[q] = pc[q]
  BY DEF TypeOK
<1> QED
  BY <1>1, <1>2 DEF Holding

Accounts == InflightAccounting /\ AttemptAccounting

\* A step outside choose_worker, complete and cancel leaves the accounts alone.
LEMMA AccountsKept ==
  ASSUME Accounts, history' = history,
         \A q \in Requests : pc[q] \in InAttempt <=> pc'[q] \in InAttempt,
         UNCHANGED <<inflight, attempts, successes, failures, cancellations,
                     durations>>
  PROVE  Accounts'
  BY HoldingKept DEF Accounts, InflightAccounting, AttemptAccounting

\* choose_worker takes one unit and counts one attempt.
LEMMA AccountsAcquire ==
  ASSUME TypeOK, Accounts, NEW r \in Requests, ChooseWorker(r)
  PROVE  Accounts'
<1>1. PICK w \in Workers :
        /\ inflight' = [inflight EXCEPT ![w] = @ + 1]
        /\ attempts' = [attempts EXCEPT ![w] = @ + 1]
        /\ history' = [history EXCEPT ![r] = Append(@, w)]
  BY DEF ChooseWorker, Candidates
<1>2. /\ pc[r] = "choose"
      /\ pc' = [pc EXCEPT ![r] =
                  IF history[r] = <<>> THEN "dispatched" ELSE "mark"]
      /\ UNCHANGED <<successes, failures, cancellations, durations>>
  BY DEF ChooseWorker, Goto, outcomeVars
<1>3. ASSUME NEW v \in Workers
      PROVE  inflight'[v] = Cardinality(Holding(v)')
  <2>1. /\ v = w => Holding(v)' = Holding(v) \cup {r} /\ r \notin Holding(v)
        /\ v # w => Holding(v)' = Holding(v)
    BY <1>1, <1>2, HoldingAcquired
  <2>2. inflight[v] = Cardinality(Holding(v))
    BY DEF Accounts, InflightAccounting
  <2>3. CASE v = w
    <3>1. Cardinality(Holding(v)') = Cardinality(Holding(v)) + 1
      BY <2>1, <2>3, HoldingFinite, FS_AddElement
    <3> QED
      BY <1>1, <2>2, <2>3, <3>1 DEF TypeOK
  <2>4. CASE v # w
    BY <1>1, <2>1, <2>2, <2>4 DEF TypeOK
  <2> QED
    BY <2>3, <2>4
<1>4. ASSUME NEW v \in Workers
      PROVE  /\ attempts'[v] = inflight'[v] + successes'[v] + failures'[v]
                                 + cancellations'[v]
             /\ durations'[v] = successes'[v] + failures'[v] + cancellations'[v]
  <2>1. /\ attempts[v] =
             inflight[v] + successes[v] + failures[v] + cancellations[v]
        /\ durations[v] = successes[v] + failures[v] + cancellations[v]
        /\ inflight[v] \in Nat /\ successes[v] \in Nat /\ failures[v] \in Nat
        /\ cancellations[v] \in Nat
    BY DEF Accounts, AttemptAccounting, TypeOK
  <2>2. /\ inflight'[v] = IF v = w THEN inflight[v] + 1 ELSE inflight[v]
        /\ attempts'[v] = IF v = w THEN attempts[v] + 1 ELSE attempts[v]
    BY <1>1 DEF TypeOK
  <2>3. /\ successes'[v] = successes[v] /\ failures'[v] = failures[v]
        /\ cancellations'[v] = cancellations[v] /\ durations'[v] = durations[v]
    BY <1>2
  <2>4. CASE v = w
    BY <2>1, <2>2, <2>3, <2>4
  <2>5. CASE v # w
    BY <2>1, <2>2, <2>3, <2>5
  <2> QED
    BY <2>4, <2>5
<1> QED
  BY <1>3, <1>4 DEF Accounts, InflightAccounting, AttemptAccounting

\* complete and cancel give back the unit of a handler that holds one, so the
\* gauge is positive and the clamp at 0 is never reached.
LEMMA AccountsRelease ==
  ASSUME TypeOK, ControlInv, Accounts, NEW r \in Requests,
         pc[r] \in {"dispatched", "streaming"},
         NEW label \in {"choose", "reply", "done"},
         pc' = [pc EXCEPT ![r] = label], history' = history,
         \/ CompleteSuccess(Worker(r))
         \/ \E c \in BOOLEAN : CompleteFailure(Worker(r), c)
         \/ Cancel(Worker(r))
  PROVE  Accounts'
<1>1. PICK w \in Workers : w = Worker(r)
  BY CurrentWorker
<1>2. /\ Holding(w)' = Holding(w) \ {r} /\ r \in Holding(w)
      /\ \A v \in Workers \ {w} : Holding(v)' = Holding(v)
  BY <1>1, HoldingReleased
<1>3. /\ inflight[w] = Cardinality(Holding(w)) /\ inflight[w] \in Nat
      /\ Cardinality(Holding(w)') = Cardinality(Holding(w)) - 1
  <2>1. Cardinality(Holding(w) \ {r}) = Cardinality(Holding(w)) - 1
    BY <1>2, HoldingFinite, FS_RemoveElement
  <2> QED
    BY <1>2, <2>1, HoldingFinite DEF Accounts, InflightAccounting
<1>4. inflight[w] >= 1
  <2>1. Holding(w) # {}
    BY <1>2
  <2>2. Cardinality(Holding(w)) # 0
    BY <1>1, <2>1, HoldingFinite, FS_EmptySet
  <2> QED
    BY <1>3, <2>2
<1>5. Release(w)
  BY <1>1 DEF CompleteSuccess, CompleteFailure, Cancel
<1>6. /\ inflight' = [inflight EXCEPT ![w] = @ - 1]
      /\ durations' = [durations EXCEPT ![w] = @ + 1]
      /\ attempts' = attempts
  <2>1. inflight[w] > 0
    BY <1>3, <1>4
  <2> QED
    BY <1>5, <2>1 DEF Release
<1>7. ASSUME NEW v \in Workers
      PROVE  inflight'[v] = Cardinality(Holding(v)')
  <2>1. inflight[v] = Cardinality(Holding(v))
    BY DEF Accounts, InflightAccounting
  <2>2. inflight'[v] = IF v = w THEN inflight[v] - 1 ELSE inflight[v]
    BY <1>6 DEF TypeOK
  <2> QED
    BY <1>2, <1>3, <2>1, <2>2
<1>8. ASSUME NEW v \in Workers
      PROVE  /\ attempts'[v] = inflight'[v] + successes'[v] + failures'[v]
                                 + cancellations'[v]
             /\ durations'[v] = successes'[v] + failures'[v] + cancellations'[v]
  <2>1. /\ attempts[v] =
             inflight[v] + successes[v] + failures[v] + cancellations[v]
        /\ durations[v] = successes[v] + failures[v] + cancellations[v]
        /\ inflight[v] \in Nat /\ successes[v] \in Nat /\ failures[v] \in Nat
        /\ cancellations[v] \in Nat /\ durations[v] \in Nat
    BY DEF Accounts, AttemptAccounting, TypeOK
  <2>2. /\ inflight'[v] = IF v = w THEN inflight[v] - 1 ELSE inflight[v]
        /\ durations'[v] = IF v = w THEN durations[v] + 1 ELSE durations[v]
        /\ attempts'[v] = attempts[v]
    BY <1>6 DEF TypeOK
  <2>3. CASE CompleteSuccess(w)
    <3>1. /\ successes'[v] = IF v = w THEN successes[v] + 1 ELSE successes[v]
          /\ failures'[v] = failures[v] /\ cancellations'[v] = cancellations[v]
      BY <2>3 DEF CompleteSuccess, TypeOK
    <3> QED
      BY <2>1, <2>2, <3>1
  <2>4. CASE \E c \in BOOLEAN : CompleteFailure(w, c)
    <3>1. /\ failures'[v] = IF v = w THEN failures[v] + 1 ELSE failures[v]
          /\ successes'[v] = successes[v] /\ cancellations'[v] = cancellations[v]
      BY <2>4 DEF CompleteFailure, TypeOK
    <3> QED
      BY <2>1, <2>2, <3>1
  <2>5. CASE Cancel(w)
    <3>1. /\ cancellations'[v] =
               IF v = w THEN cancellations[v] + 1 ELSE cancellations[v]
          /\ successes'[v] = successes[v] /\ failures'[v] = failures[v]
      BY <2>5 DEF Cancel, TypeOK
    <3> QED
      BY <2>1, <2>2, <3>1
  <2> QED
    BY <1>1, <2>3, <2>4, <2>5
<1> QED
  BY <1>7, <1>8 DEF Accounts, InflightAccounting, AttemptAccounting

LEMMA InitAccounts == Init => Accounts
<1> SUFFICES ASSUME Init PROVE Accounts
  OBVIOUS
<1>1. \A w \in Workers : Holding(w) = {}
  BY DEF Init, Holding
<1>2. InflightAccounting
  BY <1>1, FS_EmptySet DEF Init, InflightAccounting
<1>3. AttemptAccounting
  BY DEF Init, AttemptAccounting
<1> QED
  BY <1>2, <1>3 DEF Accounts

LEMMA NextAccounts ==
  TypeOK /\ ControlInv /\ Accounts /\ [Next]_vars => Accounts'
<1> SUFFICES ASSUME TypeOK, ControlInv, Accounts, [Next]_vars PROVE Accounts'
  OBVIOUS
<1> USE DEF Goto, routerVars, handlerVars, workerVars, outcomeVars
<1>1. ASSUME NEW r \in Requests, BeginRequest(r) PROVE Accounts'
  BY <1>1, AccountsKept DEF BeginRequest, InAttempt, TypeOK
<1>2. ASSUME NEW r \in Requests, ChooseWorker(r) PROVE Accounts'
  BY <1>2, AccountsAcquire
<1>3. ASSUME NEW r \in Requests, ChooseNone(r) PROVE Accounts'
  BY <1>3, AccountsKept DEF ChooseNone, InAttempt, TypeOK
<1>4. ASSUME NEW r \in Requests, MarkRetry(r) PROVE Accounts'
  BY <1>4, AccountsKept DEF MarkRetry, InAttempt, TypeOK
<1>5. ASSUME NEW r \in Requests, NEW status \in ErrorCodes, HttpError(r, status)
      PROVE Accounts'
  <2>1. \E c \in BOOLEAN : CompleteFailure(Worker(r), c)
    BY <1>5, ErrorSettles
  <2> QED
    BY <1>5, <2>1, AccountsRelease DEF HttpError
<1>6. ASSUME NEW r \in Requests, NEW status \in ErrorCodes,
             HttpErrorUnreadable(r, status)
      PROVE Accounts'
  BY <1>6, AccountsKept DEF HttpErrorUnreadable, InAttempt, TypeOK
<1>7. ASSUME NEW r \in Requests, Unreachable(r) PROVE Accounts'
  <2>1. \E c \in BOOLEAN : CompleteFailure(Worker(r), c)
    BY <1>7 DEF Unreachable
  <2> QED
    BY <1>7, <2>1, AccountsRelease DEF Unreachable
<1>8. ASSUME NEW r \in Requests, StartResponse(r) PROVE Accounts'
  BY <1>8, AccountsKept DEF StartResponse, InAttempt, TypeOK
<1>9. ASSUME NEW r \in Requests, StreamEnds(r) PROVE Accounts'
  <2>1. pc[r] = "streaming" /\ pc' = [pc EXCEPT ![r] = "done"] /\ history' = history
    BY <1>9 DEF StreamEnds, StreamEof, StreamError, StreamReset, EndStream
  <2>2. \/ CompleteSuccess(Worker(r))
        \/ \E c \in BOOLEAN : CompleteFailure(Worker(r), c)
        \/ Cancel(Worker(r))
    BY <1>9 DEF StreamEnds, StreamEof, StreamError, StreamReset
  <2> QED
    BY <2>1, <2>2, AccountsRelease
<1>10. ASSUME NEW r \in Requests, ErrorReply(r) PROVE Accounts'
  BY <1>10, AccountsKept DEF ErrorReply, InAttempt, TypeOK
<1>11. CASE Tick
  BY <1>11, AccountsKept DEF Tick
<1>12. CASE UNCHANGED vars
  BY <1>12, AccountsKept DEF vars
<1> QED
  BY <1>1, <1>2, <1>3, <1>4, <1>5, <1>6, <1>7, <1>8, <1>9, <1>10, <1>11, <1>12
     DEF Next, Handler, Choose, UpstreamAnswers

\* The in-flight gauge of every worker counts exactly the handlers that hold a
\* unit of it, and every attempt is in flight or settled exactly once.
THEOREM AccountsCorrect == Spec => []InflightAccounting /\ []AttemptAccounting
<1>1. Init => TypeOK /\ ControlInv /\ Accounts
  BY InitInvariant, InitAccounts
<1>2. TypeOK /\ ControlInv /\ Accounts /\ [Next]_vars
        => TypeOK' /\ ControlInv' /\ Accounts'
  BY NextInvariant, NextAccounts
<1>3. Accounts => InflightAccounting /\ AttemptAccounting
  BY DEF Accounts
<1> QED
  BY <1>1, <1>2, <1>3, PTL DEF Spec

-----------------------------------------------------------------------------
(* The circuits *)

\* A client is turned away before any attempt only while no circuit is closed
\* (choose_worker returns None), so /health would have told the same.
THEOREM RefusalsJustified == Spec => RefusedOnlyWhenUnhealthy
<1>1. TypeOK /\ ControlInv /\ [Next]_vars =>
        [\A r \in Requests :
           pc[r] = "choose" /\ pc'[r] = "reply" /\ history[r] = <<>>
             => ~Healthy]_vars
  <2> SUFFICES ASSUME TypeOK, ControlInv, [Next]_vars, NEW r \in Requests,
                      pc[r] = "choose", pc'[r] = "reply", history[r] = <<>>
               PROVE  ~Healthy
    OBVIOUS
  <2>1. ChooseNone(r)
    <3>1. pc' # pc
      OBVIOUS
    <3>2. PICK q \in Requests : Handler(q)
      BY <3>1 DEF Next, Tick, vars, handlerVars
    <3>3. \E label : pc' = [pc EXCEPT ![q] = label]
      BY <3>2 DEF Handler, Choose, UpstreamAnswers, StreamEnds, BeginRequest,
           ChooseWorker, ChooseNone, MarkRetry, HttpError, HttpErrorUnreadable,
           Unreachable, StartResponse, StreamEof, StreamError, StreamReset,
           EndStream, ErrorReply, Goto
    <3>4. q = r
      BY <3>3 DEF TypeOK
    <3>5. Choose(r)
      BY <3>2, <3>4 DEF Handler, UpstreamAnswers, StreamEnds, BeginRequest,
           MarkRetry, HttpError, HttpErrorUnreadable, Unreachable,
           StartResponse, StreamEof, StreamError, StreamReset, EndStream,
           ErrorReply
    <3> QED
      BY <3>5 DEF Choose, ChooseWorker, Goto, TypeOK
  <2>2. \A w \in Workers : openFor[w] # 0
    BY <2>1 DEF ChooseNone, Candidates, Excluded
  <2> QED
    BY <2>2 DEF Healthy
<1> QED
  BY <1>1, TypeCorrect, PTL DEF Spec, RefusedOnlyWhenUnhealthy

\* A run of failures is part of the failures; without it OpenCircuitEarned is
\* not inductive.
RunsCounted == \A w \in Workers : consecutive[w] <= failures[w]

CircuitInv == RunsCounted /\ OpenCircuitEarned

\* What leaves the counters and the circuits alone keeps CircuitInv.
LEMMA CircuitKept ==
  ASSUME TypeOK, CircuitInv,
         UNCHANGED <<successes, failures, consecutive, openFor>>
  PROVE  CircuitInv'
  BY DEF CircuitInv, RunsCounted, OpenCircuitEarned

\* Settling an attempt keeps CircuitInv.
LEMMA CircuitSettled ==
  ASSUME TypeOK, CircuitInv, NEW w \in Workers,
         \/ CompleteSuccess(w)
         \/ \E c \in BOOLEAN : CompleteFailure(w, c)
         \/ Cancel(w)
  PROVE  CircuitInv'
<1>0. /\ successes \in [Workers -> Nat] /\ failures \in [Workers -> Nat]
      /\ consecutive \in [Workers -> Nat] /\ openFor \in [Workers -> 0..OpenTicks]
  BY DEF TypeOK
<1>1. CASE CompleteSuccess(w)
  <2>1. /\ successes' = [successes EXCEPT ![w] = @ + 1]
        /\ consecutive' = [consecutive EXCEPT ![w] = 0]
        /\ failures' = failures /\ openFor' = openFor
    BY <1>1 DEF CompleteSuccess
  <2> QED
    BY <1>0, <2>1 DEF CircuitInv, RunsCounted, OpenCircuitEarned
<1>2. ASSUME NEW c \in BOOLEAN, CompleteFailure(w, c) PROVE CircuitInv'
  <2>1. /\ failures' = [failures EXCEPT ![w] = @ + 1]
        /\ consecutive' = [consecutive EXCEPT ![w] = IF c THEN @ + 1 ELSE @]
        /\ openFor' = [openFor EXCEPT ![w] =
             IF c /\ consecutive[w] + 1 >= FailureThreshold THEN OpenTicks ELSE @]
        /\ successes' = successes
    BY <1>2 DEF CompleteFailure
  <2>2. RunsCounted'
    BY <1>0, <2>1 DEF CircuitInv, RunsCounted
  <2>3. ASSUME NEW v \in Workers, openFor'[v] > 0
        PROVE  /\ failures'[v] >= FailureThreshold
               /\ consecutive'[v] >= FailureThreshold \/ successes'[v] > 0
    <3>1. CASE v = w /\ c /\ consecutive[w] + 1 >= FailureThreshold
      BY <1>0, <2>1, <3>1, ThresholdAssumption DEF CircuitInv, RunsCounted
    <3>2. CASE ~(v = w /\ c /\ consecutive[w] + 1 >= FailureThreshold)
      <4>1. openFor'[v] = openFor[v]
        BY <1>0, <2>1, <3>2
      <4>2. /\ failures[v] >= FailureThreshold
            /\ consecutive[v] >= FailureThreshold \/ successes[v] > 0
        BY <2>3, <4>1 DEF CircuitInv, OpenCircuitEarned
      <4> QED
        BY <1>0, <2>1, <4>2, ThresholdAssumption
    <3> QED
      BY <3>1, <3>2
  <2> QED
    BY <2>2, <2>3 DEF CircuitInv, OpenCircuitEarned
<1>3. CASE Cancel(w)
  BY <1>3, CircuitKept DEF Cancel
<1> QED
  BY <1>1, <1>2, <1>3

\* An open circuit was earned by a run of failures of full length, which only a
\* success that was already in flight can have ended (complete).
THEOREM CircuitsEarned == Spec => []OpenCircuitEarned
<1>1. Init => CircuitInv
  BY DEF Init, CircuitInv, RunsCounted, OpenCircuitEarned
<1>2. TypeOK /\ ControlInv /\ CircuitInv /\ [Next]_vars => CircuitInv'
  <2> SUFFICES ASSUME TypeOK, ControlInv, CircuitInv, [Next]_vars
               PROVE  CircuitInv'
    OBVIOUS
  <2>1. ASSUME NEW r \in Requests, NEW status, HttpError(r, status)
        PROVE  CircuitInv'
    <3>1. Worker(r) \in Workers
      BY <2>1, CurrentWorker DEF HttpError
    <3> QED
      BY <2>1, <3>1, ErrorSettles, CircuitSettled
  <2>2. ASSUME NEW r \in Requests, Unreachable(r) PROVE CircuitInv'
    BY <2>2, CurrentWorker, CircuitSettled DEF Unreachable
  <2>3. ASSUME NEW r \in Requests, StreamEnds(r) PROVE CircuitInv'
    <3>1. Worker(r) \in Workers
      BY <2>3, CurrentWorker
         DEF StreamEnds, StreamEof, StreamError, StreamReset, EndStream
    <3> QED
      BY <2>3, <3>1, CircuitSettled
         DEF StreamEnds, StreamEof, StreamError, StreamReset
  <2>4. ASSUME NEW r \in Requests,
               \/ BeginRequest(r) \/ Choose(r) \/ MarkRetry(r) \/ StartResponse(r)
               \/ ErrorReply(r) \/ \E status : HttpErrorUnreadable(r, status)
        PROVE  CircuitInv'
    BY <2>4, CircuitKept
       DEF BeginRequest, Choose, ChooseWorker, ChooseNone, MarkRetry,
           StartResponse, ErrorReply, HttpErrorUnreadable, workerVars,
           outcomeVars
  <2>5. CASE Tick
    <3>1. /\ openFor' = [w \in Workers |-> IF openFor[w] > 0 THEN openFor[w] - 1 ELSE 0]
          /\ UNCHANGED <<successes, failures, consecutive>>
      BY <2>5 DEF Tick
    <3>2. \A w \in Workers : openFor'[w] > 0 => openFor[w] > 0
      BY <3>1 DEF TypeOK
    <3> QED
      BY <3>1, <3>2 DEF CircuitInv, RunsCounted, OpenCircuitEarned
  <2>6. CASE UNCHANGED vars
    BY <2>6, CircuitKept DEF vars, workerVars, outcomeVars
  <2> QED
    BY <2>1, <2>2, <2>3, <2>4, <2>5, <2>6 DEF Next, Handler, UpstreamAnswers
<1>3. CircuitInv => OpenCircuitEarned
  BY DEF CircuitInv
<1> QED
  BY <1>1, <1>2, <1>3, TypeCorrect, PTL DEF Spec

-----------------------------------------------------------------------------
(* least_inflight *)

\* While no handler has died without settling its attempt, the requests in
\* progress at a worker are those that its gauge counts.
LEMMA GaugeIsActive ==
  ASSUME InflightAccounting, \A r \in Requests : pc[r] # "aborted",
         NEW w \in Workers
  PROVE  Cardinality(Active(w)) = inflight[w]
<1>1. Active(w) = Holding(w)
  BY DEF Active, Holding
<1> QED
  BY <1>1 DEF InflightAccounting

\* Where a new attempt goes is the candidate that the policy prefers.
LEMMA ChosenIsPreferred ==
  ASSUME TypeOK, [Next]_vars, NEW r \in Requests, history'[r] # history[r]
  PROVE  \E w \in Candidates(r) : Preferred(w, Candidates(r)) /\ ChosenFor(r) = w
<1>1. PICK q \in Requests : ChooseWorker(q)
  BY DEF Next, vars, handlerVars, Handler, Choose, UpstreamAnswers, StreamEnds,
         Tick, BeginRequest, ChooseNone, MarkRetry, HttpError,
         HttpErrorUnreadable, Unreachable, StartResponse, StreamEof,
         StreamError, StreamReset, EndStream, ErrorReply
<1>2. PICK w \in Candidates(q) :
        /\ Preferred(w, Candidates(q))
        /\ history' = [history EXCEPT ![q] = Append(@, w)]
  BY <1>1 DEF ChooseWorker
<1>3. q = r
  BY <1>2 DEF TypeOK
<1>4. history[r] \in Seq(Workers) /\ history'[r] = Append(history[r], w)
  BY <1>2, <1>3 DEF TypeOK
<1>5. w \in Workers
  BY DEF Candidates
<1>6. ChosenFor(r) = w
  BY <1>4, <1>5 DEF ChosenFor
<1> QED
  BY <1>2, <1>3, <1>6

\* The first component decides the order of two keys, or is equal in both.
LEMMA FirstDecides ==
  ASSUME TypeOK, NEW w \in Workers, NEW v \in Workers,
         LexLess(InflightKey(w), InflightKey(v))
  PROVE  inflight[w] <= inflight[v]
<1> DEFINE s == InflightKey(w)
           t == InflightKey(v)
<1>1. PICK i \in DOMAIN s : s[i] < t[i] /\ \A j \in 1..(i - 1) : s[j] = t[j]
  BY DEF LexLess
<1>2. i \in 1..4 /\ s[1] = inflight[w] /\ t[1] = inflight[v]
  BY DEF InflightKey
<1>3. inflight[w] \in Nat /\ inflight[v] \in Nat
  BY DEF TypeOK
<1>4. CASE i = 1
  BY <1>1, <1>2, <1>3, <1>4
<1>5. CASE i # 1
  <2>1. 1 \in 1..(i - 1)
    BY <1>2, <1>5
  <2> QED
    BY <1>1, <1>2, <1>3, <2>1
<1> QED
  BY <1>4, <1>5

\* least_inflight gives each attempt to a candidate with the fewest requests
\* really in progress, as long as no in-flight unit has leaked.
THEOREM FewestActiveChosen == Spec => FewestActiveUntilLeak
<1>1. TypeOK /\ ControlInv /\ InflightAccounting /\ [Next]_vars =>
        [(\A r \in Requests : pc[r] # "aborted") => ChoosesFewestActive]_vars
  <2> SUFFICES ASSUME TypeOK, InflightAccounting, [Next]_vars,
                      \A r \in Requests : pc[r] # "aborted",
                      Policy = "least_inflight",
                      NEW r \in Requests, history'[r] # history[r],
                      NEW v \in Candidates(r)
               PROVE  Cardinality(Active(ChosenFor(r))) <= Cardinality(Active(v))
    BY DEF ChoosesFewestActive
  <2>1. PICK w \in Candidates(r) :
          Preferred(w, Candidates(r)) /\ ChosenFor(r) = w
    BY ChosenIsPreferred
  <2>2. w \in Workers /\ v \in Workers
    BY DEF Candidates
  <2>3. inflight[w] <= inflight[v]
    <3>1. CASE v = w
      BY <2>2, <3>1 DEF TypeOK
    <3>2. CASE v # w
      <4>1. LexLess(InflightKey(w), InflightKey(v))
        BY <2>1, <3>2 DEF Preferred
      <4> QED
        BY <2>2, <4>1, FirstDecides
    <3> QED
      BY <3>1, <3>2
  <2> QED
    BY <2>1, <2>2, <2>3, GaugeIsActive
<1> QED
  BY <1>1, TypeCorrect, AccountsCorrect, PTL DEF Spec, FewestActiveUntilLeak

-----------------------------------------------------------------------------
(* round_robin *)

\* How often the scan has come past w, after n full rounds.
Passes(n, w) == IF w <= rrIndex THEN n + 1 ELSE n

\* A worker gets an attempt each time the scan comes past it, unless its circuit
\* is open or a retry has to avoid it.
TurnInv ==
  Policy = "round_robin" =>
    \E n \in Nat : \A w \in Workers :
      /\ attempts[w] <= Passes(n, w)
      /\ failures[w] < FailureThreshold =>
           Passes(n, w) <= attempts[w] + Cardinality(Avoiding(w))

\* What % does in choose_worker, whose divisor is the number of workers.
LEMMA Remainders ==
  /\ \A x \in Int : x % NumWorkers \in 0..(NumWorkers - 1)
  /\ 0 % NumWorkers = 0
  /\ \A x \in Workers : x % NumWorkers = IF x = NumWorkers THEN 0 ELSE x
<1>1. NumWorkers \in Nat /\ NumWorkers >= 2
  BY WorkersAssumption
<1>2. \A x \in Int : x % NumWorkers \in 0..(NumWorkers - 1)
  BY <1>1
<1>3. 0 % NumWorkers = 0
  BY <1>1
<1>4. NumWorkers % NumWorkers = 0
  BY <1>1
<1>5. \A x \in 1..(NumWorkers - 1) : x % NumWorkers = x
  BY <1>1
<1> QED
  BY <1>1, <1>2, <1>3, <1>4, <1>5 DEF Workers

\* Below zero, % counts from the divisor down.
LEMMA RemainderBelow ==
  ASSUME NEW x \in Int, x < 0, - NumWorkers <= x
  PROVE  x % NumWorkers = x + NumWorkers
<1>1. NumWorkers \in Nat /\ NumWorkers >= 2
  BY WorkersAssumption
<1>2. x + NumWorkers \in 0..(NumWorkers - 1)
  BY <1>1
<1> QED
  BY <1>1, <1>2

\* How far the scan walks to w, from the position after rrIndex and around.
LEMMA Distance ==
  ASSUME TypeOK, NEW w \in Workers
  PROVE  RingDistance(w) = IF w > rrIndex THEN w - 1 - rrIndex
                                          ELSE w - 1 - rrIndex + NumWorkers
<1> DEFINE x == w - 1 - rrIndex
<1>1. /\ NumWorkers \in Nat /\ NumWorkers >= 2 /\ w \in Int /\ 1 <= w
      /\ w <= NumWorkers /\ rrIndex \in Int /\ 0 <= rrIndex /\ rrIndex < NumWorkers
  BY WorkersAssumption DEF TypeOK, Workers
<1>2. x \in Int /\ x < NumWorkers /\ - NumWorkers <= x
  BY <1>1
<1>3. (x >= 0 <=> w > rrIndex) /\ RingDistance(w) = x % NumWorkers
  BY <1>1 DEF RingDistance
<1> HIDE DEF x
<1>4. x >= 0 => x % NumWorkers = x
  BY <1>1, <1>2
<1>5. x < 0 => x % NumWorkers = x + NumWorkers
  BY <1>1, <1>2, RemainderBelow
<1>6. CASE w > rrIndex
  BY <1>3, <1>4, <1>6 DEF x
<1>7. CASE ~(w > rrIndex)
  <2>1. x < 0
    BY <1>2, <1>3, <1>7
  <2> QED
    BY <1>3, <1>5, <1>7, <2>1 DEF x
<1> QED
  BY <1>6, <1>7

\* The scan stops at w, the first of the candidates C: it has come past w once
\* more, past every other worker at most once more, and past no other candidate.
LEMMA ScanStops ==
  ASSUME TypeOK, NEW w \in Workers, NEW n \in Nat, NEW C, C \subseteq Workers,
         \A v \in C \ {w} : RingDistance(w) < RingDistance(v),
         rrIndex' = w % NumWorkers
  PROVE  \E m \in Nat : \A v \in Workers :
           /\ Passes(m, v)' \in {Passes(n, v), Passes(n, v) + 1}
           /\ v = w => Passes(m, v)' = Passes(n, v) + 1
           /\ v \in C \ {w} => Passes(m, v)' = Passes(n, v)
<1>0. PICK m \in Nat : m = IF w <= rrIndex \/ w = NumWorkers THEN n + 1 ELSE n
  OBVIOUS
<1>1. /\ NumWorkers \in Nat /\ NumWorkers >= 2
      /\ rrIndex \in Int /\ 0 <= rrIndex /\ rrIndex < NumWorkers
      /\ \A v \in Workers : v \in Int /\ 1 <= v /\ v <= NumWorkers
  BY WorkersAssumption DEF TypeOK, Workers
<1>2. rrIndex' = IF w = NumWorkers THEN 0 ELSE w
  BY Remainders
<1>3. ASSUME NEW v \in Workers
      PROVE  Passes(m, v)' = IF v <= rrIndex' THEN m + 1 ELSE m
  BY DEF Passes
<1>5. ASSUME NEW v \in Workers
      PROVE  /\ Passes(m, v)' \in {Passes(n, v), Passes(n, v) + 1}
             /\ v = w => Passes(m, v)' = Passes(n, v) + 1
  BY <1>0, <1>1, <1>2, <1>3 DEF Passes
<1>6. ASSUME NEW v \in C \ {w}
      PROVE  Passes(m, v)' = Passes(n, v)
  <2>1. v \in Workers /\ RingDistance(w) < RingDistance(v)
    OBVIOUS
  <2>2. /\ RingDistance(w) = IF w > rrIndex THEN w - 1 - rrIndex
                                            ELSE w - 1 - rrIndex + NumWorkers
        /\ RingDistance(v) = IF v > rrIndex THEN v - 1 - rrIndex
                                            ELSE v - 1 - rrIndex + NumWorkers
    BY <2>1, Distance
  <2>3. CASE w > rrIndex
    BY <1>0, <1>1, <1>2, <1>3, <2>1, <2>2, <2>3 DEF Passes
  <2>4. CASE ~(w > rrIndex)
    BY <1>0, <1>1, <1>2, <1>3, <2>1, <2>2, <2>4 DEF Passes
  <2> QED
    BY <2>3, <2>4
<1> QED
  BY <1>5, <1>6

\* The requests that avoid a name are finitely many.
LEMMA AvoidingFinite ==
  \A w \in Workers : /\ Avoiding(w) \subseteq Requests /\ IsFiniteSet(Avoiding(w))
                     /\ Cardinality(Avoiding(w)) \in Nat
<1>1. \A w \in Workers : Avoiding(w) \subseteq Requests
  BY DEF Avoiding
<1> QED
  BY <1>1, RequestsAssumption, FS_Subset, FS_CardinalityType

\* A new attempt adds its request to those that avoid the name of v when v's
\* circuit is closed and v is no candidate; no request ever leaves them.
LEMMA AvoidingGrows ==
  ASSUME TypeOK, ControlInv, OpenCircuitEarned,
         NEW r \in Requests, pc[r] = "choose", NEW w \in Workers,
         history' = [history EXCEPT ![r] = Append(@, w)], NEW v \in Workers
  PROVE  /\ Cardinality(Avoiding(v)') >= Cardinality(Avoiding(v))
         /\ failures[v] < FailureThreshold /\ v \notin Candidates(r) =>
              Cardinality(Avoiding(v)') = Cardinality(Avoiding(v)) + 1
<1>1. history[r] \in Seq(Workers) /\ Len(history[r]) \in Nat
  BY DEF TypeOK
<1>2. Len(history[r]) <= 1
  <2>1. Len(history[r]) <= MaxRetries
    BY DEF ControlInv
  <2> QED
    BY <1>1, <2>1, MaxRetriesAssumption
<1>3. /\ \A q \in Requests \ {r} : history'[q] = history[q]
      /\ history'[r] = Append(history[r], w)
  BY DEF TypeOK
<1>4. r \notin Avoiding(v)
  <2>1. \A n \in Nat : n <= 1 => n # 2
    OBVIOUS
  <2>2. Len(history[r]) # 2
    BY <1>1, <1>2, <2>1
  <2> QED
    BY <2>2 DEF Avoiding
<1>5. Avoiding(v)' = Avoiding(v) \/ Avoiding(v)' = Avoiding(v) \cup {r}
  BY <1>3, <1>4 DEF Avoiding
<1>6. Cardinality(Avoiding(v) \cup {r}) = Cardinality(Avoiding(v)) + 1
  BY <1>4, AvoidingFinite, FS_AddElement
<1>7. ASSUME failures[v] < FailureThreshold, v \notin Candidates(r)
      PROVE  r \in Avoiding(v)'
  <2>1. openFor[v] = 0
    <3>1. failures[v] \in Nat /\ openFor[v] \in Nat
      BY OpenTicksAssumption DEF TypeOK
    <3>2. ~ (openFor[v] > 0)
      BY <1>7, <3>1, ThresholdAssumption DEF OpenCircuitEarned
    <3> QED
      BY <3>1, <3>2
  <2>2. PICK i \in DOMAIN history[r] : Name[history[r][i]] = Name[v]
    BY <1>7, <2>1 DEF Candidates, Excluded
  <2>3. i = 1 /\ Len(history[r]) = 1
    <3>1. i \in 1..Len(history[r])
      BY <1>1, <2>2
    <3>2. \A n \in Nat : \A j \in 1..n : n <= 1 => j = 1 /\ n = 1
      OBVIOUS
    <3> QED
      BY <1>1, <1>2, <3>1, <3>2
  <2>4. Len(history'[r]) = 2 /\ history'[r][1] = history[r][1]
    BY <1>1, <1>3, <2>3
  <2> QED
    BY <2>2, <2>3, <2>4 DEF Avoiding
<1>8. Cardinality(Avoiding(v)) \in Nat
  BY AvoidingFinite
<1>9. CASE r \in Avoiding(v)'
  <2>1. Cardinality(Avoiding(v)') = Cardinality(Avoiding(v)) + 1
    BY <1>4, <1>5, <1>6, <1>9
  <2> QED
    BY <1>8, <2>1
<1>10. CASE r \notin Avoiding(v)'
  <2>1. Cardinality(Avoiding(v)') = Cardinality(Avoiding(v))
    BY <1>5, <1>10
  <2> QED
    BY <1>7, <1>8, <1>10, <2>1
<1> QED
  BY <1>9, <1>10

\* Every step keeps TurnInv: choose_worker passes over a worker only because its
\* circuit is open or its name was tried, and failures are never taken back.
LEMMA TurnNext ==
  ASSUME TypeOK, ControlInv, OpenCircuitEarned, TurnInv, [Next]_vars
  PROVE  TurnInv'
<1>1. /\ failures \in [Workers -> Nat] /\ attempts \in [Workers -> Nat]
      /\ \A n \in Nat : \A w \in Workers : Passes(n, w) \in Nat
  BY DEF TypeOK, Passes
<1>2. ASSUME UNCHANGED <<history, attempts, rrIndex>>,
             \A w \in Workers : failures'[w] \in Nat /\ failures[w] <= failures'[w]
      PROVE  TurnInv'
  <2> SUFFICES ASSUME Policy = "round_robin"
               PROVE  (\E n \in Nat : \A w \in Workers :
                         /\ attempts[w] <= Passes(n, w)
                         /\ failures[w] < FailureThreshold =>
                              Passes(n, w) <= attempts[w] + Cardinality(Avoiding(w)))'
    BY DEF TurnInv
  <2>1. PICK n \in Nat : \A w \in Workers :
          /\ attempts[w] <= Passes(n, w)
          /\ failures[w] < FailureThreshold =>
               Passes(n, w) <= attempts[w] + Cardinality(Avoiding(w))
    BY DEF TurnInv
  <2>2. \A w \in Workers : Passes(n, w)' = Passes(n, w) /\ Avoiding(w)' = Avoiding(w)
    BY <1>2 DEF Passes, Avoiding
  <2>3. \A w \in Workers :
          failures'[w] < FailureThreshold => failures[w] < FailureThreshold
    BY <1>1, <1>2, ThresholdAssumption
  <2> QED
    BY <1>2, <2>1, <2>2, <2>3
<1>3. ASSUME NEW r \in Requests, ChooseWorker(r)
      PROVE  TurnInv'
  <2> SUFFICES ASSUME Policy = "round_robin"
               PROVE  (\E n \in Nat : \A w \in Workers :
                         /\ attempts[w] <= Passes(n, w)
                         /\ failures[w] < FailureThreshold =>
                              Passes(n, w) <= attempts[w] + Cardinality(Avoiding(w)))'
    BY DEF TurnInv
  <2>1. PICK w \in Candidates(r) :
          /\ Preferred(w, Candidates(r))
          /\ attempts' = [attempts EXCEPT ![w] = @ + 1]
          /\ rrIndex' = IF Policy = "round_robin" THEN w % NumWorkers ELSE rrIndex
          /\ history' = [history EXCEPT ![r] = Append(@, w)]
    BY <1>3 DEF ChooseWorker
  <2>2. w \in Workers /\ Candidates(r) \subseteq Workers
    BY DEF Candidates
  <2>3. PICK n \in Nat : \A v \in Workers :
          /\ attempts[v] <= Passes(n, v)
          /\ failures[v] < FailureThreshold =>
               Passes(n, v) <= attempts[v] + Cardinality(Avoiding(v))
    BY DEF TurnInv
  <2>4. /\ \A v \in Candidates(r) \ {w} : RingDistance(w) < RingDistance(v)
        /\ rrIndex' = w % NumWorkers
    BY <2>1 DEF Preferred
  <2>5. PICK m \in Nat : \A v \in Workers :
          /\ Passes(m, v)' \in {Passes(n, v), Passes(n, v) + 1}
          /\ v = w => Passes(m, v)' = Passes(n, v) + 1
          /\ v \in Candidates(r) \ {w} => Passes(m, v)' = Passes(n, v)
    BY <2>2, <2>4, ScanStops
  <2>6. pc[r] = "choose" /\ failures' = failures
    BY <1>3 DEF ChooseWorker, outcomeVars
  <2>7. ASSUME NEW v \in Workers
        PROVE  /\ attempts'[v] <= Passes(m, v)'
               /\ failures'[v] < FailureThreshold =>
                    Passes(m, v)' <= attempts'[v] + Cardinality(Avoiding(v)')
    <3>1. /\ Cardinality(Avoiding(v)') >= Cardinality(Avoiding(v))
          /\ failures[v] < FailureThreshold /\ v \notin Candidates(r) =>
               Cardinality(Avoiding(v)') = Cardinality(Avoiding(v)) + 1
      BY <2>1, <2>2, <2>6, AvoidingGrows
    <3>a. Cardinality(Avoiding(v)') \in Nat
      <4>1. Avoiding(v)' \subseteq Requests
        BY DEF Avoiding
      <4> QED
        BY <4>1, RequestsAssumption, FS_Subset, FS_CardinalityType
    <3>2. /\ attempts[v] \in Nat /\ Passes(n, v) \in Nat
          /\ Cardinality(Avoiding(v)) \in Nat /\ Cardinality(Avoiding(v)') \in Nat
          /\ attempts'[v] = IF v = w THEN attempts[v] + 1 ELSE attempts[v]
      BY <1>1, <2>1, <2>2, <3>a, AvoidingFinite
    <3>3. CASE v = w
      BY <2>3, <2>5, <2>6, <3>1, <3>2, <3>3
    <3>4. CASE v \in Candidates(r) \ {w}
      BY <2>3, <2>5, <2>6, <3>1, <3>2, <3>4
    <3>5. CASE v \notin Candidates(r) /\ v # w
      BY <2>3, <2>5, <2>6, <3>1, <3>2, <3>5
    <3> QED
      BY <3>3, <3>4, <3>5
  <2>8. \A v \in Workers :
          (attempts[v] <= Passes(m, v)
            /\ (failures[v] < FailureThreshold =>
                  Passes(m, v) <= attempts[v] + Cardinality(Avoiding(v))))'
    BY <2>7
  <2> QED
    BY <2>8
<1>4. ASSUME NEW r \in Requests,
             BeginRequest(r) \/ ChooseNone(r) \/ MarkRetry(r) \/ StartResponse(r)
             \/ ErrorReply(r) \/ \E status : HttpErrorUnreadable(r, status)
      PROVE  TurnInv'
  <2>1. UNCHANGED <<history, attempts, rrIndex, failures>>
    BY <1>4
       DEF BeginRequest, ChooseNone, MarkRetry, StartResponse, ErrorReply,
           HttpErrorUnreadable, routerVars, workerVars, outcomeVars
  <2> QED
    BY <1>1, <1>2, <2>1
<1>5. ASSUME NEW r \in Requests,
             \/ \E status \in ErrorCodes : HttpError(r, status)
             \/ Unreachable(r) \/ StreamEnds(r)
      PROVE  TurnInv'
  <2>1. /\ UNCHANGED <<history, attempts, rrIndex>>
        /\ \/ failures' = failures
           \/ \E w \in Workers : failures' = [failures EXCEPT ![w] = @ + 1]
    <3>1. Worker(r) \in Workers
      BY <1>5, CurrentWorker
         DEF HttpError, Unreachable, StreamEnds, StreamEof, StreamError,
             StreamReset, EndStream
    <3> QED
      BY <1>5, <3>1
         DEF HttpError, Unreachable, StreamEnds, StreamEof, StreamError,
             StreamReset, EndStream, CompleteSuccess, CompleteFailure, Cancel,
             Release, routerVars
  <2>2. \A w \in Workers : failures'[w] \in Nat /\ failures[w] <= failures'[w]
    <3>1. CASE failures' = failures
      BY <1>1, <3>1
    <3>2. ASSUME NEW w \in Workers, failures' = [failures EXCEPT ![w] = @ + 1]
          PROVE  \A v \in Workers : failures'[v] \in Nat /\ failures[v] <= failures'[v]
      BY <1>1, <3>2
    <3> QED
      BY <2>1, <3>1, <3>2
  <2> QED
    BY <1>2, <2>1, <2>2
<1>6. CASE Tick \/ UNCHANGED vars
  <2>1. UNCHANGED <<history, attempts, rrIndex, failures>>
    BY <1>6 DEF Tick, vars, routerVars, workerVars, outcomeVars, handlerVars
  <2> QED
    BY <1>1, <1>2, <2>1
<1> QED
  BY <1>3, <1>4, <1>5, <1>6 DEF Next, Handler, Choose, UpstreamAnswers

\* round_robin spreads attempts evenly, also while circuits are open and requests
\* are retried: a worker that has not failed often enough to be shut out is at
\* most one attempt behind any other, plus the retries that had to avoid it.
THEOREM RoundRobinIsEven == Spec => []RoundRobinEven
<1>1. Init => TurnInv
  <2> SUFFICES ASSUME Init PROVE TurnInv
    OBVIOUS
  <2>1. \A w \in Workers : attempts[w] = 0 /\ Passes(0, w) = 0
    BY WorkersAssumption DEF Init, Workers, Passes
  <2>2. \A w \in Workers : 0 <= 0 + Cardinality(Avoiding(w))
    BY AvoidingFinite
  <2> QED
    BY <2>1, <2>2 DEF TurnInv
<1>2. TypeOK /\ ControlInv /\ OpenCircuitEarned /\ TurnInv /\ [Next]_vars => TurnInv'
  BY TurnNext
<1>3. TypeOK /\ TurnInv => RoundRobinEven
  <2> SUFFICES ASSUME TypeOK, TurnInv, Policy = "round_robin",
                      NEW v \in Workers, NEW w \in Workers,
                      failures[w] < FailureThreshold
               PROVE  attempts[v] <= attempts[w] + 1 + Cardinality(Avoiding(w))
    BY DEF RoundRobinEven
  <2>1. PICK n \in Nat : /\ attempts[v] <= Passes(n, v)
                         /\ Passes(n, w) <= attempts[w] + Cardinality(Avoiding(w))
    BY DEF TurnInv
  <2>2. /\ attempts[v] \in Nat /\ attempts[w] \in Nat
        /\ Cardinality(Avoiding(w)) \in Nat
    BY AvoidingFinite DEF TypeOK
  <2>3. /\ Passes(n, v) \in {n, n + 1} /\ Passes(n, w) \in {n, n + 1}
    BY DEF Passes
  <2> QED
    BY <2>1, <2>2, <2>3
<1> QED
  BY <1>1, <1>2, <1>3, TypeCorrect, CircuitsEarned, PTL DEF Spec

-----------------------------------------------------------------------------
(* latency_aware *)

\* No handler has died without settling, and an average once measured is not 0.
MeasuredInv ==
  /\ \A r \in Requests : pc[r] # "aborted"
  /\ \A w \in Workers : ewma[w] # Unmeasured => ewma[w] > 0

\* Every step keeps MeasuredInv: complete and cancel blend
\* two positive latencies into a positive one.
LEMMA MeasuredNext ==
  ASSUME ~ErrorBodyMayFail, 0 \notin Latencies,
         TypeOK, ControlInv, MeasuredInv, [Next]_vars
  PROVE  MeasuredInv'
<1> USE DEF Goto
<1>1. ASSUME NEW r \in Requests, NEW label \in Control \ {"aborted"},
             pc' = [pc EXCEPT ![r] = label],
             ewma' = ewma \/ \E w \in Workers : Release(w)
      PROVE  MeasuredInv'
  <2>1. \A q \in Requests : pc'[q] # "aborted"
    BY <1>1 DEF MeasuredInv, TypeOK
  <2>2. ASSUME NEW w \in Workers, Release(w), NEW v \in Workers,
               ewma'[v] # Unmeasured
        PROVE  ewma'[v] > 0
    <3>1. PICK latency \in Latencies : \E average \in Blend(ewma[w], latency) :
            ewma' = [ewma EXCEPT ![w] = average]
      BY <2>2 DEF Release
    <3>2. PICK average \in Blend(ewma[w], latency) :
            ewma' = [ewma EXCEPT ![w] = average]
      BY <3>1
    <3>3. latency \in Nat /\ latency > 0
      BY LatenciesAssumption
    <3>4. ewma[w] = Unmeasured \/ (ewma[w] \in Nat /\ ewma[w] > 0)
      BY DEF MeasuredInv, TypeOK
    <3>5. average > 0
      BY <3>2, <3>3, <3>4 DEF Blend
    <3> QED
      BY <2>2, <3>2, <3>5 DEF MeasuredInv, TypeOK
  <2> QED
    BY <1>1, <2>1, <2>2 DEF MeasuredInv
<1>2. ASSUME NEW r \in Requests,
             (\E status \in ErrorCodes : HttpError(r, status)) \/ Unreachable(r)
      PROVE  MeasuredInv'
  <2>1. Worker(r) \in Workers /\ Release(Worker(r))
    BY <1>2, CurrentWorker DEF HttpError, Unreachable, CompleteFailure
  <2>2. \E label \in Control \ {"aborted"} : pc' = [pc EXCEPT ![r] = label]
    BY <1>2 DEF HttpError, Unreachable, Control
  <2> QED
    BY <1>1, <2>1, <2>2
<1>3. ASSUME NEW r \in Requests, StreamEnds(r)
      PROVE  MeasuredInv'
  <2>1. Worker(r) \in Workers /\ Release(Worker(r))
    BY <1>3, CurrentWorker
       DEF StreamEnds, StreamEof, StreamError, StreamReset, EndStream,
           CompleteSuccess,
           CompleteFailure, Cancel
  <2>2. pc' = [pc EXCEPT ![r] = "done"]
    BY <1>3 DEF StreamEnds, StreamEof, StreamError, StreamReset, EndStream
  <2> QED
    BY <1>1, <2>1, <2>2 DEF Control
<1>4. ASSUME NEW r \in Requests,
             \/ BeginRequest(r) \/ Choose(r) \/ MarkRetry(r) \/ StartResponse(r)
             \/ ErrorReply(r)
      PROVE  MeasuredInv'
  <2>1. ewma' = ewma
    BY <1>4
       DEF BeginRequest, Choose, ChooseWorker, ChooseNone, MarkRetry,
           StartResponse,
           ErrorReply, workerVars, outcomeVars
  <2>2. \E label \in Control \ {"aborted"} : pc' = [pc EXCEPT ![r] = label]
    BY <1>4
       DEF BeginRequest, Choose, ChooseWorker, ChooseNone, MarkRetry,
           StartResponse,
           ErrorReply, Control
  <2> QED
    BY <1>1, <2>1, <2>2
<1>5. CASE Tick \/ UNCHANGED vars
  <2>1. UNCHANGED <<pc, ewma>>
    BY <1>5 DEF Tick, vars, handlerVars, workerVars, outcomeVars
  <2> QED
    BY <2>1 DEF MeasuredInv
<1>6. \A r \in Requests : \A status : ~HttpErrorUnreadable(r, status)
  BY DEF HttpErrorUnreadable
<1>7. (\E r \in Requests : StreamEnds(r)) => MeasuredInv'
  BY <1>3
<1>8. (\E r \in Requests :
         (\E status \in ErrorCodes : HttpError(r, status)) \/ Unreachable(r))
        => MeasuredInv'
  BY <1>2
<1> QED
  BY <1>4, <1>5, <1>6, <1>7, <1>8 DEF Next, Handler, UpstreamAnswers

\* The product of the key of a measured worker.
LEMMA ProductType ==
  ASSUME TypeOK, NEW u \in Workers, ewma[u] # Unmeasured
  PROVE  ewma[u] * (inflight[u] + 1) \in Int
<1> DEFINE a == ewma[u]
           b == inflight[u]
<1>1. a \in Nat
  BY DEF TypeOK
<1>2. b \in Nat
  BY DEF TypeOK
<1> HIDE DEF a, b
<1>3. a * (b + 1) \in Int
  BY <1>1, <1>2
<1> QED
  BY <1>3 DEF a, b

\* Between two measured workers the second component decides, or is equal.
LEMMA SecondDecides ==
  ASSUME TypeOK, MeasuredInv, NEW w \in Workers, NEW v \in Workers,
         ewma[w] # Unmeasured, ewma[v] # Unmeasured,
         LexLess(LatencyKey(w), LatencyKey(v))
  PROVE  ewma[w] * (inflight[w] + 1) <= ewma[v] * (inflight[v] + 1)
<1> DEFINE s == LatencyKey(w)
           t == LatencyKey(v)
           x == ewma[w] * (inflight[w] + 1)
           y == ewma[v] * (inflight[v] + 1)
<1>1. PICK i \in DOMAIN s : s[i] < t[i] /\ \A j \in 1..(i - 1) : s[j] = t[j]
  BY DEF LexLess
<1>2. LatencyWeight(w) = ewma[w] /\ LatencyWeight(v) = ewma[v]
  <2>1. \A u \in Workers : ewma[u] # Unmeasured => LatencyWeight(u) = ewma[u]
    <3> SUFFICES ASSUME NEW u \in Workers, ewma[u] # Unmeasured
                 PROVE  LatencyWeight(u) = ewma[u]
      OBVIOUS
    <3>1. ewma[u] \in Nat /\ ewma[u] > 0
      BY DEF MeasuredInv, TypeOK
    <3>2. ewma[u] # 0
      BY <3>1
    <3> QED
      BY <3>2 DEF LatencyWeight
  <2> QED
    BY <2>1
<1>3. i \in 1..5 /\ s[1] = 1 /\ t[1] = 1 /\ s[2] = x /\ t[2] = y
  BY <1>2 DEF LatencyKey
<1>4. x \in Int /\ y \in Int
  <2>1. \A u \in Workers : ewma[u] # Unmeasured =>
          ewma[u] * (inflight[u] + 1) \in Int
    BY ProductType
  <2> QED
    BY <2>1
<1> HIDE DEF s, t, x, y
<1>5. i # 1
  BY <1>1, <1>3
<1>6. CASE i = 2
  <2>1. x < y
    BY <1>1, <1>3, <1>6
  <2>2. x <= y
    BY <1>4, <2>1
  <2> QED
    BY <2>2 DEF x, y
<1>7. CASE i # 2
  <2>1. 2 \in 1..(i - 1)
    BY <1>3, <1>5, <1>7
  <2>2. x = y
    BY <1>1, <1>3, <2>1
  <2> QED
    BY <1>4, <2>2 DEF x, y
<1> QED
  BY <1>6, <1>7 DEF x, y

\* A product orders its second factors.
LEMMA ProductOrders ==
  ASSUME NEW k \in Nat, NEW a \in Nat, NEW b \in Nat, k * (a + 1) < k * (b + 1)
  PROVE  a <= b
<1> SUFFICES ASSUME b < a PROVE FALSE
  OBVIOUS
<1>1. PICK d \in Nat : a = b + d
  <2>1. a - b \in Nat /\ a = b + (a - b)
    OBVIOUS
  <2> QED
    BY <2>1
<1>2. k * (a + 1) = k * (b + 1) + k * d
  BY <1>1
<1>3. k * d \in Nat /\ k * (b + 1) \in Nat
  OBVIOUS
<1> QED
  BY <1>2, <1>3

\* What precedes a worker that has not been measured has not been measured
\* either, and has no more requests in progress.
LEMMA UnmeasuredFirst ==
  ASSUME TypeOK, NEW w \in Workers, NEW v \in Workers, ewma[v] = Unmeasured,
         LexLess(LatencyKey(w), LatencyKey(v))
  PROVE  ewma[w] = Unmeasured /\ inflight[w] <= inflight[v]
<1> DEFINE s == LatencyKey(w)
           t == LatencyKey(v)
<1>1. PICK i \in DOMAIN s : s[i] < t[i] /\ \A j \in 1..(i - 1) : s[j] = t[j]
  BY DEF LexLess
<1>2. /\ i \in 1..5 /\ s[1] = (IF ewma[w] = Unmeasured THEN 0 ELSE 1) /\ t[1] = 0
      /\ s[2] = LatencyWeight(w) * (inflight[w] + 1)
      /\ t[2] = OneSecond * (inflight[v] + 1)
      /\ s[3] = inflight[w] /\ t[3] = inflight[v]
  BY DEF LatencyKey, LatencyWeight
<1>3. inflight[w] \in Nat /\ inflight[v] \in Nat /\ OneSecond \in Nat
  BY LatenciesAssumption DEF TypeOK
<1> HIDE DEF s, t
<1>4. i # 1
  BY <1>1, <1>2
<1>5. ewma[w] = Unmeasured
  <2>1. 1 \in 1..(i - 1)
    BY <1>2, <1>4
  <2> QED
    BY <1>1, <1>2, <2>1
<1>6. LatencyWeight(w) = OneSecond
  BY <1>5 DEF LatencyWeight
<1>7. CASE i = 2
  <2>1. OneSecond * (inflight[w] + 1) < OneSecond * (inflight[v] + 1)
    BY <1>1, <1>2, <1>6, <1>7
  <2> QED
    BY <1>3, <1>5, <2>1, ProductOrders
<1>8. CASE i = 3
  BY <1>1, <1>2, <1>3, <1>5, <1>8
<1>9. CASE i > 3
  <2>1. 3 \in 1..(i - 1)
    BY <1>2, <1>9
  <2> QED
    BY <1>1, <1>2, <1>3, <1>5, <2>1
<1> QED
  BY <1>2, <1>4, <1>7, <1>8, <1>9

\* latency_aware gives each attempt to an unmeasured candidate with the fewest
\* requests in progress, or to the candidate with the smallest product of average
\* latency and load once all have been measured.  Without the two hypotheses it
\* does not hold: an average of 0 counts as one second, and the gauge keeps
\* counting a handler that died.
THEOREM LowestLatencyChosen ==
  ASSUME ~ErrorBodyMayFail, 0 \notin Latencies
  PROVE  Spec => LowestLatency
<1>1. TypeOK /\ ControlInv /\ InflightAccounting /\ MeasuredInv /\ [Next]_vars =>
        [ChoosesByLatency]_vars
  <2> SUFFICES ASSUME TypeOK, InflightAccounting, MeasuredInv, [Next]_vars,
                      Policy = "latency_aware",
                      NEW r \in Requests, history'[r] # history[r]
               PROVE  LET Load(w)    == Cardinality(Active(w))
                          unmeasured == {w \in Candidates(r) : ewma[w] = Unmeasured}
                          chosen     == ChosenFor(r)
                      IN  IF unmeasured # {}
                          THEN /\ chosen \in unmeasured
                               /\ \A v \in unmeasured : Load(chosen) <= Load(v)
                          ELSE \A v \in Candidates(r) :
                                 ewma[chosen] * (Load(chosen) + 1)
                                   <= ewma[v] * (Load(v) + 1)
    BY DEF ChoosesByLatency
  <2>1. PICK w \in Candidates(r) :
          Preferred(w, Candidates(r)) /\ ChosenFor(r) = w
    BY ChosenIsPreferred
  <2>2. w \in Workers /\ Candidates(r) \subseteq Workers
    BY DEF Candidates
  <2>3. \A v \in Candidates(r) \ {w} : LexLess(LatencyKey(w), LatencyKey(v))
    BY <2>1 DEF Preferred
  <2>4. \A v \in Workers : Cardinality(Active(v)) = inflight[v] /\ inflight[v] \in Nat
    BY GaugeIsActive DEF MeasuredInv, TypeOK
  <2>5. ASSUME NEW v \in Candidates(r), ewma[v] = Unmeasured
        PROVE  ewma[w] = Unmeasured /\ inflight[w] <= inflight[v]
    BY <2>2, <2>3, <2>4, <2>5, UnmeasuredFirst
  <2>6. ASSUME \A v \in Candidates(r) : ewma[v] # Unmeasured,
               NEW v \in Candidates(r)
        PROVE  ewma[w] * (inflight[w] + 1) <= ewma[v] * (inflight[v] + 1)
    <3>1. CASE v = w
      <4>1. ewma[w] * (inflight[w] + 1) \in Int
        BY <2>2, <2>6, ProductType
      <4> QED
        BY <3>1, <4>1
    <3>2. CASE v # w
      BY <2>2, <2>3, <2>6, <3>2, SecondDecides
    <3> QED
      BY <3>1, <3>2
  <2> QED
    BY <2>1, <2>2, <2>4, <2>5, <2>6
<1>2. Init => MeasuredInv
  BY DEF Init, MeasuredInv
<1>3. TypeOK /\ ControlInv /\ MeasuredInv /\ [Next]_vars => MeasuredInv'
  BY MeasuredNext
<1> QED
  BY <1>1, <1>2, <1>3, TypeCorrect, AccountsCorrect, PTL
     DEF Spec, LowestLatency

\* Nothing has been settled at a worker without an average, and what a handler
\* about to choose has tried has one: no retry keeps away from a cold worker.
ColdInv ==
  /\ \A w \in Workers : ewma[w] = Unmeasured => durations[w] = 0
  /\ \A r \in Requests : pc[r] = "choose" =>
       \A i \in DOMAIN history[r] : ewma[history[r][i]] # Unmeasured

\* complete and cancel measure their worker, whose average is a number from then on;
\* no worker is ever unmeasured again.
LEMMA ReleaseMeasures ==
  ASSUME TypeOK, NEW w \in Workers, Release(w)
  PROVE  /\ \A v \in Workers : ewma'[v] # Unmeasured <=> v = w \/ ewma[v] # Unmeasured
         /\ \A v \in Workers \ {w} : durations'[v] = durations[v]
<1>1. PICK latency \in Latencies : \E average \in Blend(ewma[w], latency) :
        ewma' = [ewma EXCEPT ![w] = average]
  BY DEF Release
<1>2. PICK average \in Blend(ewma[w], latency) :
        ewma' = [ewma EXCEPT ![w] = average]
  BY <1>1
<1>3. latency \in Nat /\ ewma[w] \in Nat \cup {Unmeasured}
  BY LatenciesAssumption DEF TypeOK
<1>4. average \in Nat
  BY <1>2, <1>3 DEF Blend, Unmeasured
<1>5. average # Unmeasured
  BY <1>4 DEF Unmeasured
<1>6. \A v \in Workers : ewma'[v] = IF v = w THEN average ELSE ewma[v]
  BY <1>2 DEF TypeOK
<1>7. \A v \in Workers \ {w} : durations'[v] = durations[v]
  BY DEF Release, TypeOK
<1> QED
  BY <1>5, <1>6, <1>7

\* Every step keeps ColdInv.
LEMMA ColdNext ==
  ASSUME TypeOK, ControlInv, ColdInv, [Next]_vars
  PROVE  ColdInv'
<1> USE DEF Goto
<1>0. \A r \in Requests : history[r] \in Seq(Workers)
  BY DEF TypeOK
<1>1. ASSUME UNCHANGED <<ewma, durations>>,
             \A r \in Requests : pc'[r] = "choose" =>
               history'[r] = <<>> \/ (pc[r] = "choose" /\ history'[r] = history[r])
      PROVE  ColdInv'
  <2>1. ASSUME NEW r \in Requests, pc'[r] = "choose", NEW i \in DOMAIN history'[r]
        PROVE  ewma'[history'[r][i]] # Unmeasured
    <3>1. pc[r] = "choose" /\ history'[r] = history[r]
      BY <1>1, <2>1
    <3> QED
      BY <1>1, <2>1, <3>1 DEF ColdInv
  <2> QED
    BY <1>1, <2>1 DEF ColdInv
<1>2. ASSUME NEW r \in Requests, Worker(r) \in Workers, Release(Worker(r)),
             NEW label, pc' = [pc EXCEPT ![r] = label], history' = history,
             label = "choose" => Len(history[r]) = 1
      PROVE  ColdInv'
  <2>1. /\ \A v \in Workers :
             ewma'[v] # Unmeasured <=> v = Worker(r) \/ ewma[v] # Unmeasured
        /\ \A v \in Workers \ {Worker(r)} : durations'[v] = durations[v]
    BY <1>2, ReleaseMeasures
  <2>2. \A v \in Workers : ewma'[v] = Unmeasured => durations'[v] = 0
    BY <2>1 DEF ColdInv
  <2>3. ASSUME NEW q \in Requests, pc'[q] = "choose", NEW i \in DOMAIN history[q]
        PROVE  ewma'[history[q][i]] # Unmeasured
    <3>1. history[q][i] \in Workers
      BY <1>0, <2>3
    <3>2. CASE q = r
      <4>1. label = "choose" /\ i = 1 /\ Len(history[r]) = 1
        BY <1>0, <1>2, <2>3, <3>2 DEF TypeOK
      <4>2. history[q][i] = Worker(r)
        BY <3>2, <4>1 DEF Worker
      <4> QED
        BY <1>2, <2>1, <4>2
    <3>3. CASE q # r
      <4>1. pc[q] = "choose"
        BY <1>2, <2>3, <3>3 DEF TypeOK
      <4>2. ewma[history[q][i]] # Unmeasured
        BY <2>3, <4>1 DEF ColdInv
      <4> QED
        BY <2>1, <3>1, <4>2
    <3> QED
      BY <3>2, <3>3
  <2> QED
    BY <1>2, <2>2, <2>3 DEF ColdInv
<1>3. ASSUME NEW r \in Requests,
             \/ \E status \in ErrorCodes : HttpError(r, status)
             \/ Unreachable(r) \/ StreamEnds(r)
      PROVE  ColdInv'
  <2>1. Worker(r) \in Workers
    BY <1>3, CurrentWorker
       DEF HttpError, Unreachable, StreamEnds, StreamEof, StreamError,
           StreamReset, EndStream
  <2>2. Release(Worker(r)) /\ history' = history
    BY <1>3
       DEF HttpError, Unreachable, StreamEnds, StreamEof, StreamError,
           StreamReset, EndStream, CompleteSuccess, CompleteFailure, Cancel
  <2>3. \E label : /\ pc' = [pc EXCEPT ![r] = label]
                   /\ label = "choose" => RetryLeft(r) /\ pc[r] = "dispatched"
    BY <1>3
       DEF HttpError, Unreachable, StreamEnds, StreamEof, StreamError,
           StreamReset, EndStream
  <2>4. RetryLeft(r) /\ pc[r] = "dispatched" => Len(history[r]) = 1
    <3>1. /\ pc[r] = "dispatched" => Len(history[r]) >= 1
          /\ RetryLeft(r) => Len(history[r]) <= MaxRetries
          /\ Len(history[r]) \in Nat
      BY <1>0 DEF RetryLeft, ControlInv
    <3>2. \A n \in Nat : n >= 1 /\ n <= MaxRetries => n = 1
      BY MaxRetriesAssumption
    <3> QED
      BY <3>1, <3>2
  <2> QED
    BY <1>2, <2>1, <2>2, <2>3, <2>4
<1>4. ASSUME NEW r \in Requests, BeginRequest(r)
      PROVE  ColdInv'
  BY <1>1, <1>4 DEF BeginRequest, workerVars, outcomeVars, ControlInv, TypeOK
<1>5. ASSUME NEW r \in Requests, ChooseWorker(r)
      PROVE  ColdInv'
  <2>1. /\ UNCHANGED <<ewma, durations>> /\ pc'[r] # "choose"
        /\ \A q \in Requests \ {r} : pc'[q] = pc[q] /\ history'[q] = history[q]
    BY <1>5 DEF ChooseWorker, outcomeVars, TypeOK
  <2> QED
    BY <1>1, <2>1
<1>6. ASSUME NEW r \in Requests,
             \/ ChooseNone(r) \/ MarkRetry(r) \/ StartResponse(r) \/ ErrorReply(r)
             \/ \E status : HttpErrorUnreadable(r, status)
      PROVE  ColdInv'
  <2>1. /\ UNCHANGED <<ewma, durations, history>> /\ pc'[r] # "choose"
        /\ \A q \in Requests \ {r} : pc'[q] = pc[q]
    BY <1>6
       DEF ChooseNone, MarkRetry, StartResponse, ErrorReply,
           HttpErrorUnreadable, workerVars, outcomeVars, TypeOK
  <2> QED
    BY <1>1, <2>1
<1>7. CASE Tick \/ UNCHANGED vars
  <2>1. UNCHANGED <<ewma, durations, history, pc>>
    BY <1>7 DEF Tick, vars, handlerVars, workerVars, outcomeVars
  <2> QED
    BY <1>1, <2>1
<1> QED
  BY <1>3, <1>4, <1>5, <1>6, <1>7 DEF Next, Handler, Choose, UpstreamAnswers

\* Only a worker that has not been measured is preferred to one that has not.
LEMMA ColdEvenNext ==
  ASSUME TypeOK, ControlInv, Accounts, OpenCircuitEarned, ColdInv, ColdStartEven,
         TypeOK', [Next]_vars
  PROVE  ColdStartEven'
<1> SUFFICES ASSUME Policy = "latency_aware", NEW v \in Workers, NEW w \in Workers,
                    ewma'[w] = Unmeasured,
                    \A u \in Workers \ {w} : Name[u] # Name[w]
             PROVE  attempts'[v] <= attempts'[w] + 1
  BY DEF ColdStartEven
<1>0. /\ \A u \in Workers : attempts[u] \in Nat /\ inflight[u] \in Nat
      /\ attempts' \in [Workers -> Nat]
      /\ \A u \in Workers : durations[u] = 0 =>
           failures[u] = 0 /\ attempts[u] = inflight[u]
  <2>1. ASSUME NEW u \in Workers
        PROVE  /\ attempts[u] \in Nat /\ inflight[u] \in Nat /\ successes[u] \in Nat
               /\ failures[u] \in Nat /\ cancellations[u] \in Nat
    BY DEF TypeOK
  <2>2. ASSUME NEW u \in Workers
        PROVE  /\ attempts[u] =
                    inflight[u] + successes[u] + failures[u] + cancellations[u]
               /\ durations[u] = successes[u] + failures[u] + cancellations[u]
    BY DEF Accounts, AttemptAccounting
  <2>3. ASSUME NEW u \in Workers, durations[u] = 0
        PROVE  failures[u] = 0 /\ attempts[u] = inflight[u]
    <3>1. successes[u] + failures[u] + cancellations[u] = 0
      BY <2>2, <2>3
    <3>2. successes[u] = 0 /\ failures[u] = 0 /\ cancellations[u] = 0
      BY <2>1, <3>1
    <3> QED
      BY <2>1, <2>2, <3>2
  <2> QED
    BY <2>1, <2>3 DEF TypeOK
<1>1. ASSUME attempts' = attempts, ewma[w] = Unmeasured
      PROVE  attempts'[v] <= attempts'[w] + 1
  BY <1>1 DEF ColdStartEven
<1>2. ASSUME NEW u \in Workers, Release(u)
      PROVE  attempts'[v] <= attempts'[w] + 1
  <2>1. ewma[w] = Unmeasured
    BY <1>2, ReleaseMeasures
  <2> QED
    BY <1>1, <1>2, <2>1 DEF Release
<1>3. ASSUME NEW r \in Requests, ChooseWorker(r)
      PROVE  attempts'[v] <= attempts'[w] + 1
  <2>1. PICK c \in Candidates(r) :
          /\ Preferred(c, Candidates(r))
          /\ attempts' = [attempts EXCEPT ![c] = @ + 1]
    BY <1>3 DEF ChooseWorker
  <2>2. c \in Workers /\ Candidates(r) \subseteq Workers
    BY DEF Candidates
  <2>3. ewma[w] = Unmeasured /\ pc[r] = "choose"
    BY <1>3 DEF ChooseWorker, outcomeVars
  <2>4. /\ attempts[v] <= attempts[w] + 1
        /\ \A u \in Workers :
             attempts'[u] = IF u = c THEN attempts[u] + 1 ELSE attempts[u]
    BY <1>0, <2>1, <2>2, <2>3 DEF ColdStartEven, TypeOK
  <2>5. w \in Candidates(r)
    <3>1. Name[w] \notin Excluded(r)
      <4> SUFFICES ASSUME NEW i \in DOMAIN history[r], Name[history[r][i]] = Name[w]
                   PROVE  FALSE
        BY DEF Excluded
      <4>1. history[r] \in Seq(Workers)
        BY DEF TypeOK
      <4>3. history[r][i] \in Workers
        BY <4>1
      <4>2. history[r][i] # w
        BY <2>3 DEF ColdInv
      <4> QED
        BY <4>2, <4>3
    <3>2. openFor[w] = 0
      <4>1. failures[w] = 0
        BY <1>0, <2>3 DEF ColdInv
      <4>2. openFor[w] \in Nat /\ ~ (failures[w] >= FailureThreshold)
        BY <4>1, ThresholdAssumption, OpenTicksAssumption DEF TypeOK
      <4>3. ~ (openFor[w] > 0)
        BY <4>2 DEF OpenCircuitEarned
      <4> QED
        BY <4>2, <4>3
    <3> QED
      BY <3>1, <3>2 DEF Candidates
  <2>6. CASE c = w \/ c # v
    BY <1>0, <2>2, <2>4, <2>6
  <2>7. CASE c # w /\ c = v
    <3>1. LexLess(LatencyKey(c), LatencyKey(w))
      BY <2>1, <2>5, <2>7 DEF Preferred
    <3>2. ewma[c] = Unmeasured /\ inflight[c] <= inflight[w]
      BY <2>2, <2>3, <3>1, UnmeasuredFirst
    <3>3. attempts[c] = inflight[c] /\ attempts[w] = inflight[w]
      BY <1>0, <2>2, <2>3, <3>2 DEF ColdInv
    <3> QED
      BY <1>0, <2>2, <2>4, <2>7, <3>2, <3>3
  <2> QED
    BY <2>6, <2>7
<1>4. ASSUME NEW r \in Requests,
             \/ \E status \in ErrorCodes : HttpError(r, status)
             \/ Unreachable(r) \/ StreamEnds(r)
      PROVE  attempts'[v] <= attempts'[w] + 1
  <2>1. Worker(r) \in Workers
    BY <1>4, CurrentWorker
       DEF HttpError, Unreachable, StreamEnds, StreamEof, StreamError,
           StreamReset, EndStream
  <2>2. Release(Worker(r))
    BY <1>4
       DEF HttpError, Unreachable, StreamEnds, StreamEof, StreamError,
           StreamReset, EndStream, CompleteSuccess, CompleteFailure, Cancel
  <2> QED
    BY <1>2, <2>1, <2>2
<1>5. ASSUME NEW r \in Requests,
             \/ BeginRequest(r) \/ ChooseNone(r) \/ MarkRetry(r)
             \/ StartResponse(r) \/ ErrorReply(r)
             \/ \E status : HttpErrorUnreadable(r, status)
      PROVE  attempts'[v] <= attempts'[w] + 1
  <2>1. UNCHANGED <<attempts, ewma>>
    BY <1>5
       DEF BeginRequest, ChooseNone, MarkRetry, StartResponse, ErrorReply,
           HttpErrorUnreadable, workerVars, outcomeVars
  <2> QED
    BY <1>1, <2>1
<1>6. CASE Tick \/ UNCHANGED vars
  <2>1. UNCHANGED <<attempts, ewma>>
    BY <1>6 DEF Tick, vars, workerVars, outcomeVars
  <2> QED
    BY <1>1, <2>1
<1> QED
  BY <1>3, <1>4, <1>5, <1>6 DEF Next, Handler, Choose, UpstreamAnswers

\* A cold start of latency_aware is even: until a worker with a name of its own
\* has been measured, no other worker gets more than one attempt ahead of it.
THEOREM ColdStartIsEven == Spec => []ColdStartEven
<1>1. Init => ColdInv /\ ColdStartEven
  BY DEF Init, ColdInv, ColdStartEven
<1>2. TypeOK /\ ControlInv /\ InflightAccounting /\ AttemptAccounting
        /\ OpenCircuitEarned /\ ColdInv /\ ColdStartEven /\ [Next]_vars
        => ColdInv' /\ ColdStartEven'
  BY NextInvariant, ColdNext, ColdEvenNext DEF Accounts
<1> QED
  BY <1>1, <1>2, TypeCorrect, AccountsCorrect, CircuitsEarned, PTL DEF Spec

-----------------------------------------------------------------------------
(* What each client receives *)

\* The last status is that of the attempt before, and the client has nothing
\* until the loop of do_POST is left: without it RetryOnlyBeforeResponse does
\* not follow from where a handler stands.
AnswerInv ==
  \A r \in Requests :
    /\ pc[r] \in {"idle", "choose", "mark", "dispatched", "reply"} =>
         answer[r] = "none"
    /\ pc[r] = "choose" /\ history[r] # <<>> => lastStatus[r] \in Retryable

Inv == TypeOK /\ ControlInv /\ AnswerInv

\* choose_worker appends one worker with a name that was not tried; nothing
\* else changes what a handler has tried.
LEMMA HistoryGrows ==
  ASSUME TypeOK, NEW r \in Requests, ChooseWorker(r)
  PROVE  \E w \in Workers :
           /\ Name[w] \notin Excluded(r)
           /\ history' = [history EXCEPT ![r] = Append(history[r], w)]
           /\ Excluded(r)' = Excluded(r) \cup {Name[w]}
           /\ \A q \in Requests \ {r} : history'[q] = history[q]
<1>1. PICK w \in Workers :
        /\ Name[w] \notin Excluded(r)
        /\ history' = [history EXCEPT ![r] = Append(history[r], w)]
  BY DEF ChooseWorker, Candidates
<1>2. history[r] \in Seq(Workers) /\ history'[r] = Append(history[r], w)
  BY <1>1 DEF TypeOK
<1>3. \A q \in Requests \ {r} : history'[q] = history[q]
  BY <1>1 DEF TypeOK
<1>4. /\ DOMAIN history'[r] = DOMAIN history[r] \cup {Len(history[r]) + 1}
      /\ \A i \in DOMAIN history[r] : history'[r][i] = history[r][i]
      /\ history'[r][Len(history[r]) + 1] = w
  BY <1>2
<1>5. Excluded(r)' = Excluded(r) \cup {Name[w]}
  BY <1>4 DEF Excluded
<1> QED
  BY <1>1, <1>3, <1>5

LEMMA HistoryKept ==
  ASSUME [Next]_vars, \A r \in Requests : ~ChooseWorker(r)
  PROVE  history' = history
  BY DEF Next, vars, handlerVars, Handler, Choose, UpstreamAnswers, StreamEnds,
         Tick, BeginRequest, ChooseNone, MarkRetry, HttpError,
         HttpErrorUnreadable, Unreachable, StartResponse, StreamEof,
         StreamError, StreamReset, EndStream, ErrorReply

-----------------------------------------------------------------------------

\* No client's request is sent to one worker name twice, whatever workers
\* share a name, policy and circuits (the set excluded of do_POST).
THEOREM NeverRepeated == Spec => []NoRepeatedWorker
<1>1. Init => NoRepeatedWorker
  BY DEF Init, NoRepeatedWorker
<1>2. TypeOK /\ NoRepeatedWorker /\ [Next]_vars => NoRepeatedWorker'
  <2> SUFFICES ASSUME TypeOK, NoRepeatedWorker, [Next]_vars PROVE NoRepeatedWorker'
    OBVIOUS
  <2>1. ASSUME NEW r \in Requests, ChooseWorker(r) PROVE NoRepeatedWorker'
    <3>1. PICK w \in Workers :
            /\ Name[w] \notin Excluded(r)
            /\ history' = [history EXCEPT ![r] = Append(history[r], w)]
            /\ \A q \in Requests \ {r} : history'[q] = history[q]
      BY <2>1, HistoryGrows
    <3>2. history[r] \in Seq(Workers) /\ history'[r] = Append(history[r], w)
      BY <3>1 DEF TypeOK
    <3>3. ASSUME NEW i \in DOMAIN history'[r], NEW j \in DOMAIN history'[r], i # j
          PROVE  Name[history'[r][i]] # Name[history'[r][j]]
      <4>1. \A k \in DOMAIN history[r] : Name[history[r][k]] # Name[w]
        BY <3>1 DEF Excluded
      <4> QED
        BY <3>2, <3>3, <4>1 DEF NoRepeatedWorker
    <3> QED
      BY <3>1, <3>3 DEF NoRepeatedWorker
  <2>2. CASE \A r \in Requests : ~ChooseWorker(r)
    BY <2>2, HistoryKept DEF NoRepeatedWorker
  <2> QED
    BY <2>1, <2>2
<1> QED
  BY <1>1, <1>2, TypeCorrect, PTL DEF Spec

-----------------------------------------------------------------------------
(* Retries and the response *)

LEMMA InvInit == Init => Inv
<1>1. Init => AnswerInv
  BY DEF Init, AnswerInv
<1> QED
  BY <1>1, InitInvariant DEF Inv

LEMMA InvNext == Inv /\ [Next]_vars => Inv'
<1> SUFFICES ASSUME TypeOK, ControlInv, AnswerInv, [Next]_vars
             PROVE  Inv'
  BY DEF Inv
<1> USE DEF Goto, vars, routerVars, handlerVars, workerVars, outcomeVars
<1>0. TypeOK' /\ ControlInv'
  BY NextInvariant
<1>1. ASSUME NEW r \in Requests, BeginRequest(r) PROVE AnswerInv'
  BY <1>1 DEF BeginRequest, TypeOK, ControlInv, AnswerInv
<1>2. ASSUME NEW r \in Requests, ChooseWorker(r) PROVE AnswerInv'
  <2>1. \A q \in Requests \ {r} : history'[q] = history[q] /\ pc'[q] = pc[q]
    BY <1>2, HistoryGrows DEF ChooseWorker, TypeOK
  <2>2. pc[r] = "choose" /\ pc'[r] \in {"dispatched", "mark"}
    BY <1>2 DEF ChooseWorker, TypeOK
  <2>3. answer' = answer /\ lastStatus' = lastStatus
    BY <1>2 DEF ChooseWorker
  <2> QED
    BY <2>1, <2>2, <2>3 DEF AnswerInv
<1>3. ASSUME NEW r \in Requests, ChooseNone(r) PROVE AnswerInv'
  BY <1>3 DEF ChooseNone, TypeOK, AnswerInv
<1>4. ASSUME NEW r \in Requests, MarkRetry(r) PROVE AnswerInv'
  BY <1>4 DEF MarkRetry, TypeOK, AnswerInv
<1>5. ASSUME NEW r \in Requests, NEW status \in ErrorCodes,
             HttpError(r, status)
      PROVE AnswerInv'
  BY <1>5 DEF HttpError, TypeOK, AnswerInv
<1>6. ASSUME NEW r \in Requests, NEW status \in ErrorCodes,
             HttpErrorUnreadable(r, status)
      PROVE AnswerInv'
  BY <1>6 DEF HttpErrorUnreadable, TypeOK, AnswerInv
<1>7. ASSUME NEW r \in Requests, Unreachable(r) PROVE AnswerInv'
  BY <1>7 DEF Unreachable, TypeOK, AnswerInv, Retryable
<1>8. ASSUME NEW r \in Requests, StartResponse(r) PROVE AnswerInv'
  BY <1>8 DEF StartResponse, TypeOK, AnswerInv
<1>9. ASSUME NEW r \in Requests, StreamEnds(r) PROVE AnswerInv'
  BY <1>9 DEF StreamEnds, StreamEof, StreamError, StreamReset, EndStream,
              TypeOK, AnswerInv
<1>10. ASSUME NEW r \in Requests, ErrorReply(r) PROVE AnswerInv'
  BY <1>10 DEF ErrorReply, TypeOK, AnswerInv
<1>11. CASE Tick \/ UNCHANGED vars
  <2>1. pc' = pc /\ history' = history /\ lastStatus' = lastStatus /\ answer' = answer
    BY <1>11 DEF Tick
  <2>2. AnswerInv'
    BY <2>1 DEF AnswerInv
  <2> QED
    BY <1>0, <2>2 DEF Inv
<1> QED
  BY <1>0, <1>1, <1>2, <1>3, <1>4, <1>5, <1>6, <1>7, <1>8, <1>9, <1>10, <1>11
     DEF Next, Handler, Choose, UpstreamAnswers, Inv

\* Another attempt is made only for a client that has received nothing, after
\* one that failed with a code from 500 up or without one (the loop of do_POST).
THEOREM RetriesUnseen == Spec => RetryOnlyBeforeResponse
<1>1. Inv /\ [Next]_vars =>
        [\A r \in Requests :
           history'[r] # history[r] =>
             /\ answer[r] = "none" /\ answer'[r] = "none"
             /\ history[r] # <<>> => lastStatus[r] \in Retryable]_vars
  <2> SUFFICES ASSUME Inv, [Next]_vars, NEW r \in Requests,
                      history'[r] # history[r]
               PROVE  /\ answer[r] = "none" /\ answer'[r] = "none"
                      /\ history[r] # <<>> => lastStatus[r] \in Retryable
    OBVIOUS
  <2>1. PICK q \in Requests : ChooseWorker(q)
    BY HistoryKept
  <2>2. q = r
    BY <2>1, HistoryGrows DEF Inv
  <2> QED
    BY <2>1, <2>2 DEF ChooseWorker, Inv, AnswerInv
<1> QED
  BY <1>1, InvInit, InvNext, PTL DEF Spec, RetryOnlyBeforeResponse


-----------------------------------------------------------------------------
(* The refinement *)

\* Few enough workers have been tried for another attempt.
LEMMA TriedBounded ==
  ASSUME TypeOK, ControlInv, NEW r \in Requests, pc[r] = "choose"
  PROVE  Cardinality(Excluded(r)) < MaxRetries + 1
<1>1. history[r] \in Seq(Workers) /\ Len(history[r]) <= MaxRetries
  BY DEF TypeOK, ControlInv
<1>a. Len(history[r]) \in Nat
  BY <1>1
<1>b. Len(history[r]) <= 1
  BY <1>1, <1>a, MaxRetriesAssumption
<1>c. \A n \in Nat : n <= 1 => n = 0 \/ n = 1
  OBVIOUS
<1>0. Len(history[r]) = 0 \/ Len(history[r]) = 1
  BY <1>a, <1>b, <1>c
<1>2. CASE Len(history[r]) = 0
  <2>1. Excluded(r) = {}
    BY <1>1, <1>2 DEF Excluded
  <2> QED
    BY <2>1, FS_EmptySet, MaxRetriesAssumption
<1>3. CASE Len(history[r]) = 1
  <2>1. Excluded(r) = {Name[history[r][1]]}
    BY <1>1, <1>3 DEF Excluded
  <2>2. Cardinality(Excluded(r)) = 1
    BY <2>1, FS_Singleton
  <2> QED
    BY <1>1, <1>3, <2>2, MaxRetriesAssumption
<1> QED
  BY <1>0, <1>2, <1>3

\* What the client sees of a step that changes no handler's attempts.
LEMMA ExcludedKept ==
  ASSUME history' = history, NEW r \in Requests
  PROVE  Excluded(r)' = Excluded(r)
  BY DEF Excluded

LEMMA DeliveryInit == Init => Delivery!Init
  BY DEF Init, Delivery!Init, Phase, Excluded

LEMMA DeliveryNext == Inv /\ [Next]_vars => [Delivery!Next]_(Delivery!vars)
<1> SUFFICES ASSUME Inv, [Next]_vars
             PROVE  Delivery!Next \/ UNCHANGED Delivery!vars
  OBVIOUS
<1> USE DEF Goto
<1> DEFINE phase == [r \in Requests |-> Phase(pc[r])]
           tried == [r \in Requests |-> Excluded(r)]
<1>a. TypeOK /\ ControlInv
  BY DEF Inv
<1>b. ASSUME history' = history PROVE tried' = tried
  BY <1>b, ExcludedKept
<1>c. ASSUME NEW r \in Requests, NEW label, pc' = [pc EXCEPT ![r] = label]
      PROVE  phase' = [phase EXCEPT ![r] = Phase(label)]
  BY <1>a, <1>c DEF TypeOK
<1>1. ASSUME NEW r \in Requests, BeginRequest(r) PROVE Delivery!Submit(r)
  <2>1. phase' = [phase EXCEPT ![r] = "pending"] /\ phase[r] = "new"
    BY <1>1, <1>c DEF BeginRequest, Phase
  <2> QED
    BY <1>1, <1>b, <2>1 DEF BeginRequest, Delivery!Submit
<1>2. ASSUME NEW r \in Requests, ChooseWorker(r)
      PROVE  \E n \in {Name[w] : w \in Workers} : Delivery!Try(r, n)
  <2>1. PICK w \in Workers :
          /\ Name[w] \notin Excluded(r)
          /\ Excluded(r)' = Excluded(r) \cup {Name[w]}
          /\ \A q \in Requests \ {r} : history'[q] = history[q]
    BY <1>a, <1>2, HistoryGrows
  <2>2. \A q \in Requests \ {r} : Excluded(q)' = Excluded(q)
    BY <2>1 DEF Excluded
  <2>3. tried' = [tried EXCEPT ![r] = @ \cup {Name[w]}]
    BY <2>1, <2>2
  <2>4. phase[r] = "pending" /\ phase' = phase
    <3>1. pc' = [pc EXCEPT ![r] = IF history[r] = <<>> THEN "dispatched" ELSE "mark"]
          /\ pc[r] = "choose"
      BY <1>2 DEF ChooseWorker
    <3>2. phase' = [phase EXCEPT ![r] = "pending"] /\ phase[r] = "pending"
      BY <3>1, <1>c DEF Phase
    <3> QED
      BY <3>2
  <2>5. Cardinality(tried[r]) < MaxRetries + 1
    BY <1>a, <1>2, TriedBounded DEF ChooseWorker
  <2>6. Delivery!Try(r, Name[w])
    <3>1. tried[r] = Excluded(r)
      OBVIOUS
    <3>2. Name[w] \notin tried[r]
      BY <2>1, <3>1
    <3> QED
      BY <3>2, <2>3, <2>4, <2>5
         DEF Delivery!Try, Delivery!Cardinality, Cardinality
  <2> QED
    BY <2>6
<1>3. ASSUME NEW r \in Requests, ChooseNone(r) PROVE UNCHANGED Delivery!vars
  <2>1. phase' = [phase EXCEPT ![r] = "pending"] /\ phase[r] = "pending"
    BY <1>3, <1>c DEF ChooseNone, Phase
  <2>2. phase' = phase
    BY <2>1
  <2> QED
    BY <1>3, <1>b, <2>2 DEF ChooseNone, Delivery!vars
<1>4. ASSUME NEW r \in Requests, MarkRetry(r) PROVE UNCHANGED Delivery!vars
  <2>1. phase' = [phase EXCEPT ![r] = "pending"] /\ phase[r] = "pending"
    BY <1>4, <1>c DEF MarkRetry, Phase
  <2>2. phase' = phase
    BY <2>1
  <2> QED
    BY <1>4, <1>b, <2>2 DEF MarkRetry, Delivery!vars
<1>5. ASSUME NEW r \in Requests, NEW label \in {"choose", "reply"},
             pc[r] = "dispatched", pc' = [pc EXCEPT ![r] = label],
             history' = history
      PROVE  UNCHANGED Delivery!vars
  <2>1. phase' = [phase EXCEPT ![r] = "pending"] /\ phase[r] = "pending"
    BY <1>5, <1>c DEF Phase
  <2>2. phase' = phase
    BY <2>1
  <2> QED
    BY <1>5, <1>b, <2>2 DEF Delivery!vars
<1>6. ASSUME NEW r \in Requests, StartResponse(r) PROVE Delivery!Respond(r)
  <2>1. phase' = [phase EXCEPT ![r] = "responding"] /\ phase[r] = "pending"
    BY <1>6, <1>c DEF StartResponse, Phase
  <2>2. tried[r] # {}
    <3>1. 1 \in DOMAIN history[r]
      BY <1>a, <1>6 DEF StartResponse, TypeOK, ControlInv
    <3> QED
      BY <3>1 DEF Excluded
  <2> QED
    BY <1>6, <1>b, <2>1, <2>2 DEF StartResponse, Delivery!Respond
<1>7. ASSUME NEW r \in Requests, NEW label \in {"done", "aborted"},
             pc[r] \in {"dispatched", "streaming", "reply"},
             pc' = [pc EXCEPT ![r] = label], history' = history
      PROVE  Delivery!Close(r)
  <2>1. /\ phase' = [phase EXCEPT ![r] = "closed"]
        /\ phase[r] \in {"pending", "responding"}
    BY <1>7, <1>c DEF Phase
  <2> QED
    BY <1>7, <1>b, <2>1 DEF Delivery!Close
<1>8. ASSUME pc' = pc, history' = history PROVE UNCHANGED Delivery!vars
  BY <1>8, <1>b DEF Delivery!vars
<1>9. ASSUME NEW r \in Requests, Handler(r)
      PROVE  Delivery!Next \/ UNCHANGED Delivery!vars
  <2>1. CASE BeginRequest(r)
    BY <2>1, <1>1 DEF Delivery!Next
  <2>2. CASE Choose(r)
    BY <2>2, <1>2, <1>3 DEF Choose, Delivery!Next
  <2>3. CASE MarkRetry(r)
    BY <2>3, <1>4
  <2>4. CASE \E status \in ErrorCodes : HttpError(r, status)
    BY <2>4, <1>5 DEF HttpError
  <2>5. CASE \E status \in ErrorCodes : HttpErrorUnreadable(r, status)
    BY <2>5, <1>7 DEF HttpErrorUnreadable, Delivery!Next
  <2>6. CASE Unreachable(r)
    BY <2>6, <1>5 DEF Unreachable
  <2>7. CASE StartResponse(r)
    BY <2>7, <1>6 DEF Delivery!Next
  <2>8. CASE StreamEnds(r)
    <3>1. PICK received \in {"whole", "cut", "gone"} : EndStream(r, received)
      BY <2>8 DEF StreamEnds, StreamEof, StreamError, StreamReset
    <3> QED
      BY <3>1, <1>7 DEF EndStream, Delivery!Next
  <2>9. CASE ErrorReply(r)
    BY <2>9, <1>7 DEF ErrorReply, Delivery!Next
  <2> QED
    BY <1>9, <2>1, <2>2, <2>3, <2>4, <2>5, <2>6, <2>7, <2>8, <2>9
       DEF Handler, UpstreamAnswers
<1>10. CASE Tick \/ UNCHANGED vars
  <2>1. pc' = pc /\ history' = history
    BY <1>10 DEF Tick, vars, handlerVars
  <2> QED
    BY <2>1, <1>8
<1> QED
  BY <1>9, <1>10 DEF Next

\* The router implements the safety part of RequestDelivery: whatever workers,
\* circuits and other handlers do, a client's request is tried on few enough
\* distinct names, all before the one response, and closed once.
THEOREM Delivers == Spec => Delivery!SafeSpec
<1>1. Inv /\ [Next]_vars => [Delivery!Next]_(Delivery!vars)
  BY DeliveryNext
<1> QED
  BY <1>1, DeliveryInit, InvInit, InvNext, PTL DEF Spec, Delivery!SafeSpec

-----------------------------------------------------------------------------
(* The router-wide counters, and the error a client is told of *)

Begun == {r \in Requests : pc[r] # "idle"}
Retried == {r \in Requests : Len(history[r]) = 2 /\ pc[r] # "mark"}
GivenUp == {r \in Requests : GaveUp(r)}

\* A counter goes up with the set it counts.
LEMMA OneMore ==
  ASSUME NEW S, S \subseteq Requests, NEW r, r \notin S
  PROVE  Cardinality(S \cup {r}) = Cardinality(S) + 1
<1>1. IsFiniteSet(S)
  BY RequestsAssumption, FS_Subset
<1> QED
  BY <1>1, FS_AddElement

\* What a step of one handler does to the three sets is decided by what it
\* does to that handler.
LEMMA OneHandler ==
  ASSUME NEW r \in Requests,
         \A q \in Requests \ {r} :
           /\ pc'[q] = pc[q] /\ history'[q] = history[q]
           /\ lastStatus'[q] = lastStatus[q] /\ answer'[q] = answer[q]
  PROVE  /\ (pc'[r] = "idle" <=> pc[r] = "idle") => Begun' = Begun
         /\ (Len(history'[r]) = 2 /\ pc'[r] # "mark"
              <=> Len(history[r]) = 2 /\ pc[r] # "mark") => Retried' = Retried
         /\ (GaveUp(r)' <=> GaveUp(r)) => GivenUp' = GivenUp
<1>1. \A q \in Requests \ {r} : GaveUp(q)' <=> GaveUp(q)
  BY DEF GaveUp
<1>2. (pc'[r] = "idle" <=> pc[r] = "idle") => Begun' = Begun
  BY DEF Begun
<1>3. (Len(history'[r]) = 2 /\ pc'[r] # "mark"
        <=> Len(history[r]) = 2 /\ pc[r] # "mark") => Retried' = Retried
  BY DEF Retried
<1>4. (GaveUp(r)' <=> GaveUp(r)) => GivenUp' = GivenUp
  BY <1>1 DEF GivenUp
<1> QED
  BY <1>2, <1>3, <1>4

LEMMA LenBounds ==
  ASSUME TypeOK, ControlInv, NEW r \in Requests
  PROVE  /\ Len(history[r]) \in 0..2
         /\ history[r] = <<>> <=> Len(history[r]) = 0
         /\ Len(history[r]) <= MaxRetries + 1
<1>1. history[r] \in Seq(Workers)
  BY DEF TypeOK
<1>2. Len(history[r]) \in Nat /\ (history[r] = <<>> <=> Len(history[r]) = 0)
  BY <1>1
<1>3. Len(history[r]) <= MaxRetries + 1
  BY DEF ControlInv
<1>4. \A n \in Nat : n <= MaxRetries + 1 => n \in 0..2
  BY MaxRetriesAssumption
<1> QED
  BY <1>2, <1>3, <1>4

LEMMA AccountingNext ==
  Inv /\ RequestAccounting /\ [Next]_vars => RequestAccounting'
<1> SUFFICES ASSUME Inv, RequestAccounting, [Next]_vars
             PROVE  RequestAccounting'
  OBVIOUS
<1> USE DEF Goto, vars, routerVars, handlerVars, workerVars, outcomeVars
<1>0. TypeOK /\ ControlInv /\ AnswerInv
  BY DEF Inv
<1>a. /\ requests = Cardinality(Begun) /\ retries = Cardinality(Retried)
      /\ noHealthy = Cardinality(GivenUp)
  BY DEF RequestAccounting, Begun, Retried, GivenUp
<1>b. ASSUME requests' = Cardinality(Begun)', retries' = Cardinality(Retried)',
             noHealthy' = Cardinality(GivenUp)'
      PROVE  RequestAccounting'
  BY <1>b DEF RequestAccounting, Begun, Retried, GivenUp
<1>c. ASSUME UNCHANGED <<requests, retries, noHealthy>>,
             Begun' = Begun, Retried' = Retried, GivenUp' = GivenUp
      PROVE  RequestAccounting'
  BY <1>a, <1>b, <1>c
<1>1. ASSUME NEW r \in Requests, BeginRequest(r) PROVE RequestAccounting'
  <2>1. /\ \A q \in Requests \ {r} : pc'[q] = pc[q]
        /\ pc[r] = "idle" /\ pc'[r] = "choose" /\ requests' = requests + 1
        /\ UNCHANGED <<history, lastStatus, answer, retries, noHealthy>>
    BY <1>0, <1>1 DEF BeginRequest, TypeOK
  <2>2. Begun' = Begun \cup {r} /\ r \notin Begun
    BY <2>1 DEF Begun
  <2>3. Retried' = Retried
    BY <2>1, OneHandler
  <2>4. GivenUp' = GivenUp
    BY <2>1, OneHandler DEF GaveUp
  <2>5. Cardinality(Begun \cup {r}) = Cardinality(Begun) + 1
    BY <2>2, OneMore DEF Begun
  <2> QED
    BY <1>a, <1>b, <2>1, <2>2, <2>3, <2>4, <2>5
<1>2. ASSUME NEW r \in Requests, ChooseWorker(r) PROVE RequestAccounting'
  <2>1. PICK w \in Workers : history' = [history EXCEPT ![r] = Append(history[r], w)]
    BY <1>2 DEF ChooseWorker, Candidates
  <2>2. /\ \A q \in Requests \ {r} : pc'[q] = pc[q] /\ history'[q] = history[q]
        /\ pc[r] = "choose"
        /\ pc'[r] = IF history[r] = <<>> THEN "dispatched" ELSE "mark"
        /\ UNCHANGED <<lastStatus, answer, requests, retries, noHealthy>>
    BY <1>0, <1>2, <2>1 DEF ChooseWorker, TypeOK
  <2>3. Begun' = Begun
    BY <2>2, OneHandler
  <2>4. Retried' = Retried
    <3>1. history[r] \in Seq(Workers) /\ history'[r] = Append(history[r], w)
      BY <1>0, <2>1 DEF TypeOK
    <3>2. Len(history'[r]) = Len(history[r]) + 1
      BY <3>1
    <3>3. Len(history[r]) <= MaxRetries
      BY <1>0, <2>2 DEF ControlInv
    <3>4. Len(history[r]) # 2 /\ (history[r] = <<>> => Len(history'[r]) # 2)
      <4>1. \A n \in 0..2 : n <= MaxRetries => n # 2
        BY MaxRetriesAssumption
      <4>2. Len(history[r]) \in 0..2 /\ (history[r] = <<>> <=> Len(history[r]) = 0)
        BY <1>0, LenBounds
      <4>3. Len(history[r]) # 2
        BY <3>3, <4>1, <4>2
      <4>4. \A n \in 0..2 : n = 0 => n + 1 # 2
        OBVIOUS
      <4>5. history[r] = <<>> => Len(history'[r]) # 2
        BY <3>2, <4>2, <4>4
      <4> QED
        BY <4>3, <4>5
    <3> QED
      BY <2>2, <3>4, OneHandler
  <2>5. GivenUp' = GivenUp
    BY <2>2, OneHandler DEF GaveUp
  <2> QED
    BY <1>c, <2>2, <2>3, <2>4, <2>5
<1>3. ASSUME NEW r \in Requests, ChooseNone(r) PROVE RequestAccounting'
  <2>1. /\ \A q \in Requests \ {r} : pc'[q] = pc[q]
        /\ pc[r] = "choose" /\ pc'[r] = "reply" /\ noHealthy' = noHealthy + 1
        /\ UNCHANGED <<history, lastStatus, answer, requests, retries>>
    BY <1>0, <1>3 DEF ChooseNone, TypeOK
  <2>2. Begun' = Begun /\ Retried' = Retried
    BY <2>1, OneHandler
  <2>3. GaveUp(r)' /\ ~GaveUp(r)
    BY <1>0, <2>1 DEF GaveUp, ControlInv, AnswerInv
  <2>4. GivenUp' = GivenUp \cup {r} /\ r \notin GivenUp
    <3>1. \A q \in Requests \ {r} : GaveUp(q)' <=> GaveUp(q)
      BY <2>1 DEF GaveUp
    <3> QED
      BY <2>3, <3>1 DEF GivenUp
  <2>5. Cardinality(GivenUp \cup {r}) = Cardinality(GivenUp) + 1
    BY <2>4, OneMore DEF GivenUp
  <2> QED
    BY <1>a, <1>b, <2>1, <2>2, <2>4, <2>5
<1>4. ASSUME NEW r \in Requests, MarkRetry(r) PROVE RequestAccounting'
  <2>1. /\ \A q \in Requests \ {r} : pc'[q] = pc[q]
        /\ pc[r] = "mark" /\ pc'[r] = "dispatched" /\ retries' = retries + 1
        /\ UNCHANGED <<history, lastStatus, answer, requests, noHealthy>>
    BY <1>0, <1>4 DEF MarkRetry, TypeOK
  <2>2. Len(history[r]) = 2
    <3>1. Len(history[r]) >= 2 /\ Len(history[r]) \in 0..2
      BY <1>0, <2>1, LenBounds DEF ControlInv
    <3>2. \A n \in 0..2 : n >= 2 => n = 2
      OBVIOUS
    <3> QED
      BY <3>1, <3>2
  <2>3. Begun' = Begun /\ GivenUp' = GivenUp
    BY <2>1, OneHandler DEF GaveUp
  <2>4. Retried' = Retried \cup {r} /\ r \notin Retried
    BY <2>1, <2>2 DEF Retried
  <2>5. Cardinality(Retried \cup {r}) = Cardinality(Retried) + 1
    BY <2>4, OneMore DEF Retried
  <2> QED
    BY <1>a, <1>b, <2>1, <2>3, <2>4, <2>5
\* An attempt that ends without a response gives up only when none is left.
<1>5. ASSUME NEW r \in Requests, NEW status \in Statuses,
             pc[r] = "dispatched", NEW label \in {"choose", "reply"},
             pc' = [pc EXCEPT ![r] = label],
             label = "reply" /\ status \in Retryable => ~RetryLeft(r),
             lastStatus' = [lastStatus EXCEPT ![r] = status],
             UNCHANGED <<requests, retries, noHealthy, history, answer>>
      PROVE  RequestAccounting'
  <2>1. /\ \A q \in Requests \ {r} : pc'[q] = pc[q] /\ lastStatus'[q] = lastStatus[q]
        /\ pc'[r] = label /\ lastStatus'[r] = status
    BY <1>0, <1>5 DEF TypeOK
  <2>2. Begun' = Begun /\ Retried' = Retried
    BY <1>5, <2>1, OneHandler
  <2>3. ~GaveUp(r) /\ ~GaveUp(r)'
    <3>1. history[r] # <<>>
      BY <1>0, <1>5, LenBounds DEF ControlInv
    <3> QED
      BY <1>5, <2>1, <3>1 DEF GaveUp, RetryLeft
  <2>4. GivenUp' = GivenUp
    BY <1>5, <2>1, <2>3, OneHandler
  <2> QED
    BY <1>5, <1>c, <2>2, <2>4
\* A handler that gets a response, or dies, has not given up.
<1>6. ASSUME NEW r \in Requests, NEW label \in {"streaming", "aborted", "done"},
             pc[r] \in {"dispatched", "streaming"}, pc' = [pc EXCEPT ![r] = label],
             label = "done" => answer'[r] \in {"whole", "cut", "gone"},
             \A q \in Requests \ {r} :
               lastStatus'[q] = lastStatus[q] /\ answer'[q] = answer[q],
             UNCHANGED <<requests, retries, noHealthy, history>>
      PROVE  RequestAccounting'
  <2>1. pc'[r] = label /\ \A q \in Requests \ {r} : pc'[q] = pc[q]
    BY <1>0, <1>6 DEF TypeOK
  <2>2. Begun' = Begun /\ Retried' = Retried
    BY <1>6, <2>1, OneHandler
  <2>3. ~GaveUp(r) /\ ~GaveUp(r)'
    BY <1>6, <2>1 DEF GaveUp
  <2>4. GivenUp' = GivenUp
    BY <1>6, <2>1, <2>3, OneHandler
  <2> QED
    BY <1>6, <1>c, <2>2, <2>4
<1>7. ASSUME NEW r \in Requests, ErrorReply(r) PROVE RequestAccounting'
  <2>1. /\ \A q \in Requests \ {r} : pc'[q] = pc[q] /\ answer'[q] = answer[q]
        /\ pc[r] = "reply" /\ pc'[r] = "done"
        /\ answer'[r] \in {lastStatus[r], "left"}
        /\ UNCHANGED <<history, lastStatus, requests, retries, noHealthy>>
    BY <1>0, <1>7 DEF ErrorReply, TypeOK
  <2>2. answer[r] = "none" /\ answer'[r] \notin {"whole", "cut", "gone"}
    <3>1. lastStatus[r] \in Statuses /\ answer[r] = "none"
      BY <1>0, <2>1 DEF TypeOK, AnswerInv
    <3> QED
      BY <2>1, <3>1 DEF Statuses, Retryable
  <2>3. GaveUp(r)' <=> GaveUp(r)
    BY <2>1, <2>2 DEF GaveUp
  <2> QED
    BY <1>c, <2>1, <2>3, OneHandler
<1>8. ASSUME NEW r \in Requests, NEW status \in ErrorCodes,
             HttpError(r, status)
      PROVE  RequestAccounting'
  BY <1>5, <1>8, ErrorCodesAssumption DEF HttpError
<1>9. ASSUME NEW r \in Requests, Unreachable(r) PROVE RequestAccounting'
  BY <1>5, <1>9 DEF Unreachable, Statuses, Retryable
<1>10. ASSUME NEW r \in Requests, NEW status \in ErrorCodes,
              HttpErrorUnreadable(r, status)
       PROVE  RequestAccounting'
  <2>1. \A q \in Requests \ {r} :
          lastStatus'[q] = lastStatus[q] /\ answer'[q] = answer[q]
    BY <1>0, <1>10 DEF HttpErrorUnreadable, TypeOK
  <2> QED
    BY <1>6, <1>10, <2>1 DEF HttpErrorUnreadable
<1>11. ASSUME NEW r \in Requests, StartResponse(r) PROVE RequestAccounting'
  <2>1. \A q \in Requests \ {r} : answer'[q] = answer[q]
    BY <1>0, <1>11 DEF StartResponse, TypeOK
  <2> QED
    BY <1>6, <1>11, <2>1 DEF StartResponse
<1>12. ASSUME NEW r \in Requests, StreamEnds(r) PROVE RequestAccounting'
  <2>1. PICK received \in {"whole", "cut", "gone"} : EndStream(r, received)
    BY <1>12 DEF StreamEnds, StreamEof, StreamError, StreamReset
  <2>2. answer'[r] = received /\ \A q \in Requests \ {r} : answer'[q] = answer[q]
    BY <1>0, <2>1 DEF EndStream, TypeOK
  <2> QED
    BY <1>6, <2>1, <2>2 DEF EndStream
<1>13. CASE Tick \/ UNCHANGED vars
  <2>1. UNCHANGED <<pc, history, lastStatus, answer, requests, retries, noHealthy>>
    BY <1>13 DEF Tick
  <2>2. Begun' = Begun /\ Retried' = Retried /\ GivenUp' = GivenUp
    BY <2>1 DEF Begun, Retried, GivenUp, GaveUp
  <2> QED
    BY <1>c, <2>1, <2>2
<1> QED
  BY <1>1, <1>2, <1>3, <1>4, <1>7, <1>8, <1>9, <1>10, <1>11, <1>12, <1>13
     DEF Next, Handler, Choose, UpstreamAnswers

\* The router-wide counters of /metrics agree with the handlers: one request
\* per handler that began, one retry per second attempt that mark_retry has
\* counted, one no_healthy_worker per handler that gave up with attempts left.
THEOREM RequestsAccounted == Spec => []RequestAccounting
<1>1. Init => RequestAccounting
  <2>1. ASSUME Init PROVE RequestAccounting
    <3>1. Begun = {} /\ Retried = {} /\ GivenUp = {}
      BY <2>1 DEF Init, Begun, Retried, GivenUp, GaveUp
    <3> QED
      BY <2>1, <3>1, FS_EmptySet
         DEF Init, RequestAccounting, Begun, Retried, GivenUp
  <2> QED
    BY <2>1
<1> QED
  BY <1>1, InvInit, InvNext, AccountingNext, PTL DEF Spec

\* The error reply is the last status, and "503" stays in it until a worker has
\* been tried.
StatusInv ==
  \A r \in Requests :
    /\ history[r] = <<>> =>
         lastStatus[r] = "503" /\ answer[r] \in {"none", "503", "left"}
    /\ answer[r] \in Statuses => pc[r] = "done" /\ answer[r] = lastStatus[r]

LEMMA StatusNext == Inv /\ StatusInv /\ [Next]_vars => StatusInv'
<1> SUFFICES ASSUME Inv, StatusInv, [Next]_vars
             PROVE  StatusInv'
  OBVIOUS
<1> USE DEF Goto, vars, routerVars, handlerVars, workerVars, outcomeVars
<1>0. TypeOK /\ ControlInv /\ AnswerInv
  BY DEF Inv
<1>n. {"none", "head", "whole", "cut", "gone", "left", "dropped"} \cap Statuses = {}
  BY DEF Statuses, Retryable
<1>e. \A r \in Requests :
        pc[r] \in {"mark", "dispatched", "streaming"} => history[r] # <<>>
  BY <1>0, LenBounds DEF ControlInv
\* A handler that has not replied yet.
<1>1. ASSUME NEW r \in Requests, pc[r] \notin {"done", "streaming"},
             \A q \in Requests \ {r} :
               /\ pc'[q] = pc[q] /\ history'[q] = history[q]
               /\ lastStatus'[q] = lastStatus[q] /\ answer'[q] = answer[q],
             answer'[r] \in {answer[r], "head", "dropped"},
             history'[r] # <<>> \/
               (history[r] = <<>> /\ UNCHANGED <<lastStatus, answer>>)
      PROVE  StatusInv'
  <2>1. answer'[r] \notin Statuses
    BY <1>n, <1>1 DEF StatusInv
  <2> QED
    BY <1>1, <2>1 DEF StatusInv
<1>2. ASSUME NEW r \in Requests, BeginRequest(r) \/ ChooseNone(r)
      PROVE  StatusInv'
  <2>1. /\ pc[r] \in {"idle", "choose"}
        /\ UNCHANGED <<history, lastStatus, answer>>
        /\ \A q \in Requests \ {r} : pc'[q] = pc[q]
    BY <1>0, <1>2 DEF BeginRequest, ChooseNone, TypeOK
  <2>2. answer[r] \notin Statuses
    BY <2>1 DEF StatusInv
  <2> QED
    BY <2>1, <2>2 DEF StatusInv
<1>3. ASSUME NEW r \in Requests, ChooseWorker(r) PROVE StatusInv'
  <2>1. PICK w \in Workers : history' = [history EXCEPT ![r] = Append(history[r], w)]
    BY <1>3 DEF ChooseWorker, Candidates
  <2>2. history[r] \in Seq(Workers) /\ history'[r] = Append(history[r], w)
    BY <1>0, <2>1 DEF TypeOK
  <2>3. history'[r] # <<>>
    BY <2>2
  <2>4. /\ \A q \in Requests \ {r} : pc'[q] = pc[q] /\ history'[q] = history[q]
        /\ pc[r] = "choose" /\ UNCHANGED <<lastStatus, answer>>
    BY <1>0, <1>3, <2>1 DEF ChooseWorker, TypeOK
  <2> QED
    BY <1>1, <2>3, <2>4
<1>4. ASSUME NEW r \in Requests,
             \/ MarkRetry(r) \/ Unreachable(r) \/ StartResponse(r)
             \/ \E status \in ErrorCodes :
                  HttpError(r, status) \/ HttpErrorUnreadable(r, status)
      PROVE  StatusInv'
  <2>1. /\ pc[r] \in {"mark", "dispatched"} /\ history' = history
        /\ \A q \in Requests \ {r} :
             /\ pc'[q] = pc[q] /\ lastStatus'[q] = lastStatus[q]
             /\ answer'[q] = answer[q]
        /\ answer'[r] \in {answer[r], "head", "dropped"}
    BY <1>0, <1>4
       DEF MarkRetry, Unreachable, StartResponse, HttpError,
           HttpErrorUnreadable, TypeOK
  <2>2. history[r] # <<>>
    BY <1>e, <2>1
  <2> QED
    BY <1>1, <2>1, <2>2
<1>5. ASSUME NEW r \in Requests, StreamEnds(r) PROVE StatusInv'
  <2>1. PICK received \in {"whole", "cut", "gone"} : EndStream(r, received)
    BY <1>5 DEF StreamEnds, StreamEof, StreamError, StreamReset
  <2>2. /\ UNCHANGED <<history, lastStatus>> /\ answer'[r] = received
        /\ \A q \in Requests \ {r} : pc'[q] = pc[q] /\ answer'[q] = answer[q]
        /\ history[r] # <<>>
    BY <1>0, <1>e, <2>1 DEF EndStream, TypeOK
  <2>3. answer'[r] \notin Statuses
    BY <1>n, <2>2
  <2> QED
    BY <2>2, <2>3 DEF StatusInv
<1>6. ASSUME NEW r \in Requests, ErrorReply(r) PROVE StatusInv'
  <2>1. /\ UNCHANGED <<history, lastStatus>>
        /\ answer'[r] \in {lastStatus[r], "left"} /\ pc'[r] = "done"
        /\ \A q \in Requests \ {r} : pc'[q] = pc[q] /\ answer'[q] = answer[q]
    BY <1>0, <1>6 DEF ErrorReply, TypeOK
  <2>2. answer'[r] \in Statuses => answer'[r] = lastStatus[r]
    BY <1>n, <2>1
  <2> QED
    BY <2>1, <2>2 DEF StatusInv
<1>7. CASE Tick \/ UNCHANGED vars
  <2>1. UNCHANGED <<pc, history, lastStatus, answer>>
    BY <1>7 DEF Tick
  <2> QED
    BY <2>1 DEF StatusInv
<1> QED
  BY <1>2, <1>3, <1>4, <1>5, <1>6, <1>7
     DEF Next, Handler, Choose, UpstreamAnswers

\* An error reply without a worker's name is the router's own 503, and no more
\* clients were told of a retryable status with an attempt left than
\* no_healthy_worker_requests counts (the reply after the loop of do_POST).
THEOREM RepliesTell == Spec => []ReplyTellsOutcome
<1> DEFINE ToldEarly ==
      {r \in Requests : answer[r] \in Retryable /\ Len(history[r]) <= MaxRetries}
<1>1. Init => StatusInv
  BY DEF Init, StatusInv, Statuses, Retryable
<1>2. StatusInv /\ RequestAccounting => ReplyTellsOutcome
  <2> SUFFICES ASSUME StatusInv, RequestAccounting PROVE ReplyTellsOutcome
    OBVIOUS
  <2>1. GivenUp \subseteq Requests /\ noHealthy = Cardinality(GivenUp)
    BY DEF GivenUp, RequestAccounting
  <2>2. ToldEarly \subseteq GivenUp
    BY DEF StatusInv, GivenUp, GaveUp, Statuses, Retryable
  <2>3. IsFiniteSet(GivenUp)
    BY <2>1, RequestsAssumption, FS_Subset
  <2>4. Cardinality(ToldEarly) <= Cardinality(GivenUp)
    BY <2>2, <2>3, FS_Subset
  <2> QED
    BY <2>1, <2>4 DEF ReplyTellsOutcome, StatusInv
<1> QED
  BY <1>1, <1>2, InvInit, InvNext, StatusNext, RequestsAccounted, PTL DEF Spec

-----------------------------------------------------------------------------
(* What clients received *)

\* A client whose response has begun has its head and no more.
HeadInv == \A r \in Requests : pc[r] = "streaming" => answer[r] = "head"

\* Every step keeps HeadInv.
LEMMA HeadNext ==
  ASSUME TypeOK, HeadInv, [Next]_vars
  PROVE  HeadInv'
<1>1. CASE UNCHANGED <<pc, answer>>
  BY <1>1 DEF HeadInv
<1>2. ASSUME NEW r \in Requests, NEW label \in Control \ {"streaming"},
             pc' = [pc EXCEPT ![r] = label],
             \A q \in Requests \ {r} : answer'[q] = answer[q]
      PROVE  HeadInv'
  BY <1>2 DEF HeadInv, TypeOK
<1>3. ASSUME NEW r \in Requests, StartResponse(r)
      PROVE  HeadInv'
  BY <1>3 DEF StartResponse, Goto, HeadInv, TypeOK
<1>4. ASSUME NEW r \in Requests,
             \/ BeginRequest(r) \/ Choose(r) \/ MarkRetry(r) \/ ErrorReply(r)
      PROVE  HeadInv'
  BY <1>2, <1>4
     DEF BeginRequest, Choose, ChooseWorker, ChooseNone, MarkRetry, ErrorReply,
         Goto,
         Control, TypeOK
<1>5. ASSUME NEW r \in Requests,
             \/ \E status \in ErrorCodes :
                  HttpError(r, status) \/ HttpErrorUnreadable(r, status)
             \/ Unreachable(r)
      PROVE  HeadInv'
  BY <1>2, <1>5
     DEF HttpError, HttpErrorUnreadable, Unreachable, Goto, Control, TypeOK
<1>6. ASSUME NEW r \in Requests, StreamEnds(r)
      PROVE  HeadInv'
  BY <1>2, <1>6
     DEF StreamEnds, StreamEof, StreamError, StreamReset, EndStream, Goto,
         Control, TypeOK
<1>7. CASE Tick \/ UNCHANGED vars
  BY <1>1, <1>7 DEF Tick, vars, handlerVars
<1> QED
  BY <1>3, <1>4, <1>5, <1>6, <1>7 DEF Next, Handler, UpstreamAnswers

\* The last attempt of r came to nothing before a response had started.
CameToNothing(r) == pc[r] \in {"choose", "reply"} \/ answer[r] \in Statuses \cup {"left"}

Bodies == {"whole", "cut", "gone"}

\* ClientLedger for one worker.
Ledger(w) ==
  /\ Cardinality(BodiesFrom(w, {"whole"})) <= successes[w]
  /\ Cardinality(FailedAttempts(w)) <= failures[w]
  /\ successes[w] + failures[w] + cancellations[w] =
       Cardinality(FailedAttempts(w)) + Cardinality(BodiesFrom(w, Bodies))

\* The sets of the ledger are finite.
LEMMA LedgerFinite ==
  ASSUME NEW w \in Workers
  PROVE  /\ IsFiniteSet(FailedAttempts(w)) /\ Cardinality(FailedAttempts(w)) \in Nat
         /\ \A ways : /\ IsFiniteSet(BodiesFrom(w, ways))
                      /\ Cardinality(BodiesFrom(w, ways)) \in Nat
<1>1. MaxRetries + 1 \in Int /\ 1 \in Int
  BY MaxRetriesAssumption
<1>2. IsFiniteSet(1..(MaxRetries + 1))
  BY <1>1, FS_Interval
<1>3. IsFiniteSet(Requests \X (1..(MaxRetries + 1)))
  BY <1>2, RequestsAssumption, FS_Product
<1>4. FailedAttempts(w) \subseteq Requests \X (1..(MaxRetries + 1))
  BY Zenon DEF FailedAttempts
<1>5. \A ways : BodiesFrom(w, ways) \subseteq Requests
  BY DEF BodiesFrom
<1> QED
  BY <1>3, <1>4, <1>5, RequestsAssumption, FS_Subset, FS_CardinalityType

\* FailedAttempts, by its members.
LEMMA FailedMembers ==
  ASSUME NEW w \in Workers, NEW attempt \in Requests \X (1..(MaxRetries + 1))
  PROVE  attempt \in FailedAttempts(w) <=>
           /\ attempt[2] \in DOMAIN history[attempt[1]]
           /\ history[attempt[1]][attempt[2]] = w
           /\ attempt[2] < Len(history[attempt[1]]) \/ CameToNothing(attempt[1])
BY Zenon DEF FailedAttempts, CameToNothing

\* A step after which the same attempts have failed leaves the ledger alone.
LEMMA FailedKept ==
  ASSUME TypeOK, NEW w \in Workers, history' = history,
         \A q \in Requests : history[q] # <<>> => (CameToNothing(q)' <=> CameToNothing(q))
  PROVE  FailedAttempts(w)' = FailedAttempts(w)
<1>1. ASSUME NEW attempt \in Requests \X (1..(MaxRetries + 1))
      PROVE  attempt \in FailedAttempts(w)' <=> attempt \in FailedAttempts(w)
  <2>1. attempt[1] \in Requests
    OBVIOUS
  <2>2. attempt[2] \in DOMAIN history[attempt[1]] =>
          (CameToNothing(attempt[1])' <=> CameToNothing(attempt[1]))
    BY <2>1
  <2>3. attempt \in FailedAttempts(w)' <=>
           /\ attempt[2] \in DOMAIN history'[attempt[1]]
           /\ history'[attempt[1]][attempt[2]] = w
           /\ attempt[2] < Len(history'[attempt[1]]) \/ CameToNothing(attempt[1])'
    BY Zenon DEF FailedAttempts, CameToNothing
  <2> QED
    BY <2>2, <2>3, FailedMembers
<1>2. /\ FailedAttempts(w) \subseteq Requests \X (1..(MaxRetries + 1))
      /\ FailedAttempts(w)' \subseteq Requests \X (1..(MaxRetries + 1))
  BY Zenon DEF FailedAttempts
<1> QED
  BY <1>1, <1>2

\* Bodies stay what they are unless an answer becomes one, or was one.
LEMMA BodiesKept ==
  ASSUME NEW w \in Workers, NEW ways, ways \subseteq Bodies,
         \A q \in Requests :
           answer'[q] \in Bodies \/ answer[q] \in Bodies =>
             answer'[q] = answer[q] /\ history'[q] = history[q]
  PROVE  BodiesFrom(w, ways)' = BodiesFrom(w, ways)
BY DEF BodiesFrom, Bodies, Worker

LEMMA LedgerKept ==
  ASSUME NEW w \in Workers, Ledger(w),
         UNCHANGED <<successes, failures, cancellations>>,
         FailedAttempts(w)' = FailedAttempts(w),
         \A q \in Requests :
           answer'[q] \in Bodies \/ answer[q] \in Bodies =>
             answer'[q] = answer[q] /\ history'[q] = history[q]
  PROVE  Ledger(w)'
<1>1. /\ BodiesFrom(w, {"whole"})' = BodiesFrom(w, {"whole"})
      /\ BodiesFrom(w, Bodies)' = BodiesFrom(w, Bodies)
  BY BodiesKept DEF Bodies
<1> QED
  BY <1>1 DEF Ledger

\* choose_worker adds an attempt that has not come to anything yet, and the one
\* before it has failed by then.
LEMMA LedgerChoose ==
  ASSUME TypeOK, ControlInv, AnswerInv, NEW r \in Requests, ChooseWorker(r),
         NEW w \in Workers, Ledger(w)
  PROVE  Ledger(w)'
<1>1. PICK c \in Workers : history' = [history EXCEPT ![r] = Append(history[r], c)]
  BY DEF ChooseWorker, Candidates
<1>2. /\ pc[r] = "choose" /\ pc'[r] \in {"dispatched", "mark"}
      /\ \A q \in Requests \ {r} : pc'[q] = pc[q]
      /\ UNCHANGED <<answer, successes, failures, cancellations>>
  BY DEF ChooseWorker, Goto, outcomeVars, TypeOK
<1>3. /\ history[r] \in Seq(Workers) /\ Len(history[r]) \in Nat
      /\ history'[r] = Append(history[r], c)
      /\ \A q \in Requests \ {r} : history'[q] = history[q]
  <2>1. history[r] \in Seq(Workers)
    BY DEF TypeOK
  <2>2. Len(history[r]) \in Nat
    BY <2>1
  <2>3. /\ history'[r] = Append(history[r], c)
        /\ \A q \in Requests \ {r} : history'[q] = history[q]
    BY <1>1 DEF TypeOK
  <2> QED
    BY <2>1, <2>2, <2>3
<1>4. answer[r] = "none" /\ "none" \notin Statuses \cup {"left"}
  BY <1>2 DEF AnswerInv, Statuses, Retryable
<1>5. CameToNothing(r) /\ ~CameToNothing(r)' /\ \A q \in Requests \ {r} : CameToNothing(q)' <=> CameToNothing(q)
  BY <1>2, <1>4 DEF CameToNothing
<1>6. ASSUME NEW attempt \in Requests \X (1..(MaxRetries + 1))
      PROVE  attempt \in FailedAttempts(w)' <=> attempt \in FailedAttempts(w)
  <2> DEFINE q == attempt[1]
             i == attempt[2]
  <2>1. q \in Requests /\ i \in Nat
    BY MaxRetriesAssumption
  <2>2. attempt \in FailedAttempts(w)' <=>
           /\ i \in DOMAIN history'[q]
           /\ history'[q][i] = w
           /\ i < Len(history'[q]) \/ CameToNothing(q)'
    BY Zenon DEF FailedAttempts, CameToNothing
  <2>3. attempt \in FailedAttempts(w) <=>
           /\ i \in DOMAIN history[q]
           /\ history[q][i] = w
           /\ i < Len(history[q]) \/ CameToNothing(q)
    BY FailedMembers
  <2> HIDE DEF q, i
  <2>4. CASE q = r
    <3>1. /\ Len(history'[r]) = Len(history[r]) + 1
          /\ \A j \in 1..Len(history[r]) : history'[r][j] = history[r][j]
          /\ DOMAIN history'[r] = 1..(Len(history[r]) + 1)
          /\ DOMAIN history[r] = 1..Len(history[r])
      BY <1>3
    <3>2. attempt \in FailedAttempts(w)' <=>
            i \in 1..Len(history[r]) /\ history[r][i] = w
      BY <1>3, <1>5, <2>1, <2>2, <2>4, <3>1
    <3>3. attempt \in FailedAttempts(w) <=>
            i \in 1..Len(history[r]) /\ history[r][i] = w
      BY <1>5, <2>3, <2>4, <3>1
    <3> QED
      BY <3>2, <3>3
  <2>5. CASE q # r
    BY <1>3, <1>5, <2>1, <2>2, <2>3, <2>5
  <2> QED
    BY <2>4, <2>5
<1>7. /\ FailedAttempts(w) \subseteq Requests \X (1..(MaxRetries + 1))
      /\ FailedAttempts(w)' \subseteq Requests \X (1..(MaxRetries + 1))
  BY Zenon DEF FailedAttempts
<1>8. FailedAttempts(w)' = FailedAttempts(w)
  BY <1>6, <1>7
<1>9. \A q \in Requests : answer'[q] \in Bodies \/ answer[q] \in Bodies =>
         answer'[q] = answer[q] /\ history'[q] = history[q]
  BY <1>2, <1>3, <1>4 DEF Bodies
<1> QED
  BY <1>2, <1>8, <1>9, LedgerKept

\* An attempt that fails before a response adds one to the failures of its worker.
LEMMA LedgerFails ==
  ASSUME TypeOK, ControlInv, AnswerInv, NEW r \in Requests,
         pc[r] = "dispatched", NEW label \in {"choose", "reply"},
         pc' = [pc EXCEPT ![r] = label], UNCHANGED <<history, answer>>,
         NEW c \in BOOLEAN, CompleteFailure(Worker(r), c),
         NEW w \in Workers, Ledger(w)
  PROVE  Ledger(w)'
<1> DEFINE n == Len(history[r])
           last == <<r, n>>
<1>1. /\ history[r] \in Seq(Workers) /\ n \in 1..(MaxRetries + 1)
      /\ Worker(r) = history[r][n] /\ Worker(r) \in Workers
  BY CurrentWorker, MaxRetriesAssumption DEF TypeOK, ControlInv, Worker
<1>2. /\ pc'[r] = label /\ \A q \in Requests \ {r} : pc'[q] = pc[q]
      /\ answer[r] = "none" /\ "none" \notin Statuses \cup {"left"}
  BY DEF TypeOK, AnswerInv, Statuses, Retryable
<1>3. ~CameToNothing(r) /\ CameToNothing(r)' /\ \A q \in Requests \ {r} : CameToNothing(q)' <=> CameToNothing(q)
  BY <1>2 DEF CameToNothing
<1>4. last \in Requests \X (1..(MaxRetries + 1))
  BY <1>1
<1>5. ASSUME NEW attempt \in Requests \X (1..(MaxRetries + 1))
      PROVE  attempt \in FailedAttempts(w)' <=>
               attempt \in FailedAttempts(w) \/ (attempt = last /\ w = Worker(r))
  <2> DEFINE q == attempt[1]
             i == attempt[2]
  <2>1. q \in Requests /\ i \in Nat /\ (attempt = last <=> q = r /\ i = n)
    BY MaxRetriesAssumption
  <2>2. attempt \in FailedAttempts(w)' <=>
           /\ i \in DOMAIN history[q]
           /\ history[q][i] = w
           /\ i < Len(history[q]) \/ CameToNothing(q)'
    BY Zenon DEF FailedAttempts, CameToNothing
  <2>3. attempt \in FailedAttempts(w) <=>
           /\ i \in DOMAIN history[q]
           /\ history[q][i] = w
           /\ i < Len(history[q]) \/ CameToNothing(q)
    BY FailedMembers
  <2> HIDE DEF q, i, last, n
  <2>4. CASE q = r
    <3>1. DOMAIN history[r] = 1..n /\ n \in Nat /\ n >= 1 /\ Len(history[r]) = n
      BY <1>1 DEF n
    <3>2. attempt \in FailedAttempts(w)' <=> i \in 1..n /\ history[r][i] = w
      BY <1>3, <2>2, <2>4, <3>1
    <3>3. attempt \in FailedAttempts(w) <=>
            i \in 1..n /\ history[r][i] = w /\ i < n
      BY <1>3, <2>3, <2>4, <3>1
    <3>4. i \in 1..n <=> (i \in 1..n /\ i < n) \/ i = n
      BY <2>1, <3>1
    <3> QED
      BY <1>1, <2>1, <2>4, <3>2, <3>3, <3>4
  <2>5. CASE q # r
    BY <1>3, <2>1, <2>2, <2>3, <2>5
  <2> QED
    BY <2>4, <2>5
<1>6. last \notin FailedAttempts(w)
  <2>1. last[1] = r /\ last[2] = n
    OBVIOUS
  <2>2. ~ (n < Len(history[r]))
    BY <1>1
  <2> QED
    BY <1>3, <1>4, <2>1, <2>2, FailedMembers
<1>7. /\ FailedAttempts(w) \subseteq Requests \X (1..(MaxRetries + 1))
      /\ FailedAttempts(w)' \subseteq Requests \X (1..(MaxRetries + 1))
  BY Zenon DEF FailedAttempts
<1>8. \A ways : BodiesFrom(w, ways)' = BodiesFrom(w, ways)
  BY DEF BodiesFrom, Worker
<1>9. /\ failures'[w] = IF w = Worker(r) THEN failures[w] + 1 ELSE failures[w]
      /\ UNCHANGED <<successes, cancellations>>
  BY <1>1 DEF CompleteFailure, TypeOK
<1>10. /\ successes[w] \in Nat /\ failures[w] \in Nat /\ cancellations[w] \in Nat
       /\ Cardinality(FailedAttempts(w)) \in Nat
       /\ Cardinality(BodiesFrom(w, Bodies)) \in Nat
  BY LedgerFinite DEF TypeOK
<1> HIDE DEF n, last
<1>11. CASE w = Worker(r)
  <2>1. FailedAttempts(w)' = FailedAttempts(w) \cup {last}
    BY <1>4, <1>5, <1>7, <1>11
  <2>2. Cardinality(FailedAttempts(w) \cup {last}) = Cardinality(FailedAttempts(w)) + 1
    BY <1>6, LedgerFinite, FS_AddElement
  <2> QED
    BY <1>8, <1>9, <1>10, <1>11, <2>1, <2>2 DEF Ledger
<1>12. CASE w # Worker(r)
  <2>1. FailedAttempts(w)' = FailedAttempts(w)
    BY <1>5, <1>7, <1>12
  <2> QED
    BY <1>8, <1>9, <1>12, <2>1 DEF Ledger
<1> QED
  BY <1>11, <1>12

\* The end of a stream adds a body to its worker, and one to a counter of it.
LEMMA LedgerEnds ==
  ASSUME TypeOK, ControlInv, HeadInv, NEW r \in Requests, StreamEnds(r),
         NEW w \in Workers, Ledger(w)
  PROVE  Ledger(w)'
<1>1. PICK received \in Bodies :
        /\ EndStream(r, received)
        /\ \/ CompleteSuccess(Worker(r))
           \/ received # "whole" /\ CompleteFailure(Worker(r), TRUE)
           \/ received # "whole" /\ Cancel(Worker(r))
  BY DEF StreamEnds, StreamEof, StreamError, StreamReset, Bodies
<1>2. /\ pc[r] = "streaming" /\ pc'[r] = "done" /\ history' = history
      /\ answer[r] = "head" /\ answer'[r] = received
      /\ \A q \in Requests \ {r} : pc'[q] = pc[q] /\ answer'[q] = answer[q]
  BY <1>1 DEF EndStream, Goto, TypeOK, HeadInv
<1>3. Worker(r) \in Workers
  BY <1>2, CurrentWorker
<1>4. FailedAttempts(w)' = FailedAttempts(w)
  <2>1. "head" \notin Statuses \cup {"left"} /\ received \notin Statuses \cup {"left"}
    BY DEF Bodies, Statuses, Retryable
  <2>2. \A q \in Requests : CameToNothing(q)' <=> CameToNothing(q)
    BY <1>2, <2>1 DEF CameToNothing
  <2> QED
    BY <1>2, <2>2, FailedKept
<1>5. ASSUME NEW ways \in {{"whole"}, Bodies}
      PROVE  Cardinality(BodiesFrom(w, ways)') =
               IF w = Worker(r) /\ received \in ways
               THEN Cardinality(BodiesFrom(w, ways)) + 1
               ELSE Cardinality(BodiesFrom(w, ways))
  <2>1. "head" \notin ways
    BY DEF Bodies
  <2>2. r \notin BodiesFrom(w, ways)
    BY <1>2, <2>1 DEF BodiesFrom
  <2>3. BodiesFrom(w, ways)' = IF w = Worker(r) /\ received \in ways
                               THEN BodiesFrom(w, ways) \cup {r}
                               ELSE BodiesFrom(w, ways)
    BY <1>2, <2>2 DEF BodiesFrom, Worker
  <2>4. Cardinality(BodiesFrom(w, ways) \cup {r}) = Cardinality(BodiesFrom(w, ways)) + 1
    BY <2>2, LedgerFinite, FS_AddElement
  <2> QED
    BY <2>3, <2>4
<1>6. /\ successes \in [Workers -> Nat] /\ failures \in [Workers -> Nat]
      /\ cancellations \in [Workers -> Nat]
      /\ Cardinality(FailedAttempts(w)) \in Nat
      /\ Cardinality(BodiesFrom(w, Bodies)) \in Nat
      /\ Cardinality(BodiesFrom(w, {"whole"})) \in Nat
  BY LedgerFinite DEF TypeOK
<1>7. CASE w # Worker(r)
  <2>1. /\ successes'[w] = successes[w] /\ failures'[w] = failures[w]
        /\ cancellations'[w] = cancellations[w]
    BY <1>1, <1>3, <1>6, <1>7 DEF CompleteSuccess, CompleteFailure, Cancel
  <2> QED
    BY <1>4, <1>5, <1>7, <2>1 DEF Ledger
<1>8. CASE w = Worker(r)
  <2>1. /\ Cardinality(BodiesFrom(w, Bodies)') = Cardinality(BodiesFrom(w, Bodies)) + 1
        /\ Cardinality(BodiesFrom(w, {"whole"})') =
             IF received = "whole" THEN Cardinality(BodiesFrom(w, {"whole"})) + 1
                                   ELSE Cardinality(BodiesFrom(w, {"whole"}))
    BY <1>5, <1>8
  <2>2. CASE CompleteSuccess(w)
    <3>1. /\ successes'[w] = successes[w] + 1 /\ failures'[w] = failures[w]
          /\ cancellations'[w] = cancellations[w]
      BY <1>6, <2>2 DEF CompleteSuccess
    <3> QED
      BY <1>4, <1>6, <2>1, <3>1 DEF Ledger
  <2>3. CASE received # "whole" /\ CompleteFailure(w, TRUE)
    <3>1. /\ successes'[w] = successes[w] /\ failures'[w] = failures[w] + 1
          /\ cancellations'[w] = cancellations[w]
      BY <1>6, <2>3 DEF CompleteFailure
    <3> QED
      BY <1>4, <1>6, <2>1, <2>3, <3>1 DEF Ledger
  <2>4. CASE received # "whole" /\ Cancel(w)
    <3>1. /\ successes'[w] = successes[w] /\ failures'[w] = failures[w]
          /\ cancellations'[w] = cancellations[w] + 1
      BY <1>6, <2>4 DEF Cancel
    <3> QED
      BY <1>4, <1>6, <2>1, <2>4, <3>1 DEF Ledger
  <2> QED
    BY <1>1, <1>8, <2>2, <2>3, <2>4
<1> QED
  BY <1>7, <1>8

\* Every step keeps the ledger of every worker.
LEMMA LedgerNext ==
  ASSUME Inv, HeadInv, NEW w \in Workers, Ledger(w), [Next]_vars
  PROVE  Ledger(w)'
<1> USE DEF Goto
<1>0. /\ TypeOK /\ ControlInv /\ AnswerInv
      /\ Bodies \cap (Statuses \cup {"none", "head", "left", "dropped"}) = {}
      /\ {"none", "head", "dropped"} \cap (Statuses \cup {"left"}) = {}
  BY DEF Inv, Bodies, Statuses, Retryable
\* A step of a handler whose client gets no body and whose attempt, if there is
\* one, has come to nothing before and after, or neither.
<1>1. ASSUME NEW r \in Requests, history' = history,
             UNCHANGED <<successes, failures, cancellations>>,
             \A q \in Requests \ {r} : pc'[q] = pc[q] /\ answer'[q] = answer[q],
             answer[r] \notin Bodies, answer'[r] \notin Bodies,
             history[r] # <<>> => (CameToNothing(r)' <=> CameToNothing(r))
      PROVE  Ledger(w)'
  <2>1. \A q \in Requests : history[q] # <<>> => (CameToNothing(q)' <=> CameToNothing(q))
    BY <1>1 DEF CameToNothing
  <2>2. FailedAttempts(w)' = FailedAttempts(w)
    BY <1>0, <1>1, <2>1, FailedKept
  <2>3. \A q \in Requests : answer'[q] \in Bodies \/ answer[q] \in Bodies =>
          answer'[q] = answer[q] /\ history'[q] = history[q]
    BY <1>1
  <2> QED
    BY <1>1, <2>2, <2>3, LedgerKept
<1>2. ASSUME NEW r \in Requests,
             BeginRequest(r) \/ ChooseNone(r) \/ MarkRetry(r)
      PROVE  Ledger(w)'
  <2>1. /\ UNCHANGED <<history, answer, successes, failures, cancellations>>
        /\ \A q \in Requests \ {r} : pc'[q] = pc[q]
        /\ pc[r] \in {"idle", "choose", "mark"}
    BY <1>0, <1>2
       DEF BeginRequest, ChooseNone, MarkRetry, workerVars, outcomeVars, TypeOK
  <2>2. answer[r] = "none"
    BY <1>0, <2>1 DEF AnswerInv
  <2>3. history[r] # <<>> => (CameToNothing(r)' <=> CameToNothing(r))
    BY <1>0, <1>2, <2>1, <2>2
       DEF BeginRequest, ChooseNone, MarkRetry, CameToNothing, ControlInv, TypeOK
  <2> QED
    BY <1>0, <1>1, <2>1, <2>2, <2>3
<1>3. ASSUME NEW r \in Requests, NEW status, HttpErrorUnreadable(r, status)
      PROVE  Ledger(w)'
  <2>1. /\ UNCHANGED <<history, successes, failures, cancellations>>
        /\ \A q \in Requests \ {r} : pc'[q] = pc[q] /\ answer'[q] = answer[q]
        /\ pc[r] = "dispatched" /\ pc'[r] = "aborted" /\ answer'[r] = "dropped"
    BY <1>0, <1>3 DEF HttpErrorUnreadable, workerVars, outcomeVars, TypeOK
  <2>2. answer[r] = "none"
    BY <1>0, <2>1 DEF AnswerInv
  <2>3. ~CameToNothing(r) /\ ~CameToNothing(r)'
    BY <1>0, <2>1, <2>2 DEF CameToNothing
  <2> QED
    BY <1>0, <1>1, <2>1, <2>2, <2>3
<1>4. ASSUME NEW r \in Requests, StartResponse(r)
      PROVE  Ledger(w)'
  <2>1. /\ UNCHANGED <<history, successes, failures, cancellations>>
        /\ \A q \in Requests \ {r} : pc'[q] = pc[q] /\ answer'[q] = answer[q]
        /\ pc[r] = "dispatched" /\ pc'[r] = "streaming" /\ answer'[r] = "head"
    BY <1>0, <1>4 DEF StartResponse, workerVars, outcomeVars, TypeOK
  <2>2. answer[r] = "none"
    BY <1>0, <2>1 DEF AnswerInv
  <2>3. ~CameToNothing(r) /\ ~CameToNothing(r)'
    BY <1>0, <2>1, <2>2 DEF CameToNothing
  <2> QED
    BY <1>0, <1>1, <2>1, <2>2, <2>3
<1>5. ASSUME NEW r \in Requests, ErrorReply(r)
      PROVE  Ledger(w)'
  <2>1. /\ UNCHANGED <<history, successes, failures, cancellations>>
        /\ \A q \in Requests \ {r} : pc'[q] = pc[q] /\ answer'[q] = answer[q]
        /\ pc[r] = "reply" /\ answer'[r] \in {lastStatus[r], "left"}
        /\ lastStatus[r] \in Statuses
    BY <1>0, <1>5 DEF ErrorReply, workerVars, outcomeVars, TypeOK
  <2>2. answer[r] = "none" /\ answer'[r] \in Statuses \cup {"left"}
    BY <1>0, <2>1 DEF AnswerInv
  <2>3. CameToNothing(r) /\ CameToNothing(r)'
    BY <2>1, <2>2 DEF CameToNothing
  <2>4. answer[r] \notin Bodies /\ answer'[r] \notin Bodies
    BY <1>0, <2>2
  <2> QED
    BY <1>1, <2>1, <2>3, <2>4
<1>6. ASSUME NEW r \in Requests,
             (\E status \in ErrorCodes : HttpError(r, status)) \/ Unreachable(r)
      PROVE  Ledger(w)'
  <2>1. /\ pc[r] = "dispatched" /\ UNCHANGED <<history, answer>>
        /\ \E label \in {"choose", "reply"} : pc' = [pc EXCEPT ![r] = label]
    BY <1>6 DEF HttpError, Unreachable
  <2>2. \E c \in BOOLEAN : CompleteFailure(Worker(r), c)
    <3>1. CASE Unreachable(r)
      BY <3>1 DEF Unreachable
    <3> QED
      BY <1>6, <3>1, ErrorSettles
  <2> QED
    BY <1>0, <2>1, <2>2, LedgerFails
<1>7. CASE Tick \/ UNCHANGED vars
  <2>1. UNCHANGED <<pc, history, answer, successes, failures, cancellations>>
    BY <1>7 DEF Tick, vars, handlerVars, workerVars, outcomeVars
  <2>2. FailedAttempts(w)' = FailedAttempts(w)
    BY <1>0, <2>1, FailedKept DEF CameToNothing
  <2> QED
    BY <2>1, <2>2, LedgerKept
<1>8. ASSUME NEW r \in Requests, ChooseWorker(r) \/ StreamEnds(r)
      PROVE  Ledger(w)'
  BY <1>0, <1>8, LedgerChoose, LedgerEnds
<1> QED
  BY <1>2, <1>3, <1>4, <1>5, <1>6, <1>7, <1>8
     DEF Next, Handler, Choose, UpstreamAnswers

\* What /metrics says of a worker agrees with what its clients saw: each whole
\* body is one of its successes, each attempt without a response one of its
\* failures, and everything else a body that was cut short or whose client left.
THEOREM LedgerBalances == Spec => []ClientLedger
<1> DEFINE Ledgers == \A w \in Workers : Ledger(w)
<1>1. Init => HeadInv /\ Ledgers
  <2> SUFFICES ASSUME Init PROVE HeadInv /\ Ledgers
    OBVIOUS
  <2>1. HeadInv
    BY DEF Init, HeadInv
  <2>2. ASSUME NEW w \in Workers PROVE Ledger(w)
    <3>1. \A ways \in {{"whole"}, Bodies} : BodiesFrom(w, ways) = {}
      BY DEF Init, BodiesFrom, Bodies
    <3>2. FailedAttempts(w) = {}
      <4>1. \A attempt \in Requests \X (1..(MaxRetries + 1)) :
              attempt \notin FailedAttempts(w)
        <5> SUFFICES ASSUME NEW attempt \in Requests \X (1..(MaxRetries + 1))
                     PROVE  attempt \notin FailedAttempts(w)
          OBVIOUS
        <5>1. history[attempt[1]] = <<>>
          BY DEF Init
        <5> QED
          BY <5>1, FailedMembers
      <4>2. FailedAttempts(w) \subseteq Requests \X (1..(MaxRetries + 1))
        BY Zenon DEF FailedAttempts
      <4> QED
        BY <4>1, <4>2
    <3>3. successes[w] = 0 /\ failures[w] = 0 /\ cancellations[w] = 0
      BY DEF Init
    <3> QED
      BY <3>1, <3>2, <3>3, FS_EmptySet DEF Ledger
  <2> QED
    BY <2>1, <2>2
<1>2. Inv /\ HeadInv /\ Ledgers /\ [Next]_vars => HeadInv' /\ Ledgers'
  BY HeadNext, LedgerNext DEF Inv
<1>3. Ledgers => ClientLedger
  BY DEF Ledger, ClientLedger, Bodies
<1> QED
  BY <1>1, <1>2, <1>3, InvInit, InvNext, PTL DEF Spec

-----------------------------------------------------------------------------
(* Client errors and the circuit *)

\* The failures of w that a client was, or will be, told of as a client error.
Told(w) ==
  {r \in Requests : /\ pc[r] \in {"reply", "done"}
                    /\ lastStatus[r] = "4xx"
                    /\ Worker(r) = w}

\* A client error is final.
FinalInv ==
  \A r \in Requests : lastStatus[r] = "4xx" => pc[r] \in {"reply", "done", "aborted"}

NeutralInv ==
  \A w \in Workers : consecutive[w] + Cardinality(Told(w)) <= failures[w]

\* The failures told as client errors are finitely many.
LEMMA ToldNat ==
  \A w : Told(w) \subseteq Requests /\ Cardinality(Told(w)) \in Nat
<1>1. \A w : Told(w) \subseteq Requests
  BY DEF Told
<1> QED
  BY <1>1, RequestsAssumption, FS_Subset, FS_CardinalityType

\* What a step of one handler does to these sets is decided by what it does to
\* that handler.
LEMMA ToldOneHandler ==
  ASSUME NEW r \in Requests,
         \A q \in Requests \ {r} :
           pc'[q] = pc[q] /\ history'[q] = history[q] /\ lastStatus'[q] = lastStatus[q]
  PROVE  \A w :
           Told(w)' = (Told(w) \ {r}) \cup
             IF pc'[r] \in {"reply", "done"} /\ lastStatus'[r] = "4xx" /\ Worker(r)' = w
             THEN {r} ELSE {}
BY DEF Told, Worker

\* Every step keeps FinalInv: only HttpError writes a 4xx, and it ends the
\* loop of do_POST.
LEMMA FinalNext ==
  ASSUME TypeOK, FinalInv, [Next]_vars
  PROVE  FinalInv'
<1>1. CASE UNCHANGED <<pc, lastStatus>>
  BY <1>1 DEF FinalInv
<1>2. ASSUME NEW r \in Requests, NEW label \in Control,
             pc[r] \notin {"reply", "done", "aborted"} \/ label = "done",
             pc' = [pc EXCEPT ![r] = label], lastStatus' = lastStatus
      PROVE  FinalInv'
  BY <1>2 DEF FinalInv, TypeOK
<1>3. ASSUME NEW r \in Requests, NEW label \in Control, NEW status,
             status = "4xx" => label \in {"reply", "aborted"},
             pc' = [pc EXCEPT ![r] = label],
             lastStatus' = [lastStatus EXCEPT ![r] = status]
      PROVE  FinalInv'
  BY <1>3 DEF FinalInv, TypeOK
<1>4. ASSUME NEW r \in Requests,
             \/ BeginRequest(r) \/ Choose(r) \/ MarkRetry(r) \/ ErrorReply(r)
             \/ StartResponse(r)
      PROVE  FinalInv'
  BY <1>2, <1>4
     DEF BeginRequest, Choose, ChooseWorker, ChooseNone, MarkRetry, ErrorReply,
         StartResponse, Goto, Control
<1>5. ASSUME NEW r \in Requests,
             \/ \E status \in ErrorCodes :
                  HttpError(r, status) \/ HttpErrorUnreadable(r, status)
             \/ Unreachable(r)
      PROVE  FinalInv'
  BY <1>3, <1>5
     DEF HttpError, HttpErrorUnreadable, Unreachable, Goto, Control, Retryable
<1>6. ASSUME NEW r \in Requests, StreamEnds(r)
      PROVE  FinalInv'
  BY <1>2, <1>6
     DEF StreamEnds, StreamEof, StreamError, StreamReset, EndStream, Goto,
         Control
<1>7. CASE Tick \/ UNCHANGED vars
  BY <1>1, <1>7 DEF Tick, vars, handlerVars
<1> QED
  BY <1>4, <1>5, <1>6, <1>7 DEF Next, Handler, UpstreamAnswers

\* Every step keeps NeutralInv: a 4xx adds to failures alone, any other
\* failure to both sides.
LEMMA NeutralNext ==
  ASSUME TypeOK, ControlInv, FinalInv, NeutralInv, [Next]_vars
  PROVE  NeutralInv'
<1> USE DEF Goto
<1>0. /\ failures \in [Workers -> Nat] /\ consecutive \in [Workers -> Nat]
      /\ \A w : Cardinality(Told(w)) \in Nat
  BY ToldNat DEF TypeOK
<1>1. ASSUME UNCHANGED <<failures, consecutive>>, \A w : Told(w)' = Told(w)
      PROVE  NeutralInv'
  BY <1>1 DEF NeutralInv
\* A failure that is neither a client error nor outside the run.
<1>2. ASSUME NEW v \in Workers, CompleteFailure(v, TRUE), \A w : Told(w)' = Told(w)
      PROVE  NeutralInv'
  <2>1. \A w \in Workers :
          /\ failures'[w] = IF w = v THEN failures[w] + 1 ELSE failures[w]
          /\ consecutive'[w] = IF w = v THEN consecutive[w] + 1 ELSE consecutive[w]
    BY <1>0, <1>2 DEF CompleteFailure
  <2> QED
    BY <1>0, <1>2, <2>1 DEF NeutralInv
<1>3. ASSUME NEW r \in Requests, HttpError(r, "4xx")
      PROVE  NeutralInv'
  <2> DEFINE v == Worker(r)
  <2>1. /\ v \in Workers /\ Worker(r)' = v
        /\ pc[r] = "dispatched" /\ pc'[r] = "reply" /\ lastStatus'[r] = "4xx"
        /\ \A q \in Requests \ {r} :
             /\ pc'[q] = pc[q] /\ history'[q] = history[q]
             /\ lastStatus'[q] = lastStatus[q]
    BY <1>3, CurrentWorker DEF HttpError, Worker, TypeOK, Retryable
  <2>2. \A w \in Workers :
          /\ failures'[w] = IF w = v THEN failures[w] + 1 ELSE failures[w]
          /\ consecutive'[w] = consecutive[w]
    BY <1>0, <1>3, <2>1 DEF HttpError, CompleteFailure, Retryable
  <2>3. \A w : r \notin Told(w)
    BY <2>1 DEF Told
  <2>4. \A w : Told(w)' = Told(w) \cup IF w = v THEN {r} ELSE {}
    BY <2>1, <2>3, ToldOneHandler
  <2>5. Cardinality(Told(v) \cup {r}) = Cardinality(Told(v)) + 1
    BY <2>3, ToldNat, OneMore
  <2> HIDE DEF v
  <2>6. ASSUME NEW w \in Workers
        PROVE  consecutive'[w] + Cardinality(Told(w)') <= failures'[w]
    <3>1. consecutive[w] + Cardinality(Told(w)) <= failures[w]
      BY DEF NeutralInv
    <3>2. CASE w = v
      <4>1. Cardinality(Told(w)') = Cardinality(Told(w)) + 1
        BY <2>4, <2>5, <3>2
      <4>2. /\ failures'[w] = failures[w] + 1 /\ consecutive'[w] = consecutive[w]
            /\ failures[w] \in Nat /\ consecutive[w] \in Nat
            /\ Cardinality(Told(w)) \in Nat
        BY <1>0, <2>2, <3>2
      <4> QED
        BY <3>1, <4>1, <4>2
    <3>3. CASE w # v
      BY <1>0, <2>2, <2>4, <3>1, <3>3
    <3> QED
      BY <3>2, <3>3
  <2> QED
    BY <2>6 DEF NeutralInv
\* Handlers that no client error is about.
<1>4. ASSUME NEW r \in Requests,
             pc[r] \notin {"reply", "done", "aborted"},
             \A q \in Requests \ {r} :
               /\ pc'[q] = pc[q] /\ history'[q] = history[q]
               /\ lastStatus'[q] = lastStatus[q],
             lastStatus'[r] # "4xx" \/ pc'[r] = "aborted"
      PROVE  \A w : Told(w)' = Told(w)
  <2>1. \A w : r \notin Told(w)
    BY <1>4 DEF Told
  <2> QED
    BY <1>4, <2>1, ToldOneHandler
<1>5. \A r \in Requests : pc[r] \notin {"reply", "done", "aborted"} => lastStatus[r] # "4xx"
  BY DEF FinalInv
<1>6. ASSUME NEW r \in Requests,
             (\E status \in Retryable : HttpError(r, status)) \/ Unreachable(r)
      PROVE  NeutralInv'
  <2>1. /\ Worker(r) \in Workers /\ CompleteFailure(Worker(r), TRUE)
        /\ pc[r] = "dispatched" /\ lastStatus'[r] # "4xx"
        /\ \A q \in Requests \ {r} :
             /\ pc'[q] = pc[q] /\ history'[q] = history[q]
             /\ lastStatus'[q] = lastStatus[q]
    BY <1>6, CurrentWorker DEF HttpError, Unreachable, TypeOK, Retryable
  <2> QED
    BY <1>2, <1>4, <2>1
<1>7. ASSUME NEW r \in Requests, NEW status, HttpErrorUnreadable(r, status)
      PROVE  NeutralInv'
  <2>1. /\ UNCHANGED <<failures, consecutive>>
        /\ pc[r] = "dispatched" /\ pc'[r] = "aborted"
        /\ \A q \in Requests \ {r} :
             /\ pc'[q] = pc[q] /\ history'[q] = history[q]
             /\ lastStatus'[q] = lastStatus[q]
    BY <1>7 DEF HttpErrorUnreadable, workerVars, outcomeVars, TypeOK
  <2> QED
    BY <1>1, <1>4, <2>1
<1>8. ASSUME NEW r \in Requests, StreamEnds(r)
      PROVE  NeutralInv'
  <2>1. /\ pc[r] = "streaming" /\ Worker(r) \in Workers
        /\ lastStatus'[r] = lastStatus[r]
        /\ \A q \in Requests \ {r} :
             /\ pc'[q] = pc[q] /\ history'[q] = history[q]
             /\ lastStatus'[q] = lastStatus[q]
    BY <1>8, CurrentWorker
       DEF StreamEnds, StreamEof, StreamError, StreamReset, EndStream, TypeOK
  <2>2. \A w : Told(w)' = Told(w)
    BY <1>4, <1>5, <2>1
  <2>3. CASE StreamEof(r)
    <3>1. /\ failures' = failures
          /\ \A w \in Workers : consecutive'[w] \in {0, consecutive[w]}
      BY <1>0, <2>3 DEF StreamEof, CompleteSuccess
    <3> QED
      BY <1>0, <2>2, <3>1 DEF NeutralInv
  <2>4. CASE StreamError(r)
    BY <1>2, <2>1, <2>2, <2>4 DEF StreamError
  <2>5. CASE StreamReset(r)
    BY <1>1, <2>2, <2>5 DEF StreamReset, Cancel
  <2> QED
    BY <1>8, <2>3, <2>4, <2>5 DEF StreamEnds
<1>9. ASSUME NEW r \in Requests,
             BeginRequest(r) \/ Choose(r) \/ MarkRetry(r) \/ StartResponse(r)
      PROVE  NeutralInv'
  <2>1. /\ pc[r] \notin {"reply", "done", "aborted"}
        /\ UNCHANGED <<failures, consecutive, lastStatus>>
        /\ \A q \in Requests \ {r} : pc'[q] = pc[q] /\ history'[q] = history[q]
    BY <1>9
       DEF BeginRequest, Choose, ChooseWorker, ChooseNone, MarkRetry,
           StartResponse,
           workerVars, outcomeVars, TypeOK
  <2> QED
    BY <1>1, <1>4, <1>5, <2>1
<1>10. ASSUME NEW r \in Requests, ErrorReply(r)
       PROVE  NeutralInv'
  <2>1. /\ pc[r] = "reply" /\ pc'[r] = "done"
        /\ UNCHANGED <<failures, consecutive, lastStatus, history>>
        /\ \A q \in Requests \ {r} : pc'[q] = pc[q]
    BY <1>10 DEF ErrorReply, workerVars, outcomeVars, TypeOK
  <2>2. \A w : Told(w)' = Told(w)
    BY <2>1 DEF Told, Worker
  <2> QED
    BY <1>1, <2>1, <2>2
<1>11. CASE Tick \/ UNCHANGED vars
  <2>1. UNCHANGED <<failures, consecutive, lastStatus, history, pc>>
    BY <1>11 DEF Tick, vars, handlerVars, workerVars, outcomeVars
  <2> QED
    BY <1>1, <2>1 DEF Told, Worker
<1>12. ASSUME NEW r \in Requests, NEW status \in ErrorCodes, HttpError(r, status)
       PROVE  NeutralInv'
  <2>1. status \in Retryable \/ status = "4xx"
    BY ErrorCodesAssumption DEF Statuses
  <2> QED
    BY <1>3, <1>6, <1>12, <2>1
<1> QED
  BY <1>6, <1>7, <1>8, <1>9, <1>10, <1>11, <1>12
     DEF Next, Handler, UpstreamAnswers

\* Client errors never count toward a circuit: a failure of which a client was
\* told as a 4xx is outside the run of failures of its worker.
THEOREM ClientErrorsAreNeutral == Spec => []ClientErrorsNeutral
<1>1. Init => FinalInv /\ NeutralInv
  <2> SUFFICES ASSUME Init PROVE FinalInv /\ NeutralInv
    OBVIOUS
  <2>1. \A w \in Workers : Told(w) = {}
    BY DEF Init, Told
  <2>2. \A w \in Workers : Cardinality(Told(w)) = 0
    BY <2>1, FS_EmptySet
  <2> QED
    BY <2>2 DEF Init, FinalInv, NeutralInv
<1>2. TypeOK /\ ControlInv /\ FinalInv /\ NeutralInv /\ [Next]_vars
        => FinalInv' /\ NeutralInv'
  BY FinalNext, NeutralNext
<1>3. NeutralInv => ClientErrorsNeutral
  BY DEF NeutralInv, ClientErrorsNeutral, Told
<1> QED
  BY <1>1, <1>2, <1>3, TypeCorrect, PTL DEF Spec
=============================================================================
