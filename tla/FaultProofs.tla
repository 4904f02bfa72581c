---------------------------- MODULE FaultProofs -----------------------------
(***************************************************************************)
(* Proofs about the router and the fault proxy together, for any number of *)
(* requests and workers, any policy and any schedule of failures.          *)
(***************************************************************************)
EXTENDS FaultInjection, RouterProofs

\* Every step of the composition is one of the router, or one it does not see.
LEMMA RouterSteps == [FaultNext]_faultVars => [Next]_vars
<1> SUFFICES ASSUME [FaultNext]_faultVars PROVE [Next]_vars
  OBVIOUS
<1>1. ASSUME NEW r \in Requests, NextRequest(r) PROVE UNCHANGED vars
  BY <1>1 DEF NextRequest
<1>2. ASSUME NEW r \in Requests, ReplicaAnswers(r) \/ StreamServed(r)
      PROVE  Handler(r)
  BY <1>2 DEF ReplicaAnswers, ProxyReplies, Served, StreamServed, Handler,
     UpstreamAnswers, StreamEnds, StreamEof, StreamReset, Retryable
<1>3. ASSUME NEW r \in Requests,
             BeginRequest(r) \/ Choose(r) \/ MarkRetry(r) \/ ErrorReply(r)
      PROVE  Handler(r)
  BY <1>3 DEF Handler
<1> QED
  BY <1>1, <1>2, <1>3 DEF FaultNext, Next, faultVars

\* The composition is a router in a particular environment, so that whatever is
\* proved of the router holds of it.
THEOREM IsRouter == FaultSpec => Spec
<1>1. FaultInit => Init
  BY DEF FaultInit
<1> QED
  BY <1>1, RouterSteps, PTL DEF FaultSpec, Spec

LEMMA RouterInv == FaultSpec => [](TypeOK /\ ControlInv)
<1>1. FaultInit => TypeOK /\ ControlInv
  BY InitInvariant DEF FaultInit
<1>2. TypeOK /\ ControlInv /\ [FaultNext]_faultVars => TypeOK' /\ ControlInv'
  BY RouterSteps, NextInvariant
<1> QED
  BY <1>1, <1>2, PTL DEF FaultSpec

-----------------------------------------------------------------------------
(* The schedule of the proxy *)

ProxyType ==
  /\ seen \in Nat /\ injected \in Nat
  /\ number \in [Requests -> Nat]

\* Among the numbers 1..n+1 there is one multiple more than among 1..n exactly
\* when n + 1 is one.
LEMMA OneMoreMultiple ==
  ASSUME NEW n \in Nat, FailEvery > 0
  PROVE  (n + 1) \div FailEvery =
           IF (n + 1) % FailEvery = 0 THEN (n \div FailEvery) + 1
           ELSE n \div FailEvery
BY FailEveryAssumption

LEMMA NumberedNext ==
  ProxyType /\ InjectedOnSchedule /\ [FaultNext]_faultVars
    => ProxyType' /\ InjectedOnSchedule'
<1> SUFFICES ASSUME ProxyType, InjectedOnSchedule, [FaultNext]_faultVars
             PROVE  ProxyType' /\ InjectedOnSchedule'
  OBVIOUS
<1>1. ASSUME NEW r \in Requests, NextRequest(r)
      PROVE  ProxyType' /\ InjectedOnSchedule'
  <2>1. /\ number[r] = 0
        /\ seen' = seen + 1
        /\ number' = [number EXCEPT ![r] = seen + 1]
        /\ injected' = IF ShouldFail(seen + 1) THEN injected + 1 ELSE injected
    BY <1>1 DEF NextRequest
  <2>2. ProxyType'
    BY <2>1 DEF ProxyType
  <2>3. {number'[q] : q \in Requests} \ {0}
          = ({number[q] : q \in Requests} \ {0}) \cup {seen + 1}
    BY <2>1 DEF ProxyType
  <2>4. {number'[q] : q \in Requests} \ {0} = 1..seen'
    <3>1. 1..(seen + 1) = (1..seen) \cup {seen + 1}
      BY DEF ProxyType
    <3> QED
      BY <2>1, <2>3, <3>1 DEF InjectedOnSchedule
  <2>5. injected' = IF FailEvery = 0 THEN 0 ELSE seen' \div FailEvery
    <3>1. CASE FailEvery = 0
      BY <2>1, <3>1 DEF InjectedOnSchedule, ShouldFail
    <3>2. CASE FailEvery > 0
      <4>1. (seen + 1) \div FailEvery =
              IF (seen + 1) % FailEvery = 0 THEN (seen \div FailEvery) + 1
              ELSE seen \div FailEvery
        BY <3>2, OneMoreMultiple DEF ProxyType
      <4> QED
        BY <2>1, <3>2, <4>1 DEF InjectedOnSchedule, ShouldFail
    <3> QED
      BY <3>1, <3>2, FailEveryAssumption
  <2> QED
    BY <2>2, <2>4, <2>5 DEF InjectedOnSchedule
<1>2. CASE UNCHANGED proxyVars
  BY <1>2 DEF proxyVars, ProxyType, InjectedOnSchedule
<1> QED
  BY <1>1, <1>2 DEF FaultNext, faultVars

LEMMA ScheduleInit == FaultInit => ProxyType /\ InjectedOnSchedule
<1> SUFFICES ASSUME FaultInit PROVE ProxyType /\ InjectedOnSchedule
  OBVIOUS
<1>1. ProxyType
  BY DEF FaultInit, ProxyType
<1>2. {number[r] : r \in Requests} \ {0} = 1..seen
  BY DEF FaultInit
<1>3. injected = IF FailEvery = 0 THEN 0 ELSE seen \div FailEvery
  BY FailEveryAssumption DEF FaultInit
<1> QED
  BY <1>1, <1>2, <1>3 DEF InjectedOnSchedule

\* The proxy's numbers are 1..seen, each given once, and exactly every
\* FailEvery-th of them is a failure, in whatever order its threads run.
THEOREM OnSchedule == FaultSpec => []InjectedOnSchedule
BY ScheduleInit, NumberedNext, PTL DEF FaultSpec

-----------------------------------------------------------------------------
(* The proxy's failures in the router's counter *)

Tried(r) == \E i \in DOMAIN history[r] : history[r][i] = Faulty

AtFaulty(r) == pc[r] \in {"mark", "dispatched", "streaming"} /\ Worker(r) = Faulty

Doomed == {r \in Requests : number[r] > 0 /\ ShouldFail(number[r])}

\* Requests whose attempt at the faulty worker the router has settled, and which
\* the proxy has failed or may still fail: the attempt cannot have succeeded.
Failed ==
  {r \in Requests : Tried(r) /\ ~AtFaulty(r) /\ (number[r] = 0 \/ ShouldFail(number[r]))}

ShowInv ==
  /\ injected = Cardinality(Doomed)
  /\ Cardinality(Failed) <= failures[Faulty]
  /\ \A r \in Requests :
       /\ pc[r] = "streaming" /\ Worker(r) = Faulty =>
            number[r] > 0 /\ ~ShouldFail(number[r])
       /\ number[r] > 0 => Tried(r) /\ ~(pc[r] = "mark" /\ Worker(r) = Faulty)

\* Any subset of Requests is finite, and a smaller one has fewer elements.
LEMMA Counted ==
  ASSUME NEW S, S \subseteq Requests, NEW T, T \subseteq S
  PROVE  /\ IsFiniteSet(S) /\ Cardinality(S) \in Nat
         /\ Cardinality(T) \in Nat /\ Cardinality(T) <= Cardinality(S)
<1>1. IsFiniteSet(S)
  BY RequestsAssumption, FS_Subset
<1>2. IsFiniteSet(T) /\ Cardinality(T) <= Cardinality(S)
  BY <1>1, FS_Subset
<1> QED
  BY <1>1, <1>2, FS_CardinalityType

LEMMA OneMoreCounted ==
  ASSUME NEW S, S \subseteq Requests, NEW r \in Requests
  PROVE  Cardinality(S \cup {r}) =
           IF r \in S THEN Cardinality(S) ELSE Cardinality(S) + 1
<1>1. IsFiniteSet(S)
  BY RequestsAssumption, FS_Subset
<1> QED
  BY <1>1, FS_AddElement

LEMMA ShowInvImplies ==
  ASSUME TypeOK, ShowInv
  PROVE  InjectedShowsInRouter
<1>1. Doomed \subseteq InjectedWaiting \cup Failed
  <2> SUFFICES ASSUME NEW r \in Doomed, r \notin Failed PROVE r \in InjectedWaiting
    OBVIOUS
  <2>1. r \in Requests /\ number[r] > 0 /\ ShouldFail(number[r]) /\ AtFaulty(r)
    BY DEF Doomed, Failed, ShowInv
  <2> QED
    BY <2>1 DEF AtFaulty, ShowInv, InjectedWaiting
<1>2. InjectedWaiting \subseteq Requests /\ Failed \subseteq Requests
  BY DEF InjectedWaiting, Failed
<1>3. Cardinality(Doomed) <= Cardinality(InjectedWaiting \cup Failed)
  BY <1>1, <1>2, Counted
<1>4. Cardinality(InjectedWaiting \cup Failed)
        <= Cardinality(InjectedWaiting) + Cardinality(Failed)
  <2>1. IsFiniteSet(InjectedWaiting) /\ IsFiniteSet(Failed)
    BY <1>2, Counted
  <2>2. Cardinality(InjectedWaiting \cup Failed)
          = Cardinality(InjectedWaiting) + Cardinality(Failed)
              - Cardinality(InjectedWaiting \cap Failed)
    BY <2>1, FS_Union
  <2>3. Cardinality(InjectedWaiting \cap Failed) \in Nat
    BY <1>2, Counted
  <2>4. Cardinality(InjectedWaiting) \in Nat /\ Cardinality(Failed) \in Nat
    BY <1>2, Counted
  <2> QED
    BY <2>2, <2>3, <2>4
<1>5. /\ Cardinality(InjectedWaiting) \in Nat /\ Cardinality(Failed) \in Nat
      /\ Cardinality(Doomed) \in Nat
      /\ Cardinality(InjectedWaiting \cup Failed) \in Nat
      /\ failures[Faulty] \in Nat
  BY <1>2, Counted, FaultyAssumption DEF Doomed, TypeOK
<1> QED
  BY <1>3, <1>4, <1>5 DEF InjectedShowsInRouter, ShowInv

\* What a step of one handler must keep.
AttemptsInv(r) ==
  /\ pc[r] = "streaming" /\ Worker(r) = Faulty => number[r] > 0 /\ ~ShouldFail(number[r])
  /\ number[r] > 0 => Tried(r) /\ ~(pc[r] = "mark" /\ Worker(r) = Faulty)

\* A step of one handler of the router.
LEMMA ShowHandler ==
  ASSUME TypeOK, ShowInv, NEW r \in Requests, UNCHANGED proxyVars,
         \A q \in Requests \ {r} : pc'[q] = pc[q] /\ history'[q] = history[q],
         AttemptsInv(r)', failures'[Faulty] \in Nat,
         \/ /\ r \in Failed' => r \in Failed
            /\ failures'[Faulty] >= failures[Faulty]
         \/ failures'[Faulty] = failures[Faulty] + 1
  PROVE  ShowInv'
<1>1. Failed' \subseteq Failed \cup {r}
  BY DEF Failed, Tried, AtFaulty, Worker, proxyVars
<1>2. Failed \subseteq Requests /\ Failed' \subseteq Requests
  BY DEF Failed
<1>3. failures[Faulty] \in Nat
  BY FaultyAssumption DEF TypeOK
<1>4. /\ Cardinality(Failed) \in Nat /\ Cardinality(Failed') \in Nat
      /\ Cardinality(Failed \cup {r}) <= Cardinality(Failed) + 1
      /\ Cardinality(Failed \cup {r}) \in Nat
  <2>1. Failed \cup {r} \subseteq Requests
    BY <1>2
  <2> QED
    BY <1>2, <2>1, Counted, OneMoreCounted
<1>5. Cardinality(Failed') <= failures'[Faulty]
  <2>1. CASE (r \in Failed' => r \in Failed) /\ failures'[Faulty] >= failures[Faulty]
    <3>1. Failed' \subseteq Failed
      BY <1>1, <2>1
    <3>2. Cardinality(Failed') <= Cardinality(Failed)
      BY <1>2, <3>1, Counted
    <3> QED
      BY <1>3, <1>4, <2>1, <3>2 DEF ShowInv
  <2>2. CASE failures'[Faulty] = failures[Faulty] + 1
    <3>1. Cardinality(Failed') <= Cardinality(Failed \cup {r})
      BY <1>1, <1>2, Counted
    <3> QED
      BY <1>3, <1>4, <2>2, <3>1 DEF ShowInv
  <2> QED
    BY <2>1, <2>2
<1>6. Doomed' = Doomed /\ injected' = injected
  BY DEF Doomed, ShouldFail, proxyVars
<1>7. \A q \in Requests : AttemptsInv(q)'
  <2>1. \A q \in Requests : AttemptsInv(q)
    BY DEF ShowInv, AttemptsInv
  <2> QED
    BY <2>1 DEF AttemptsInv, Tried, Worker, ShouldFail, proxyVars
<1> QED
  BY <1>5, <1>6, <1>7 DEF ShowInv, AttemptsInv

\* The router settles an attempt as a failure.
LEMMA ShowFailure ==
  ASSUME TypeOK, ControlInv, ShowInv, UNCHANGED proxyVars, NEW r \in Requests,
         pc[r] \in {"dispatched", "streaming"},
         NEW c \in BOOLEAN, CompleteFailure(Worker(r), c),
         NEW label \in {"choose", "reply", "done"},
         pc' = [pc EXCEPT ![r] = label], history' = history
  PROVE  ShowInv'
<1>1. Worker(r) \in Workers
  BY CurrentWorker
<1>2. failures' = [failures EXCEPT ![Worker(r)] = @ + 1]
  BY DEF CompleteFailure
<1>3. failures \in [Workers -> Nat] /\ Faulty \in Workers
  BY FaultyAssumption DEF TypeOK
<1>4. \A q \in Requests \ {r} : pc'[q] = pc[q] /\ history'[q] = history[q]
  BY DEF TypeOK
<1>5. pc'[r] = label /\ Worker(r)' = Worker(r)
  BY DEF TypeOK, Worker
<1>6. AttemptsInv(r)'
  BY <1>5 DEF AttemptsInv, ShowInv, Tried, proxyVars
<1>7. CASE Worker(r) = Faulty
  <2>1. failures'[Faulty] = failures[Faulty] + 1 /\ failures'[Faulty] \in Nat
    BY <1>2, <1>3, <1>7
  <2> QED
    BY <1>4, <1>6, <2>1, ShowHandler
<1>8. CASE Worker(r) # Faulty
  <2>1. failures'[Faulty] = failures[Faulty]
    BY <1>1, <1>2, <1>3, <1>8
  <2>2. failures'[Faulty] \in Nat /\ failures'[Faulty] >= failures[Faulty]
    BY <1>3, <2>1
  <2>3. r \in Failed' => r \in Failed
    BY <1>5, <1>8 DEF Failed, Tried, AtFaulty, ShouldFail, proxyVars
  <2> QED
    BY <1>4, <1>6, <2>2, <2>3, ShowHandler
<1> QED
  BY <1>7, <1>8

LEMMA ShowChoice ==
  ASSUME TypeOK, ControlInv, ShowInv, UNCHANGED proxyVars, NEW r \in Requests,
         ChooseWorker(r)
  PROVE  ShowInv'
<1>1. PICK w \in Workers :
        /\ Name[w] \notin Excluded(r)
        /\ history' = [history EXCEPT ![r] = Append(history[r], w)]
  BY DEF ChooseWorker, Candidates
<1>2. history[r] \in Seq(Workers) /\ history'[r] = Append(history[r], w)
  BY <1>1 DEF TypeOK
<1>3. Worker(r)' = w
  BY <1>2 DEF Worker
<1>4. pc[r] = "choose" /\ pc'[r] \in {"dispatched", "mark"} /\ failures' = failures
  BY DEF ChooseWorker, Goto, outcomeVars, TypeOK
<1>5. \A q \in Requests \ {r} : pc'[q] = pc[q] /\ history'[q] = history[q]
  BY <1>1 DEF ChooseWorker, Goto, TypeOK
<1>6. Tried(r)' <=> Tried(r) \/ w = Faulty
  <2>1. /\ DOMAIN history'[r] = DOMAIN history[r] \cup {Len(history[r]) + 1}
        /\ \A i \in DOMAIN history[r] : history'[r][i] = history[r][i]
        /\ history'[r][Len(history[r]) + 1] = w
    BY <1>2
  <2> QED
    BY <2>1 DEF Tried
<1>7. Tried(r) => w # Faulty
  BY <1>1 DEF Tried, Excluded
<1>8. AttemptsInv(r)'
  BY <1>3, <1>4, <1>6, <1>7 DEF AttemptsInv, ShowInv, proxyVars
<1>9. r \in Failed' => r \in Failed
  BY <1>3, <1>4, <1>6 DEF Failed, AtFaulty, ShouldFail, proxyVars
<1>10. failures'[Faulty] \in Nat /\ failures'[Faulty] >= failures[Faulty]
  BY <1>4, FaultyAssumption DEF TypeOK
<1> QED
  BY <1>5, <1>8, <1>9, <1>10, ShowHandler

\* A step of one handler that settles nothing as a failure.
LEMMA ShowMove ==
  ASSUME TypeOK, ControlInv, ShowInv, UNCHANGED proxyVars, NEW r \in Requests,
         failures' = failures, history' = history,
         \E label : pc' = [pc EXCEPT ![r] = label],
         AttemptsInv(r)', r \in Failed' => r \in Failed
  PROVE  ShowInv'
<1>1. \A q \in Requests \ {r} : pc'[q] = pc[q] /\ history'[q] = history[q]
  BY DEF TypeOK
<1>2. failures'[Faulty] \in Nat /\ failures'[Faulty] >= failures[Faulty]
  BY FaultyAssumption DEF TypeOK
<1> QED
  BY <1>1, <1>2, ShowHandler

LEMMA ShowNumber ==
  ASSUME TypeOK, ProxyType, ShowInv, NEW r \in Requests, NextRequest(r)
  PROVE  ShowInv'
<1>1. /\ number[r] = 0 /\ SentToProxy(r)
      /\ number' = [number EXCEPT ![r] = seen + 1]
      /\ injected' = IF ShouldFail(seen + 1) THEN injected + 1 ELSE injected
      /\ UNCHANGED vars
  BY DEF NextRequest
<1>2. pc' = pc /\ history' = history /\ failures' = failures
  BY <1>1 DEF vars, handlerVars, workerVars, outcomeVars
<1>3. seen + 1 \in Nat /\ seen + 1 > 0
  BY DEF ProxyType
<1>4. number'[r] = seen + 1 /\ \A q \in Requests \ {r} : number'[q] = number[q]
  BY <1>1 DEF ProxyType
<1>5. r \notin Doomed /\ Doomed \subseteq Requests
  BY <1>1 DEF Doomed
<1>6. Doomed' = IF ShouldFail(seen + 1) THEN Doomed \cup {r} ELSE Doomed
  BY <1>3, <1>4, <1>5 DEF Doomed, ShouldFail
<1>7. injected' = Cardinality(Doomed')
  BY <1>1, <1>5, <1>6, OneMoreCounted DEF ShowInv
<1>8. Failed' \subseteq Failed /\ Failed \subseteq Requests
  BY <1>1, <1>2, <1>4 DEF Failed, Tried, AtFaulty, Worker, ShouldFail
<1>9. Cardinality(Failed') <= failures'[Faulty]
  <2>1. Cardinality(Failed') \in Nat /\ Cardinality(Failed) \in Nat
        /\ Cardinality(Failed') <= Cardinality(Failed)
    BY <1>8, Counted
  <2>2. failures[Faulty] \in Nat
    BY FaultyAssumption DEF TypeOK
  <2> QED
    BY <1>2, <2>1, <2>2 DEF ShowInv
<1>10. ASSUME NEW q \in Requests PROVE AttemptsInv(q)'
  <2>1. CASE q = r
    BY <1>1, <1>2, <1>4, <2>1
    DEF AttemptsInv, ShowInv, SentToProxy, Tried, Worker
  <2>2. CASE q # r
    BY <1>2, <1>4, <2>2 DEF AttemptsInv, ShowInv, Tried, Worker, ShouldFail
  <2> QED
    BY <2>1, <2>2
<1> QED
  BY <1>7, <1>9, <1>10 DEF ShowInv, AttemptsInv

LEMMA ShowNext ==
  TypeOK /\ ControlInv /\ ProxyType /\ ShowInv /\ [FaultNext]_faultVars => ShowInv'
<1> SUFFICES ASSUME TypeOK, ControlInv, ProxyType, ShowInv, [FaultNext]_faultVars
             PROVE  ShowInv'
  OBVIOUS
<1>1. ASSUME NEW r \in Requests, NextRequest(r) PROVE ShowInv'
  BY <1>1, ShowNumber
<1>2. ASSUME pc' = pc, history' = history, failures' = failures,
             UNCHANGED proxyVars
      PROVE  ShowInv'
  BY <1>2 DEF ShowInv, Doomed, Failed, Tried, AtFaulty, Worker, ShouldFail, proxyVars
<1>3. CASE (Tick /\ UNCHANGED proxyVars) \/ UNCHANGED faultVars
  BY <1>2, <1>3 DEF Tick, faultVars, vars, handlerVars, workerVars, outcomeVars,
     FaultNext
<1> USE DEF Goto, handlerVars, workerVars, outcomeVars, routerVars
<1>4. ASSUME NEW r \in Requests, UNCHANGED proxyVars, BeginRequest(r) PROVE ShowInv'
  <2>1. /\ pc[r] = "idle" /\ pc' = [pc EXCEPT ![r] = "choose"]
        /\ history' = history /\ failures' = failures
    BY <1>4 DEF BeginRequest
  <2>2. ~Tried(r) /\ ~Tried(r)'
    BY <2>1 DEF Tried, ControlInv
  <2>3. AttemptsInv(r)' /\ (r \in Failed' => r \in Failed)
    BY <1>4, <2>1, <2>2 DEF AttemptsInv, ShowInv, Failed, proxyVars, TypeOK
  <2> QED
    BY <1>4, <2>1, <2>3, ShowMove
<1>5. ASSUME NEW r \in Requests, UNCHANGED proxyVars,
             ChooseNone(r) \/ MarkRetry(r) \/ ErrorReply(r)
      PROVE  ShowInv'
  <2>1. /\ history' = history /\ failures' = failures
        /\ \/ pc[r] = "choose" /\ pc' = [pc EXCEPT ![r] = "reply"]
           \/ pc[r] = "mark" /\ pc' = [pc EXCEPT ![r] = "dispatched"]
           \/ pc[r] = "reply" /\ pc' = [pc EXCEPT ![r] = "done"]
    BY <1>5 DEF ChooseNone, MarkRetry, ErrorReply
  <2>2. AttemptsInv(r)'
    BY <1>5, <2>1 DEF AttemptsInv, ShowInv, Tried, Worker, TypeOK, proxyVars
  <2>3. r \in Failed' => r \in Failed
    BY <1>5, <2>1 DEF Failed, Tried, AtFaulty, Worker, ShouldFail, TypeOK, proxyVars
  <2> QED
    BY <1>5, <2>1, <2>2, <2>3, ShowMove
<1>6. ASSUME NEW r \in Requests, UNCHANGED proxyVars, StartResponse(r),
             Worker(r) = Faulty => number[r] > 0 /\ ~ShouldFail(number[r])
      PROVE  ShowInv'
  <2>1. /\ history' = history /\ failures' = failures
        /\ pc[r] = "dispatched" /\ pc' = [pc EXCEPT ![r] = "streaming"]
    BY <1>6 DEF StartResponse
  <2>2. AttemptsInv(r)'
    BY <1>6, <2>1 DEF AttemptsInv, ShowInv, Tried, Worker, ShouldFail, TypeOK, proxyVars
  <2>3. r \in Failed' => r \in Failed
    BY <1>6, <2>1 DEF Failed, Tried, AtFaulty, Worker, ShouldFail, TypeOK, proxyVars
  <2> QED
    BY <1>6, <2>1, <2>2, <2>3, ShowMove
<1>7. ASSUME NEW r \in Requests, UNCHANGED proxyVars,
             (\E status : HttpError(r, status)) \/ Unreachable(r)
      PROVE  ShowInv'
  <2>1. PICK c \in BOOLEAN : CompleteFailure(Worker(r), c)
    <3>1. CASE Unreachable(r)
      BY <3>1 DEF Unreachable
    <3> QED
      BY <1>7, <3>1, ErrorSettles
  <2>2. PICK label \in {"choose", "reply"} : pc' = [pc EXCEPT ![r] = label]
    BY <1>7 DEF HttpError, Unreachable
  <2>3. pc[r] = "dispatched" /\ history' = history
    BY <1>7 DEF HttpError, Unreachable
  <2> QED
    BY <1>7, <2>1, <2>2, <2>3, ShowFailure
<1>8. ASSUME NEW r \in Requests, UNCHANGED proxyVars, StreamServed(r) PROVE ShowInv'
  <2>1. /\ pc[r] = "streaming" /\ pc' = [pc EXCEPT ![r] = "done"]
        /\ history' = history
    BY <1>8
       DEF StreamServed, StreamEnds, StreamEof, StreamError, StreamReset,
           EndStream
  <2>2. CASE CompleteFailure(Worker(r), TRUE)
    BY <1>8, <2>1, <2>2, ShowFailure
  <2>3. CASE failures' = failures
    <3>1. AttemptsInv(r)'
      BY <1>8, <2>1 DEF AttemptsInv, ShowInv, Tried, Worker, TypeOK, proxyVars
    <3>2. r \in Failed' => r \in Failed
      <4>1. pc'[r] = "done" /\ number' = number
        BY <1>8, <2>1 DEF TypeOK, proxyVars
      <4>2. CASE Worker(r) = Faulty
        BY <2>1, <4>1, <4>2 DEF Failed, ShowInv, ShouldFail
      <4>3. CASE Worker(r) # Faulty
        BY <2>1, <4>1, <4>3 DEF Failed, Tried, AtFaulty, ShouldFail
      <4> QED
        BY <4>2, <4>3
    <3> QED
      BY <1>8, <2>1, <2>3, <3>1, <3>2, ShowMove
  <2> QED
    BY <1>8, <2>2, <2>3
       DEF StreamServed, StreamEnds, StreamEof, StreamError, StreamReset,
           CompleteSuccess, Cancel
<1>9. ASSUME NEW r \in Requests, UNCHANGED proxyVars, ReplicaAnswers(r) PROVE ShowInv'
  BY <1>6, <1>7, <1>9 DEF ReplicaAnswers, ProxyReplies, Served
<1> QED
  BY <1>1, <1>3, <1>4, <1>5, <1>8, <1>9, ShowChoice DEF FaultNext, Choose

\* The proxy's count of injected failures is explained by the router's counter
\* of failures and the attempts that are still waiting, whichever of the two
\* threads comes first.
THEOREM InjectedShows == FaultSpec => []InjectedShowsInRouter
<1>1. FaultInit => ProxyType /\ InjectedOnSchedule /\ ShowInv
  <2> SUFFICES ASSUME FaultInit PROVE ProxyType /\ InjectedOnSchedule /\ ShowInv
    OBVIOUS
  <2>1. ProxyType /\ InjectedOnSchedule
    BY ScheduleInit
  <2>2. Doomed = {} /\ Failed = {}
    BY DEF FaultInit, Init, Doomed, Failed, Tried
  <2>3. Cardinality(Doomed) = 0 /\ Cardinality(Failed) = 0
    BY <2>2, FS_EmptySet
  <2> QED
    BY <2>1, <2>3, FaultyAssumption DEF FaultInit, Init, ShowInv
<1>2. TypeOK /\ ControlInv /\ ShowInv => InjectedShowsInRouter
  BY ShowInvImplies
<1> QED
  BY <1>1, <1>2, NumberedNext, ShowNext, RouterInv, PTL DEF FaultSpec

-----------------------------------------------------------------------------
(* What a client sees *)

\* Some worker cannot be mistaken for the faulty one.
Backup == {w \in Workers : Name[w] # Name[Faulty]}

\* The healthy workers keep their circuits closed, a second attempt is at one
\* of them and follows one at the faulty worker, and the only error reply is
\* that a request is invalid.
MaskInv ==
  /\ \A w \in Workers \ {Faulty} : openFor[w] = 0
  /\ \A r \in Requests :
       /\ pc[r] # "aborted"
       /\ pc[r] = "reply" => lastStatus[r] = "4xx"
       /\ pc[r] = "choose" => history[r] \in {<<>>, <<Faulty>>}
       /\ Len(history[r]) = 2 => history[r][2] # Faulty
       /\ answer[r] \notin Retryable \cup {"dropped"}

\* There is always a worker to choose.
LEMMA BackupCandidate ==
  ASSUME Backup # {}, MaskInv, NEW r \in Requests, pc[r] = "choose"
  PROVE  Candidates(r) # {}
<1>1. PICK w \in Backup : TRUE
  OBVIOUS
<1>2. w \in Workers /\ openFor[w] = 0 /\ Name[w] # Name[Faulty]
  BY FaultyAssumption DEF Backup, MaskInv
<1>3. history[r] \in {<<>>, <<Faulty>>}
  BY DEF MaskInv
<1>4. Excluded(r) \subseteq {Name[Faulty]}
  BY <1>3 DEF Excluded
<1> QED
  BY <1>2, <1>4 DEF Candidates

LEMMA MaskNext ==
  ASSUME MaxRetries = 1, Backup # {}
  PROVE  TypeOK /\ ControlInv /\ MaskInv /\ [FaultNext]_faultVars => MaskInv'
<1> SUFFICES ASSUME TypeOK, ControlInv, MaskInv, [FaultNext]_faultVars PROVE MaskInv'
  OBVIOUS
<1> USE DEF Goto, routerVars, workerVars, outcomeVars, handlerVars, Retryable
<1>1. ASSUME NEW r \in Requests, ChooseWorker(r) PROVE MaskInv'
  <2>1. PICK w \in Workers :
          /\ Name[w] \notin Excluded(r)
          /\ history' = [history EXCEPT ![r] = Append(history[r], w)]
    BY <1>1 DEF ChooseWorker, Candidates
  <2>2. /\ pc[r] = "choose" /\ openFor' = openFor /\ answer' = answer
        /\ lastStatus' = lastStatus
        /\ pc' = [pc EXCEPT ![r] = IF history[r] = <<>> THEN "dispatched" ELSE "mark"]
    BY <1>1 DEF ChooseWorker
  <2>3. history[r] = <<>> \/ history[r] = <<Faulty>>
    BY <2>2 DEF MaskInv
  <2>4. history'[r] = Append(history[r], w)
    BY <2>1 DEF TypeOK
  <2>5. Len(history'[r]) = 2 => history'[r][2] # Faulty
    <3>1. CASE history[r] = <<>>
      <4>1. Len(history'[r]) = 1
        BY <2>4, <3>1
      <4> QED
        BY <4>1
    <3>2. CASE history[r] = <<Faulty>>
      <4>1. Name[Faulty] \in Excluded(r)
        BY <3>2 DEF Excluded
      <4>2. history'[r][2] = w
        BY <2>4, <3>2
      <4> QED
        BY <2>1, <4>1, <4>2
    <3> QED
      BY <2>3, <3>1, <3>2
  <2>6. \A q \in Requests \ {r} : history'[q] = history[q] /\ pc'[q] = pc[q]
    BY <2>1, <2>2 DEF TypeOK
  <2>7. pc'[r] \in {"dispatched", "mark"}
    BY <2>2 DEF TypeOK
  <2> QED
    BY <2>2, <2>5, <2>6, <2>7 DEF MaskInv
<1>2. ASSUME NEW r \in Requests, ChooseNone(r) PROVE FALSE
  BY <1>2, BackupCandidate DEF ChooseNone
<1>3. ASSUME NEW r \in Requests, BeginRequest(r) PROVE MaskInv'
  BY <1>3 DEF BeginRequest, MaskInv, ControlInv, TypeOK
<1>4. ASSUME NEW r \in Requests, MarkRetry(r) PROVE MaskInv'
  BY <1>4 DEF MarkRetry, MaskInv, TypeOK
<1>5. ASSUME NEW r \in Requests, StartResponse(r) PROVE MaskInv'
  BY <1>5 DEF StartResponse, MaskInv, TypeOK
<1>6. ASSUME NEW r \in Requests, Worker(r) = Faulty,
             (\E status \in Retryable : HttpError(r, status)) \/ Unreachable(r)
      PROVE  MaskInv'
  <2>1. /\ pc[r] = "dispatched"
        /\ CompleteFailure(Faulty, TRUE)
        /\ pc' = [pc EXCEPT ![r] = IF RetryLeft(r) THEN "choose" ELSE "reply"]
        /\ \E status : lastStatus' = [lastStatus EXCEPT ![r] = status]
        /\ history' = history /\ answer' = answer
    BY <1>6 DEF HttpError, Unreachable
  <2>2. \A w \in Workers \ {Faulty} : openFor'[w] = openFor[w]
    BY <2>1 DEF CompleteFailure, TypeOK
  <2>3. history[r] \in Seq(Workers) /\ Len(history[r]) \in 1..2
    <3>1. history[r] \in Seq(Workers)
      BY DEF TypeOK
    <3>2. Len(history[r]) >= 1
      BY <2>1 DEF ControlInv
    <3>3. Len(history[r]) <= 2
      BY DEF ControlInv
    <3>4. Len(history[r]) \in Nat
      BY <3>1
    <3>5. \A n \in Nat : n >= 1 /\ n <= 2 => n \in 1..2
      OBVIOUS
    <3>6. Len(history[r]) \in 1..2
      BY <3>2, <3>3, <3>4, <3>5
    <3> QED
      BY <3>1, <3>6
  <2>4. Len(history[r]) # 2
    BY <1>6 DEF Worker, MaskInv
  <2>5. Len(history[r]) = 1
    BY <2>3, <2>4
  <2>6. history[r] = <<Faulty>>
    BY <1>6, <2>3, <2>5 DEF Worker
  <2>7. pc' = [pc EXCEPT ![r] = "choose"]
    BY <2>1, <2>5 DEF RetryLeft
  <2>8. \A q \in Requests \ {r} : pc'[q] = pc[q] /\ lastStatus'[q] = lastStatus[q]
    BY <2>1 DEF TypeOK
  <2> QED
    BY <2>1, <2>2, <2>6, <2>7, <2>8 DEF MaskInv, TypeOK
<1>7. ASSUME NEW r \in Requests, StreamServed(r) PROVE MaskInv'
  <2>1. /\ pc[r] = "streaming" /\ pc' = [pc EXCEPT ![r] = "done"]
        /\ history' = history /\ lastStatus' = lastStatus
        /\ \E a \in {"whole", "gone", "cut"} : answer' = [answer EXCEPT ![r] = a]
    BY <1>7
       DEF StreamServed, StreamEnds, StreamEof, StreamError, StreamReset,
           EndStream
  <2>2. \A w \in Workers \ {Faulty} : openFor'[w] = openFor[w]
    <3>1. CASE openFor' = openFor
      BY <3>1
    <3>2. CASE CompleteFailure(Faulty, TRUE)
      BY <3>2 DEF CompleteFailure, TypeOK
    <3> QED
      BY <1>7, <3>1, <3>2
         DEF StreamServed, StreamEnds, StreamEof, StreamError, StreamReset,
             CompleteSuccess, Cancel
  <2> QED
    BY <2>1, <2>2 DEF MaskInv, TypeOK
<1>8. ASSUME NEW r \in Requests, ErrorReply(r) PROVE MaskInv'
  BY <1>8 DEF ErrorReply, MaskInv, TypeOK
<1>9. ASSUME NEW r \in Requests, HttpError(r, "4xx") PROVE MaskInv'
  <2>1. Worker(r) \in Workers
    BY <1>9, CurrentWorker DEF HttpError
  <2>2. /\ CompleteFailure(Worker(r), FALSE)
        /\ pc' = [pc EXCEPT ![r] = "reply"]
        /\ lastStatus' = [lastStatus EXCEPT ![r] = "4xx"]
        /\ history' = history /\ answer' = answer
    <3>1. /\ \E counts \in BOOLEAN : ~counts /\ CompleteFailure(Worker(r), counts)
          /\ lastStatus' = [lastStatus EXCEPT ![r] = "4xx"]
          /\ history' = history /\ answer' = answer
      <4> DEFINE counts == "4xx" \in Retryable
      <4>1. counts = FALSE /\ counts \in BOOLEAN
        OBVIOUS
      <4>2. CompleteFailure(Worker(r), counts)
        BY <1>9 DEF HttpError
      <4> HIDE DEF counts
      <4>3. \E c \in BOOLEAN : ~c /\ CompleteFailure(Worker(r), c)
        BY <4>1, <4>2
      <4> QED
        BY <4>3, <1>9 DEF HttpError
    <3>0. pc' = [pc EXCEPT ![r] = "reply"]
      BY <1>9 DEF HttpError
    <3>2. \A counts \in BOOLEAN : ~counts => counts = FALSE
      OBVIOUS
    <3> QED
      BY <3>0, <3>1, <3>2
  <2>3. openFor' = openFor
    BY <2>1, <2>2 DEF CompleteFailure, TypeOK
  <2> QED
    BY <2>2, <2>3 DEF MaskInv, TypeOK
<1>10. ASSUME NEW r \in Requests, ReplicaAnswers(r) PROVE MaskInv'
  BY <1>5, <1>6, <1>9, <1>10, ErrorCodesAssumption
     DEF ReplicaAnswers, ProxyReplies, Served, Statuses
<1>11. CASE Tick
  <2>1. \A w \in Workers : openFor[w] = 0 => openFor'[w] = 0
    BY <1>11 DEF Tick
  <2> QED
    BY <1>11, <2>1 DEF Tick, MaskInv
<1>12. CASE UNCHANGED vars
  BY <1>12 DEF vars, MaskInv
<1>13. ASSUME NEW r \in Requests, NextRequest(r) PROVE UNCHANGED vars
  BY <1>13 DEF NextRequest
<1> QED
  BY <1>1, <1>2, <1>3, <1>4, <1>7, <1>8, <1>10, <1>11, <1>12, <1>13
  DEF FaultNext, faultVars, Choose

\* With one retry allowed, and a worker whose name differs from the faulty
\* one's, no client is ever told of an error that is not its own.
THEOREM FaultsMasked ==
  ASSUME Backup # {}
  PROVE  FaultSpec => []MaskedByRetry
<1>1. CASE MaxRetries = 1
  <2>1. FaultInit => MaskInv
    BY DEF FaultInit, Init, MaskInv, Retryable
  <2>2. TypeOK /\ ControlInv /\ MaskInv /\ [FaultNext]_faultVars => MaskInv'
    BY <1>1, MaskNext
  <2>3. MaskInv => MaskedByRetry
    BY DEF MaskInv, MaskedByRetry
  <2> QED
    BY <2>1, <2>2, <2>3, RouterInv, PTL DEF FaultSpec
<1>2. CASE MaxRetries # 1
  <2>1. MaskedByRetry
    BY <1>2 DEF MaskedByRetry
  <2> QED
    BY <2>1, PTL
<1> QED
  BY <1>1, <1>2
=============================================================================
