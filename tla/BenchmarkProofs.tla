-------------------------- MODULE BenchmarkProofs ---------------------------
(***************************************************************************)
(* Proofs about BenchmarkRun, for any number of workloads, requests and    *)
(* threads: the exported counters are conserved, a summarised workload is  *)
(* complete, and the status in metadata.json tells how the run ended.      *)
(***************************************************************************)
EXTENDS BenchmarkRun, FiniteSetTheorems, TLAPS

-----------------------------------------------------------------------------
(* The inductive invariant *)

Submitting == {"submit", "mark", "attach"}
InWorkload == Submitting \cup {"collect", "shutdown", "drainAfter"}
BeforeLoop == {"evidence", "start"}
AfterLoop == {"finish", "write"}

\* Nothing of a workload is under way.
Quiet == BeforeLoop \cup {"drainBefore", "drainAfter"} \cup AfterLoop

\* Callbacks that are there and have still to run.
Pending == {i \in Indices : callback[i] \in {"attached", "invoking"}}

\* A request that has been counted and has no callback yet.
Unattached == IF main = "attach" THEN 1 ELSE 0

\* What is queued is in the queue, and only an unfinished future has a callback
\* that waits for it: an idle pool leaves no callback behind.
PoolInv ==
  /\ \A i \in Indices :
       future[i] = "queued" => \E j \in DOMAIN queue : queue[j] = i
  /\ \A i \in Indices :
       callback[i] = "attached" => future[i] \in {"queued", "running"}

\* How far the workload has come where the main thread stands.
MainInv ==
  /\ main \in Submitting =>
       /\ next <= RequestCount
       /\ \A i \in Indices : i >= next => callback[i] = "none"
  /\ main \in {"mark", "attach"} => future[next] # "none"
  /\ main \in {"shutdown", "drainAfter"} => collected = Indices
  /\ main \in Quiet => Pending = {}
  /\ main \in InWorkload => \A i \in collected : <<workload, i>> \in request_log

\* What is exported as in flight has a callback to come.  Only an interrupt
\* between mark_submitted and add_done_callback leaves a request counted.
CountInv ==
  /\ inflight[workload] >= Cardinality(Pending) + Unattached
  /\ main \in InWorkload => inflight[workload] = Cardinality(Pending) + Unattached

\* The requests of this workload so far, and of those that follow.
SubmittedInv ==
  /\ main \in BeforeLoop \cup {"drainBefore"} => submitted[workload] = 0
  /\ main \in {"submit", "mark"} => submitted[workload] = next - 1
  /\ main = "attach" => submitted[workload] = next
  /\ main \in {"collect", "shutdown", "drainAfter"} =>
       submitted[workload] = RequestCount
  /\ \A k \in Workloads : k > workload => submitted[k] = 0

\* The workloads are summarised in turn; the one that was summarised last has
\* no callback to come.
SummariesInv ==
  /\ main \in BeforeLoop \cup {"drainBefore", "unwind"} \cup InWorkload =>
       summaries = 1..(workload - 1)
  /\ main \in AfterLoop => summaries = Workloads
  /\ workload \in summaries => Pending = {}

NothingSent == future = NoFuture /\ queue = <<>> /\ request_log = {}

Verdicts == {"completed", "prompt_parity_failed"}

\* The status at each place of the main thread.
StatusInv ==
  /\ main = "evidence" => status = "unwritten"
  /\ main \in {"start", "drainBefore", "finish", "unwind"} \cup InWorkload =>
       status = "running"
  /\ main = "write" => status \in Verdicts
  /\ main \in {"interrupted", "killed"} =>
       IF summaries = Workloads THEN status \in {"running"} \cup Verdicts
       ELSE status \in {"unwritten", "running"}
  /\ main \in BeforeLoop => NothingSent
  /\ main = "crashed" =>
       IF summaries = Workloads THEN status \in Verdicts
       ELSE status = "running" /\ NothingSent
  /\ main = "ended" =>
       /\ status \notin {"unwritten", "running"}
       /\ status \in Verdicts <=> summaries = Workloads
       /\ status # "failed" /\ summaries # Workloads => NothingSent

Inv ==
  /\ TypeOK /\ PoolInv /\ MainInv /\ CountInv /\ SubmittedInv /\ SummariesInv
  /\ StatusInv /\ ExportConserved /\ SummarisedIsComplete

-----------------------------------------------------------------------------
(* The callbacks *)

LEMMA PendingFinite ==
  /\ IsFiniteSet(Pending)
  /\ Cardinality(Pending) \in Nat
  /\ Pending = {} <=> Cardinality(Pending) = 0
<1>1. IsFiniteSet(Indices)
  BY SizesAssumption, FS_Interval DEF Indices
<1>2. Pending \subseteq Indices
  BY DEF Pending
<1>3. IsFiniteSet(Pending)
  BY <1>1, <1>2, FS_Subset
<1> QED
  BY <1>3, FS_CardinalityType, FS_EmptySet

LEMMA PendingAdded ==
  ASSUME TypeOK, NEW i \in Indices, callback[i] = "none",
         callback' = [callback EXCEPT ![i] = "attached"]
  PROVE  Cardinality(Pending') = Cardinality(Pending) + 1
<1>1. Pending' = Pending \cup {i} /\ i \notin Pending
  BY DEF Pending, TypeOK
<1> QED
  BY <1>1, PendingFinite, FS_AddElement

LEMMA PendingRemoved ==
  ASSUME TypeOK, NEW i \in Indices, i \in Pending,
         callback' = [callback EXCEPT ![i] = "done"]
  PROVE  Cardinality(Pending') = Cardinality(Pending) - 1
<1>1. Pending' = Pending \ {i}
  BY DEF Pending, TypeOK
<1> QED
  BY <1>1, PendingFinite, FS_RemoveElement

LEMMA PendingInvoked ==
  ASSUME TypeOK, NEW i \in Indices,
         callback' =
           [callback EXCEPT ![i] = IF @ = "attached" THEN "invoking" ELSE @]
  PROVE  Pending' = Pending
BY DEF Pending, TypeOK

\* An idle pool has run every callback.
LEMMA IdlePool ==
  ASSUME TypeOK, PoolInv, PoolIdle
  PROVE  Pending = {}
<1> SUFFICES ASSUME NEW i \in Pending PROVE FALSE
  OBVIOUS
<1>1. i \in Indices /\ future[i] # "running" /\ callback[i] = "attached"
  BY DEF Pending, PoolIdle, Busy
<1>2. future[i] = "queued"
  BY <1>1 DEF PoolInv
<1>3. \E j \in DOMAIN queue : queue[j] = i
  BY <1>1, <1>2 DEF PoolInv
<1> QED
  BY <1>3 DEF PoolIdle

-----------------------------------------------------------------------------
(* Every step preserves the invariant, part by part. *)

LEMMA InvInit == Init => Inv
<1> SUFFICES ASSUME Init PROVE Inv
  OBVIOUS
<1> USE DEF Init, NoFuture
<1>1. Pending = {} /\ Cardinality(Pending) = 0
  <2>1. Pending = {}
    BY DEF Pending
  <2> QED
    BY <2>1, FS_EmptySet
<1>2. TypeOK
  BY SizesAssumption DEF TypeOK, Workloads, Indices, Over
<1>3. PoolInv /\ MainInv
  BY <1>1, SizesAssumption
  DEF PoolInv, MainInv, Submitting, InWorkload, Quiet, BeforeLoop, AfterLoop
<1>4. CountInv
  BY <1>1, SizesAssumption DEF CountInv, Unattached, InWorkload, Submitting, Workloads
<1>5. SubmittedInv
  BY SizesAssumption DEF SubmittedInv, BeforeLoop, Workloads
<1>6. SummariesInv
  BY <1>1 DEF SummariesInv, AfterLoop, Workloads
<1>7. StatusInv
  BY DEF StatusInv, BeforeLoop, InWorkload, Submitting, NothingSent
<1>8. ExportConserved /\ SummarisedIsComplete
  BY DEF ExportConserved, SummarisedIsComplete, Workloads
<1> QED
  BY <1>2, <1>3, <1>4, <1>5, <1>6, <1>7, <1>8 DEF Inv

\* The counters stay in their range, since no more is submitted than there is.
LEMMA TypeNext ==
  ASSUME Inv, Next
  PROVE  TypeOK'
<1> USE DEF Inv, Goto, poolVars, exportVars, outVars, Over
<1>1. CASE CheckEvidence \/ StartServices \/ Shutdown \/ Unwind \/ Complete
             \/ WriteSummary \/ GuardFails \/ Interrupt
  BY <1>1 DEF CheckEvidence, StartServices, Shutdown, Unwind, Complete,
     WriteSummary, GuardFails, Interrupt, TypeOK
<1>2. CASE DrainBefore
  BY <1>2, SizesAssumption DEF DrainBefore, NoFuture, TypeOK
<1>3. CASE Submit
  <2>1. next \in Indices
    BY <1>3 DEF Submit, MainInv, Submitting, TypeOK, Indices
  <2>2. queue' \in Seq(Indices)
    BY <1>3, <2>1 DEF Submit, TypeOK
  <2> QED
    BY <1>3, <2>1, <2>2 DEF Submit, TypeOK
<1>4. CASE Mark
  <2>1. submitted[workload] + 1 \in 0..RequestCount
    BY <1>4, SizesAssumption DEF Mark, MainInv, SubmittedInv, Submitting, TypeOK
  <2>2. inflight[workload] + 1 \in 0..RequestCount
    BY <1>4, <2>1, SizesAssumption DEF ExportConserved, TypeOK
  <2> QED
    BY <1>4, <2>1, <2>2 DEF Mark, MarkSubmitted, TypeOK
<1>5. ASSUME Observe(workload), inflight[workload] > 0
      PROVE  /\ submitted' \in [Workloads -> 0..RequestCount]
             /\ inflight' \in [Workloads -> 0..RequestCount]
             /\ completed' \in [Workloads -> 0..RequestCount]
  <2>1. completed[workload] + 1 \in 0..RequestCount
    BY <1>5, SizesAssumption DEF ExportConserved, TypeOK
  <2>2. inflight[workload] - 1 \in 0..RequestCount
    BY <1>5, SizesAssumption DEF TypeOK
  <2> QED
    BY <1>5, <2>1, <2>2 DEF Observe, TypeOK
<1>6. CASE Attach
  <2>1. next \in Indices /\ next + 1 \in 1..(RequestCount + 1)
    BY <1>6, SizesAssumption DEF Attach, MainInv, Submitting, TypeOK, Indices
  <2>2. inflight[workload] > 0
    BY <1>6, PendingFinite, SizesAssumption DEF Attach, CountInv, Unattached, TypeOK
  <2>3. /\ submitted' \in [Workloads -> 0..RequestCount]
        /\ inflight' \in [Workloads -> 0..RequestCount]
        /\ completed' \in [Workloads -> 0..RequestCount]
    BY <1>6, <1>5, <2>2 DEF Attach, TypeOK
  <2>4. callback' \in [Indices -> {"none", "attached", "invoking", "done"}]
    BY <1>6, <2>1 DEF Attach, TypeOK
  <2> QED
    BY <1>6, <2>1, <2>3, <2>4 DEF Attach, TypeOK
<1>7. ASSUME NEW i \in Indices, Collect(i)
      PROVE  TypeOK'
  BY <1>7 DEF Collect, TypeOK
<1>8. CASE Summarise
  <2>1. workload' \in Workloads
    BY <1>8, SizesAssumption DEF Summarise, TypeOK, Workloads
  <2>2. summaries' \subseteq Workloads
    BY <1>8 DEF Summarise, TypeOK
  <2> QED
    BY <1>8, <2>1, <2>2 DEF Summarise, TypeOK
<1>9. CASE StartRequest
  <2>1. Head(queue) \in Indices /\ Tail(queue) \in Seq(Indices)
    BY <1>9 DEF StartRequest, TypeOK
  <2> QED
    BY <1>9, <2>1 DEF StartRequest, TypeOK
<1>10. ASSUME NEW i \in Indices, FinishRequest(i)
       PROVE  TypeOK'
  BY <1>10 DEF FinishRequest, TypeOK
<1>11. ASSUME NEW i \in Indices, InvokeCallback(i)
       PROVE  TypeOK'
  <2>1. Pending # {}
    BY <1>11 DEF InvokeCallback, Pending
  <2>2. inflight[workload] > 0
    BY <2>1, PendingFinite DEF CountInv, Unattached, TypeOK
  <2>3. /\ submitted' \in [Workloads -> 0..RequestCount]
        /\ inflight' \in [Workloads -> 0..RequestCount]
        /\ completed' \in [Workloads -> 0..RequestCount]
    BY <1>11, <1>5, <2>2 DEF InvokeCallback
  <2> QED
    BY <1>11, <2>3 DEF InvokeCallback, TypeOK
<1>12. CASE Ended
  BY <1>12 DEF Ended, vars, TypeOK
<1> QED
  BY <1>1, <1>2, <1>3, <1>4, <1>6, <1>7, <1>8, <1>9, <1>10, <1>11, <1>12
  DEF Next, MainStep, PoolStep

LEMMA PoolNext ==
  ASSUME Inv, Next
  PROVE  PoolInv'
<1> USE DEF Inv, Goto, poolVars
<1>1. CASE UNCHANGED poolVars
  BY <1>1 DEF PoolInv
<1>2. CASE DrainBefore
  BY <1>2 DEF DrainBefore, NoFuture, PoolInv
<1>3. CASE Submit
  <2>1. next \in Indices /\ callback[next] = "none"
    BY <1>3 DEF Submit, MainInv, Submitting, TypeOK, Indices
  <2>2. Len(queue) \in Nat /\ queue' = Append(queue, next)
    BY <1>3 DEF Submit, TypeOK
  <2>3. ASSUME NEW i \in Indices, future'[i] = "queued"
        PROVE  \E j \in DOMAIN queue' : queue'[j] = i
    <3>1. CASE i = next
      <4>1. Len(queue) + 1 \in DOMAIN queue' /\ queue'[Len(queue) + 1] = next
        BY <2>1, <2>2 DEF TypeOK
      <4> QED
        BY <3>1, <4>1
    <3>2. CASE i # next
      <4>1. future[i] = "queued"
        BY <1>3, <2>3, <3>2 DEF Submit, TypeOK
      <4>2. PICK j \in DOMAIN queue : queue[j] = i
        BY <4>1 DEF PoolInv
      <4>3. j \in DOMAIN queue' /\ queue'[j] = i
        BY <2>1, <2>2, <4>2 DEF TypeOK
      <4> QED
        BY <4>3
    <3> QED
      BY <3>1, <3>2
  <2>4. \A i \in Indices :
          callback'[i] = "attached" => future'[i] \in {"queued", "running"}
    BY <1>3, <2>1 DEF Submit, PoolInv, TypeOK
  <2> QED
    BY <2>3, <2>4 DEF PoolInv
<1>4. CASE Attach
  <2>1. next \in Indices /\ future[next] # "none"
    BY <1>4 DEF Attach, MainInv, Submitting, TypeOK, Indices
  <2> QED
    BY <1>4, <2>1 DEF Attach, PoolInv, TypeOK
<1>5. CASE StartRequest
  <2>1. /\ queue # <<>> /\ queue' = Tail(queue)
        /\ future' = [future EXCEPT ![Head(queue)] = "running"]
        /\ callback' = callback
    BY <1>5 DEF StartRequest
  <2>2. ASSUME NEW i \in Indices, future'[i] = "queued"
        PROVE  \E j \in DOMAIN queue' : queue'[j] = i
    <3>1. future[i] = "queued" /\ i # Head(queue)
      BY <2>1, <2>2 DEF TypeOK
    <3>2. PICK j \in DOMAIN queue : queue[j] = i
      BY <3>1 DEF PoolInv
    <3>3. j # 1
      BY <2>1, <3>1, <3>2
    <3>4. j - 1 \in DOMAIN queue' /\ queue'[j - 1] = i
      BY <2>1, <3>2, <3>3 DEF TypeOK
    <3> QED
      BY <3>4
  <2>3. \A i \in Indices :
          callback'[i] = "attached" => future'[i] \in {"queued", "running"}
    BY <2>1 DEF PoolInv, TypeOK
  <2> QED
    BY <2>2, <2>3 DEF PoolInv
<1>6. ASSUME NEW i \in Indices, FinishRequest(i)
      PROVE  PoolInv'
  BY <1>6 DEF FinishRequest, PoolInv, TypeOK
<1>7. ASSUME NEW i \in Indices, InvokeCallback(i)
      PROVE  PoolInv'
  BY <1>7 DEF InvokeCallback, PoolInv, TypeOK
<1> QED
  BY <1>1, <1>2, <1>3, <1>4, <1>5, <1>6, <1>7
  DEF Next, MainStep, PoolStep, CheckEvidence, StartServices, Mark, Collect, Shutdown,
      Summarise, Unwind, Complete, WriteSummary, GuardFails, Interrupt, Ended, vars

LEMMA MainNext ==
  ASSUME Inv, Next
  PROVE  MainInv'
<1> USE DEF Inv, Goto, poolVars, outVars, Submitting, InWorkload, Quiet, BeforeLoop,
            AfterLoop
<1>1. CASE CheckEvidence \/ StartServices \/ Complete \/ WriteSummary \/ Unwind
             \/ GuardFails \/ Interrupt
  BY <1>1 DEF CheckEvidence, StartServices, Complete, WriteSummary, Unwind, GuardFails,
     Interrupt, MainInv, Pending, Over
<1>2. CASE DrainBefore
  BY <1>2, SizesAssumption DEF DrainBefore, NoFuture, MainInv, Indices
<1>3. CASE Submit
  <2>1. next \in Indices
    BY <1>3 DEF Submit, MainInv, TypeOK, Indices
  <2> QED
    BY <1>3, <2>1 DEF Submit, MainInv, TypeOK
<1>4. CASE Mark
  BY <1>4 DEF Mark, MainInv
<1>5. CASE Attach
  <2>1. next \in Indices /\ next' = next + 1 /\ next \in Nat
    BY <1>5 DEF Attach, MainInv, TypeOK, Indices
  <2>2. ASSUME NEW i \in Indices, i >= next'
        PROVE  callback'[i] = "none"
    <3>1. i >= next /\ i # next
      BY <2>1, <2>2 DEF Indices
    <3>2. callback[i] = "none"
      BY <1>5, <3>1 DEF Attach, MainInv
    <3> QED
      BY <1>5, <3>1, <3>2 DEF Attach, TypeOK
  <2>3. main' = "submit" => next' <= RequestCount
    BY <1>5, <2>1, SizesAssumption DEF Attach
  <2> QED
    BY <1>5, <2>2, <2>3 DEF Attach, MainInv
<1>6. ASSUME NEW i \in Indices, Collect(i)
      PROVE  MainInv'
  BY <1>6 DEF Collect, MainInv
<1>7. CASE Shutdown
  <2>1. Pending = {}
    BY <1>7, IdlePool DEF Shutdown
  <2> QED
    BY <1>7, <2>1 DEF Shutdown, MainInv, Pending
<1>8. CASE Summarise
  BY <1>8 DEF Summarise, MainInv, Pending
<1>9. CASE StartRequest
  <2>1. Head(queue) \in Indices
    BY <1>9 DEF StartRequest, TypeOK
  <2> QED
    BY <1>9, <2>1 DEF StartRequest, MainInv, Pending, TypeOK
<1>10. ASSUME NEW i \in Indices, FinishRequest(i)
       PROVE  MainInv'
  <2>1. Pending' = Pending
    BY <1>10, PendingInvoked DEF FinishRequest
  <2> QED
    BY <1>10, <2>1 DEF FinishRequest, MainInv, TypeOK
<1>11. ASSUME NEW i \in Indices, InvokeCallback(i)
       PROVE  MainInv'
  <2>1. Pending # {}
    BY <1>11 DEF InvokeCallback, Pending
  <2> QED
    BY <1>11, <2>1 DEF InvokeCallback, MainInv, TypeOK
<1>12. CASE Ended
  BY <1>12 DEF Ended, vars, MainInv, Pending
<1> QED
  BY <1>1, <1>2, <1>3, <1>4, <1>5, <1>6, <1>7, <1>8, <1>9, <1>10, <1>11, <1>12
  DEF Next, MainStep, PoolStep

\* What is in flight is what the callbacks will take back; so the clamp at zero
\* in observe is never taken, and nothing that was submitted is lost.
LEMMA CountNext ==
  ASSUME Inv, Next
  PROVE  CountInv' /\ ExportConserved'
<1> USE DEF Inv, Goto, poolVars, outVars, Submitting, InWorkload
<1>1. /\ Cardinality(Pending) \in Nat
      /\ Unattached \in 0..1
      /\ workload \in Workloads
      /\ \A k \in Workloads : /\ submitted[k] \in Nat
                             /\ inflight[k] \in Nat
                             /\ completed[k] \in Nat
  BY PendingFinite, SizesAssumption DEF TypeOK, Unattached
<1>2. ASSUME Observe(workload), workload' = workload, inflight[workload] > 0
      PROVE  ExportConserved' /\ inflight'[workload'] = inflight[workload] - 1
  BY <1>1, <1>2 DEF Observe, ExportConserved, TypeOK
<1>3. CASE CheckEvidence \/ StartServices \/ Complete \/ WriteSummary \/ Unwind
             \/ GuardFails \/ Interrupt \/ Ended \/ Shutdown
             \/ (\E i \in Indices : Collect(i)) \/ StartRequest
  <2>1. UNCHANGED <<workload, callback, exportVars>>
    BY <1>3 DEF CheckEvidence, StartServices, Complete, WriteSummary, Unwind, GuardFails,
       Interrupt, Ended, vars, Shutdown, Collect, StartRequest, exportVars
  <2>2. Pending' = Pending
    BY <2>1 DEF Pending
  <2>3. Unattached' <= Unattached /\ Unattached' \in 0..1
    BY <1>3 DEF CheckEvidence, StartServices, Complete, WriteSummary, Unwind, GuardFails,
       Interrupt, Ended, vars, Shutdown, Collect, StartRequest, Unattached
  <2>4. main' \in InWorkload => main \in InWorkload /\ Unattached' = Unattached
    BY <1>3 DEF CheckEvidence, StartServices, Complete, WriteSummary, Unwind, GuardFails,
       Interrupt, Ended, vars, Shutdown, Collect, StartRequest, Unattached, Over
  <2>5. CountInv'
    BY <1>1, <2>1, <2>2, <2>3, <2>4 DEF CountInv, exportVars
  <2>6. ExportConserved'
    BY <2>1 DEF ExportConserved, exportVars
  <2> QED
    BY <2>5, <2>6
<1>4. CASE DrainBefore
  <2>1. inflight[workload] = 0
    BY <1>1, <1>4 DEF DrainBefore, SubmittedInv, ExportConserved
  <2>2. Pending' = {}
    BY <1>4 DEF DrainBefore, NoFuture, Pending
  <2>3. Cardinality(Pending') = 0
    BY <2>2, FS_EmptySet
  <2> QED
    BY <1>4, <2>1, <2>3 DEF DrainBefore, CountInv, ExportConserved, exportVars, Unattached
<1>5. CASE Submit
  <2>1. Pending' = Pending
    BY <1>5 DEF Submit, Pending
  <2> QED
    BY <1>5, <2>1 DEF Submit, CountInv, ExportConserved, exportVars, Unattached
<1>6. CASE Mark
  <2>1. Pending' = Pending
    BY <1>6 DEF Mark, Pending
  <2>2. Unattached = 0 /\ Unattached' = 1
    BY <1>6 DEF Mark, Unattached
  <2>3. inflight'[workload'] = inflight[workload] + 1
    BY <1>6 DEF Mark, MarkSubmitted, TypeOK
  <2>4. CountInv'
    BY <1>1, <1>6, <2>1, <2>2, <2>3 DEF Mark, CountInv
  <2>5. ExportConserved'
    BY <1>1, <1>6 DEF Mark, MarkSubmitted, ExportConserved, TypeOK
  <2> QED
    BY <2>4, <2>5
<1>7. CASE Attach
  <2>1. next \in Indices /\ callback[next] = "none"
    BY <1>7 DEF Attach, MainInv, TypeOK, Indices
  <2>2. /\ Unattached = 1 /\ Unattached' = 0
        /\ inflight[workload] = Cardinality(Pending) + 1
        /\ workload' = workload
    BY <1>7 DEF Attach, Unattached, CountInv
  <2>3. CASE future[next] = "finished"
    <3>1. Pending' = Pending
      BY <1>7, <2>1, <2>3 DEF Attach, Pending, TypeOK
    <3>2. Observe(workload) /\ inflight[workload] > 0
      BY <1>1, <1>7, <2>2, <2>3 DEF Attach
    <3> QED
      BY <1>1, <1>2, <2>2, <3>1, <3>2 DEF CountInv
  <2>4. CASE future[next] # "finished"
    <3>1. Cardinality(Pending') = Cardinality(Pending) + 1
      BY <1>7, <2>1, <2>4, PendingAdded DEF Attach
    <3> QED
      BY <1>1, <1>7, <2>2, <2>4, <3>1 DEF Attach, CountInv, ExportConserved, exportVars
  <2> QED
    BY <2>3, <2>4
<1>8. CASE Summarise
  <2>1. Pending = {} /\ Pending' = {}
    BY <1>8 DEF Summarise, MainInv, Quiet, Pending
  <2>2. Cardinality(Pending') = 0 /\ Unattached' = 0
    BY <1>8, <2>1, FS_EmptySet DEF Summarise, Unattached
  <2>3. CountInv'
    <3>1. inflight'[workload'] >= 0
      BY <1>1, <1>8, TypeNext, SizesAssumption DEF TypeOK
    <3> QED
      BY <1>8, <2>2, <3>1 DEF Summarise, CountInv
  <2> QED
    BY <1>8, <2>3 DEF Summarise, ExportConserved, exportVars
<1>9. ASSUME NEW i \in Indices, FinishRequest(i)
      PROVE  CountInv' /\ ExportConserved'
  <2>1. Pending' = Pending
    BY <1>9, PendingInvoked DEF FinishRequest
  <2> QED
    BY <1>9, <2>1 DEF FinishRequest, CountInv, ExportConserved, exportVars, Unattached
<1>10. ASSUME NEW i \in Indices, InvokeCallback(i)
       PROVE  CountInv' /\ ExportConserved'
  <2>1. i \in Pending
    BY <1>10 DEF InvokeCallback, Pending
  <2>2. Cardinality(Pending') = Cardinality(Pending) - 1
    BY <1>10, <2>1, PendingRemoved DEF InvokeCallback
  <2>3. Cardinality(Pending) > 0
    BY <1>1, <2>1, PendingFinite
  <2>4. inflight[workload] > 0 /\ workload' = workload /\ main' = main
    BY <1>1, <1>10, <2>3 DEF CountInv, InvokeCallback
  <2>5. Unattached' = Unattached
    BY <2>4 DEF Unattached
  <2>6. ExportConserved' /\ inflight'[workload'] = inflight[workload] - 1
    BY <1>2, <1>10, <2>4 DEF InvokeCallback
  <2> QED
    BY <1>1, <2>2, <2>4, <2>5, <2>6 DEF CountInv
<1> QED
  BY <1>3, <1>4, <1>5, <1>6, <1>7, <1>8, <1>9, <1>10 DEF Next, MainStep, PoolStep

LEMMA SubmittedNext ==
  ASSUME Inv, Next
  PROVE  SubmittedInv'
<1> USE DEF Inv, Goto, outVars, exportVars, BeforeLoop
<1>1. CASE CheckEvidence \/ StartServices \/ Complete \/ WriteSummary \/ Unwind
             \/ GuardFails \/ Interrupt \/ Ended \/ Shutdown \/ Submit
             \/ (\E i \in Indices : Collect(i)) \/ StartRequest
             \/ (\E i \in Indices : FinishRequest(i))
  BY <1>1 DEF CheckEvidence, StartServices, Complete, WriteSummary, Unwind, GuardFails,
     Interrupt, Ended, vars, Shutdown, Submit, Collect, StartRequest, FinishRequest,
     SubmittedInv, Over
<1>2. CASE DrainBefore
  BY <1>2 DEF DrainBefore, SubmittedInv
<1>3. CASE Mark
  <2>1. submitted' = [submitted EXCEPT ![workload] = next]
    BY <1>3 DEF Mark, MarkSubmitted, SubmittedInv, TypeOK
  <2>2. \A k \in Workloads : k > workload => submitted'[k] = 0
    BY <2>1, SizesAssumption DEF SubmittedInv, TypeOK, Workloads
  <2> QED
    BY <1>3, <2>1, <2>2 DEF Mark, SubmittedInv, TypeOK
<1>4. CASE Attach
  <2>1. submitted' = submitted /\ submitted[workload] = next
    BY <1>4 DEF Attach, Observe, SubmittedInv
  <2>2. next <= RequestCount /\ next \in Nat
    BY <1>4 DEF Attach, MainInv, Submitting, TypeOK
  <2>3. IF next < RequestCount THEN main' = "submit" /\ next' - 1 = next
        ELSE main' = "collect" /\ next = RequestCount
    BY <1>4, <2>2, SizesAssumption DEF Attach
  <2> QED
    BY <1>4, <2>1, <2>3 DEF Attach, SubmittedInv
<1>5. CASE Summarise
  <2>1. CASE workload < NumWorkloads
    <3>1. workload + 1 \in Workloads /\ workload + 1 > workload
      BY <2>1, SizesAssumption DEF TypeOK, Workloads
    <3>2. submitted[workload + 1] = 0
      BY <3>1 DEF SubmittedInv
    <3>3. \A k \in Workloads : k > workload + 1 => submitted[k] = 0
      BY SizesAssumption DEF SubmittedInv, TypeOK, Workloads
    <3> QED
      BY <1>5, <2>1, <3>2, <3>3 DEF Summarise, SubmittedInv
  <2>2. CASE ~(workload < NumWorkloads)
    BY <1>5, <2>2 DEF Summarise, SubmittedInv
  <2> QED
    BY <2>1, <2>2
<1>6. ASSUME NEW i \in Indices, InvokeCallback(i)
      PROVE  SubmittedInv'
  BY <1>6 DEF InvokeCallback, Observe, SubmittedInv
<1> QED
  BY <1>1, <1>2, <1>3, <1>4, <1>5, <1>6 DEF Next, MainStep, PoolStep

\* A workload is not summarised while one of its steps is still to come.
LEMMA NotSummarised ==
  ASSUME Inv,
         main \in BeforeLoop \cup {"drainBefore", "unwind"} \cup InWorkload
  PROVE  workload \notin summaries /\ summaries # Workloads
<1>1. workload \notin 1..(workload - 1)
  BY SizesAssumption DEF Inv, TypeOK, Workloads
<1> QED
  BY <1>1 DEF Inv, SummariesInv, TypeOK

LEMMA SummariesNext ==
  ASSUME Inv, Next
  PROVE  SummariesInv'
<1> USE DEF Inv, Goto, outVars, poolVars, BeforeLoop, AfterLoop, InWorkload, Submitting
<1>1. CASE CheckEvidence \/ StartServices \/ Complete \/ WriteSummary \/ Unwind
             \/ GuardFails \/ Interrupt \/ Ended \/ Shutdown \/ Submit \/ Mark
             \/ (\E i \in Indices : Collect(i)) \/ StartRequest
  <2>1. UNCHANGED <<workload, callback, summaries>>
    BY <1>1 DEF CheckEvidence, StartServices, Complete, WriteSummary, Unwind, GuardFails,
       Interrupt, Ended, vars, Shutdown, Submit, Mark, Collect, StartRequest
  <2>2. Pending' = Pending
    BY <2>1 DEF Pending
  <2>3. main' \in BeforeLoop \cup {"drainBefore", "unwind"} \cup InWorkload
          => main \in BeforeLoop \cup {"drainBefore", "unwind"} \cup InWorkload
    BY <1>1 DEF CheckEvidence, StartServices, Complete, WriteSummary, Unwind, GuardFails,
       Interrupt, Ended, vars, Shutdown, Submit, Mark, Collect, StartRequest, Over
  <2>4. main' \in AfterLoop => main \in AfterLoop
    BY <1>1 DEF CheckEvidence, StartServices, Complete, WriteSummary, Unwind, GuardFails,
       Interrupt, Ended, vars, Shutdown, Submit, Mark, Collect, StartRequest, Over
  <2> QED
    BY <2>1, <2>2, <2>3, <2>4 DEF SummariesInv
<1>2. CASE DrainBefore
  BY <1>2 DEF DrainBefore, SummariesInv, NoFuture, Pending
<1>3. CASE Attach
  <2>1. workload \notin summaries
    BY <1>3, NotSummarised DEF Attach
  <2> QED
    BY <1>3, <2>1 DEF Attach, SummariesInv
<1>4. CASE Summarise
  <2>1. Pending' = {}
    BY <1>4 DEF Summarise, MainInv, Quiet, Pending
  <2>2. summaries' = 1..workload
    <3>1. (1..(workload - 1)) \cup {workload} = 1..workload
      BY SizesAssumption DEF TypeOK, Workloads
    <3> QED
      BY <1>4, <3>1 DEF Summarise, SummariesInv
  <2>3. CASE workload < NumWorkloads
    <3>1. workload' - 1 = workload /\ main' = "drainBefore"
      BY <1>4, <2>3, SizesAssumption DEF Summarise, TypeOK, Workloads
    <3> QED
      BY <2>1, <2>2, <3>1 DEF SummariesInv
  <2>4. CASE ~(workload < NumWorkloads)
    <3>1. workload = NumWorkloads /\ main' = "finish"
      BY <1>4, <2>4, SizesAssumption DEF Summarise, TypeOK, Workloads
    <3> QED
      BY <2>1, <2>2, <3>1 DEF SummariesInv, Workloads
  <2> QED
    BY <2>3, <2>4
<1>5. ASSUME NEW i \in Indices, FinishRequest(i)
      PROVE  SummariesInv'
  <2>1. Pending' = Pending
    BY <1>5, PendingInvoked DEF FinishRequest
  <2> QED
    BY <1>5, <2>1 DEF FinishRequest, SummariesInv
<1>6. ASSUME NEW i \in Indices, InvokeCallback(i)
      PROVE  SummariesInv'
  <2>1. Pending # {}
    BY <1>6 DEF InvokeCallback, Pending
  <2> QED
    BY <1>6, <2>1 DEF InvokeCallback, SummariesInv
<1> QED
  BY <1>1, <1>2, <1>3, <1>4, <1>5, <1>6 DEF Next, MainStep, PoolStep

\* A summary row is written when the records are there and no callback is left;
\* afterwards nothing touches the workload's counters.
LEMMA CompleteNext ==
  ASSUME Inv, Next
  PROVE  SummarisedIsComplete'
<1> USE DEF Inv, Goto, outVars, exportVars, BeforeLoop, InWorkload, Submitting
<1>1. CASE UNCHANGED <<exportVars, request_log, summaries>>
  BY <1>1 DEF SummarisedIsComplete
<1>2. ASSUME NEW i \in Indices, Collect(i)
      PROVE  SummarisedIsComplete'
  BY <1>2 DEF Collect, SummarisedIsComplete
<1>3. CASE Mark \/ Attach
  <2>1. workload \notin summaries
    BY <1>3, NotSummarised DEF Mark, Attach
  <2> QED
    BY <1>3, <2>1 DEF Mark, MarkSubmitted, Attach, Observe, SummarisedIsComplete, TypeOK
<1>4. CASE Summarise
  <2>1. \A i \in Indices : <<workload, i>> \in request_log
    BY <1>4 DEF Summarise, MainInv
  <2>2. submitted[workload] = RequestCount
    BY <1>4 DEF Summarise, SubmittedInv
  <2>3. inflight[workload] = 0
    <3>1. Pending = {}
      BY <1>4 DEF Summarise, MainInv, Quiet
    <3> QED
      BY <1>4, <3>1, FS_EmptySet DEF Summarise, CountInv, Unattached
  <2>4. completed[workload] = RequestCount
    BY <2>2, <2>3, SizesAssumption DEF ExportConserved, TypeOK
  <2> QED
    BY <1>4, <2>1, <2>2, <2>3, <2>4 DEF Summarise, SummarisedIsComplete
<1>5. ASSUME NEW i \in Indices, InvokeCallback(i)
      PROVE  SummarisedIsComplete'
  <2>1. Pending # {}
    BY <1>5 DEF InvokeCallback, Pending
  <2>2. workload \notin summaries
    BY <2>1 DEF SummariesInv
  <2> QED
    BY <1>5, <2>2 DEF InvokeCallback, Observe, SummarisedIsComplete, TypeOK
<1> QED
  BY <1>1, <1>2, <1>3, <1>4, <1>5
  DEF Next, MainStep, PoolStep, CheckEvidence, StartServices, DrainBefore, Submit,
      Shutdown, Unwind, Complete, WriteSummary, GuardFails, Interrupt, Ended, vars,
      StartRequest, FinishRequest

LEMMA StatusNext ==
  ASSUME Inv, Next
  PROVE  StatusInv'
<1> USE DEF Inv, Goto, outVars, poolVars, BeforeLoop, InWorkload, Submitting, Verdicts
<1>1. CASE CheckEvidence
  <2>1. summaries # Workloads
    BY <1>1, NotSummarised DEF CheckEvidence
  <2> QED
    BY <1>1, <2>1 DEF CheckEvidence, StatusInv, NothingSent
<1>2. CASE StartServices
  <2>1. summaries # Workloads
    BY <1>2, NotSummarised DEF StartServices
  <2> QED
    BY <1>2, <2>1 DEF StartServices, StatusInv, NothingSent
<1>3. CASE DrainBefore \/ Submit \/ Mark \/ Attach \/ Shutdown \/ GuardFails
             \/ (\E i \in Indices : Collect(i))
  BY <1>3 DEF DrainBefore, Submit, Mark, Attach, Shutdown, GuardFails, Collect, StatusInv
<1>4. CASE Summarise
  BY <1>4 DEF Summarise, StatusInv
<1>5. CASE Unwind
  <2>1. CASE main = "unwind"
    <3>1. summaries # Workloads
      BY <2>1, NotSummarised
    <3> QED
      BY <1>5, <2>1, <3>1 DEF Unwind, StatusInv
  <2>2. CASE main = "interrupted"
    BY <1>5, <2>2 DEF Unwind, StatusInv
  <2> QED
    BY <1>5, <2>1, <2>2 DEF Unwind
<1>6. CASE Complete
  BY <1>6 DEF Complete, StatusInv
<1>7. CASE WriteSummary
  BY <1>7 DEF WriteSummary, StatusInv, SummariesInv, AfterLoop
<1>8. CASE Interrupt
  <2>1. main \in BeforeLoop \cup {"drainBefore", "unwind"} \cup InWorkload
          => summaries # Workloads
    BY NotSummarised
  <2>2. main \in AfterLoop => summaries = Workloads
    BY DEF SummariesInv
  <2> QED
    BY <1>8, <2>1, <2>2 DEF Interrupt, StatusInv, TypeOK, AfterLoop, Over
<1>9. CASE StartRequest
  <2>1. ~NothingSent
    BY <1>9 DEF StartRequest, NothingSent
  <2> QED
    BY <1>9, <2>1 DEF StartRequest, StatusInv
<1>10. ASSUME NEW i \in Indices, FinishRequest(i)
       PROVE  StatusInv'
  <2>1. ~NothingSent
    BY <1>10 DEF FinishRequest, NothingSent, NoFuture
  <2> QED
    BY <1>10, <2>1 DEF FinishRequest, StatusInv
<1>11. ASSUME NEW i \in Indices, InvokeCallback(i)
       PROVE  StatusInv'
  BY <1>11 DEF InvokeCallback, StatusInv, NothingSent
<1>12. CASE Ended
  BY <1>12 DEF Ended, vars, StatusInv, NothingSent
<1> QED
  BY <1>1, <1>2, <1>3, <1>4, <1>5, <1>6, <1>7, <1>8, <1>9, <1>10, <1>11, <1>12
  DEF Next, MainStep, PoolStep

LEMMA InvNext == Inv /\ [Next]_vars => Inv'
<1> SUFFICES ASSUME Inv, [Next]_vars PROVE Inv'
  OBVIOUS
<1>1. CASE Next
  BY <1>1, TypeNext, PoolNext, MainNext, CountNext, SubmittedNext, SummariesNext,
     CompleteNext, StatusNext DEF Inv
<1>2. CASE UNCHANGED vars
  <2>1. Pending' = Pending /\ Unattached' = Unattached
    BY <1>2 DEF vars, poolVars, Pending, Unattached
  <2>2. TypeOK' /\ PoolInv' /\ MainInv' /\ SubmittedInv'
    BY <1>2, <2>1 DEF Inv, vars, poolVars, exportVars, outVars, TypeOK, PoolInv, MainInv,
       SubmittedInv
  <2>3. CountInv' /\ SummariesInv' /\ ExportConserved' /\ SummarisedIsComplete'
    BY <1>2, <2>1 DEF Inv, vars, exportVars, outVars, CountInv, SummariesInv,
       ExportConserved, SummarisedIsComplete
  <2>4. StatusInv'
    BY <1>2 DEF Inv, vars, poolVars, outVars, StatusInv, NothingSent
  <2> QED
    BY <2>2, <2>3, <2>4 DEF Inv
<1> QED
  BY <1>1, <1>2

-----------------------------------------------------------------------------
(* The theorems *)

\* The counters the benchmark exports add up at every moment, and none of them
\* leaves its range, whichever thread runs which callback.
THEOREM ExportCorrect == Spec => []TypeOK /\ []ExportConserved
<1>1. Inv => TypeOK /\ ExportConserved
  BY DEF Inv
<1> QED
  BY <1>1, InvInit, InvNext, PTL DEF Spec

\* A workload has a summary row only if each of its requests has its row in
\* requests.jsonl and its exported counters have settled.
THEOREM SummariesComplete == Spec => []SummarisedIsComplete
<1>1. Inv => SummarisedIsComplete
  BY DEF Inv
<1> QED
  BY <1>1, InvInit, InvNext, PTL DEF Spec

\* The status in metadata.json tells how the run ended.
THEOREM StatusTruthful == Spec => []StatusTellsOutcome
<1>1. Inv => StatusTellsOutcome
  BY DEF Inv, StatusInv, StatusTellsOutcome, NothingSent, BeforeLoop, Verdicts
<1> QED
  BY <1>1, InvInit, InvNext, PTL DEF Spec
=============================================================================
