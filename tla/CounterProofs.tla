---------------------------- MODULE CounterProofs ----------------------------
(***************************************************************************)
(* What a workload is billed for, for any number of workloads, requests,   *)
(* records, polls and GPU samples.                                         *)
(***************************************************************************)
EXTENDS CounterWindow, Sums

\* The assumptions on the constants, one by one.
LEMMA SizesFact ==
  /\ NumWorkloads \in Nat \ {0} /\ RequestCount \in Nat \ {0}
  /\ Residual \in Nat /\ MaxPeriodic \in Nat /\ StableSamples \in Nat \ {0}
  /\ GuardEnabled \in BOOLEAN /\ SampleMayFail \in BOOLEAN
BY SizesAssumption, SwitchesAssumption

Phases == {"before_workload", "after_workload", "none"}

Steps == {"setWorkload", "drainBefore", "sampleBefore", "start", "send",
          "drainAfter", "sampleAfter", "summarise", "ended"}

Snapshot == [phase : Phases, value : Nat, others : SUBSET Origins]

Types ==
  /\ main \in Steps /\ workload \in Workloads
  /\ toSend \in Nat /\ zeros \in Nat
  /\ waiting \in [Origins -> Nat]
  /\ counted \in [Origins -> Nat]
  /\ served \in [Origins -> Nat]
  /\ label = IF main = "setWorkload" THEN workload - 1 ELSE workload
  /\ sampling \in Origins \cup {None}
  /\ records \in [Origins -> Seq(Snapshot)]
  /\ delta \in [Workloads -> Int]

\* What the server may hold before a workload's first guard has passed.
Earlier == IF workload = 1 THEN {0} ELSE {}

\* Whose requests the server holds, and which labels the sampler may be using.
OwnersInv ==
  /\ main \in {"setWorkload", "drainBefore"} => Owners \subseteq Earlier
  /\ main \in {"sampleBefore", "start", "sampleAfter", "summarise"} => Owners = {}
  /\ main \in {"send", "drainAfter"} => Owners \subseteq {workload}
  /\ main = "ended" => Owners \subseteq Earlier \/ Owners \subseteq {workload}

SamplingInv ==
  /\ sampling \in {None, workload - 1, workload}
  /\ main = "setWorkload" => sampling \in {None, workload - 1}
  /\ main \in {"start", "send", "drainAfter", "sampleAfter", "summarise"}
       => sampling \in {None, workload}
  /\ main = "ended" => \/ Owners \subseteq Earlier
                       \/ sampling \in {None, workload}

\* No row is ahead of the label, and once the present label has a row, a
\* measurement still under way was begun under that label.
GpuInv ==
  /\ \A row \in gpu_rows : row[1] \in Int /\ row[1] <= label
  /\ label > 1 /\ measured # NoRun /\ (\E row \in gpu_rows : row[1] = label) =>
       measured \subseteq {label}

GpuRows ==
  \A row \in gpu_rows :
    row[1] > 1 /\ row[3] = "later" => row[2] \subseteq {row[1]}

\* Where the snapshots of a phase are in the records of k.
At(k, phase) == OfPhase(records[k], phase)

\* The counter at the snapshots of a phase, against the counter now.
BillInv ==
  /\ \A k \in Workloads : k > workload =>
       /\ At(k, "before_workload") = {} /\ At(k, "after_workload") = {}
       /\ served[k] = 0
  /\ main \in {"setWorkload", "drainBefore", "sampleBefore"} =>
       At(workload, "before_workload") = {}
  /\ main \in {"setWorkload", "drainBefore", "sampleBefore", "start"} =>
       served[workload] = 0
  /\ main \in {"start", "send", "drainAfter", "sampleAfter", "summarise"} =>
       /\ At(workload, "before_workload") # {}
       /\ \A i \in At(workload, "before_workload") :
            records[workload][i].value + served[workload] = Counter
  /\ main \in {"setWorkload", "drainBefore", "sampleBefore", "start", "send",
               "drainAfter", "sampleAfter"} =>
       At(workload, "after_workload") = {}
  /\ main = "summarise" =>
       /\ At(workload, "after_workload") # {}
       /\ \A i \in At(workload, "after_workload") :
            records[workload][i].value = Counter

\* A workload that has its summary row has no requests left in the server.
DeltaInv ==
  \A k \in Workloads : delta[k] # None =>
    /\ delta[k] = served[k]
    /\ k \notin Owners
    /\ k < workload \/ main = "ended"

-----------------------------------------------------------------------------
(* Sums *)

\* The origins are finitely many numbers.
LEMMA OriginsFinite ==
  IsFiniteSet(Origins) /\ Origins \subseteq Nat /\ Workloads \subseteq Origins
<1>1. NumWorkloads \in Nat /\ NumWorkloads \in Int /\ 0 \in Int
  BY SizesFact
<1>2. IsFiniteSet(0..NumWorkloads)
  BY <1>1, FS_Interval
<1> QED
  BY <1>1, <1>2 DEF Origins, Workloads

\* Sum as the sum that Sums speaks of.
LEMMA SumIsOver == \A f : Sum(f) = SumOver(f, DOMAIN f)
BY Zenon DEF Sum, SumOver

\* Only an owner holds anything on the server.
LEMMA HeldType ==
  ASSUME Types
  PROVE  /\ Held \in [Origins -> Nat]
         /\ Owners \subseteq Origins
         /\ \A o \in Origins : o \notin Owners => waiting[o] = 0 /\ counted[o] = 0
BY DEF Types, Held, Owners

\* The guard sees an idle server exactly when it holds nobody's requests.
LEMMA IdleMeansUnheld ==
  ASSUME Types
  PROVE  Idle <=> Owners = {}
<1>1. Held \in [Origins -> Nat] /\ DOMAIN Held = Origins
  BY HeldType
<1>2. HeldByAll = 0 <=> \A o \in Origins : Held[o] = 0
  BY <1>1, OriginsFinite, SumIsOver, SumNat DEF HeldByAll
<1> QED
  BY <1>1, <1>2 DEF Idle, Owners

\* The counter is a natural.
LEMMA CounterNat ==
  ASSUME Types
  PROVE  Counter \in Nat
<1>1. served \in [Origins -> Nat] /\ DOMAIN served = Origins
  BY DEF Types
<1> QED
  BY <1>1, OriginsFinite, SumIsOver, SumNat DEF Counter

-----------------------------------------------------------------------------
(* What the steps do to the server and the records *)

\* Only sending makes a new owner, the current workload.
LEMMA OwnersStep ==
  ASSUME Types, [Next]_vars
  PROVE  /\ Owners' \subseteq Owners \cup (IF main = "send" THEN {workload} ELSE {})
         /\ main = "send" \/ Owners' \subseteq Owners
<1>1. Types /\ Origins \subseteq Nat /\ workload \in Origins
  BY OriginsFinite DEF Types
<1>2. ASSUME UNCHANGED serverVars
      PROVE  Owners' = Owners
  BY <1>2 DEF Owners, Held, serverVars
<1>3. ASSUME NEW o \in Origins, Count(o) \/ Release(o)
      PROVE  Owners' \subseteq Owners
  <2>1. ASSUME NEW p \in Origins
        PROVE  /\ waiting[p] + counted[p] \in Int
               /\ waiting'[p] + counted'[p] \in Int
               /\ waiting'[p] + counted'[p] <= waiting[p] + counted[p]
    <3>1. waiting[p] \in Nat /\ counted[p] \in Nat
      BY DEF Types
    <3>2. CASE Count(o)
      BY <3>1, <3>2 DEF Count, Types
    <3>3. CASE Release(o)
      BY <3>1, <3>3 DEF Release, Types
    <3> QED
      BY <1>3, <3>2, <3>3
  <2> QED
    BY <2>1 DEF Owners, Held
<1>4. ASSUME Send
      PROVE  main = "send" /\ Owners' \subseteq Owners \cup {workload}
  BY <1>1, <1>4 DEF Owners, Held, Send, Types
<1>5. CASE SetWorkload \/ DrainBefore \/ SampleBefore \/ Start \/ ClientsDone
  BY <1>2, <1>5
     DEF serverVars, SetWorkload, DrainBefore, Poll, SampleBefore, SampleNow,
         Start,
         ClientsDone
<1>6. CASE DrainAfter \/ SampleAfter \/ Summarise \/ GuardTimesOut \/ Ended
           \/ UNCHANGED vars
  BY <1>2, <1>6
     DEF serverVars, vars, DrainAfter, Poll, SampleAfter, SampleNow, Summarise,
         GuardTimesOut, Ended
<1>7. CASE SamplerReadsLabel \/ SamplerWrites \/ GpuMeasures \/ GpuWrites
  BY <1>2, <1>7
     DEF serverVars, SamplerReadsLabel, SamplerWrites, GpuMeasures, GpuWrites
<1> QED
  BY <1>3, <1>4, <1>5, <1>6, <1>7 DEF Next

\* A record is a snapshot.
LEMMA RecordType ==
  ASSUME Types, NEW phase \in Phases, NEW name \in Origins
  PROVE  Record(phase, name) \in Snapshot
BY CounterNat, HeldType DEF Record, Snapshot

\* Writing one keeps the records typed.
LEMMA WriteType ==
  ASSUME Types, NEW phase \in Phases, NEW name \in Origins, Write(name, phase)
  PROVE  records' \in [Origins -> Seq(Snapshot)]
<1>1. /\ records \in [Origins -> Seq(Snapshot)]
      /\ Record(phase, name) \in Snapshot
  BY RecordType DEF Types
<1>2. Append(records[name], Record(phase, name)) \in Seq(Snapshot)
  BY <1>1
<1> QED
  BY <1>1, <1>2, Zenon DEF Write

\* The difference that two values have.
LEMMA DeltaOf ==
  ASSUME NEW v \in Seq(Nat)
  PROVE  /\ Delta(v) \in Int
         /\ Len(v) = 2 /\ v[1] <= v[2] => Delta(v) = v[2] - v[1]
<1>1. DOMAIN v = 1..Len(v) /\ Len(v) \in Nat /\ \A i \in 1..Len(v) : v[i] \in Nat
  OBVIOUS
<1>2. CASE Len(v) = 0
  BY <1>1, <1>2 DEF Delta, None
<1>3. CASE Len(v) # 0
  <2> DEFINE d == v[Len(v)] - v[1]
  <2>1. v[Len(v)] \in Nat /\ v[1] \in Nat /\ DOMAIN v # {}
    BY <1>1, <1>3
  <2>2. Max(DOMAIN v) = Len(v) /\ Min(DOMAIN v) = 1
    BY <1>1, <1>3, AllPlaces
  <2>3. Delta(v) = Max({0, d})
    BY <2>1, <2>2 DEF Delta, Latest
  <2>4. d \in Int /\ 0 \in Int
    BY <2>1
  <2>5. Max({0, d}) = IF 0 >= d THEN 0 ELSE d
    <3> HIDE DEF d
    <3> QED
      BY <2>4, OfTwo
  <2>6. Delta(v) = IF 0 >= d THEN 0 ELSE d
    BY <2>3, <2>5
  <2>7. Delta(v) \in Int
    <3> HIDE DEF d
    <3> QED
      BY <2>4, <2>6
  <2>8. Len(v) = 2 /\ v[1] <= v[2] => Delta(v) = v[2] - v[1]
    <3>1. SUFFICES ASSUME Len(v) = 2, v[1] <= v[2] PROVE Delta(v) = v[2] - v[1]
      OBVIOUS
    <3>2. d = v[2] - v[1] /\ v[1] \in Nat /\ v[2] \in Nat
      BY <2>1, <3>1
    <3>3. d >= 0 /\ (0 >= d => d = 0)
      BY <3>1, <3>2
    <3> HIDE DEF d
    <3> QED
      BY <2>6, <3>2, <3>3
  <2> QED
    BY <2>7, <2>8
<1> QED
  BY <1>1, <1>2, <1>3

\* The counter window of the snapshots of k, and its ends once there is a
\* snapshot of either phase.
LEMMA WindowOf ==
  ASSUME Types, NEW k \in Origins
  PROVE  /\ CounterSnapshots(k) \in Seq(Snapshot)
         /\ At(k, "before_workload") # {}
            /\ At(k, "after_workload") # {}
            => \E i \in At(k, "before_workload"),
                  j \in At(k, "after_workload") :
                 CounterSnapshots(k) = <<records[k][i], records[k][j]>>
<1> DEFINE s == records[k]
           b == At(k, "before_workload")
           a == At(k, "after_workload")
<1>1. s \in Seq(Snapshot) /\ Len(s) \in Nat
  BY DEF Types
<1>2. b \subseteq 1..Len(s) /\ a \subseteq 1..Len(s)
  BY <1>1 DEF OfPhase, At
<1>3. CASE b # {} /\ a # {}
  <2>1. Max(b) \in b /\ Max(a) \in a
    BY <1>1, <1>2, <1>3, OfPlaces
  <2>2. CounterSnapshots(k) = <<s[Max(b)], s[Max(a)]>>
    BY <1>3 DEF CounterSnapshots, Window, At
  <2> HIDE DEF s, a, b
  <2>3. s[Max(b)] \in Snapshot /\ s[Max(a)] \in Snapshot
    <3>1. \A i \in 1..Len(s) : s[i] \in Snapshot
      BY <1>1
    <3> QED
      BY <1>2, <2>1, <3>1, Zenon
  <2>4. CounterSnapshots(k) \in Seq(Snapshot)
    BY <2>2, <2>3
  <2> QED
    BY <2>1, <2>2, <2>4 DEF s, a, b
<1>4. CASE ~ (b # {} /\ a # {})
  BY <1>1, <1>4 DEF CounterSnapshots, Window, At
<1> QED
  BY <1>3, <1>4

\* The difference that the records of a workload have.
LEMMA DeltaType ==
  ASSUME Types, NEW k \in Origins
  PROVE  /\ CounterDelta(k) \in Int
         /\ \A x, y \in Snapshot :
              CounterSnapshots(k) = <<x, y>> /\ x.value <= y.value
              => CounterDelta(k) = y.value - x.value
<1> DEFINE p == CounterSnapshots(k)
           v == [i \in DOMAIN p |-> p[i].value]
<1>1. p \in Seq(Snapshot)
  BY WindowOf
<1>2. CounterDelta(k) = Delta(v)
  BY DEF CounterDelta
<1> HIDE DEF p
<1>3. \A i \in 1..Len(p) : p[i].value \in Nat
  <2>1. \A i \in 1..Len(p) : p[i] \in Snapshot
    BY <1>1
  <2> QED
    BY <2>1 DEF Snapshot
<1>4. v \in Seq(Nat) /\ Len(v) = Len(p)
  BY <1>1, <1>3
<1>5. ASSUME NEW x \in Snapshot, NEW y \in Snapshot, p = <<x, y>>
      PROVE  Len(v) = 2 /\ v[1] = x.value /\ v[2] = y.value
  BY <1>4, <1>5
<1> HIDE DEF v
<1> QED
  BY <1>2, <1>4, <1>5, DeltaOf DEF p

\* Types holds at first.
LEMMA TypesInit == Init => Types
BY SizesFact, OriginsFinite
   DEF Init, Types, Steps, Workloads, Origins, None


\* Every step keeps Types.
LEMMA TypesNext ==
  ASSUME Types, [Next]_vars
  PROVE  Types'
<1>1. /\ NumWorkloads \in Nat /\ RequestCount \in Nat
      /\ Workloads \subseteq Origins /\ Origins \subseteq Nat
  BY SizesFact, OriginsFinite
<1>2. ASSUME NEW o \in Origins, Count(o)
      PROVE  Types'
  <2>1. counted[o] + 1 \in Nat /\ served[o] + 1 \in Nat /\ waiting[o] - 1 \in Nat
    BY <1>2 DEF Count, Types
  <2> QED
    BY <1>2, <2>1 DEF Count, mainVars, samplerVars, gpuVars, Types
<1>3. ASSUME NEW o \in Origins, Release(o)
      PROVE  Types'
  <2>1. counted[o] - 1 \in Nat
    BY <1>3 DEF Release, Types
  <2> QED
    BY <1>3, <2>1 DEF Release, mainVars, samplerVars, gpuVars, Types
<1>4. CASE SetWorkload
  BY <1>4 DEF SetWorkload, samplerVars, serverVars, gpuVars, Types, Steps
<1>5. CASE DrainBefore \/ DrainAfter
  BY <1>5
     DEF DrainBefore, DrainAfter, Poll, samplerVars, serverVars, Types, Steps
<1>6. CASE SampleBefore \/ SampleAfter
  <2>1. label \in Origins
    BY <1>1, <1>6 DEF SampleBefore, SampleAfter, Types
  <2>2. records' \in [Origins -> Seq(Snapshot)]
    BY <1>6, <2>1, WriteType DEF SampleBefore, SampleAfter, SampleNow, Phases
  <2> QED
    BY <1>6, <2>2
       DEF SampleBefore, SampleAfter, SampleNow, samplerVars, serverVars,
           gpuVars, Types,
           Steps
<1>7. CASE Start \/ ClientsDone \/ GuardTimesOut
  BY <1>1, <1>7
     DEF Start, ClientsDone, GuardTimesOut, samplerVars, serverVars, gpuVars,
         Types,
         Steps
<1>8. CASE Send
  <2>1. waiting[workload] + 1 \in Nat /\ toSend - 1 \in Nat
    BY <1>1, <1>8 DEF Send, Types
  <2> QED
    BY <1>1, <1>8, <2>1 DEF Send, samplerVars, gpuVars, Types
<1>9. CASE Summarise
  <2>1. CounterDelta(workload) \in Int
    BY <1>1, DeltaType DEF Types
  <2>2. /\ workload' \in Workloads
        /\ label' = IF main' = "setWorkload" THEN workload' - 1 ELSE workload'
        /\ main' \in Steps
    <3>1. workload \in 1..NumWorkloads /\ main = "summarise" /\ label = workload
      BY <1>9 DEF Summarise, Types, Workloads
    <3> QED
      BY <1>1, <1>9, <3>1 DEF Summarise, Steps, Workloads
  <2> QED
    BY <1>9, <2>1, <2>2 DEF Summarise, samplerVars, serverVars, gpuVars, Types
<1>10. CASE SamplerReadsLabel
  <2>1. sampling' \in Origins
    BY <1>1, <1>10 DEF SamplerReadsLabel, Types, Workloads, Origins
  <2> QED
    BY <1>10, <2>1 DEF SamplerReadsLabel, mainVars, serverVars, gpuVars, Types
<1>11. CASE SamplerWrites
  <2>1. records' \in [Origins -> Seq(Snapshot)]
    BY <1>11, WriteType DEF SamplerWrites, Types, Phases
  <2> QED
    BY <1>11, <2>1 DEF SamplerWrites, mainVars, serverVars, gpuVars, Types
<1>12. CASE GpuMeasures \/ GpuWrites
  BY <1>12 DEF GpuMeasures, GpuWrites, mainVars, samplerVars, serverVars, Types
<1>13. CASE Ended \/ UNCHANGED vars
  BY <1>13 DEF Ended, vars, mainVars, samplerVars, serverVars, gpuVars, Types
<1> QED
  BY <1>2, <1>3, <1>4, <1>5, <1>6, <1>7, <1>8, <1>9, <1>10, <1>11, <1>12, <1>13
     DEF Next

-----------------------------------------------------------------------------
(* Whose requests the server holds *)

\* Every step keeps OwnersInv: a guard that passes saw a server that holds
\* nothing.
LEMMA OwnersNext ==
  ASSUME GuardEnabled, Types, OwnersInv, [Next]_vars
  PROVE  OwnersInv'
<1>1. /\ main = "send" \/ Owners' \subseteq Owners
      /\ Owners' \subseteq Owners \cup (IF main = "send" THEN {workload} ELSE {})
  BY OwnersStep
<1>2. CASE UNCHANGED <<main, workload>>
  BY <1>1, <1>2 DEF OwnersInv, Earlier
<1>3. CASE SetWorkload
  BY <1>1, <1>3 DEF SetWorkload, OwnersInv, Earlier
<1>4. CASE DrainBefore \/ DrainAfter
  <2>1. /\ workload' = workload
        /\ main' # main => Owners = {}
        /\ \/ main' = main
           \/ main = "drainBefore" /\ main' = "sampleBefore"
           \/ main = "drainAfter" /\ main' = "sampleAfter"
    BY <1>4, IdleMeansUnheld, SizesFact DEF DrainBefore, DrainAfter, Poll
  <2> QED
    BY <1>1, <1>2, <2>1, <1>4 DEF DrainBefore, DrainAfter, Poll, OwnersInv
<1>5. CASE SampleBefore \/ SampleAfter
  BY <1>1, <1>5 DEF SampleBefore, SampleAfter, SampleNow, OwnersInv
<1>6. CASE Start
  BY <1>1, <1>6 DEF Start, OwnersInv
<1>7. CASE Send
  BY <1>1, <1>2, <1>7 DEF Send
<1>8. CASE ClientsDone
  BY <1>1, <1>8, OwnersStep DEF ClientsDone, OwnersInv
<1>9. CASE Summarise
  BY <1>1, <1>9 DEF Summarise, OwnersInv
<1>10. CASE GuardTimesOut
  BY <1>1, <1>10 DEF GuardTimesOut, OwnersInv, Earlier
<1>11. ASSUME NEW o \in Origins, Count(o) \/ Release(o)
       PROVE  OwnersInv'
  BY <1>2, <1>11 DEF Count, Release, mainVars
<1>12. CASE \/ SamplerReadsLabel \/ SamplerWrites \/ GpuMeasures \/ GpuWrites
            \/ Ended \/ UNCHANGED vars
  BY <1>2, <1>12
     DEF SamplerReadsLabel, SamplerWrites, GpuMeasures, GpuWrites, Ended, vars,
         mainVars
<1> QED
  BY <1>3, <1>4, <1>5, <1>6, <1>7, <1>8, <1>9, <1>10, <1>11, <1>12 DEF Next

-----------------------------------------------------------------------------
(* Which label the sampler is using *)

\* Every step keeps SamplingInv.
LEMMA SamplingNext ==
  ASSUME GuardEnabled, Types, OwnersInv, SamplingInv, [Next]_vars
  PROVE  SamplingInv'
<1>1. main # "send" => Owners' \subseteq Owners
  BY OwnersStep
<1>2. CASE UNCHANGED <<main, workload, sampling>>
  BY <1>1, <1>2 DEF SamplingInv, Earlier
<1>3. CASE SetWorkload
  BY <1>1, <1>3 DEF SetWorkload, SamplingInv, samplerVars
<1>4. CASE DrainBefore \/ DrainAfter
  <2>1. /\ workload' = workload /\ sampling' = sampling
        /\ \/ main' = main
           \/ main = "drainBefore" /\ main' = "sampleBefore"
           \/ main = "drainAfter" /\ main' = "sampleAfter"
    BY <1>4 DEF DrainBefore, DrainAfter, Poll, samplerVars
  <2> QED
    BY <1>2, <2>1 DEF SamplingInv
<1>5. CASE SampleBefore \/ SampleAfter
  BY <1>1, <1>5
     DEF SampleBefore, SampleAfter, SampleNow, LockFree, samplerVars,
         SamplingInv
<1>6. CASE Start
  BY <1>1, <1>6 DEF Start, samplerVars, SamplingInv
<1>7. CASE Send
  BY <1>2, <1>7 DEF Send, samplerVars
<1>8. CASE ClientsDone
  BY <1>1, <1>8 DEF ClientsDone, samplerVars, SamplingInv
<1>9. CASE Summarise
  <2>1. workload \in Int /\ sampling \in {None, workload}
    BY <1>9, OriginsFinite DEF Summarise, SamplingInv, Types
  <2> QED
    BY <1>1, <1>9, <2>1 DEF Summarise, samplerVars, SamplingInv
<1>10. CASE GuardTimesOut
  BY <1>1, <1>10 DEF GuardTimesOut, samplerVars, OwnersInv, SamplingInv, Earlier
<1>11. ASSUME NEW o \in Origins, Count(o) \/ Release(o)
       PROVE  SamplingInv'
  BY <1>2, <1>11 DEF Count, Release, mainVars, samplerVars
<1>12. CASE SamplerReadsLabel
  BY <1>1, <1>12 DEF SamplerReadsLabel, mainVars, Types, SamplingInv
<1>13. CASE SamplerWrites
  BY <1>1, <1>13 DEF SamplerWrites, mainVars, SamplingInv
<1>14. CASE GpuMeasures \/ GpuWrites \/ Ended \/ UNCHANGED vars
  BY <1>2, <1>14 DEF GpuMeasures, GpuWrites, Ended, vars, mainVars, samplerVars
<1> QED
  BY <1>3, <1>4, <1>5, <1>6, <1>7, <1>8, <1>9, <1>10, <1>11, <1>12, <1>13, <1>14
     DEF Next

\* A write under a label other than "unassigned" finds nobody else's requests,
\* except those of before the first workload.
LEMMA WritePure ==
  ASSUME Types, LabelledSamplesPure, NEW phase \in Phases, NEW name \in Origins,
         Write(name, phase),
         name \in Workloads => Owners \ {name} \subseteq IF name = 1 THEN {0} ELSE {}
  PROVE  LabelledSamplesPure'
<1>1. records \in [Origins -> Seq(Snapshot)] /\ Workloads \subseteq Origins
  BY OriginsFinite DEF Types
<1>2. CASE UNCHANGED records
  BY <1>2 DEF LabelledSamplesPure
<1>3. CASE records' = [records EXCEPT ![name] = Append(@, Record(phase, name))]
  <2> SUFFICES ASSUME NEW k \in Workloads, NEW i \in DOMAIN records'[k]
               PROVE  records'[k][i].others \subseteq IF k = 1 THEN {0} ELSE {}
    BY DEF LabelledSamplesPure
  <2>1. CASE k # name
    BY <1>1, <1>3, <2>1 DEF LabelledSamplesPure
  <2>2. CASE k = name
    <3>1. records'[k] = Append(records[k], Record(phase, name))
      BY <1>1, <1>3, <2>2
    <3>2. records[k] \in Seq(Snapshot)
      BY <1>1
    <3>3. CASE i = Len(records[k]) + 1
      <4>1. records'[k][i] = Record(phase, name)
        BY <3>1, <3>2, <3>3
      <4> QED
        BY <2>2, <4>1 DEF Record
    <3>4. CASE i # Len(records[k]) + 1
      <4>1. i \in DOMAIN records[k] /\ records'[k][i] = records[k][i]
        BY <3>1, <3>2, <3>4
      <4> QED
        BY <4>1 DEF LabelledSamplesPure
    <3> QED
      BY <3>3, <3>4
  <2> QED
    BY <2>1, <2>2
<1> QED
  BY <1>2, <1>3 DEF Write

\* Every step keeps LabelledSamplesPure.
LEMMA PureNext ==
  ASSUME GuardEnabled, Types, OwnersInv, SamplingInv, LabelledSamplesPure,
  [Next]_vars
  PROVE  LabelledSamplesPure'
<1>1. CASE UNCHANGED records
  BY <1>1 DEF LabelledSamplesPure
<1>2. CASE SampleBefore \/ SampleAfter
  <2>1. label \in Origins /\ Owners = {}
    BY <1>2, OriginsFinite DEF SampleBefore, SampleAfter, OwnersInv, Types
  <2> QED
    BY <1>2, <2>1, WritePure DEF SampleBefore, SampleAfter, SampleNow, Phases
<1>3. CASE SamplerWrites
  <2>1. sampling \in Origins /\ sampling # None
    BY <1>3 DEF SamplerWrites, Types
  <2>2. main \in Steps /\ workload \in Nat \ {0}
    BY SizesFact DEF Types, Workloads
  <2>3. Owners \subseteq Earlier \/ (Owners \subseteq {workload} /\ sampling = workload)
    BY <2>1, <2>2 DEF OwnersInv, SamplingInv, Steps
  <2>4. Owners \subseteq Earlier => workload = 1 \/ Owners = {}
    BY DEF Earlier
  <2>5. workload = 1 /\ sampling \in Workloads => sampling = 1
    BY SizesFact DEF SamplingInv, Workloads, None
  <2>6. sampling \in Workloads =>
          Owners \ {sampling} \subseteq IF sampling = 1 THEN {0} ELSE {}
    BY <2>3, <2>4, <2>5 DEF Earlier
  <2> QED
    BY <1>3, <2>1, <2>6, WritePure DEF SamplerWrites, Phases
<1>4. ASSUME NEW o \in Origins, Count(o) \/ Release(o)
      PROVE  UNCHANGED records
  BY <1>4 DEF Count, Release
<1>5. CASE SetWorkload \/ DrainBefore \/ Start \/ Send \/ ClientsDone \/ DrainAfter
  BY <1>1, <1>5
     DEF SetWorkload, DrainBefore, Poll, Start, Send, ClientsDone, DrainAfter
<1>6. CASE \/ Summarise \/ GuardTimesOut \/ Ended \/ SamplerReadsLabel
           \/ GpuMeasures \/ GpuWrites \/ UNCHANGED vars
  BY <1>1, <1>6
     DEF Summarise, GuardTimesOut, Ended, SamplerReadsLabel, GpuMeasures,
         GpuWrites, vars
<1> QED
  BY <1>1, <1>2, <1>3, <1>4, <1>5, <1>6 DEF Next

-----------------------------------------------------------------------------
(* What the measurements of the GPUs saw *)

\* Whose requests a measurement that begins now will see.
LEMMA OwnersOfLabel ==
  ASSUME Types, OwnersInv, label > 1
  PROVE  Owners \subseteq {label}
<1>1. main \in Steps /\ label = IF main = "setWorkload" THEN workload - 1 ELSE workload
  BY DEF Types
<1>2. workload \in Nat \ {0}
  BY SizesFact DEF Types, Workloads
<1> QED
  BY <1>1, <1>2 DEF OwnersInv, Earlier, Steps

\* What does not touch the label or the GPU sampler keeps GpuInv and GpuRows.
LEMMA GpuUntouched ==
  ASSUME [Next]_vars
  PROVE  \/ SetWorkload \/ GpuMeasures \/ GpuWrites
         \/ UNCHANGED <<label, measured, gpu_rows>>
<1> USE DEF mainVars, gpuVars
<1>1. CASE DrainBefore \/ DrainAfter \/ SampleBefore \/ SampleAfter
  BY <1>1 DEF DrainBefore, DrainAfter, Poll, SampleBefore, SampleAfter, SampleNow
<1>2. CASE Start \/ Send \/ ClientsDone \/ Summarise \/ GuardTimesOut
  BY <1>2 DEF Start, Send, ClientsDone, Summarise, GuardTimesOut
<1>3. CASE Ended \/ SamplerReadsLabel \/ SamplerWrites \/ UNCHANGED vars
  BY <1>3 DEF Ended, SamplerReadsLabel, SamplerWrites, vars
<1>4. ASSUME NEW o \in Origins, Count(o) \/ Release(o)
      PROVE  UNCHANGED <<label, measured, gpu_rows>>
  BY <1>4 DEF Count, Release
<1> QED
  BY <1>1, <1>2, <1>3, <1>4 DEF Next

LEMMA GpuNext ==
  ASSUME Types, OwnersInv, GpuInv, [Next]_vars
  PROVE  GpuInv'
<1>1. label \in Int
  BY SizesFact DEF Types, Workloads
<1>2. CASE UNCHANGED <<label, measured, gpu_rows>>
  BY <1>2 DEF GpuInv
<1>3. CASE SetWorkload
  <2>1. label' = label + 1 /\ gpu_rows' = gpu_rows
    BY <1>3, SizesFact DEF SetWorkload, Types, Workloads, gpuVars
  <2>2. \A row \in gpu_rows : row[1] \in Int /\ row[1] <= label
    BY DEF GpuInv
  <2>3. \A row \in gpu_rows' :
          row[1] \in Int /\ row[1] # label' /\ row[1] <= label'
    <3> SUFFICES ASSUME NEW row \in gpu_rows
                 PROVE  row[1] \in Int /\ row[1] # label + 1 /\ row[1] <= label + 1
      BY <2>1
    <3> QED
      BY <1>1, <2>2
  <2> QED
    BY <2>3 DEF GpuInv
<1>4. CASE GpuMeasures
  BY <1>4, OwnersOfLabel DEF GpuMeasures, mainVars, GpuInv
<1>5. CASE GpuWrites
  <2>1. label' = label /\ measured' = NoRun
    BY <1>5 DEF GpuWrites, mainVars
  <2>2. \A row \in gpu_rows' : row[1] \in Int /\ row[1] <= label
    BY <1>1, <1>5 DEF GpuWrites, GpuInv
  <2> QED
    BY <2>1, <2>2 DEF GpuInv
<1> QED
  BY <1>2, <1>3, <1>4, <1>5, GpuUntouched

\* Every step keeps GpuRows.
LEMMA RowsNext ==
  ASSUME GpuInv, GpuRows, [Next]_vars
  PROVE  GpuRows'
<1>1. CASE UNCHANGED gpu_rows
  BY <1>1 DEF GpuRows
<1>2. CASE GpuWrites
  <2>1. /\ measured # NoRun
        /\ \A row \in gpu_rows' :
             row \in gpu_rows \/ row = <<label, measured, Place>>
    BY <1>2 DEF GpuWrites
  <2>2. label > 1 /\ Place = "later" => measured \subseteq {label}
    BY <2>1 DEF GpuInv, Place
  <2> QED
    BY <2>1, <2>2 DEF GpuRows
<1>3. CASE SetWorkload \/ GpuMeasures
  BY <1>1, <1>3 DEF SetWorkload, GpuMeasures, gpuVars
<1> QED
  BY <1>1, <1>2, <1>3, GpuUntouched

-----------------------------------------------------------------------------
(* What the counter was at a snapshot *)

\* Writing a record: where the records of a phase are afterwards.
LEMMA PhasesAfterWrite ==
  ASSUME Types, ~SampleMayFail, NEW phase \in Phases, NEW name \in Origins,
         Write(name, phase)
  PROVE  /\ \A k \in Origins \ {name} : records'[k] = records[k]
         /\ \A p \in Phases \ {phase} :
              At(name, p)' = At(name, p)
         /\ \A p \in Phases : \A i \in At(name, p) :
              records'[name][i] = records[name][i]
         /\ At(name, phase)' = At(name, phase) \cup {Len(records[name]) + 1}
         /\ records'[name][Len(records[name]) + 1].value = Counter
<1> DEFINE s == records[name]
           r == Record(phase, name)
           t == records'[name]
<1>1. /\ records \in [Origins -> Seq(Snapshot)]
      /\ records' = [records EXCEPT ![name] = Append(@, r)]
  BY DEF Types, Write
<1>2. s \in Seq(Snapshot) /\ t = Append(s, r)
  BY <1>1
<1>3. \A k \in Origins \ {name} : records'[k] = records[k]
  BY <1>1
<1>4. r.phase = phase /\ r.value = Counter
  BY DEF Record
<1> HIDE DEF s, r, t
<1>5. /\ DOMAIN s = 1..Len(s) /\ Len(s) \in Nat
      /\ DOMAIN t = (1..Len(s)) \cup {Len(s) + 1}
      /\ t[Len(s) + 1] = r
      /\ \A i \in 1..Len(s) : t[i] = s[i]
  BY <1>2
<1>6. \A p : OfPhase(s, p) \subseteq 1..Len(s)
  BY <1>5 DEF OfPhase
<1>7. \A p : OfPhase(t, p) = OfPhase(s, p) \cup IF p = phase THEN {Len(s) + 1} ELSE {}
  BY <1>4, <1>5 DEF OfPhase
<1>8. \A p : \A i \in OfPhase(s, p) : t[i] = s[i]
  BY <1>5, <1>6
<1>9. /\ \A p \in Phases \ {phase} : OfPhase(t, p) = OfPhase(s, p)
      /\ OfPhase(t, phase) = OfPhase(s, phase) \cup {Len(s) + 1}
      /\ t[Len(s) + 1].value = Counter
  BY <1>4, <1>5, <1>7
<1> QED
  BY <1>3, <1>8, <1>9, Zenon DEF s, t, At

\* What changes one term changes the sum by as much.
LEMMA OriginsSum ==
  ASSUME NEW f, NEW g, NEW o \in Origins,
         \A x \in Origins : f[x] \in Int /\ g[x] \in Int,
         \A x \in Origins : x # o => g[x] = f[x]
  PROVE  SumOver(g, Origins) = SumOver(f, Origins) + g[o] - f[o]
<1>1. IsFiniteSet(Origins) /\ \A x \in Origins \ {o} : g[x] = f[x]
  BY OriginsFinite
<1> QED
  BY <1>1, SumUpdate

\* What the counter counts was served.
LEMMA CounterStep ==
  ASSUME Types, NEW o \in Origins, Count(o)
  PROVE  /\ Counter' = Counter + 1 /\ o \in Owners
         /\ \A k \in Origins : served'[k] = IF k = o THEN served[k] + 1 ELSE served[k]
<1>1. /\ served \in [Origins -> Nat] /\ DOMAIN served = Origins
      /\ served' = [served EXCEPT ![o] = @ + 1] /\ DOMAIN served' = Origins
  BY DEF Count, Types
<1>2. \A k \in Origins : served'[k] = IF k = o THEN served[k] + 1 ELSE served[k]
  BY <1>1
<1>3. \A k \in Origins : served[k] \in Int /\ served'[k] \in Int
  BY <1>1, <1>2
<1>4. SumOver(served', Origins) = SumOver(served, Origins) + served'[o] - served[o]
  <2> DEFINE before == served
             after == served'
  <2>1. /\ \A x \in Origins : before[x] \in Int /\ after[x] \in Int
        /\ \A x \in Origins : x # o => after[x] = before[x]
    BY <1>2, <1>3
  <2> HIDE DEF before, after
  <2>2. SumOver(after, Origins) = SumOver(before, Origins) + after[o] - before[o]
    BY <2>1, OriginsSum
  <2> QED
    BY <2>2 DEF before, after
<1>5. SumOver(served, Origins) \in Int
  BY <1>3, OriginsFinite, SumInt
<1>6. SumOver(served', Origins) = SumOver(served, Origins) + 1
  BY <1>2, <1>3, <1>4, <1>5
<1>7. Counter = SumOver(served, Origins) /\ Counter' = SumOver(served', Origins)
  BY <1>1, SumIsOver DEF Counter
<1>8. o \in Owners
  BY DEF Count, Types, Owners, Held
<1> QED
  BY <1>2, <1>6, <1>7, <1>8

\* A record of a workload has a value.
LEMMA ValueInt ==
  ASSUME Types, NEW k \in Origins, NEW phase, NEW i \in At(k, phase)
  PROVE  records[k][i] \in Snapshot /\ records[k][i].value \in Nat
<1>1. records[k] \in Seq(Snapshot) /\ i \in DOMAIN records[k]
  BY DEF Types, At, OfPhase
<1>2. records[k][i] \in Snapshot
  BY <1>1
<1> QED
  BY <1>2 DEF Snapshot

\* The delta that the summary finds.
LEMMA DeltaFound ==
  ASSUME Types, BillInv, main = "summarise"
  PROVE  CounterDelta(workload) = served[workload]
<1>1. workload \in Origins /\ served[workload] \in Nat
  BY OriginsFinite DEF Types
<1>2. PICK i \in At(workload, "before_workload"), j \in At(workload, "after_workload") :
        CounterSnapshots(workload) = <<records[workload][i], records[workload][j]>>
  BY <1>1, WindowOf DEF BillInv
<1> DEFINE x == records[workload][i]
           y == records[workload][j]
<1>3. x \in Snapshot /\ y \in Snapshot /\ x.value \in Nat /\ y.value \in Nat
  BY <1>1, ValueInt
<1>4. x.value + served[workload] = Counter /\ y.value = Counter
  BY DEF BillInv
<1> HIDE DEF x, y
<1>5. x.value <= y.value /\ y.value - x.value = served[workload]
  BY <1>1, <1>3, <1>4
<1>6. CounterSnapshots(workload) = <<x, y>>
  BY <1>2 DEF x, y
<1> QED
  BY <1>1, <1>3, <1>5, <1>6, DeltaType

\* Every step keeps BillInv.
LEMMA BillNext ==
  ASSUME GuardEnabled, ~SampleMayFail, Types, OwnersInv, BillInv, [Next]_vars
  PROVE  BillInv'
<1>1. /\ workload \in Workloads /\ workload \in Origins /\ workload \in Nat \ {0}
      /\ label \in Origins /\ Counter \in Nat /\ main \in Steps
      /\ \A k \in Workloads : k \in Origins /\ k \in Nat \ {0} /\ served[k] \in Nat
      /\ \A i \in At(workload, "before_workload") : records[workload][i].value \in Int
  <2>1. /\ workload \in Workloads /\ Workloads \subseteq Origins
        /\ \A k \in Workloads : k \in Nat \ {0}
    BY OriginsFinite DEF Types, Workloads
  <2>2. label \in Origins
    BY SizesFact DEF Types, Workloads, Origins
  <2>3. \A k \in Workloads : served[k] \in Nat
    BY <2>1 DEF Types
  <2>4. \A i \in At(workload, "before_workload") : records[workload][i].value \in Int
    BY <2>1, ValueInt
  <2> QED
    BY <2>1, <2>2, <2>3, <2>4, CounterNat DEF Types
<1>2. CASE UNCHANGED <<main, workload, served, records>>
  BY <1>2 DEF BillInv, At, Counter
<1>3. ASSUME UNCHANGED <<workload, served, records>>,
             \/ main' = main
             \/ main = "setWorkload" /\ main' \in {"drainBefore", "sampleBefore"}
             \/ main = "drainBefore" /\ main' = "sampleBefore"
             \/ main = "start" /\ main' = "send"
             \/ main = "send" /\ main' \in {"drainAfter", "sampleAfter"}
             \/ main = "drainAfter" /\ main' = "sampleAfter"
             \/ main' = "ended"
      PROVE  BillInv'
  BY <1>3 DEF BillInv, At, Counter
<1>4. CASE SetWorkload \/ Start \/ ClientsDone \/ GuardTimesOut
  BY <1>3, <1>4 DEF SetWorkload, Start, ClientsDone, GuardTimesOut, serverVars
<1>5. CASE DrainBefore \/ DrainAfter
  BY <1>3, <1>5 DEF DrainBefore, DrainAfter, Poll, serverVars
<1>6. CASE Send \/ SamplerReadsLabel \/ GpuMeasures \/ GpuWrites \/ Ended \/ UNCHANGED vars
  BY <1>2, <1>6
     DEF Send, SamplerReadsLabel, GpuMeasures, GpuWrites, Ended, vars, mainVars,
         serverVars
<1>7. ASSUME NEW o \in Origins, Release(o)
      PROVE  BillInv'
  BY <1>2, <1>7 DEF Release, mainVars
<1>8. ASSUME NEW phase \in Phases, NEW name \in Origins, Write(name, phase),
             UNCHANGED <<workload, served>>,
             \/ phase = "none" /\ main' = main
             \/ /\ phase = "before_workload" /\ name = workload
                /\ main = "sampleBefore" /\ main' = "start"
             \/ /\ phase = "after_workload" /\ name = workload
                /\ main = "sampleAfter" /\ main' = "summarise"
      PROVE  BillInv'
  <2>1. Counter' = Counter
    BY <1>8 DEF Counter
  <2>2. /\ \A k \in Origins \ {name} : records'[k] = records[k]
        /\ \A p \in Phases \ {phase} : At(name, p)' = At(name, p)
        /\ \A p \in Phases : \A i \in At(name, p) :
             records'[name][i] = records[name][i]
        /\ At(name, phase)' = At(name, phase) \cup {Len(records[name]) + 1}
        /\ records'[name][Len(records[name]) + 1].value = Counter
    BY <1>8, PhasesAfterWrite
  <2>3. \A k \in Origins \ {name} : \A p : At(k, p)' = At(k, p)
    BY <2>2 DEF At
  <2>4. CASE phase = "none"
    BY <1>1, <1>8, <2>1, <2>2, <2>3, <2>4 DEF BillInv, Phases
  <2>5. CASE phase = "before_workload"
    BY <1>1, <1>8, <2>1, <2>2, <2>3, <2>5 DEF BillInv, Phases
  <2>6. CASE phase = "after_workload"
    BY <1>1, <1>8, <2>1, <2>2, <2>3, <2>6 DEF BillInv, Phases
  <2> QED
    BY <2>4, <2>5, <2>6 DEF Phases
<1>9. CASE SampleBefore
  <2>1. label = workload
    BY <1>9 DEF SampleBefore, Types
  <2> QED
    BY <1>1, <1>8, <1>9, <2>1 DEF SampleBefore, SampleNow, Phases, serverVars
<1>10. CASE SampleAfter
  <2>1. label = workload
    BY <1>10 DEF SampleAfter, Types
  <2> QED
    BY <1>1, <1>8, <1>10, <2>1 DEF SampleAfter, SampleNow, Phases, serverVars
<1>11. CASE SamplerWrites
  <2>1. sampling \in Origins
    BY <1>11 DEF SamplerWrites, Types
  <2> QED
    BY <1>8, <1>11, <2>1 DEF SamplerWrites, Phases, mainVars, serverVars
<1>12. CASE Summarise
  <2>1. /\ UNCHANGED <<served, records>>
        /\ \/ main' = "setWorkload" /\ workload' = workload + 1 /\ workload' \in Workloads
           \/ main' = "ended" /\ workload' = workload
    BY <1>1, <1>12, SizesFact DEF Summarise, serverVars, Workloads
  <2>2. \A k, p : At(k, p)' = At(k, p)
    BY <2>1 DEF At
  <2> QED
    BY <1>1, <2>1, <2>2 DEF BillInv
<1>13. ASSUME NEW o \in Origins, Count(o)
       PROVE  BillInv'
  <2>1. /\ Counter' = Counter + 1 /\ o \in Owners
        /\ \A k \in Origins : served'[k] = IF k = o THEN served[k] + 1 ELSE served[k]
    BY <1>13, CounterStep
  <2>2. /\ UNCHANGED <<main, workload, records>>
        /\ \A k, p : At(k, p)' = At(k, p)
    BY <1>13 DEF Count, mainVars, At
  <2>3. o = 0 \/ o = workload
    BY <1>1, <2>1 DEF OwnersInv, Earlier, Steps
  <2>4. main \notin {"sampleBefore", "start", "sampleAfter", "summarise"}
    BY <2>1 DEF OwnersInv
  <2>5. main \in {"setWorkload", "drainBefore"} => o = 0
    BY <2>1 DEF OwnersInv, Earlier
  <2>6. main \in {"send", "drainAfter"} => o = workload
    BY <2>1 DEF OwnersInv
  <2> QED
    BY <1>1, <2>1, <2>2, <2>3, <2>4, <2>5, <2>6 DEF BillInv
<1> QED
  BY <1>4, <1>5, <1>6, <1>7, <1>9, <1>10, <1>11, <1>12, <1>13 DEF Next

\* Every step keeps DeltaInv.
LEMMA DeltaNext ==
  ASSUME GuardEnabled, Types, OwnersInv, BillInv, DeltaInv, [Next]_vars
  PROVE  DeltaInv'
<1>1. /\ main # "send" => Owners' \subseteq Owners
      /\ Owners' \subseteq Owners \cup (IF main = "send" THEN {workload} ELSE {})
      /\ workload \in Workloads /\ \A k \in Workloads : k \in Int /\ k \in Origins
  <2>1. workload \in Workloads /\ \A k \in Workloads : k \in Int
    BY DEF Types, Workloads
  <2> QED
    BY <2>1, OwnersStep, OriginsFinite
<1>2. ASSUME UNCHANGED <<workload, served, delta>>, main' = main \/ main # "ended"
      PROVE  DeltaInv'
  BY <1>1, <1>2 DEF DeltaInv
<1>3. ASSUME NEW o \in Origins, Count(o)
      PROVE  DeltaInv'
  <2>1. /\ o \in Owners
        /\ \A k \in Origins : served'[k] = IF k = o THEN served[k] + 1 ELSE served[k]
    BY <1>3, CounterStep
  <2>2. UNCHANGED <<main, workload, delta>>
    BY <1>3 DEF Count, mainVars
  <2> QED
    BY <1>1, <2>1, <2>2 DEF DeltaInv
<1>4. CASE Summarise
  <2>1. /\ main = "summarise" /\ served' = served /\ Owners = {}
        /\ delta \in [Workloads -> Int]
        /\ delta' = [delta EXCEPT ![workload] = served[workload]]
        /\ \/ main' = "setWorkload" /\ workload' = workload + 1
           \/ main' = "ended" /\ workload' = workload
    BY <1>4, DeltaFound DEF Summarise, serverVars, OwnersInv, Types
  <2> QED
    BY <1>1, <2>1 DEF DeltaInv
<1>5. ASSUME NEW o \in Origins, Release(o)
      PROVE  DeltaInv'
  BY <1>2, <1>5 DEF Release, mainVars
<1>6. CASE SetWorkload \/ DrainBefore \/ SampleBefore \/ Start \/ Send \/ ClientsDone
  BY <1>2, <1>6
     DEF SetWorkload, DrainBefore, Poll, SampleBefore, SampleNow, Start, Send,
         ClientsDone, serverVars
<1>7. CASE DrainAfter \/ SampleAfter \/ GuardTimesOut \/ Ended \/ UNCHANGED vars
  BY <1>2, <1>7
     DEF DrainAfter, Poll, SampleAfter, SampleNow, GuardTimesOut, Ended, vars,
         serverVars, mainVars
<1>8. CASE SamplerReadsLabel \/ SamplerWrites \/ GpuMeasures \/ GpuWrites
  BY <1>2, <1>8
     DEF SamplerReadsLabel, SamplerWrites, GpuMeasures, GpuWrites, serverVars,
         mainVars
<1> QED
  BY <1>3, <1>4, <1>5, <1>6, <1>7, <1>8 DEF Next

-----------------------------------------------------------------------------
(* The theorems *)

\* All of it holds at first.
LEMMA HoldsAtFirst ==
  ASSUME Init
  PROVE  OwnersInv /\ SamplingInv /\ LabelledSamplesPure /\ GpuInv /\ GpuRows
         /\ BillInv /\ DeltaInv
<1>1. /\ main = "setWorkload" /\ workload = 1 /\ sampling = None /\ measured = NoRun
      /\ label = 0 /\ gpu_rows = {}
      /\ delta = [k \in Workloads |-> None]
      /\ served = [o \in Origins |-> 0] /\ records = [o \in Origins |-> <<>>]
      /\ counted = [o \in Origins |-> 0]
      /\ \A o \in Origins \ {0} : waiting[o] = 0
      /\ Workloads \subseteq Origins /\ workload \in Workloads
  BY SizesFact, OriginsFinite DEF Init, Workloads
<1>2. Owners \subseteq {0}
  <2>1. ASSUME NEW o \in Origins, o # 0
        PROVE  ~ (Held[o] > 0)
    <3>1. waiting[o] = 0 /\ counted[o] = 0
      BY <1>1, <2>1
    <3>2. Held[o] = 0
      BY <3>1 DEF Held
    <3> QED
      BY <3>2
  <2> QED
    BY <2>1 DEF Owners
<1>3. \A k \in Workloads : \A p : At(k, p) = {}
  BY <1>1 DEF At, OfPhase
<1>4. OwnersInv /\ SamplingInv /\ GpuInv /\ GpuRows
  BY <1>1, <1>2 DEF OwnersInv, SamplingInv, GpuInv, GpuRows, Earlier
<1>5. LabelledSamplesPure /\ DeltaInv
  BY <1>1 DEF LabelledSamplesPure, DeltaInv
<1>6. BillInv
  BY <1>1, <1>3 DEF BillInv
<1> QED
  BY <1>4, <1>5, <1>6

\* With the drain guard, a record filed under a workload was taken while the
\* server held nobody else's requests (the label that the vLLM sampler has read
\* cannot grow stale before the record is written).
THEOREM SamplesAreTheirOwn ==
  ASSUME GuardEnabled
  PROVE  Spec => []LabelledSamplesPure
<1> DEFINE I == Types /\ OwnersInv /\ SamplingInv /\ LabelledSamplesPure
<1>1. Init => I
  BY TypesInit, HoldsAtFirst
<1>2. I /\ [Next]_vars => I'
  BY TypesNext, OwnersNext, SamplingNext, PureNext
<1>3. I => LabelledSamplesPure
  OBVIOUS
<1> QED
  BY <1>1, <1>2, <1>3, PTL DEF Spec

\* With the drain guard at most one row per change of workload, the first, is
\* filed wrongly, however long nvidia-smi takes and whatever the clients do.
THEOREM GpuRowsAreTheirOwn == Spec => []GpuRowsPure
<1>1. CASE GuardEnabled
  <2> DEFINE I == Types /\ OwnersInv /\ GpuInv /\ GpuRows
  <2>1. Init => I
    BY TypesInit, HoldsAtFirst
  <2>2. I /\ [Next]_vars => I'
    BY <1>1, TypesNext, OwnersNext, GpuNext, RowsNext
  <2>3. I => GpuRowsPure
    BY DEF GpuRows, GpuRowsPure
  <2> QED
    BY <2>1, <2>2, <2>3, PTL DEF Spec
<1>2. CASE ~GuardEnabled
  <2>1. GpuRowsPure
    BY <1>2 DEF GpuRowsPure
  <2> QED
    BY <2>1, PTL
<1> QED
  BY <1>1, <1>2

\* With the drain guard, and as long as /metrics can be fetched, the counter
\* delta of a summary row is the number of the workload's own requests.
THEOREM BilledForItsOwn ==
  ASSUME GuardEnabled, ~SampleMayFail
  PROVE  Spec => []BilledExactly
<1> DEFINE I == Types /\ OwnersInv /\ BillInv /\ DeltaInv
<1>1. Init => I
  BY TypesInit, HoldsAtFirst
<1>2. I /\ [Next]_vars => I'
  BY TypesNext, OwnersNext, BillNext, DeltaNext
<1>3. I => BilledExactly
  BY DEF DeltaInv, BilledExactly
<1> QED
  BY <1>1, <1>2, <1>3, PTL DEF Spec

=============================================================================
