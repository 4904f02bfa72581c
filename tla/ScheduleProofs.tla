--------------------------- MODULE ScheduleProofs ----------------------------
(***************************************************************************)
(* Proofs about the load generator and the summary of a workload, for any  *)
(* workload of the file and any bound on time: how many requests are on    *)
(* the wire, how their times fit together, and what the summary makes of   *)
(* them.                                                                   *)
(***************************************************************************)
EXTENDS RequestSchedule, Sums

States == {"planned", "queued", "sending", "streaming", "done"}

Types ==
  /\ w \in Entries
  /\ now \in Nat
  /\ submitted \in Nat /\ submitted <= w.request_count
  /\ state \in [Requests -> States]
  /\ started \in [Requests -> Int]

\* Requests are submitted in turn and started in the order of submission.
InTurn ==
  /\ \A i \in Requests : state[i] = "planned" <=> i >= submitted
  /\ \A i \in Requests : started[i] = None <=> state[i] \in {"planned", "queued"}
  /\ \A i, j \in Requests : i < j /\ started[j] # None => started[i] # None

Inv == Types /\ InTurn

Started == {i \in Requests : started[i] # None}

LEMMA CountType == ASSUME Types PROVE w.request_count \in Nat
BY EntriesAssumption DEF Types

LEMMA StartedFinite ==
  ASSUME Types
  PROVE  IsFiniteSet(Started) /\ Cardinality(Started) \in Nat
<1>1. IsFiniteSet(Requests)
  BY CountType, FS_Interval DEF Requests
<1>2. IsFiniteSet(Started)
  BY <1>1, FS_Subset DEF Started
<1> QED
  BY <1>2, FS_CardinalityType

\* The requests that have been started are the first ones.
LEMMA StartedFirst ==
  ASSUME Inv, NEW i \in Requests
  PROVE  started[i] # None <=> i < Cardinality(Started)
<1>1. i \in Nat
  BY CountType DEF Inv, Requests
<1>2. CASE started[i] # None
  <2>1. 0..i \subseteq Started
    BY <1>2, CountType DEF Inv, InTurn, Started, Requests
  <2>2. Cardinality(0..i) = i + 1
    BY <1>1, FS_Interval
  <2>3. Cardinality(0..i) <= Cardinality(Started)
    BY <2>1, StartedFinite, FS_Subset DEF Inv
  <2> QED
    BY <1>1, <1>2, <2>2, <2>3, StartedFinite DEF Inv
<1>3. CASE started[i] = None
  <2>1. Started \subseteq 0..(i - 1)
    BY <1>3, CountType DEF Inv, InTurn, Started, Requests
  <2>2. IsFiniteSet(0..(i - 1)) /\ Cardinality(0..(i - 1)) = i
    BY <1>1, FS_Interval
  <2>3. Cardinality(Started) <= Cardinality(0..(i - 1))
    BY <2>1, <2>2, FS_Subset
  <2> QED
    BY <1>1, <1>3, <2>2, <2>3, StartedFinite DEF Inv
<1> QED
  BY <1>2, <1>3

\* The oldest request in the queue is the next one to be started.
LEMMA NextToStart ==
  ASSUME Inv, NEW i \in Requests, i \in In("queued"), i = Min(In("queued"))
  PROVE  /\ Cardinality(Started) = i
         /\ Started = 0..(i - 1)
<1> DEFINE first == Cardinality(Started)
<1>1. i \in Nat /\ first \in Nat /\ \A j \in In("queued") : j \in Requests /\ j \in Nat
  BY StartedFinite, CountType DEF Inv, Requests, In
<1>2. \A j \in Requests : j \in In("queued") <=> first <= j /\ j < submitted
  <2> SUFFICES ASSUME NEW j \in Requests
               PROVE  j \in In("queued") <=> first <= j /\ j < submitted
    OBVIOUS
  <2>1. j \in Nat /\ (started[j] # None <=> j < first)
    BY StartedFirst, CountType DEF Inv, Requests
  <2>2. j \in In("queued") <=> started[j] = None /\ state[j] # "planned"
    BY DEF In, Inv, InTurn, Types, States
  <2>3. state[j] # "planned" <=> j < submitted
    BY <2>1 DEF Inv, InTurn, Types
  <2> QED
    BY <1>1, <2>1, <2>2, <2>3
<1>3. first \in In("queued")
  <2>1. first <= i /\ i < submitted
    BY <1>2
  <2>2. first \in Requests /\ first < submitted
    BY <1>1, <2>1, CountType DEF Inv, Types, Requests
  <2> QED
    BY <1>1, <1>2, <2>2
<1>4. \E x \in In("queued") : \A y \in In("queued") : x <= y
  BY <1>1, <1>2, <1>3
<1>5. \A y \in In("queued") : i <= y
  BY <1>4 DEF Min
<1>6. first = i
  BY <1>1, <1>2, <1>3, <1>5
<1>7. Started = 0..(i - 1)
  BY <1>1, <1>6, StartedFirst, CountType DEF Inv, Started, Requests
<1> QED
  BY <1>6, <1>7

-----------------------------------------------------------------------------
(* The invariant *)

LEMMA InvInit == Init => Inv
<1> SUFFICES ASSUME Init PROVE Inv
  OBVIOUS
<1>1. w \in Entries /\ w.request_count \in Nat
  BY EntriesAssumption DEF Init
<1>2. Types
  BY <1>1 DEF Init, Types, States, None
<1>3. InTurn
  BY <1>1 DEF Init, InTurn, Requests
<1> QED
  BY <1>2, <1>3 DEF Inv

LEMMA InvNext == Inv /\ [Next]_vars => Inv'
<1> SUFFICES ASSUME Inv, [Next]_vars PROVE Inv'
  OBVIOUS
<1> USE DEF Inv
<1>0. w' = w /\ Requests' = Requests /\ w.request_count \in Nat /\ now \in Nat
  BY CountType
     DEF Next, Submit, RequestStep, Take, TurnAway, Respond, Refuse, Break,
     ReadLine, Finish, TimeOut, End, Tick, Summarise, Ended, vars, Requests,
     Types
<1>1. CASE Submit
  <2>1. submitted \in Requests /\ submitted' = submitted + 1
        /\ state' = [state EXCEPT ![submitted] = "queued"]
        /\ started' = started /\ now' = now
    BY <1>1 DEF Submit
  <2>2. Types'
    BY <1>0, <2>1 DEF Types, States, Requests
  <2>3. state[submitted] = "planned" /\ started[submitted] = None
    BY <2>1 DEF InTurn, Types
  <2>4. \A i \in Requests : i >= submitted' <=> i >= submitted /\ i # submitted
    BY <1>0, <2>1 DEF Requests
  <2>5. InTurn'
    BY <1>0, <2>1, <2>3, <2>4 DEF InTurn, Types
  <2> QED
    BY <2>2, <2>5
<1>2. ASSUME NEW i \in Requests, Take(i) \/ TurnAway(i)
      PROVE  Inv'
  <2>1. /\ i \in In("queued") /\ i = Min(In("queued"))
        /\ started' = [started EXCEPT ![i] = now]
        /\ \E s \in {"sending", "done"} : state' = [state EXCEPT ![i] = s]
        /\ submitted' = submitted /\ now' = now
    BY <1>2 DEF Take, TurnAway, End
  <2>2. Types'
    BY <1>0, <2>1 DEF Types, States
  <2>3. now # None
    BY <1>0 DEF None
  <2>4. state[i] = "queued" /\ \A j \in Requests : started[j] # None <=> j < i
    BY <2>1, NextToStart, StartedFirst DEF In
  <2>5. InTurn'
    <3>1. \A j \in Requests : state'[j] = "planned" <=> j >= submitted'
      BY <2>1, <2>4 DEF InTurn, Types
    <3>2. \A j \in Requests : started'[j] = None <=> state'[j] \in {"planned", "queued"}
      BY <2>1, <2>3 DEF InTurn, Types
    <3>3. \A j \in Requests : started'[j] # None <=> j < i \/ j = i
      BY <2>1, <2>3, <2>4 DEF Types
    <3>4. \A j, k \in Requests :
            j < k /\ started'[k] # None => started'[j] # None
      BY <1>0, <3>3 DEF Requests
    <3> QED
      BY <1>0, <3>1, <3>2, <3>4 DEF InTurn
  <2> QED
    BY <2>2, <2>5
<1>3. ASSUME NEW i \in Requests,
             Respond(i) \/ Refuse(i) \/ Break(i) \/ ReadLine(i) \/ Finish(i) \/ TimeOut(i)
      PROVE  Inv'
  <2>1. /\ state[i] \in {"sending", "streaming"}
        /\ \E s \in {state[i], "streaming", "done"} : state' = [state EXCEPT ![i] = s]
        /\ UNCHANGED <<now, submitted, started>>
    BY <1>3
       DEF Respond, Refuse, Break, ReadLine, Finish, TimeOut, End, In, Active,
           Types
  <2>2. Types'
    BY <1>0, <2>1 DEF Types, States
  <2>3. InTurn'
    BY <1>0, <2>1 DEF InTurn, Types
  <2> QED
    BY <2>2, <2>3
<1>4. CASE Tick \/ Summarise \/ Ended \/ UNCHANGED vars
  <2>1. now' \in Nat /\ UNCHANGED <<submitted, state, started>>
    BY <1>0, <1>4 DEF Tick, Summarise, Ended, vars
  <2> QED
    BY <1>0, <2>1 DEF Types, InTurn
<1> QED
  BY <1>1, <1>2, <1>3, <1>4 DEF Next, RequestStep

-----------------------------------------------------------------------------
(* The refinement *)

\* The plan's view of the requests under way is the busy threads.
LEMMA UnderWayIsActive ==
  ASSUME Inv, NEW i \in Requests, i \in In("queued"), i = Min(In("queued"))
  PROVE  Plan!UnderWay = Active
<1>1. Started = 0..(i - 1) /\ Cardinality(Started) = i
  BY NextToStart
<1>2. \A j \in Requests : j < i <=> started[j] # None
  BY <1>1, StartedFirst
<1>3. Plan!Requests = Requests
  BY DEF Plan!Requests
<1>4. Plan!UnderWay = {j \in Requests : j < i /\ j \notin In("done")}
  BY <1>1, <1>3 DEF Plan!UnderWay, Started
<1> QED
  BY <1>2, <1>4 DEF Active, In, Inv, InTurn, Types, States

LEMMA PlanInit == Init => Plan!Init
<1> SUFFICES ASSUME Init PROVE Plan!Init
  OBVIOUS
<1>1. {i \in Requests : started[i] # None} = {} /\ In("done") = {}
  BY DEF Init, In
<1> QED
  BY <1>1, FS_EmptySet DEF Init, Plan!Init

LEMMA PlanNext == Inv /\ [Next]_vars => [Plan!Next]_(Plan!plan)
<1> SUFFICES ASSUME Inv, [Next]_vars PROVE [Plan!Next]_(Plan!plan)
  OBVIOUS
<1>0. w' = w /\ Requests' = Requests /\ w.request_count \in Nat
  BY CountType
     DEF Inv, Next, Submit, RequestStep, Take, TurnAway, Respond, Refuse, Break,
     ReadLine, Finish, TimeOut, End, Tick, Summarise, Ended, vars, Requests
<1>1. Plan!Requests = Requests
  BY DEF Plan!Requests
<1>2. CASE Submit
  <2>1. Started' = Started /\ In("done")' = In("done") /\ now' = now
    BY <1>0, <1>2 DEF Submit, Started, In, Inv, InTurn, Types
  <2>2. Plan!Arrive
    BY <1>0, <1>1, <1>2, <2>1 DEF Submit, Plan!Arrive, Started
  <2> QED
    BY <2>2 DEF Plan!Next
<1>3. ASSUME NEW i \in Requests, Take(i) \/ TurnAway(i)
      PROVE  Plan!Begin
  <2>1. /\ i \in In("queued") /\ i = Min(In("queued"))
        /\ started' = [started EXCEPT ![i] = now]
        /\ \/ state' = [state EXCEPT ![i] = "sending"]
           \/ state' = [state EXCEPT ![i] = "done"]
        /\ submitted' = submitted /\ now' = now
        /\ Cardinality(Active) < InFlightLimit(w)
    BY <1>3 DEF Take, TurnAway, End, ThreadFree
  <2>2. Cardinality(Started) = i
    BY <2>1, NextToStart
  <2>3. Cardinality(Started') = i + 1
    <3>1. Started = 0..(i - 1) /\ now # None
      BY <2>1, NextToStart DEF Inv, Types, None
    <3>2. Started' = 0..i
      BY <1>0, <2>1, <3>1 DEF Started, Requests, Inv, Types
    <3> QED
      BY <1>0, <3>2, FS_Interval DEF Requests
  <2>4. In("done")' \in {In("done"), In("done") \cup {i}}
    BY <1>0, <2>1 DEF In, Inv, Types
  <2>5. i < submitted
    BY <1>0, <2>1 DEF In, Inv, InTurn, Types, Requests
  <2>6. Plan!Cardinality(Plan!UnderWay) < InFlightLimit(w)
    <3>1. Plan!Cardinality(Active) = Cardinality(Active)
      BY DEF Plan!Cardinality, Cardinality
    <3> QED
      BY <2>1, <3>1, UnderWayIsActive
  <2> QED
    BY <1>0, <2>1, <2>2, <2>3, <2>4, <2>5, <2>6 DEF Plan!Begin, Started
<1>4. ASSUME NEW i \in Requests, Refuse(i) \/ Break(i) \/ Finish(i) \/ TimeOut(i)
      PROVE  Plan!End(i)
  <2>1. /\ state[i] \in {"sending", "streaming"}
        /\ state' = [state EXCEPT ![i] = "done"]
        /\ UNCHANGED <<now, submitted, started>>
    BY <1>4 DEF Refuse, Break, Finish, TimeOut, End, In, Active
  <2>2. In("done")' = In("done") \cup {i} /\ i \notin In("done")
    BY <1>0, <2>1 DEF In, Inv, Types
  <2>3. i < Cardinality(Started)
    BY <2>1, StartedFirst DEF Inv, InTurn
  <2>4. i \in Plan!UnderWay
    BY <1>1, <2>2, <2>3 DEF Plan!UnderWay, Started
  <2> QED
    BY <1>0, <2>1, <2>2, <2>4 DEF Plan!End
<1>5. ASSUME NEW i \in Requests, Respond(i) \/ ReadLine(i)
      PROVE  UNCHANGED Plan!plan
  <2>1. /\ state[i] \in {"sending", "streaming"}
        /\ state' = [state EXCEPT ![i] = "streaming"]
        /\ UNCHANGED <<now, submitted, started>>
    BY <1>5 DEF Respond, ReadLine, In, Inv, Types
  <2>2. In("done")' = In("done")
    BY <1>0, <2>1 DEF In, Inv, Types
  <2> QED
    BY <1>0, <2>1, <2>2 DEF Plan!plan
<1>6. CASE Tick
  <2>1. In("done")' = In("done")
    BY <1>0, <1>6 DEF Tick, In
  <2> QED
    BY <1>0, <1>6, <2>1 DEF Tick, Plan!Next, Plan!Tick
<1>7. CASE Summarise \/ Ended \/ UNCHANGED vars
  <2>1. In("done")' = In("done")
    BY <1>0, <1>7 DEF Summarise, Ended, vars, In
  <2> QED
    BY <1>0, <1>7, <2>1 DEF Summarise, Ended, vars, Plan!plan
<1> QED
  BY <1>1, <1>2, <1>3, <1>4, <1>5, <1>6, <1>7 DEF Next, RequestStep, Plan!Next

\* The load generator carries out its plan: no request before it is due or out
\* of turn, never more under way than threads, and each ends at most once.
THEOREM CarriesOutPlan == Spec => Plan!SafeSpec
<1>1. Inv /\ [Next]_vars => [Plan!Next]_(Plan!plan)
  BY PlanNext
<1> QED
  BY <1>1, PlanInit, InvInit, InvNext, PTL DEF Spec, Plan!SafeSpec

-----------------------------------------------------------------------------
(* The plan of a workload that validation accepted *)

\* Multiplying by a natural keeps the order.
LEMMA ProductMonotonic ==
  ASSUME NEW a \in Nat, NEW b \in Nat, NEW c \in Nat, a <= b
  PROVE  a * c \in Nat /\ b * c \in Nat /\ a * c <= b * c
<1>1. b - a \in Nat
  OBVIOUS
<1>2. (b - a) * c \in Nat
  BY <1>1
<1>3. (b - a) * c = b * c - a * c
  OBVIOUS
<1>4. a * c \in Nat /\ b * c \in Nat
  OBVIOUS
<1> QED
  BY <1>2, <1>3, <1>4

\* Dividing by a positive natural keeps the order.
LEMMA QuotientMonotonic ==
  ASSUME NEW a \in Nat, NEW b \in Nat, NEW c \in Nat \ {0}, a <= b
  PROVE  /\ a \div c \in Nat /\ b \div c \in Nat
         /\ a \div c <= b \div c
<1> DEFINE p == a \div c
           q == b \div c
<1>1. p \in Nat /\ q \in Nat
  OBVIOUS
<1>2. p * c <= a /\ b < (q + 1) * c
  OBVIOUS
<1> HIDE DEF p, q
<1>3. ~ q + 1 <= p
  <2> SUFFICES ASSUME q + 1 <= p PROVE FALSE
    OBVIOUS
  <2>1. (q + 1) * c <= p * c
    BY <1>1, ProductMonotonic
  <2>2. p * c \in Nat /\ (q + 1) * c \in Nat
    BY <1>1
  <2> QED
    BY <1>2, <2>1, <2>2
<1>4. p <= q
  BY <1>1, <1>3
<1> QED
  BY <1>1, <1>4 DEF p, q

EntryTyped ==
  /\ w \in Entries
  /\ ValidLoad(w)
  /\ w.request_count >= 1

\* At least one request may be in flight.
LEMMA LimitType ==
  ASSUME EntryTyped PROVE InFlightLimit(w) \in Nat \ {0}
<1>1. w.max_in_flight \in Int /\ w.concurrency \in Int
  BY EntriesAssumption DEF EntryTyped
<1>2. CASE OpenLoop(w)
  BY <1>1, <1>2 DEF EntryTyped, ValidLoad, OpenLoop, InFlightLimit
<1>3. CASE ~OpenLoop(w)
  BY <1>1, <1>3 DEF EntryTyped, ValidLoad, OpenLoop, InFlightLimit
<1> QED
  BY <1>2, <1>3

\* Validation leaves an open-loop workload with positive parameters.
LEMMA OpenTypes ==
  ASSUME EntryTyped, OpenLoop(w)
  PROVE  w.interval \in Nat \ {0} /\ (Bursty(w) => w.burst_size \in Nat \ {0})
<1>1. w.interval \in Int /\ w.burst_size \in Int
  BY EntriesAssumption DEF EntryTyped
<1>2. w.interval >= 1 /\ (Bursty(w) => w.burst_size >= 2)
  BY DEF EntryTyped, ValidLoad, OpenLoop
<1> QED
  BY <1>1, <1>2

\* A later request is due no earlier.
LEMMA DueMonotonic ==
  ASSUME EntryTyped, NEW i \in Nat, NEW j \in Nat, i <= j
  PROVE  Due(w, i) \in Nat /\ Due(w, j) \in Nat /\ Due(w, i) <= Due(w, j)
<1>1. CASE ~OpenLoop(w)
  BY <1>1 DEF Due
<1>2. CASE OpenLoop(w) /\ ~Bursty(w)
  <2> DEFINE n == w.interval
  <2>1. n \in Nat
    BY <1>2, OpenTypes
  <2>2. Due(w, i) = i * n /\ Due(w, j) = j * n
    BY <1>2 DEF Due, ScheduledOffset
  <2> HIDE DEF n
  <2> QED
    BY <2>1, <2>2, ProductMonotonic
<1>3. CASE OpenLoop(w) /\ Bursty(w)
  <2> DEFINE n == w.interval
             b == w.burst_size
             p == i \div b
             q == j \div b
  <2>1. n \in Nat /\ b \in Nat \ {0}
    BY <1>3, OpenTypes
  <2>2. Due(w, i) = p * b * n /\ Due(w, j) = q * b * n
    BY <1>3 DEF Due, ScheduledOffset
  <2> HIDE DEF n, b
  <2>3. p \in Nat /\ q \in Nat /\ p <= q
    BY <2>1, QuotientMonotonic
  <2> HIDE DEF p, q
  <2>4. p * b \in Nat /\ q * b \in Nat /\ p * b <= q * b
    BY <2>1, <2>3, ProductMonotonic
  <2> QED
    BY <2>1, <2>2, <2>4, ProductMonotonic
<1> QED
  BY <1>1, <1>2, <1>3

-----------------------------------------------------------------------------
(* Times *)

\* What the record of a request that is done says of its times.
Told(i) ==
  LET r == record[i] IN
  /\ r.start = started[i]
  /\ r.latency \in Nat /\ started[i] + r.latency <= now
  /\ OpenLoop(w) =>
       /\ r.scheduled_offset = Due(w, i)
       /\ r.delay = started[i] - Due(w, i)
       /\ r.scheduled_latency = r.delay + r.latency
  /\ ~OpenLoop(w) => r.delay = None
  /\ r.success =>
       /\ r.ttft <= r.latency
       /\ r.ttft = None <=> r.output_tokens = 0

\* The clock has passed what has happened, and the first token of a stream is
\* noted with the first text.
Clocked ==
  /\ \A i \in Requests : i < submitted => Due(w, i) <= now
  /\ \A i \in Requests :
       started[i] # None => Due(w, i) <= started[i] /\ started[i] <= now
  /\ \A i \in Requests : ttft[i] = None <=> texts[i] = 0
  /\ \A i \in Requests :
       ttft[i] # None => started[i] # None /\ ttft[i] <= now - started[i]

Recorded == \A i \in Requests : state[i] = "done" => Told(i)

TimeTypes ==
  /\ EntryTyped
  /\ texts \in [Requests -> Nat]
  /\ ttft \in [Requests -> Int]
  /\ record = [i \in Requests |-> record[i]]

TimeInv == TimeTypes /\ Clocked /\ Recorded

\* Every request has a due time.
LEMMA DueType ==
  ASSUME EntryTyped
  PROVE  \A i \in Requests : i \in Nat /\ Due(w, i) \in Nat
<1> SUFFICES ASSUME NEW i \in Requests
             PROVE  i \in Nat /\ Due(w, i) \in Nat
  OBVIOUS
<1>1. i \in Nat
  BY EntriesAssumption DEF Requests, EntryTyped
<1> QED
  BY <1>1, DueMonotonic

\* max(0, d) of a delay that is not negative.
LEMMA MaxWithZero ==
  ASSUME NEW d \in Nat PROVE Max({0, d}) = d
<1>1. \A x \in {0, d} : d >= x
  OBVIOUS
<1>2. \A x \in {0, d} : (\A y \in {0, d} : x >= y) => x = d
  OBVIOUS
<1> QED
  BY <1>1, <1>2 DEF Max

\* A record that is written now tells the truth.
LEMMA RecordTells ==
  ASSUME Inv, TimeInv, NEW i \in Requests, NEW type, NEW start \in Int,
         NEW tokens \in Nat,
         Due(w, i) <= start, start <= now,
         type = "none" => tokens = texts[i] /\ start = started[i]
  PROVE  LET r == Record(i, type, start, tokens) IN
         /\ r.start = start
         /\ r.latency \in Nat /\ start + r.latency <= now
         /\ OpenLoop(w) =>
              /\ r.scheduled_offset = Due(w, i)
              /\ r.delay = start - Due(w, i)
              /\ r.scheduled_latency = r.delay + r.latency
         /\ ~OpenLoop(w) => r.delay = None
         /\ r.success =>
              /\ r.ttft <= r.latency
              /\ r.ttft = None <=> r.output_tokens = 0
<1> DEFINE r == Record(i, type, start, tokens)
           d == Due(w, i)
<1>1. now \in Nat /\ d \in Nat
  BY DueType DEF Inv, Types, TimeInv, TimeTypes
<1>2. /\ r.start = start /\ r.latency = now - start
      /\ r.success = (type = "none") /\ r.output_tokens = tokens
      /\ r.ttft = IF type = "none" THEN ttft[i] ELSE None
  BY DEF Record
<1>3. /\ OpenLoop(w) =>
           /\ r.scheduled_offset = d
           /\ r.delay = Max({0, start - d})
           /\ r.scheduled_latency = now - d
      /\ ~OpenLoop(w) => r.delay = None
  BY DEF Record
<1> HIDE DEF r, d
<1>4. start - d \in Nat /\ start - d = start - Due(w, i)
  BY <1>1 DEF d
<1>5. OpenLoop(w) => r.delay = start - d
  BY <1>3, <1>4, MaxWithZero
<1>6. r.latency \in Nat /\ start + r.latency <= now
  BY <1>1, <1>2
<1>7. OpenLoop(w) => r.scheduled_latency = r.delay + r.latency
  BY <1>1, <1>2, <1>3, <1>5
<1>8. r.success => r.ttft <= r.latency /\ (r.ttft = None <=> r.output_tokens = 0)
  <2> SUFFICES ASSUME type = "none"
               PROVE  r.ttft <= r.latency /\ (r.ttft = None <=> r.output_tokens = 0)
    BY <1>2
  <2>1. r.ttft = ttft[i] /\ (ttft[i] = None <=> texts[i] = 0)
    BY <1>2 DEF TimeInv, Clocked
  <2>2. CASE ttft[i] = None
    BY <1>2, <1>6, <2>1, <2>2 DEF None
  <2>3. CASE ttft[i] # None
    BY <1>2, <2>1, <2>3 DEF TimeInv, Clocked
  <2> QED
    BY <1>2, <2>1, <2>2, <2>3
<1> QED
  BY <1>2, <1>3, <1>5, <1>6, <1>7, <1>8 DEF r, d

-----------------------------------------------------------------------------
\* TimeInv holds at first.
LEMMA TimeInit == Init => TimeInv
<1> SUFFICES ASSUME Init PROVE TimeInv
  OBVIOUS
<1>1. w \in Entries /\ Accepted(w)
  BY DEF Init
<1>2. ValidRun(w, MaxModelLen)
  <2>1. 1 \in DOMAIN <<w>> /\ <<w>>[1] = w
    OBVIOUS
  <2> QED
    BY <1>1, <2>1 DEF Accepted, ValidWorkload
<1>3. EntryTyped
  BY <1>1, <1>2 DEF ValidRun, ValidSizes, EntryTyped
<1>4. TimeTypes
  BY <1>3 DEF Init, TimeTypes, None
<1>5. Clocked
  BY <1>3, DueType DEF Init, Clocked
<1>6. Recorded
  BY DEF Init, Recorded
<1> QED
  BY <1>4, <1>5, <1>6 DEF TimeInv

\* A request ends with a record that tells the truth.
LEMMA EndTells ==
  ASSUME Inv, TimeInv, Requests' = Requests, w' = w,
         NEW i \in Requests, NEW type, NEW start \in Int, NEW tokens \in Nat,
         Due(w, i) <= start, start <= now,
         type = "none" => tokens = texts[i] /\ start = started[i],
         End(i, Record(i, type, start, tokens)),
         started' = [started EXCEPT ![i] = start], start # None
  PROVE  TimeInv'
<1> DEFINE row == Record(i, type, start, tokens)
<1>1. /\ state' = [state EXCEPT ![i] = "done"]
      /\ record' = [record EXCEPT ![i] = row]
      /\ texts' = [texts EXCEPT ![i] = 0]
      /\ ttft' = [ttft EXCEPT ![i] = None]
      /\ now' = now /\ submitted' = submitted
  BY DEF End
<1> DEFINE Tells(r) ==
         /\ r.start = start
         /\ r.latency \in Nat /\ start + r.latency <= now
         /\ OpenLoop(w) =>
              /\ r.scheduled_offset = Due(w, i)
              /\ r.delay = start - Due(w, i)
              /\ r.scheduled_latency = r.delay + r.latency
         /\ ~OpenLoop(w) => r.delay = None
         /\ r.success =>
              /\ r.ttft <= r.latency
              /\ r.ttft = None <=> r.output_tokens = 0
<1>2. Tells(row)
  BY RecordTells
<1> HIDE DEF row
<1>3. EntryTyped' /\ now \in Nat
  BY DEF TimeInv, TimeTypes, EntryTyped, Inv, Types
<1>4. TimeTypes'
  <2>1. texts' \in [Requests -> Nat] /\ ttft' \in [Requests -> Int]
    BY <1>1 DEF TimeInv, TimeTypes, None
  <2>2. record' = [j \in Requests |-> record'[j]]
    BY <1>1 DEF TimeInv, TimeTypes
  <2> QED
    BY <1>3, <2>1, <2>2 DEF TimeTypes
<1>5. \A j \in Requests : started'[j] = IF j = i THEN start ELSE started[j]
  BY DEF Inv, Types
<1>6. \A j \in Requests : /\ texts'[j] = IF j = i THEN 0 ELSE texts[j]
                          /\ ttft'[j] = IF j = i THEN None ELSE ttft[j]
                          /\ state'[j] = IF j = i THEN "done" ELSE state[j]
                          /\ record'[j] = IF j = i THEN row ELSE record[j]
  BY <1>1 DEF TimeInv, TimeTypes, Inv, Types
<1>7. Clocked'
  <2>1. \A j \in Requests : j < submitted' => Due(w, j) <= now'
    BY <1>1 DEF TimeInv, Clocked
  <2>2. \A j \in Requests :
          started'[j] # None => Due(w, j) <= started'[j] /\ started'[j] <= now'
    BY <1>1, <1>5 DEF TimeInv, Clocked
  <2>3. \A j \in Requests : ttft'[j] = None <=> texts'[j] = 0
    BY <1>6 DEF TimeInv, Clocked
  <2>4. \A j \in Requests :
          ttft'[j] # None => started'[j] # None /\ ttft'[j] <= now' - started'[j]
    BY <1>1, <1>5, <1>6 DEF TimeInv, Clocked
  <2> QED
    BY <2>1, <2>2, <2>3, <2>4 DEF Clocked
<1>8. ASSUME NEW j \in Requests, state'[j] = "done"
      PROVE  Told(j)'
  <2>1. CASE j = i
    <3>1. record'[j] = row /\ started'[j] = start
      BY <1>5, <1>6, <2>1
    <3> QED
      BY <1>1, <1>2, <2>1, <3>1 DEF Told
  <2>2. CASE j # i
    <3>1. state[j] = "done" /\ record'[j] = record[j] /\ started'[j] = started[j]
      BY <1>5, <1>6, <1>8, <2>2
    <3>2. Told(j)
      BY <3>1 DEF TimeInv, Recorded
    <3> QED
      BY <1>1, <3>1, <3>2 DEF Told
  <2> QED
    BY <2>1, <2>2
<1>9. Recorded'
  BY <1>8 DEF Recorded
<1> QED
  BY <1>4, <1>7, <1>9 DEF TimeInv

\* Every step keeps TimeInv.
LEMMA TimeNext == Inv /\ TimeInv /\ [Next]_vars => TimeInv'
<1> SUFFICES ASSUME Inv, TimeInv, [Next]_vars PROVE TimeInv'
  OBVIOUS
<1>0. w' = w /\ Requests' = Requests /\ now \in Nat
      /\ \A i \in Requests : i \in Nat /\ Due(w, i) \in Nat
  <2>1. w' = w
    BY DEF Next, Submit, RequestStep, Take, TurnAway, Respond, Refuse, Break,
       ReadLine, Finish, TimeOut, End, Tick, Summarise, Ended, vars
  <2>2. now \in Nat
    BY DEF Inv, Types
  <2> QED
    BY <2>1, <2>2, DueType DEF Requests, TimeInv, TimeTypes
<1>00. EntryTyped'
  BY <1>0 DEF TimeInv, TimeTypes, EntryTyped
<1>1. CASE Submit
  <2>1. submitted \in Requests /\ now >= Due(w, submitted)
        /\ submitted' = submitted + 1
        /\ state' = [state EXCEPT ![submitted] = "queued"]
        /\ UNCHANGED <<now, started, texts, ttft, record>>
    BY <1>1 DEF Submit
  <2>2. TimeTypes'
    BY <1>0, <1>00, <2>1 DEF TimeInv, TimeTypes
  <2>3. Clocked'
    BY <1>0, <2>1 DEF TimeInv, Clocked
  <2>4. \A i \in Requests : state'[i] = "done" => state[i] = "done"
    BY <2>1 DEF Inv, Types
  <2>5. Recorded'
    BY <1>0, <2>1, <2>4 DEF TimeInv, Recorded, Told
  <2> QED
    BY <2>2, <2>3, <2>5 DEF TimeInv
<1>2. ASSUME NEW i \in Requests, Take(i)
      PROVE  TimeInv'
  <2>1. /\ i \in In("queued")
        /\ started' = [started EXCEPT ![i] = now]
        /\ state' = [state EXCEPT ![i] = "sending"]
        /\ UNCHANGED <<submitted, now, texts, ttft, record>>
    BY <1>2 DEF Take
  <2>2. TimeTypes'
    BY <1>0, <1>00, <2>1 DEF TimeInv, TimeTypes
  <2>3. Due(w, i) <= now /\ ttft[i] = None
    <3>1. state[i] = "queued" /\ i \in Nat /\ submitted \in Nat
      BY <1>0, <2>1 DEF In, Inv, Types
    <3>2. i < submitted /\ started[i] = None
      BY <3>1 DEF Inv, InTurn
    <3> QED
      BY <3>2 DEF TimeInv, Clocked
  <2>4. \A j \in Requests : started'[j] = IF j = i THEN now ELSE started[j]
    BY <2>1 DEF Inv, Types
  <2>5. Clocked'
    <3>1. \A j \in Requests : j < submitted' => Due(w, j) <= now'
      BY <2>1 DEF TimeInv, Clocked
    <3>2. \A j \in Requests :
            started'[j] # None => Due(w, j) <= started'[j] /\ started'[j] <= now'
      BY <1>0, <2>1, <2>3, <2>4 DEF TimeInv, Clocked
    <3>3. \A j \in Requests : ttft'[j] = None <=> texts'[j] = 0
      BY <2>1 DEF TimeInv, Clocked
    <3>4. \A j \in Requests :
            ttft'[j] # None => started'[j] # None /\ ttft'[j] <= now' - started'[j]
      BY <2>1, <2>3, <2>4 DEF TimeInv, Clocked
    <3> QED
      BY <1>0, <3>1, <3>2, <3>3, <3>4 DEF Clocked
  <2>6. \A j \in Requests :
          state'[j] = "done" => state[j] = "done" /\ started'[j] = started[j]
    BY <2>1, <2>4 DEF Inv, Types, In
  <2>7. Recorded'
    BY <1>0, <2>1, <2>6 DEF TimeInv, Recorded, Told
  <2> QED
    BY <2>2, <2>5, <2>7 DEF TimeInv
<1>3. ASSUME NEW i \in Requests, TurnAway(i)
      PROVE  TimeInv'
  <2>1. /\ i \in In("queued")
        /\ started' = [started EXCEPT ![i] = now]
        /\ End(i, Record(i, "admission_rejected", now, 0))
    BY <1>3 DEF TurnAway, AdmissionRecord
  <2>2. Due(w, i) <= now /\ now # None
    <3>1. state[i] = "queued" /\ i \in Nat /\ submitted \in Nat
      BY <1>0, <2>1 DEF In, Inv, Types
    <3>2. i < submitted
      BY <3>1 DEF Inv, InTurn
    <3> QED
      BY <1>0, <3>2 DEF TimeInv, Clocked, None
  <2>3. now \in Int /\ now <= now /\ "admission_rejected" # "none"
    BY <1>0
  <2> DEFINE type == "admission_rejected"
  <2> HIDE DEF type
  <2>4. type # "none" /\ End(i, Record(i, type, now, 0))
    BY <2>1, <2>3 DEF type
  <2> QED
    BY <1>0, <2>1, <2>2, <2>3, <2>4, EndTells
<1>4. ASSUME NEW i \in Requests, Refuse(i) \/ Break(i) \/ Finish(i) \/ TimeOut(i)
      PROVE  TimeInv'
  <2>1. /\ state[i] \in {"sending", "streaming"}
        /\ UNCHANGED started
        /\ \/ End(i, Record(i, "none", started[i], texts[i]))
           \/ \E markers, status :
                End(i, Record(i, ClassifyError(markers, status), started[i], 0))
    BY <1>4 DEF Refuse, Break, Finish, TimeOut, In, Active, FailureRecord,
                SuccessRecord
  <2>2. /\ started[i] # None /\ Due(w, i) <= started[i] /\ started[i] <= now
        /\ started[i] \in Int /\ started' = [started EXCEPT ![i] = started[i]]
        /\ texts[i] \in Nat
    BY <2>1 DEF Inv, Types, InTurn, TimeInv, TimeTypes, Clocked
  <2>3. \A markers, status : ClassifyError(markers, status) # "none"
    BY DEF ClassifyError
  <2> HIDE DEF ClassifyError
  <2>4. ASSUME End(i, Record(i, "none", started[i], texts[i]))
        PROVE  TimeInv'
    BY <1>0, <2>2, <2>4, EndTells
  <2>5. ASSUME NEW markers, NEW status,
               End(i, Record(i, ClassifyError(markers, status), started[i], 0))
        PROVE  TimeInv'
    BY <1>0, <2>2, <2>3, <2>5, EndTells
  <2> QED
    BY <2>1, <2>4, <2>5
<1>5. ASSUME NEW i \in Requests, Respond(i)
      PROVE  TimeInv'
  <2>1. /\ state' = [state EXCEPT ![i] = "streaming"]
        /\ UNCHANGED <<submitted, now, started, texts, ttft, record>>
    BY <1>5 DEF Respond
  <2>2. TimeTypes' /\ Clocked'
    BY <1>0, <1>00, <2>1 DEF TimeInv, TimeTypes, Clocked
  <2>3. \A j \in Requests : state'[j] = "done" => state[j] = "done"
    BY <2>1 DEF Inv, Types
  <2>4. Recorded'
    BY <1>0, <2>1, <2>3 DEF TimeInv, Recorded, Told
  <2> QED
    BY <2>2, <2>4 DEF TimeInv
<1>6. ASSUME NEW i \in Requests, ReadLine(i)
      PROVE  TimeInv'
  <2>1. /\ i \in In("streaming")
        /\ UNCHANGED <<submitted, now, started, state, record>>
        /\ \/ UNCHANGED <<texts, ttft>>
           \/ /\ texts' = [texts EXCEPT ![i] = @ + 1]
              /\ ttft' = [ttft EXCEPT ![i] = IF @ = None THEN now - started[i] ELSE @]
    BY <1>6 DEF ReadLine
  <2>2. /\ started[i] # None /\ started[i] <= now /\ started[i] \in Int
    BY <2>1 DEF In, Inv, Types, InTurn, TimeInv, Clocked
  <2>3. now - started[i] \in Nat /\ now - started[i] # None
    BY <1>0, <2>2 DEF None
  <2>4. TimeTypes'
    <3>1. texts' \in [Requests -> Nat]
      BY <2>1 DEF TimeInv, TimeTypes
    <3>2. ttft' \in [Requests -> Int]
      BY <2>1, <2>3 DEF TimeInv, TimeTypes
    <3> QED
      BY <1>0, <1>00, <2>1, <3>1, <3>2 DEF TimeInv, TimeTypes
  <2>5. \A j \in Requests : ttft'[j] = None <=> texts'[j] = 0
    <3>1. CASE UNCHANGED <<texts, ttft>>
      BY <3>1 DEF TimeInv, Clocked
    <3>2. CASE /\ texts' = [texts EXCEPT ![i] = @ + 1]
               /\ ttft' = [ttft EXCEPT ![i] = IF @ = None THEN now - started[i] ELSE @]
      <4>1. texts'[i] # 0 /\ ttft'[i] # None
        BY <2>3, <3>2 DEF TimeInv, TimeTypes
      <4>2. \A j \in Requests : j # i => texts'[j] = texts[j] /\ ttft'[j] = ttft[j]
        BY <3>2 DEF TimeInv, TimeTypes
      <4> QED
        BY <4>1, <4>2 DEF TimeInv, Clocked
    <3> QED
      BY <2>1, <3>1, <3>2
  <2>6. \A j \in Requests : ttft'[j] = ttft[j] \/ (j = i /\ ttft'[j] = now - started[i])
    BY <2>1 DEF TimeInv, TimeTypes
  <2>7. \A j \in Requests :
          ttft'[j] # None => started'[j] # None /\ ttft'[j] <= now' - started'[j]
    BY <2>1, <2>2, <2>3, <2>6 DEF TimeInv, Clocked
  <2>8. Clocked'
    BY <1>0, <2>1, <2>5, <2>7 DEF TimeInv, Clocked
  <2>9. Recorded'
    BY <1>0, <2>1 DEF TimeInv, Recorded, Told
  <2> QED
    BY <2>4, <2>8, <2>9 DEF TimeInv
<1>7. CASE Tick
  <2>1. now' = now + 1 /\ UNCHANGED <<submitted, state, started, texts, ttft, record>>
    BY <1>7 DEF Tick
  <2>2. \A i \in Requests : started[i] \in Int /\ ttft[i] \in Int
    BY DEF Inv, Types, TimeInv, TimeTypes
  <2>3. TimeTypes'
    BY <1>0, <1>00, <2>1 DEF TimeInv, TimeTypes
  <2>4. Clocked'
    BY <1>0, <2>1, <2>2 DEF TimeInv, Clocked
  <2>5. ASSUME NEW i \in Requests, Told(i) PROVE Told(i)'
    <3>1. \A x, y : x \in Int /\ y \in Nat /\ x + y <= now => x + y <= now + 1
      BY <1>0
    <3>2. started[i] + record[i].latency <= now + 1
      BY <2>2, <2>5, <3>1 DEF Told
    <3> QED
      BY <1>0, <2>1, <2>5, <3>2 DEF Told
  <2>6. Recorded'
    BY <1>0, <2>1, <2>5 DEF TimeInv, Recorded
  <2> QED
    BY <2>3, <2>4, <2>6 DEF TimeInv
<1>8. CASE Summarise \/ Ended \/ UNCHANGED vars
  <2>1. UNCHANGED <<now, submitted, state, started, texts, ttft, record>>
    BY <1>8 DEF Summarise, Ended, vars
  <2>2. TimeTypes' /\ Clocked'
    BY <1>0, <1>00, <2>1 DEF TimeInv, TimeTypes, Clocked
  <2>3. Recorded'
    BY <1>0, <2>1 DEF TimeInv, Recorded, Told
  <2> QED
    BY <2>2, <2>3 DEF TimeInv
<1> QED
  BY <1>1, <1>2, <1>3, <1>4, <1>5, <1>6, <1>7, <1>8 DEF Next, RequestStep

\* TimingsAddUp holds in every state, whatever workload of the file runs: the
\* times execute_request and the load generator write into a record fit together.
THEOREM TimingsCorrect == Spec => []TimingsAddUp
<1>1. Inv /\ TimeInv => TimingsAddUp
  <2> SUFFICES ASSUME Inv, TimeInv, Done, NEW i \in Requests
               PROVE  LET r == record[i] IN
                      /\ OpenLoop(w) =>
                           /\ r.scheduled_latency = r.delay + r.latency
                           /\ r.delay = r.start - r.scheduled_offset
                      /\ r.success =>
                           /\ r.ttft <= r.latency
                           /\ r.ttft = None <=> r.output_tokens = 0
    BY DEF TimingsAddUp
  <2>1. Told(i)
    BY DEF TimeInv, Recorded, Done, In
  <2> QED
    BY <2>1 DEF Told
<1> QED
  BY <1>1, InvInit, InvNext, TimeInit, TimeNext, PTL DEF Spec

-----------------------------------------------------------------------------
(* Busy threads *)

\* Request j holds a thread during tick t.
Busy(j, t) ==
  /\ started[j] # None /\ started[j] <= t
  /\ state[j] = "done" => t < started[j] + record[j].latency

BusyBefore(i, t) == {j \in 0..(i - 1) : Busy(j, t)}

\* Until when request i has been waiting.
Waited(i) == IF started[i] = None THEN now ELSE started[i]

PoolBound == Cardinality(Active) <= InFlightLimit(w)

Blamed ==
  \A i \in Requests : \A t \in (Due(w, i) + MaxLag)..(Waited(i) - 1) :
    InFlightLimit(w) = Cardinality(BusyBefore(i, t))

PoolInv == PoolBound /\ Blamed

\* The requests on the wire are finitely many.
LEMMA ActiveFinite ==
  ASSUME Types
  PROVE  IsFiniteSet(Active) /\ Cardinality(Active) \in Nat
<1>1. IsFiniteSet(Requests)
  BY CountType, FS_Interval DEF Requests
<1>2. IsFiniteSet(Active)
  BY <1>1, FS_Subset DEF Active, In
<1> QED
  BY <1>2, FS_CardinalityType

\* PoolInv holds at first.
LEMMA PoolInit == Init => PoolInv
<1> SUFFICES ASSUME Init PROVE PoolInv
  OBVIOUS
<1>1. Inv /\ TimeInv
  BY InvInit, TimeInit
<1>2. PoolBound
  <2>1. Active = {}
    BY DEF Init, Active, In
  <2>2. InFlightLimit(w) \in Nat
    BY <1>1, LimitType DEF TimeInv, TimeTypes
  <2> QED
    BY <2>1, <2>2, FS_EmptySet DEF PoolBound
<1>3. Blamed
  <2> SUFFICES ASSUME NEW i \in Requests
               PROVE  (Due(w, i) + MaxLag)..(Waited(i) - 1) = {}
    BY DEF Blamed
  <2>1. Waited(i) = 0
    BY DEF Init, Waited
  <2>2. Due(w, i) + MaxLag \in Nat
    BY <1>1, DueType, TimesAssumption DEF TimeInv, TimeTypes
  <2> QED
    BY <2>1, <2>2
<1> QED
  BY <1>2, <1>3 DEF PoolInv

\* A request is taken only by a free thread of the pool.
LEMMA PoolBoundNext == Inv /\ TimeInv /\ PoolInv /\ [Next]_vars => PoolBound'
<1> SUFFICES ASSUME Inv, TimeInv, PoolInv, [Next]_vars PROVE PoolBound'
  OBVIOUS
<1>0. w' = w /\ Requests' = Requests
  BY DEF Next, Submit, RequestStep, Take, TurnAway, Respond, Refuse, Break,
     ReadLine, Finish, TimeOut, End, Tick, Summarise, Ended, vars, Requests
<1>1. InFlightLimit(w) \in Nat
  BY LimitType DEF TimeInv, TimeTypes
<1>2. IsFiniteSet(Active) /\ Cardinality(Active) \in Nat
  BY ActiveFinite DEF Inv
<1>3. ASSUME Active' \subseteq Active PROVE PoolBound'
  <2>1. Cardinality(Active') <= Cardinality(Active) /\ Cardinality(Active') \in Nat
    BY <1>2, <1>3, FS_Subset, FS_CardinalityType
  <2> QED
    BY <1>0, <1>1, <1>2, <2>1 DEF PoolInv, PoolBound
<1>4. CASE Submit
  <2>1. state' = [state EXCEPT ![submitted] = "queued"]
    BY <1>4 DEF Submit
  <2> QED
    BY <1>0, <1>3, <2>1 DEF Active, In, Inv, Types
<1>5. ASSUME NEW i \in Requests, Take(i) PROVE PoolBound'
  <2>1. ThreadFree /\ i \in In("queued") /\ state' = [state EXCEPT ![i] = "sending"]
    BY <1>5 DEF Take
  <2>2. Active' = Active \cup {i}
    BY <1>0, <2>1 DEF Active, In, Inv, Types
  <2>3. i \notin Active
    BY <2>1 DEF Active, In
  <2>4. Cardinality(Active') = Cardinality(Active) + 1
    BY <1>2, <2>2, <2>3, FS_AddElement
  <2> QED
    BY <1>0, <1>1, <1>2, <2>1, <2>4 DEF ThreadFree, PoolBound
<1>6. ASSUME NEW i \in Requests,
             TurnAway(i) \/ Refuse(i) \/ Break(i) \/ Finish(i) \/ TimeOut(i)
      PROVE  PoolBound'
  <2>1. state' = [state EXCEPT ![i] = "done"]
    BY <1>6 DEF TurnAway, Refuse, Break, Finish, TimeOut, End
  <2> QED
    BY <1>0, <1>3, <2>1 DEF Active, In, Inv, Types
<1>7. ASSUME NEW i \in Requests, Respond(i) \/ ReadLine(i) PROVE PoolBound'
  <2>1. i \in Active /\ state' = [state EXCEPT ![i] = "streaming"]
    BY <1>7 DEF Respond, ReadLine, Active, In, Inv, Types
  <2> QED
    BY <1>0, <1>3, <2>1 DEF Active, In, Inv, Types
<1>8. CASE Tick \/ Summarise \/ Ended \/ UNCHANGED vars
  <2>1. state' = state
    BY <1>8 DEF Tick, Summarise, Ended, vars
  <2> QED
    BY <1>0, <1>3, <2>1 DEF Active, In
<1> QED
  BY <1>4, <1>5, <1>6, <1>7, <1>8 DEF Next, RequestStep

\* No step changes who was busy in a tick that is over.
LEMMA PastIsFixed ==
  ASSUME Inv, TimeInv, [Next]_vars, NEW t \in Int, t < now, NEW j \in Requests
  PROVE  Busy(j, t)' <=> Busy(j, t)
<1>0. now \in Nat /\ started[j] \in Int
  BY DEF Inv, Types
<1>1. ASSUME NEW i \in Requests, Take(i) \/ TurnAway(i)
      PROVE  Busy(j, t)' <=> Busy(j, t)
  <2>1. /\ state[i] = "queued"
        /\ started' = [started EXCEPT ![i] = now]
        /\ \E s, row : /\ state' = [state EXCEPT ![i] = s]
                       /\ record' = [record EXCEPT ![i] = row]
    <3>1. CASE Take(i)
      <4>1. record' = [record EXCEPT ![i] = record[i]]
        BY <3>1 DEF Take, TimeInv, TimeTypes
      <4> QED
        BY <3>1, <4>1 DEF Take, In
    <3>2. CASE TurnAway(i)
      BY <3>2 DEF TurnAway, End, In
    <3> QED
      BY <1>1, <3>1, <3>2
  <2>2. CASE j = i
    <3>1. started[j] = None /\ started'[j] = now
      BY <2>1, <2>2 DEF Inv, Types, InTurn
    <3>2. ~ now <= t
      BY <1>0
    <3> QED
      BY <3>1, <3>2 DEF Busy
  <2>3. CASE j # i
    <3>1. started'[j] = started[j] /\ state'[j] = state[j] /\ record'[j] = record[j]
      BY <2>1, <2>3 DEF Inv, Types, TimeInv, TimeTypes
    <3> QED
      BY <3>1 DEF Busy
  <2> QED
    BY <2>2, <2>3
<1>2. ASSUME NEW i \in Requests, Refuse(i) \/ Break(i) \/ Finish(i) \/ TimeOut(i)
      PROVE  Busy(j, t)' <=> Busy(j, t)
  <2>1. /\ state[i] \in {"sending", "streaming"} /\ UNCHANGED started
        /\ \E type, tokens : End(i, Record(i, type, started[i], tokens))
    BY <1>2 DEF Refuse, Break, Finish, TimeOut, In, Active, FailureRecord,
                SuccessRecord
  <2>2. PICK type, tokens : End(i, Record(i, type, started[i], tokens))
    BY <2>1
  <2> DEFINE row == Record(i, type, started[i], tokens)
  <2>3. row.latency = now - started[i]
    BY DEF Record
  <2>4. state' = [state EXCEPT ![i] = "done"] /\ record' = [record EXCEPT ![i] = row]
    BY <2>2 DEF End
  <2> HIDE DEF row
  <2>5. CASE j = i
    <3>1. state'[j] = "done" /\ record'[j].latency = now - started[j]
      BY <2>3, <2>4, <2>5 DEF Inv, Types, TimeInv, TimeTypes
    <3>2. state[j] # "done" /\ started'[j] = started[j]
      BY <2>1, <2>5
    <3>3. t < started[j] + (now - started[j])
      BY <1>0
    <3> QED
      BY <3>1, <3>2, <3>3 DEF Busy
  <2>6. CASE j # i
    <3>1. started'[j] = started[j] /\ state'[j] = state[j] /\ record'[j] = record[j]
      BY <2>1, <2>4, <2>6 DEF Inv, Types, TimeInv, TimeTypes
    <3> QED
      BY <3>1 DEF Busy
  <2> QED
    BY <2>5, <2>6
<1>3. ASSUME UNCHANGED <<started, record>>,
             \A i \in Requests : state'[i] = "done" <=> state[i] = "done"
      PROVE  Busy(j, t)' <=> Busy(j, t)
  BY <1>3 DEF Busy
<1>4. CASE Submit
  <2>1. /\ UNCHANGED <<started, record>>
        /\ submitted \in Requests /\ state' = [state EXCEPT ![submitted] = "queued"]
    BY <1>4 DEF Submit
  <2>2. state[submitted] = "planned"
    BY <2>1 DEF Inv, Types, InTurn
  <2>3. \A i \in Requests : state'[i] = "done" <=> state[i] = "done"
    BY <2>1, <2>2 DEF Inv, Types
  <2> QED
    BY <1>3, <2>1, <2>3
<1>5. ASSUME NEW i \in Requests, Respond(i) \/ ReadLine(i)
      PROVE  Busy(j, t)' <=> Busy(j, t)
  <2>1. /\ UNCHANGED <<started, record>>
        /\ state[i] \in {"sending", "streaming"}
        /\ state' = [state EXCEPT ![i] = "streaming"]
    BY <1>5 DEF Respond, ReadLine, In, Inv, Types
  <2>2. \A k \in Requests : state'[k] = "done" <=> state[k] = "done"
    BY <2>1 DEF Inv, Types
  <2> QED
    BY <1>3, <2>1, <2>2
<1>6. CASE Tick \/ Summarise \/ Ended \/ UNCHANGED vars
  <2>1. UNCHANGED <<started, record, state>>
    BY <1>6 DEF Tick, Summarise, Ended, vars
  <2> QED
    BY <1>3, <2>1
<1> QED
  BY <1>1, <1>2, <1>4, <1>5, <1>6 DEF Next, RequestStep

\* A tick that a request waits through although it could have started is one
\* in which the requests before it hold every thread.
LEMMA WaitBlamesPool ==
  ASSUME Inv, TimeInv, PoolInv, Tick, NEW i \in Requests,
         started[i] = None, Due(w, i) + MaxLag <= now
  PROVE  InFlightLimit(w) = Cardinality(BusyBefore(i, now))
<1>1. now \in Nat /\ submitted \in Nat /\ MaxLag \in Nat /\ w.request_count \in Nat
      /\ InFlightLimit(w) \in Nat /\ EntryTyped
  BY CountType, LimitType, TimesAssumption DEF Inv, Types, TimeInv, TimeTypes
<1>2. i \in Nat /\ i < w.request_count
  BY <1>1 DEF Requests
<1>3. i < submitted
  <2> SUFFICES ASSUME submitted <= i PROVE FALSE
    BY <1>1, <1>2
  <2>1. submitted \in Requests
    BY <1>1, <1>2 DEF Requests
  <2>2. now < Due(w, submitted) + MaxLag
    BY <2>1 DEF Tick
  <2>3. Due(w, submitted) <= Due(w, i) /\ Due(w, submitted) \in Nat /\ Due(w, i) \in Nat
    BY <1>1, <1>2, DueMonotonic
  <2> QED
    BY <1>1, <2>2, <2>3
<1>4. i \in In("queued")
  BY <1>1, <1>2, <1>3 DEF In, Inv, Types, InTurn, States
<1>5. Cardinality(Active) = InFlightLimit(w)
  <2>1. ~ThreadFree
    BY <1>4 DEF Tick
  <2>2. Cardinality(Active) \in Nat
    BY ActiveFinite DEF Inv
  <2> QED
    BY <1>1, <2>1, <2>2 DEF ThreadFree, PoolInv, PoolBound
<1>6. Active \subseteq BusyBefore(i, now)
  <2> SUFFICES ASSUME NEW j \in Active PROVE j \in BusyBefore(i, now)
    OBVIOUS
  <2>1. j \in Requests /\ state[j] \in {"sending", "streaming"}
    BY DEF Active, In
  <2>2. started[j] # None /\ started[j] <= now
    BY <2>1 DEF Inv, InTurn, TimeInv, Clocked
  <2>3. j \in Nat /\ ~ i < j /\ i # j
    BY <1>1, <2>1, <2>2 DEF Inv, InTurn, Requests
  <2>4. j \in 0..(i - 1)
    BY <1>2, <2>3
  <2> QED
    BY <2>1, <2>2, <2>4 DEF BusyBefore, Busy
<1>7. BusyBefore(i, now) \subseteq Active
  <2> SUFFICES ASSUME NEW j \in BusyBefore(i, now) PROVE j \in Active
    OBVIOUS
  <2>1. j \in Requests /\ Busy(j, now)
    BY <1>1, <1>2 DEF BusyBefore, Requests
  <2>2. state[j] # "done"
    <3> SUFFICES ASSUME state[j] = "done" PROVE FALSE
      OBVIOUS
    <3>1. Told(j) /\ started[j] \in Int
      BY <2>1 DEF TimeInv, Recorded, Inv, Types
    <3>2. record[j].latency \in Nat /\ started[j] + record[j].latency <= now
      BY <3>1 DEF Told
    <3>3. now < started[j] + record[j].latency
      BY <2>1 DEF Busy
    <3> QED
      BY <1>1, <3>1, <3>2, <3>3
  <2>3. state[j] \notin {"planned", "queued"}
    BY <2>1 DEF Busy, Inv, InTurn
  <2> QED
    BY <2>1, <2>2, <2>3 DEF Active, In, Inv, Types, States
<1>8. BusyBefore(i, now) = Active
  BY <1>6, <1>7
<1> QED
  BY <1>5, <1>8

\* A request that was due and was not sent waited for a pool that was full.
LEMMA BlamedNext == Inv /\ TimeInv /\ PoolInv /\ [Next]_vars => Blamed'
<1> SUFFICES ASSUME Inv, TimeInv, PoolInv, [Next]_vars PROVE Blamed'
  OBVIOUS
<1>0. w' = w /\ Requests' = Requests /\ now \in Nat
      /\ \A i \in Requests : i \in Nat /\ Due(w, i) \in Nat /\ started[i] \in Int
  <2>1. w' = w
    BY DEF Next, Submit, RequestStep, Take, TurnAway, Respond, Refuse, Break,
       ReadLine, Finish, TimeOut, End, Tick, Summarise, Ended, vars
  <2> QED
    BY <2>1, DueType DEF Inv, Types, Requests, TimeInv, TimeTypes
<1>1. \A i \in Requests, t \in Int : t < now => BusyBefore(i, t)' = BusyBefore(i, t)
  <2> SUFFICES ASSUME NEW i \in Requests, NEW t \in Int, t < now
               PROVE  BusyBefore(i, t)' = BusyBefore(i, t)
    OBVIOUS
  <2>1. 0..(i - 1) \subseteq Requests
    BY CountType DEF Requests, Inv
  <2>2. \A j \in 0..(i - 1) : Busy(j, t)' <=> Busy(j, t)
    BY <2>1, PastIsFixed
  <2> QED
    BY <2>2 DEF BusyBefore
<1>2. \A i \in Requests : Waited(i) \in Int /\ Waited(i) <= now
  BY <1>0 DEF Waited, TimeInv, Clocked
<1>3. ASSUME NEW i \in Requests, Waited(i)' = Waited(i),
             NEW t \in (Due(w, i) + MaxLag)..(Waited(i)' - 1)
      PROVE  InFlightLimit(w) = Cardinality(BusyBefore(i, t)')
  <2>1. t \in (Due(w, i) + MaxLag)..(Waited(i) - 1)
    BY <1>3
  <2>2. t \in Int /\ t < now
    BY <1>0, <1>2, <2>1
  <2>3. InFlightLimit(w) = Cardinality(BusyBefore(i, t))
    BY <2>1 DEF PoolInv, Blamed
  <2> QED
    BY <1>1, <2>2, <2>3
<1>4. CASE Tick
  <2>1. now' = now + 1 /\ UNCHANGED <<started, state, record>>
    BY <1>4 DEF Tick
  <2> SUFFICES ASSUME NEW i \in Requests,
                      NEW t \in (Due(w, i) + MaxLag)..(Waited(i)' - 1)
               PROVE  InFlightLimit(w) = Cardinality(BusyBefore(i, t)')
    BY <1>0 DEF Blamed
  <2>2. CASE started[i] # None
    BY <1>3, <2>1, <2>2 DEF Waited
  <2>3. CASE started[i] = None
    <3>1. Waited(i)' = now + 1 /\ Waited(i) = now
      BY <2>1, <2>3 DEF Waited
    <3>2. Due(w, i) + MaxLag \in Int
      BY <1>0, TimesAssumption
    <3>3. t \in Int /\ Due(w, i) + MaxLag <= t /\ t <= now
      BY <1>0, <3>1, <3>2
    <3>4. CASE t = now
      <4>1. BusyBefore(i, t)' = BusyBefore(i, t)
        BY <2>1 DEF BusyBefore, Busy
      <4> QED
        BY <1>4, <2>3, <3>3, <3>4, <4>1, WaitBlamesPool
    <3>5. CASE t # now
      <4>1. t \in (Due(w, i) + MaxLag)..(Waited(i) - 1) /\ t < now
        BY <1>0, <3>1, <3>2, <3>3, <3>5
      <4>2. InFlightLimit(w) = Cardinality(BusyBefore(i, t))
        BY <4>1 DEF PoolInv, Blamed
      <4> QED
        BY <1>1, <3>3, <4>1, <4>2
    <3> QED
      BY <3>4, <3>5
  <2> QED
    BY <2>2, <2>3
<1>5. CASE ~Tick
  <2>1. \A i \in Requests : Waited(i)' = Waited(i)
    <3>1. now' = now
      BY <1>5
         DEF Next, Submit, RequestStep, Take, TurnAway, Respond, Refuse, Break,
         ReadLine, Finish, TimeOut, End, Summarise, Ended, vars
    <3>2. CASE \E i \in Requests : Take(i) \/ TurnAway(i)
      <4>1. PICK i \in Requests : Take(i) \/ TurnAway(i)
        BY <3>2
      <4>2. started' = [started EXCEPT ![i] = now] /\ state[i] = "queued"
        BY <4>1 DEF Take, TurnAway, In
      <4>3. started[i] = None /\ now # None
        BY <1>0, <4>2 DEF Inv, InTurn, None
      <4>4. \A j \in Requests : started'[j] = IF j = i THEN now ELSE started[j]
        BY <4>2 DEF Inv, Types
      <4> QED
        BY <3>1, <4>3, <4>4 DEF Waited
    <3>3. CASE ~ \E i \in Requests : Take(i) \/ TurnAway(i)
      <4>1. started' = started
        BY <1>5, <3>3 DEF Next, Submit, RequestStep, Respond, Refuse, Break,
           ReadLine, Finish, TimeOut, Summarise, Ended, vars
      <4> QED
        BY <3>1, <4>1 DEF Waited
    <3> QED
      BY <3>2, <3>3
  <2> SUFFICES ASSUME NEW i \in Requests,
                      NEW t \in (Due(w, i) + MaxLag)..(Waited(i)' - 1)
               PROVE  InFlightLimit(w) = Cardinality(BusyBefore(i, t)')
    BY <1>0 DEF Blamed
  <2> QED
    BY <1>3, <2>1
<1> QED
  BY <1>4, <1>5

\* DelayBlamesPool holds in every state: a delay before a request is on the
\* wire is only there while max_in_flight or concurrency of them were.
THEOREM DelaysCorrect == Spec => []DelayBlamesPool
<1>1. Inv /\ TimeInv /\ PoolInv => DelayBlamesPool
  <2> SUFFICES ASSUME Inv, TimeInv, PoolInv, Done, NEW i \in Requests,
                      record[i].delay > MaxLag,
                      NEW t \in (Due(w, i) + MaxLag)..(record[i].start - 1)
               PROVE  InFlightLimit(w) = Cardinality(
                        {j \in 0..(i - 1) :
                           started[j] <= t /\ t < started[j] + record[j].latency})
    BY DEF DelayBlamesPool
  <2>1. \A j \in Requests : state[j] = "done"
    BY DEF Done, In
  <2>2. record[i].start = started[i] /\ started[i] # None
    BY <2>1 DEF TimeInv, Recorded, Told, Inv, InTurn
  <2>3. Waited(i) = record[i].start
    BY <2>2 DEF Waited
  <2>4. InFlightLimit(w) = Cardinality(BusyBefore(i, t))
    BY <2>3 DEF PoolInv, Blamed
  <2>5. 0..(i - 1) \subseteq Requests
    BY CountType DEF Requests, Inv
  <2>6. \A j \in 0..(i - 1) : Busy(j, t) <=>
          started[j] <= t /\ t < started[j] + record[j].latency
    BY <2>1, <2>5 DEF Busy, Inv, InTurn
  <2> QED
    BY <2>4, <2>6 DEF BusyBefore
<1>2. Inv /\ TimeInv /\ PoolInv /\ [Next]_vars => PoolInv'
  BY PoolBoundNext, BlamedNext DEF PoolInv
<1> QED
  BY <1>1, <1>2, InvInit, InvNext, TimeInit, TimeNext, PoolInit, PTL DEF Spec

-----------------------------------------------------------------------------
(* The start rate *)

\* Requests start in order, and the summary is of the records that are there.
StartsInOrder ==
  \A i, j \in Requests : i < j /\ started[j] # None => started[i] <= started[j]

Summarised ==
  summary # NoSummary =>
    /\ Done
    /\ summary = SummarizeWorkload(w, RecordSequence, now, <<>>, <<>>, 1)

RateInv == StartsInOrder /\ Summarised

\* RateInv holds at first.
LEMMA RateInit == Init => RateInv
BY DEF Init, RateInv, StartsInOrder, Summarised

\* Requests start in the order they were planned in.
LEMMA StartsNext == Inv /\ TimeInv /\ StartsInOrder /\ [Next]_vars => StartsInOrder'
<1> SUFFICES ASSUME Inv, TimeInv, StartsInOrder, [Next]_vars PROVE StartsInOrder'
  OBVIOUS
<1>0. w' = w /\ Requests' = Requests /\ now \in Nat
  BY DEF Next, Submit, RequestStep, Take, TurnAway, Respond, Refuse, Break,
     ReadLine, Finish, TimeOut, End, Tick, Summarise, Ended, vars, Requests,
     Inv, Types
<1>1. CASE \E i \in Requests : Take(i) \/ TurnAway(i)
  <2>1. PICK i \in Requests : Take(i) \/ TurnAway(i)
    BY <1>1
  <2>2. started' = [started EXCEPT ![i] = now] /\ i \in In("queued") /\ i = Min(In("queued"))
    BY <2>1 DEF Take, TurnAway
  <2>3. \A j \in Requests : started[j] # None => j < i
    BY <2>2, NextToStart, StartedFirst DEF In
  <2>4. \A j \in Requests : started'[j] = IF j = i THEN now ELSE started[j]
    BY <2>2 DEF Inv, Types
  <2>5. \A j \in Requests : j \in Nat /\ started[j] <= now
    <3>1. \A j \in Requests : j \in Nat
      BY DueType DEF TimeInv, TimeTypes
    <3> QED
      BY <1>0, <3>1 DEF TimeInv, Clocked, None
  <2>6. ASSUME NEW j \in Requests, NEW k \in Requests, j < k, started'[k] # None
        PROVE  started'[j] <= started'[k]
    <3>1. CASE k = i
      BY <2>4, <2>5, <2>6, <3>1
    <3>2. CASE k # i
      <4>1. k < i /\ started'[k] = started[k]
        BY <2>3, <2>4, <2>6, <3>2
      <4>2. j # i
        BY <2>5, <2>6, <4>1
      <4> QED
        BY <2>4, <2>6, <4>1, <4>2 DEF StartsInOrder
    <3> QED
      BY <3>1, <3>2
  <2> QED
    BY <1>0, <2>6 DEF StartsInOrder
<1>2. CASE ~ \E i \in Requests : Take(i) \/ TurnAway(i)
  <2>1. started' = started
    BY <1>2 DEF Next, Submit, RequestStep, Respond, Refuse, Break,
       ReadLine, Finish, TimeOut, Tick, Summarise, Ended, vars
  <2> QED
    BY <1>0, <2>1 DEF StartsInOrder
<1> QED
  BY <1>1, <1>2

\* The summary is of the records as they are at the end.
LEMMA SummarisedNext == Inv /\ Summarised /\ [Next]_vars => Summarised'
<1> SUFFICES ASSUME Inv, Summarised, [Next]_vars PROVE Summarised'
  OBVIOUS
<1>0. w' = w
  BY DEF Next, Submit, RequestStep, Take, TurnAway, Respond, Refuse, Break,
     ReadLine, Finish, TimeOut, End, Tick, Summarise, Ended, vars
<1>1. CASE Summarise
  <2>1. Done /\ UNCHANGED <<state, record>>
        /\ summary' = SummarizeWorkload(w, RecordSequence, now, <<>>, <<>>, 1)
    BY <1>1 DEF Summarise
  <2>2. now' = now
    BY <1>1 DEF Summarise
  <2> QED
    BY <1>0, <2>1, <2>2 DEF Summarised, Done, In, Requests, RecordSequence
<1>2. CASE ~Summarise
  <2>1. summary' = summary
    BY <1>2
       DEF Next, Submit, RequestStep, Take, TurnAway, Respond, Refuse, Break,
       ReadLine, Finish, TimeOut, End, Tick, Ended, vars
  <2> SUFFICES ASSUME Done,
                      summary = SummarizeWorkload(w, RecordSequence, now, <<>>, <<>>, 1)
               PROVE  Summarised'
    BY <2>1 DEF Summarised
  <2>2. \A i \in Requests : state[i] = "done"
    BY DEF Done, In
  <2>3. ~ \E i \in Requests : RequestStep(i)
    BY <2>2
       DEF RequestStep, Take, TurnAway, Respond, Refuse, Break, ReadLine,
           Finish,
       TimeOut, In, Active
  <2>4. ~Submit
    BY <2>2 DEF Submit, Inv, Types, InTurn
  <2>5. UNCHANGED <<state, record, now>>
    BY <1>2, <2>3, <2>4 DEF Next, Tick, Ended, vars
  <2> QED
    BY <1>0, <2>1, <2>5 DEF Summarised, Done, In, Requests, RecordSequence
<1> QED
  BY <1>1, <1>2

\* The first and the last request are the first and the last to start.
LEMMA StartSpan ==
  ASSUME Inv, TimeInv, RateInv, Done
  PROVE  LET rows == RecordSequence
             n == w.request_count
             starts == Values(rows, DOMAIN rows, "start")
         IN  /\ Len(rows) = n /\ Cardinality(DOMAIN starts) = n
             /\ Max(Range(starts)) = started[n - 1]
             /\ Min(Range(starts)) = started[0]
<1> DEFINE rows == RecordSequence
           n == w.request_count
           present == {k \in DOMAIN rows : Given(rows[k].start)}
           starts == {rows[k].start : k \in present}
<1>1. n \in Nat /\ n >= 1
  BY CountType DEF Inv, TimeInv, TimeTypes, EntryTyped
<1>2. Len(rows) = n /\ DOMAIN rows = 1..n
  BY <1>1 DEF RecordSequence
<1>3. \A k \in 1..n : k - 1 \in Requests /\ rows[k] = record[k - 1]
  BY <1>1 DEF RecordSequence, Requests
<1>4. \A i \in Requests :
        record[i].start = started[i] /\ started[i] # None /\ started[i] \in Int
  BY DEF Done, In, Inv, Types, InTurn, TimeInv, Recorded, Told
<1> HIDE DEF rows
<1>5. \A k \in 1..n : rows[k].start = started[k - 1] /\ Given(rows[k].start)
  BY <1>3, <1>4 DEF Given
<1>6. present = 1..n
  BY <1>2, <1>5
<1>7. Cardinality(present) = n
  <2> HIDE DEF present, n
  <2>1. 1 \in Int /\ n \in Int
    BY <1>1
  <2>2. Cardinality(1..n) = n - 1 + 1
    BY <1>1, <2>1, FS_Interval
  <2> QED
    BY <1>1, <1>6, <2>2
<1>8. starts = {started[i] : i \in Requests}
  <2>1. \A x \in starts : x \in {started[i] : i \in Requests}
    BY <1>3, <1>5, <1>6
  <2>2. ASSUME NEW i \in Requests PROVE started[i] \in starts
    <3>1. i + 1 \in 1..n /\ (i + 1) - 1 = i
      BY <1>1 DEF Requests
    <3> QED
      BY <1>5, <1>6, <3>1
  <2> QED
    BY <2>1, <2>2
<1>9. 0 \in Requests /\ n - 1 \in Requests
  BY <1>1 DEF Requests
<1>10. \A i \in Requests : started[0] <= started[i] /\ started[i] <= started[n - 1]
  <2> SUFFICES ASSUME NEW i \in Requests
               PROVE  started[0] <= started[i] /\ started[i] <= started[n - 1]
    OBVIOUS
  <2>1. i \in Nat /\ i <= n - 1
    BY <1>1 DEF Requests
  <2>2. started[0] <= started[i]
    BY <1>4, <1>9, <2>1 DEF RateInv, StartsInOrder
  <2>3. started[i] <= started[n - 1]
    BY <1>1, <1>4, <1>9, <2>1 DEF RateInv, StartsInOrder
  <2> QED
    BY <2>2, <2>3
<1> HIDE DEF present, starts
<1>11. Max(starts) = started[n - 1]
  <2>1. started[n - 1] \in starts /\ \A x \in starts : x \in Int /\ started[n - 1] >= x
    BY <1>4, <1>8, <1>9, <1>10
  <2>2. \A x \in starts : (\A y \in starts : x >= y) => x = started[n - 1]
    BY <2>1
  <2> QED
    BY <2>1, <2>2 DEF Max
<1>12. Min(starts) = started[0]
  <2>1. started[0] \in starts /\ \A x \in starts : x \in Int /\ started[0] <= x
    BY <1>4, <1>8, <1>9, <1>10
  <2>2. \A x \in starts : (\A y \in starts : x <= y) => x = started[0]
    BY <2>1
  <2> QED
    BY <2>1, <2>2 DEF Min
<1>13. /\ DOMAIN Values(rows, DOMAIN rows, "start") = present
       /\ Range(Values(rows, DOMAIN rows, "start")) = starts
  BY DEF Values, Range, present, starts
<1> QED
  BY <1>2, <1>7, <1>11, <1>12, <1>13 DEF rows

\* What is left of n requests after full bursts, a full one if nothing is.
LEMMA LastBurst ==
  ASSUME NEW n \in Nat \ {0}, NEW b \in Nat \ {0}
  PROVE  LET final == IF n % b = 0 THEN b ELSE n % b
         IN  final \in Nat /\ ((n - 1) \div b) * b + final = n
<1> DEFINE q == n \div b
           r == n % b
           p == (n - 1) \div b
<1>1. q \in Nat /\ r \in Nat /\ p \in Nat
  OBVIOUS
<1>2. n = q * b + r /\ r < b
  OBVIOUS
<1>3. p * b <= n - 1 /\ n - 1 < (p + 1) * b
  OBVIOUS
<1> HIDE DEF q, r, p
<1>4. \A x, y \in Nat : x + 1 <= y => (x + 1) * b <= y * b
  <2> SUFFICES ASSUME NEW x \in Nat, NEW y \in Nat, x + 1 <= y
               PROVE  (x + 1) * b <= y * b
    OBVIOUS
  <2> QED
    BY ProductMonotonic
<1>5. /\ q * b \in Nat /\ p * b \in Nat
      /\ (q + 1) * b = q * b + b /\ (p + 1) * b = p * b + b
  BY <1>1
<1>6. CASE r = 0
  <2>1. ~ q + 1 <= p
    BY <1>1, <1>2, <1>3, <1>4, <1>5, <1>6
  <2>2. ~ p + 2 <= q
    <3> SUFFICES ASSUME p + 2 <= q PROVE FALSE
      OBVIOUS
    <3>1. (p + 1) + 1 \in Nat /\ ((p + 1) + 1) * b <= q * b
      BY <1>1, <1>4
    <3>2. ((p + 1) + 1) * b = p * b + b + b
      BY <1>1
    <3> QED
      BY <1>2, <1>3, <1>5, <1>6, <3>1, <3>2
  <2>3. q # p
    BY <1>2, <1>3, <1>5, <1>6
  <2>4. q = p + 1
    BY <1>1, <2>1, <2>2, <2>3
  <2> QED
    BY <1>1, <1>2, <1>5, <1>6, <2>4 DEF p, r
<1>7. CASE r # 0
  <2>1. ~ q + 1 <= p
    BY <1>1, <1>2, <1>3, <1>4, <1>5, <1>7
  <2>2. ~ p + 1 <= q
    BY <1>1, <1>2, <1>3, <1>4, <1>5, <1>7
  <2>3. q = p
    BY <1>1, <2>1, <2>2
  <2> QED
    BY <1>1, <1>2, <1>5, <1>7, <2>3 DEF p, r
<1> QED
  BY <1>6, <1>7

\* max of two numbers.
LEMMA LargerOfTwo ==
  ASSUME NEW a \in Int, NEW b \in Int
  PROVE  Max({a, b}) = IF a >= b THEN a ELSE b
<1>1. \A x \in {a, b} : (\A y \in {a, b} : x >= y) => x = IF a >= b THEN a ELSE b
  OBVIOUS
<1>2. \E x \in {a, b} : \A y \in {a, b} : x >= y
  OBVIOUS
<1> QED
  BY <1>1, <1>2 DEF Max

\* The achieved start rate never exceeds the target, and falls below it exactly
\* when the requests took longer to start than planned.  A burst size, where
\* one is given, has to be positive: validation lets 0 pass for a steady
\* workload, and the summary would divide by it.
THEOREM RateCorrect ==
  ASSUME \A run \in Entries : run.burst_size = None \/ run.burst_size > 0
  PROVE  Spec => []AchievedRateSound
<1>1. Inv /\ TimeInv /\ RateInv => AchievedRateSound
  <2> DEFINE n == w.request_count
             rate == summary.achieved_rate
             d == w.interval
             burst == IF Given(w.burst_size) THEN w.burst_size ELSE 1
             final == IF n % burst = 0 THEN burst ELSE n % burst
             span == started[n - 1] - started[0]
             planned == Due(w, n - 1)
             window == Max({span + final * d, n * d})
  <2> SUFFICES ASSUME Inv, TimeInv, RateInv, summary # NoSummary, OpenLoop(w), n > 1
               PROVE  /\ rate[1] * d <= rate[2]
                      /\ Bursty(w) \/ ~Given(w.burst_size) =>
                           (rate[1] * d < rate[2] <=> span > planned)
    BY DEF AchievedRateSound
  <2>1. /\ EntryTyped /\ n \in Nat \ {0} /\ d \in Nat \ {0}
    BY CountType, OpenTypes DEF Inv, TimeInv, TimeTypes
  <2>2. burst \in Nat \ {0}
    <3>1. w.burst_size \in Int /\ (w.burst_size = None \/ w.burst_size > 0)
      BY <2>1, EntriesAssumption DEF EntryTyped
    <3> QED
      BY <3>1 DEF Given
  <2>3. 0 \in Requests /\ n - 1 \in Requests /\ span \in Int
    BY <2>1 DEF Requests, Inv, Types
  <2>4. rate = Ratio(n, window)
    <3>1. Done /\ rate = AchievedRate(w, RecordSequence)
      BY DEF RateInv, Summarised, SummarizeWorkload
    <3> DEFINE starts == Values(RecordSequence, DOMAIN RecordSequence, "start")
    <3>2. /\ Len(RecordSequence) = n /\ Cardinality(DOMAIN starts) = n
          /\ Max(Range(starts)) = started[n - 1] /\ Min(Range(starts)) = started[0]
      BY <3>1, StartSpan
    <3>3. rate = Ratio(n, AchievedWindow(w, Range(starts), n))
      BY <3>1, <3>2 DEF AchievedRate
    <3> QED
      BY <3>2, <3>3 DEF AchievedWindow
  <2>5. /\ final \in Nat
        /\ ((n - 1) \div burst) * burst + final = n
    BY <2>1, <2>2, LastBurst
  <2>6. Bursty(w) \/ ~Given(w.burst_size) => planned = ((n - 1) \div burst) * burst * d
    <3>1. CASE Bursty(w)
      <4>1. w.burst_size >= 2
        BY <2>1, <3>1 DEF EntryTyped, ValidLoad, OpenLoop
      <4>2. burst = w.burst_size
        BY <2>2, <4>1 DEF Given, None
      <4> QED
        BY <3>1, <4>2 DEF Due, ScheduledOffset
    <3>2. CASE ~Bursty(w) /\ ~Given(w.burst_size)
      <4>1. burst = 1 /\ planned = (n - 1) * d
        BY <3>2 DEF Due, ScheduledOffset
      <4>2. (n - 1) \div 1 = n - 1 /\ (n - 1) * 1 = n - 1
        BY <2>1
      <4> QED
        BY <4>1, <4>2
    <3> QED
      BY <3>1, <3>2
  <2> DEFINE rest == ((n - 1) \div burst) * burst
  <2>7. rest \in Nat
    BY <2>1, <2>2
  <2> HIDE DEF n, d, burst, final, span, planned, rate
  <2>8. /\ n * d \in Nat /\ final * d \in Nat /\ rest * d \in Nat
        /\ n * d = rest * d + final * d
    <3>1. n = rest + final
      BY <2>5
    <3> HIDE DEF rest
    <3>2. (rest + final) * d = rest * d + final * d
      BY <2>1, <2>5, <2>7
    <3>3. rest * d \in Nat /\ final * d \in Nat
      BY <2>1, <2>5, <2>7
    <3> QED
      BY <2>1, <3>1, <3>2, <3>3
  <2>9. n * d > 0
    BY <2>1
  <2> DEFINE x == n * d
             y == final * d
             z == rest * d
  <2> HIDE DEF x, y, z
  <2>10. x \in Nat /\ y \in Nat /\ z \in Nat /\ x = z + y /\ x > 0
    BY <2>8, <2>9 DEF x, y, z
  <2>11. window = IF span + y >= x THEN span + y ELSE x
    BY <2>3, <2>10, LargerOfTwo DEF x, y
  <2>12. rate[1] * d = x /\ rate[2] = window
    <3>1. window > 0
      BY <2>3, <2>10, <2>11
    <3>2. rate = <<n, window>>
      BY <2>4, <3>1 DEF Ratio
    <3> QED
      BY <3>2 DEF x
  <2>13. x <= window /\ (x < window <=> span > z)
    BY <2>3, <2>10, <2>11
  <2>14. Bursty(w) \/ ~Given(w.burst_size) => planned = z
    BY <2>6 DEF z
  <2> QED
    BY <2>12, <2>13, <2>14
<1>2. Inv /\ TimeInv /\ RateInv /\ [Next]_vars => RateInv'
  BY StartsNext, SummarisedNext DEF RateInv
<1> QED
  BY <1>1, <1>2, InvInit, InvNext, TimeInit, TimeNext, RateInit, PTL DEF Spec

-----------------------------------------------------------------------------
(* Percentiles *)

UpTo(f, v) == {k \in DOMAIN f : f[k] <= v}
Below(f, v) == {k \in DOMAIN f : f[k] < v}

\* The value at a place of the sorted values.
LEMMA RankedIs ==
  ASSUME NEW D, IsFiniteSet(D), NEW f \in [D -> Nat],
         NEW n \in Nat \ {0}, n <= Cardinality(D)
  PROVE  /\ Ranked(f, n) \in Nat
         /\ Cardinality(Below(f, Ranked(f, n))) < n
         /\ n <= Cardinality(UpTo(f, Ranked(f, n)))
<1> DEFINE Good(v) == Cardinality(Below(f, v)) < n /\ Cardinality(UpTo(f, v)) >= n
           W == {v \in Nat : n <= Cardinality(UpTo(f, v))}
<1>1. \A v : /\ IsFiniteSet(UpTo(f, v)) /\ Cardinality(UpTo(f, v)) \in Nat
             /\ IsFiniteSet(Below(f, v)) /\ Cardinality(Below(f, v)) \in Nat
  <2>1. \A v : UpTo(f, v) \in SUBSET D /\ Below(f, v) \in SUBSET D
    BY DEF UpTo, Below
  <2> QED
    BY <2>1, FS_Subset, FS_CardinalityType
<1>2. W # {}
  <2>1. SumOver(f, D) \in Nat /\ \A k \in D : f[k] <= SumOver(f, D)
    BY SumNat
  <2>2. UpTo(f, SumOver(f, D)) = D
    BY <2>1 DEF UpTo
  <2> QED
    BY <2>1, <2>2
<1>3. PICK v \in W : \A u \in W : v <= u
  BY <1>2, LeastNatural
<1>4. Cardinality(Below(f, v)) < n
  <2>1. CASE v = 0
    <3>1. Below(f, v) = {}
      BY <2>1 DEF Below
    <3> QED
      BY <3>1, FS_EmptySet
  <2>2. CASE v # 0
    <3>1. v - 1 \in Nat /\ v - 1 \notin W
      BY <1>3, <2>2
    <3>2. Below(f, v) = UpTo(f, v - 1)
      BY <3>1 DEF Below, UpTo
    <3>3. ~ n <= Cardinality(UpTo(f, v - 1))
      BY <3>1
    <3> QED
      BY <1>1, <3>2, <3>3
  <2> QED
    BY <2>1, <2>2
<1>5. v \in Range(f)
  <2> SUFFICES ASSUME v \notin Range(f) PROVE FALSE
    OBVIOUS
  <2>1. \A k \in D : f[k] # v
    BY DEF Range
  <2>2. \A k \in D : f[k] <= v <=> f[k] < v
    BY <2>1
  <2>3. UpTo(f, v) = Below(f, v)
    BY <2>2 DEF UpTo, Below
  <2>4. n <= Cardinality(UpTo(f, v))
    OBVIOUS
  <2> QED
    BY <1>1, <1>4, <2>3, <2>4
<1>6. v \in Range(f) /\ Good(v)
  BY <1>1, <1>4, <1>5
<1>7. Ranked(f, n) = CHOOSE x \in Range(f) : Good(x)
  BY DEF Ranked, UpTo, Below
<1> HIDE DEF Good
<1>8. Ranked(f, n) \in Range(f) /\ Good(Ranked(f, n))
  BY <1>6, <1>7
<1>9. Ranked(f, n) \in Nat
  BY <1>8 DEF Range
<1> QED
  BY <1>1, <1>8, <1>9 DEF Good

\* Sorting keeps an order that holds at every place.
LEMMA RankedMonotonic ==
  ASSUME NEW D, IsFiniteSet(D), NEW f \in [D -> Nat], NEW g \in [D -> Nat],
         \A k \in D : f[k] <= g[k],
         NEW m \in Nat \ {0}, NEW n \in Nat \ {0}, m <= n, n <= Cardinality(D)
  PROVE  Ranked(f, m) <= Ranked(g, n)
<1> DEFINE v == Ranked(f, m)
           u == Ranked(g, n)
<1>0. Cardinality(D) \in Nat
  BY FS_CardinalityType
<1>1. v \in Nat /\ Cardinality(Below(f, v)) < m
  BY <1>0, RankedIs
<1>2. u \in Nat /\ n <= Cardinality(UpTo(g, u))
  BY RankedIs
<1> HIDE DEF v, u
<1>3. ~ u < v
  <2> SUFFICES ASSUME u < v PROVE FALSE
    OBVIOUS
  <2>1. UpTo(g, u) \in SUBSET Below(f, v) /\ Below(f, v) \in SUBSET D
    BY <1>1, <1>2 DEF UpTo, Below
  <2>2. IsFiniteSet(Below(f, v)) /\ Cardinality(Below(f, v)) \in Nat
    BY <2>1, FS_Subset, FS_CardinalityType
  <2>3. Cardinality(UpTo(g, u)) <= Cardinality(Below(f, v))
        /\ IsFiniteSet(UpTo(g, u))
    BY <2>1, <2>2, FS_Subset
  <2>4. Cardinality(UpTo(g, u)) \in Nat
    BY <2>3, FS_CardinalityType
  <2> QED
    BY <1>1, <1>2, <2>2, <2>3, <2>4
<1>4. v <= u
  BY <1>1, <1>2, <1>3
<1> QED
  BY <1>4 DEF v, u

\* An interpolation lies between its ends.
LEMMA Interpolation ==
  ASSUME NEW a \in Nat, NEW b \in Nat, a <= b, NEW k \in 0..100
  PROVE  /\ a * (100 - k) + b * k \in Nat
         /\ a * 100 <= a * (100 - k) + b * k
         /\ a * (100 - k) + b * k <= b * 100
<1>1. k \in Nat /\ 100 - k \in Nat
  OBVIOUS
<1>2. a * k \in Nat /\ b * k \in Nat /\ a * k <= b * k
  BY <1>1, ProductMonotonic
<1>3. /\ a * (100 - k) \in Nat /\ b * (100 - k) \in Nat
      /\ a * (100 - k) <= b * (100 - k)
  BY <1>1, ProductMonotonic
<1>4. a * (100 - k) = a * 100 - a * k /\ b * (100 - k) = b * 100 - b * k
  BY <1>1
<1> QED
  BY <1>2, <1>3, <1>4

\* So does interpolating between two places, and going further between them.
LEMMA InterpolationMonotonic ==
  ASSUME NEW a \in Nat, NEW b \in Nat, NEW c \in Nat, NEW d \in Nat,
         a <= c, b <= d, c <= d, NEW k \in 0..100, NEW l \in 0..100, k <= l
  PROVE  a * (100 - k) + b * k <= c * (100 - l) + d * l
<1>1. k \in Nat /\ 100 - k \in Nat /\ l \in Nat
  OBVIOUS
<1>2. a * (100 - k) \in Nat /\ a * (100 - k) <= c * (100 - k)
      /\ c * (100 - k) \in Nat
  BY <1>1, ProductMonotonic
<1>3. b * k \in Nat /\ d * k \in Nat /\ b * k <= d * k
  BY <1>1, ProductMonotonic
<1>4. c * (100 - k) + d * k <= c * (100 - l) + d * l
  <2> DEFINE e == d - c
  <2>1. e \in Nat /\ d = c + e
    OBVIOUS
  <2> HIDE DEF e
  <2>2. k * e \in Nat /\ l * e \in Nat /\ k * e <= l * e
    BY <1>1, <2>1, ProductMonotonic
  <2>3. c * (100 - k) + (c + e) * k = c * 100 + k * e
    BY <1>1, <2>1
  <2>4. c * (100 - l) + (c + e) * l = c * 100 + l * e
    BY <1>1, <2>1
  <2>5. c * 100 \in Nat
    OBVIOUS
  <2> QED
    BY <2>1, <2>2, <2>3, <2>4, <2>5
<1>5. c * (100 - l) + d * l \in Int
  BY <1>1
<1> QED
  BY <1>2, <1>3, <1>4, <1>5

\* Where a percentile lies in n values.
Lower(n, q) == ((n - 1) * q) \div 100
Weight(n, q) == ((n - 1) * q) % 100

\* What percentile returns for values that are not none.
LEMMA PercentileIs ==
  ASSUME NEW D, D # {}, NEW h \in [D -> Nat], NEW q
  PROVE  Percentile(h, q) =
           LET i == Lower(Cardinality(D), q)
               k == Weight(Cardinality(D), q)
           IN  IF k = 0 THEN Ranked(h, i + 1) * 100
               ELSE Ranked(h, i + 1) * (100 - k) + Ranked(h, i + 2) * k
<1>1. DOMAIN h = D
  OBVIOUS
<1> QED
  BY <1>1 DEF Percentile, Lower, Weight

\* The place a percentile falls on is inside the sorted values.
LEMMA Position ==
  ASSUME NEW n \in Nat \ {0}, NEW q \in 0..100
  PROVE  /\ (n - 1) * q \in Nat /\ Lower(n, q) \in Nat /\ Weight(n, q) \in 0..99
         /\ (n - 1) * q = Lower(n, q) * 100 + Weight(n, q)
         /\ Lower(n, q) + 1 <= n
         /\ Weight(n, q) # 0 => Lower(n, q) + 2 <= n
<1> DEFINE pos == (n - 1) * q
           lower == Lower(n, q)
           weight == Weight(n, q)
<1>1. pos \in Nat /\ pos <= (n - 1) * 100
  <2>1. q \in Nat /\ n - 1 \in Nat /\ q <= 100
    OBVIOUS
  <2>2. q * (n - 1) <= 100 * (n - 1) /\ q * (n - 1) \in Nat
    BY <2>1, ProductMonotonic
  <2>3. q * (n - 1) = (n - 1) * q /\ 100 * (n - 1) = (n - 1) * 100
    BY <2>1
  <2> QED
    BY <2>2, <2>3
<1>2. lower = pos \div 100 /\ weight = pos % 100
  BY DEF Lower, Weight
<1> HIDE DEF pos, lower, weight
<1>3. lower \in Nat /\ weight \in 0..99 /\ pos = lower * 100 + weight
  BY <1>1, <1>2
<1>4. lower + 1 <= n /\ (weight # 0 => lower + 2 <= n)
  BY <1>1, <1>3
<1> QED
  BY <1>1, <1>3, <1>4 DEF pos, lower, weight

\* Percentiles grow with the values and with the share asked for.
LEMMA PercentileMonotonic ==
  ASSUME NEW D, IsFiniteSet(D), NEW f \in [D -> Nat], NEW g \in [D -> Nat],
         \A k \in D : f[k] <= g[k],
         NEW p \in 0..100, NEW q \in 0..100, p <= q
  PROVE  Percentile(f, p) <= Percentile(g, q)
<1> DEFINE n == Cardinality(D)
           i == Lower(n, p)
           k == Weight(n, p)
           j == Lower(n, q)
           l == Weight(n, q)
           R(h, m) == Ranked(h, m)
           Left == IF k = 0 THEN R(f, i + 1) * 100
                   ELSE R(f, i + 1) * (100 - k) + R(f, i + 2) * k
           Right == IF l = 0 THEN R(g, j + 1) * 100
                    ELSE R(g, j + 1) * (100 - l) + R(g, j + 2) * l
<1>1. CASE D = {}
  BY <1>1 DEF Percentile, None
<1>2. CASE D # {}
  <2>1. n \in Nat \ {0}
    BY <1>2, FS_CardinalityType, FS_EmptySet
  <2>2. Percentile(f, p) = Left /\ Percentile(g, q) = Right
    BY <1>2, PercentileIs
  <2> HIDE DEF n
  <2>3. /\ (n - 1) * p \in Nat /\ i \in Nat /\ k \in 0..99
        /\ (n - 1) * p = i * 100 + k
        /\ i + 1 <= n /\ (k # 0 => i + 2 <= n)
    BY <2>1, Position
  <2>4. /\ (n - 1) * q \in Nat /\ j \in Nat /\ l \in 0..99
        /\ (n - 1) * q = j * 100 + l
        /\ j + 1 <= n /\ (l # 0 => j + 2 <= n)
    BY <2>1, Position
  <2>5. (n - 1) * p <= (n - 1) * q
    <3>1. p \in Nat /\ q \in Nat /\ n - 1 \in Nat
      BY <2>1
    <3>2. p * (n - 1) <= q * (n - 1)
      BY <3>1, ProductMonotonic
    <3>3. p * (n - 1) = (n - 1) * p /\ q * (n - 1) = (n - 1) * q
      BY <3>1
    <3> QED
      BY <3>2, <3>3
  <2> HIDE DEF i, j, k, l
  <2>6. i < j \/ (i = j /\ k <= l)
    BY <2>3, <2>4, <2>5
  <2>7. \A m \in Nat \ {0} : m <= n => R(f, m) \in Nat /\ R(g, m) \in Nat
    BY RankedIs DEF n
  <2>8. \A x, y \in Nat \ {0} : x <= y /\ y <= n =>
          R(f, x) <= R(g, y) /\ R(f, x) <= R(f, y) /\ R(g, x) <= R(g, y)
    BY RankedMonotonic DEF n
  <2> HIDE DEF R
  <2>9. R(g, j + 1) \in Nat /\ Right \in Nat /\ R(g, j + 1) * 100 <= Right
    <3>1. CASE l = 0
      BY <2>4, <2>7, <3>1
    <3>2. CASE l # 0
      <4>1. R(g, j + 1) \in Nat /\ R(g, j + 2) \in Nat /\ R(g, j + 1) <= R(g, j + 2)
        BY <2>4, <2>7, <2>8, <3>2
      <4>2. l \in 0..100
        BY <2>4
      <4> QED
        BY <3>2, <4>1, <4>2, Interpolation
    <3> QED
      BY <3>1, <3>2
  <2>10. CASE k = 0
    <3>1. i + 1 <= j + 1
      BY <2>3, <2>4, <2>6
    <3>2. R(f, i + 1) \in Nat /\ R(f, i + 1) <= R(g, j + 1)
      BY <2>3, <2>4, <2>7, <2>8, <3>1
    <3>3. Left = R(f, i + 1) * 100
      BY <2>10
    <3> HIDE DEF Left, Right
    <3>4. Left <= Right
      BY <2>9, <3>2, <3>3
    <3> QED
      BY <2>2, <3>4
  <2>11. CASE k # 0 /\ i < j
    <3>1. R(f, i + 1) \in Nat /\ R(f, i + 2) \in Nat /\ R(f, i + 1) <= R(f, i + 2)
      BY <2>3, <2>7, <2>8, <2>11
    <3>2. R(f, i + 2) <= R(g, j + 1)
      BY <2>3, <2>4, <2>8, <2>11
    <3>3. k \in 0..100
      BY <2>3
    <3>4. Left \in Nat /\ Left <= R(f, i + 2) * 100
      BY <2>11, <3>1, <3>3, Interpolation
    <3> HIDE DEF Left, Right
    <3>5. Left <= Right
      BY <2>9, <3>1, <3>2, <3>4
    <3> QED
      BY <2>2, <3>5
  <2>12. CASE k # 0 /\ i = j /\ k <= l
    <3>1. l # 0 /\ k \in 0..100 /\ l \in 0..100
      BY <2>3, <2>4, <2>12
    <3>2. /\ R(f, i + 1) \in Nat /\ R(f, i + 2) \in Nat
          /\ R(g, i + 1) \in Nat /\ R(g, i + 2) \in Nat
          /\ R(f, i + 1) <= R(g, i + 1) /\ R(f, i + 2) <= R(g, i + 2)
          /\ R(g, i + 1) <= R(g, i + 2)
      BY <2>3, <2>7, <2>8, <2>12
    <3>3. R(f, i + 1) * (100 - k) + R(f, i + 2) * k
            <= R(g, i + 1) * (100 - l) + R(g, i + 2) * l
      BY <2>12, <3>1, <3>2, InterpolationMonotonic
    <3>4. Left <= Right
      BY <2>12, <3>1, <3>3
    <3> QED
      BY <2>2, <3>4
  <2> QED
    BY <2>6, <2>10, <2>11, <2>12
<1> QED
  BY <1>1, <1>2

-----------------------------------------------------------------------------
(* The summary row *)

\* What the record of a request that is done says of its outcome, and who was
\* turned away.
KindTold(i) ==
  LET r == record[i] IN
  /\ r.success <=> (r.error_type = "none")
  /\ r.timeout <=> (r.error_type = "timeout")
  /\ r.oom <=> (r.error_type = "oom")
  /\ r.rejected <=> (r.error_type \in {"rejected", "admission_rejected"})
  /\ r.error_type = "admission_rejected" <=> Rejected(i)

Kinds ==
  /\ \A i \in Requests : state[i] \in {"sending", "streaming"} => ~Rejected(i)
  /\ \A i \in Requests : state[i] = "done" => KindTold(i)

\* The time that has been spent on each request.
Spent ==
  [i \in Requests |->
     IF state[i] = "done" THEN record[i].latency
     ELSE IF started[i] # None THEN now - started[i] ELSE 0]

SpentFits == SumOver(Spent, Requests) <= InFlightLimit(w) * now

RowInv == Kinds /\ SpentFits

\* The latencies added up are those of finitely many requests.
LEMMA SpentType ==
  ASSUME Inv, TimeInv
  PROVE  IsFiniteSet(Requests) /\ \A i \in Requests : Spent[i] \in Nat
<1>1. IsFiniteSet(Requests)
  BY CountType, FS_Interval DEF Requests, Inv
<1>2. ASSUME NEW i \in Requests PROVE Spent[i] \in Nat
  <2>1. CASE state[i] = "done"
    BY <2>1 DEF Spent, TimeInv, Recorded, Told
  <2>2. CASE state[i] # "done" /\ started[i] # None
    <3>1. started[i] \in Int /\ started[i] <= now /\ now \in Nat
      BY <2>2 DEF Inv, Types, TimeInv, Clocked
    <3>2. now - started[i] \in Nat
      BY <3>1
    <3> QED
      BY <2>2, <3>2 DEF Spent
  <2>3. CASE state[i] # "done" /\ started[i] = None
    BY <2>3 DEF Spent
  <2> QED
    BY <2>1, <2>2, <2>3
<1> QED
  BY <1>1, <1>2

\* RowInv holds at first.
LEMMA RowInit == Init => RowInv
<1> SUFFICES ASSUME Init PROVE RowInv
  OBVIOUS
<1>1. Inv /\ TimeInv
  BY InvInit, TimeInit
<1>2. Kinds
  BY DEF Init, Kinds
<1>3. SumOver(Spent, Requests) = 0
  <2>1. \A i \in Requests : Spent[i] = 0
    BY DEF Init, Spent
  <2>2. \A i \in Requests : Spent[i] \in Nat
    BY <2>1
  <2>3. IsFiniteSet(Requests)
    BY <1>1, SpentType
  <2> DEFINE f == Spent
  <2>4. \A i \in Requests : f[i] \in Nat /\ f[i] = 0
    BY <2>1, <2>2
  <2> HIDE DEF f
  <2>5. SumOver(f, Requests) = 0
    BY <2>3, <2>4, SumNat
  <2> QED
    BY <2>5 DEF f
<1>4. InFlightLimit(w) \in Nat /\ now = 0
  BY <1>1, LimitType DEF Init, TimeInv, TimeTypes
<1> QED
  BY <1>2, <1>3, <1>4 DEF RowInv, SpentFits

\* classify_error never calls an error a refusal of the load generator.
LEMMA ClassifiedApart ==
  ASSUME NEW markers, NEW status
  PROVE  ClassifyError(markers, status) \notin {"none", "admission_rejected"}
BY DEF ClassifyError

\* Every step keeps Kinds.
LEMMA KindsNext == Inv /\ TimeInv /\ Kinds /\ [Next]_vars => Kinds'
<1> SUFFICES ASSUME Inv, TimeInv, Kinds, [Next]_vars PROVE Kinds'
  OBVIOUS
<1>0. w' = w /\ Requests' = Requests /\ \A i \in Requests : Rejected(i)' = Rejected(i)
  <2>1. w' = w
    BY DEF Next, Submit, RequestStep, Take, TurnAway, Respond, Refuse, Break,
       ReadLine, Finish, TimeOut, End, Tick, Summarise, Ended, vars
  <2> QED
    BY <2>1 DEF Requests, Rejected, Oversized
<1>1. ASSUME NEW i \in Requests, NEW type, NEW start, NEW tokens,
             End(i, Record(i, type, start, tokens)),
             type = "admission_rejected" <=> Rejected(i)
      PROVE  Kinds'
  <2> DEFINE row == Record(i, type, start, tokens)
  <2>1. /\ state' = [state EXCEPT ![i] = "done"]
        /\ record' = [record EXCEPT ![i] = row]
    BY <1>1 DEF End
  <2>2. /\ row.success <=> (row.error_type = "none")
        /\ row.timeout <=> (row.error_type = "timeout")
        /\ row.oom <=> (row.error_type = "oom")
        /\ row.rejected <=> (row.error_type \in {"rejected", "admission_rejected"})
        /\ row.error_type = type
    BY DEF Record
  <2> HIDE DEF row
  <2>3. \A j \in Requests : /\ state'[j] = IF j = i THEN "done" ELSE state[j]
                            /\ record'[j] = IF j = i THEN row ELSE record[j]
    BY <2>1 DEF Inv, Types, TimeInv, TimeTypes
  <2>4. ASSUME NEW j \in Requests, state'[j] = "done" PROVE KindTold(j)'
    <3>1. CASE j = i
      <4>1. record'[j] = row /\ (Rejected(j)' <=> Rejected(i))
        BY <1>0, <2>3, <3>1
      <4> QED
        BY <1>1, <2>2, <4>1 DEF KindTold
    <3>2. CASE j # i
      <4>1. state[j] = "done" /\ record'[j] = record[j] /\ Rejected(j)' = Rejected(j)
        BY <1>0, <2>3, <2>4, <3>2
      <4> QED
        BY <4>1 DEF Kinds, KindTold
    <3> QED
      BY <3>1, <3>2
  <2>5. \A j \in Requests : state'[j] \in {"sending", "streaming"} => ~Rejected(j)'
    BY <1>0, <2>3 DEF Kinds
  <2> QED
    BY <1>0, <2>4, <2>5 DEF Kinds
<1>2. ASSUME UNCHANGED record,
             \A j \in Requests : state'[j] = "done" => state[j] = "done",
             \A j \in Requests : state'[j] \in {"sending", "streaming"} => ~Rejected(j)
      PROVE  Kinds'
  BY <1>0, <1>2 DEF Kinds, KindTold
<1>3. CASE Submit
  <2>1. UNCHANGED record /\ state' = [state EXCEPT ![submitted] = "queued"]
    BY <1>3 DEF Submit
  <2>2. \A j \in Requests : state'[j] \in {state[j], "queued"}
    BY <2>1 DEF Inv, Types
  <2>3. /\ \A j \in Requests : state'[j] = "done" => state[j] = "done"
        /\ \A j \in Requests : state'[j] \in {"sending", "streaming"} => ~Rejected(j)
    BY <2>2 DEF Kinds
  <2> QED
    BY <1>2, <2>1, <2>3
<1>4. ASSUME NEW i \in Requests, Take(i) \/ Respond(i) \/ ReadLine(i)
      PROVE  Kinds'
  <2>1. /\ UNCHANGED record /\ ~Rejected(i)
        /\ \E s \in {"sending", "streaming"} : state' = [state EXCEPT ![i] = s]
    <3>1. CASE Take(i)
      BY <3>1 DEF Take
    <3>2. CASE Respond(i)
      BY <3>2 DEF Respond, In, Kinds
    <3>3. CASE ReadLine(i)
      <4>1. state' = [state EXCEPT ![i] = "streaming"]
        BY <3>3 DEF ReadLine, In, Inv, Types
      <4> QED
        BY <3>3, <4>1 DEF ReadLine, In, Kinds
    <3> QED
      BY <1>4, <3>1, <3>2, <3>3
  <2>2. \A j \in Requests : state'[j] = state[j] \/ (j = i /\ state'[j] # "done")
    BY <2>1 DEF Inv, Types
  <2>3. /\ \A j \in Requests : state'[j] = "done" => state[j] = "done"
        /\ \A j \in Requests : state'[j] \in {"sending", "streaming"} => ~Rejected(j)
    BY <2>1, <2>2 DEF Kinds
  <2> QED
    BY <1>2, <2>1, <2>3
<1>5. ASSUME NEW i \in Requests, TurnAway(i)
      PROVE  Kinds'
  BY <1>1, <1>5 DEF TurnAway, AdmissionRecord
<1>6. ASSUME NEW i \in Requests, Refuse(i) \/ Break(i) \/ Finish(i) \/ TimeOut(i)
      PROVE  Kinds'
  <2>1. /\ state[i] \in {"sending", "streaming"}
        /\ \/ End(i, Record(i, "none", started[i], texts[i]))
           \/ \E markers, status :
                End(i, Record(i, ClassifyError(markers, status), started[i], 0))
    BY <1>6 DEF Refuse, Break, Finish, TimeOut, In, Active, FailureRecord,
                SuccessRecord
  <2>2. ~Rejected(i)
    BY <2>1 DEF Kinds
  <2>3. ASSUME End(i, Record(i, "none", started[i], texts[i])) PROVE Kinds'
    BY <1>1, <2>2, <2>3
  <2>4. ASSUME NEW markers, NEW status,
               End(i, Record(i, ClassifyError(markers, status), started[i], 0))
        PROVE  Kinds'
    BY <1>1, <2>2, <2>4, ClassifiedApart
  <2> QED
    BY <2>1, <2>3, <2>4
<1>7. CASE Tick \/ Summarise \/ Ended \/ UNCHANGED vars
  <2>1. UNCHANGED <<state, record>>
    BY <1>7 DEF Tick, Summarise, Ended, vars
  <2> QED
    BY <1>2, <2>1 DEF Kinds
<1> QED
  BY <1>3, <1>4, <1>5, <1>6, <1>7 DEF Next, RequestStep

\* Only the clock adds to the time spent, one tick for each busy thread.
LEMMA SpentNext ==
  ASSUME Inv, TimeInv, [Next]_vars, NEW i \in Requests
  PROVE  Spent'[i] = IF Tick /\ i \in Active THEN Spent[i] + 1 ELSE Spent[i]
<1>0. Requests' = Requests /\ now \in Nat
  BY DEF Next, Submit, RequestStep, Take, TurnAway, Respond, Refuse, Break,
     ReadLine, Finish, TimeOut, End, Tick, Summarise, Ended, vars, Requests,
     Inv, Types
<1>1. CASE Tick
  <2>1. now' = now + 1 /\ UNCHANGED <<state, started, record>>
    BY <1>1 DEF Tick
  <2>2. i \in Active <=> state[i] # "done" /\ started[i] # None
    BY DEF Active, In, Inv, Types, InTurn, States
  <2>3. started[i] \in Int /\ (now + 1) - started[i] = (now - started[i]) + 1
    BY <1>0 DEF Inv, Types
  <2> QED
    BY <1>0, <1>1, <2>1, <2>2, <2>3 DEF Spent
<1>2. CASE ~Tick
  <2>1. now' = now
    BY <1>2
       DEF Next, Submit, RequestStep, Take, TurnAway, Respond, Refuse, Break,
       ReadLine, Finish, TimeOut, End, Summarise, Ended, vars
  <2>2. ASSUME UNCHANGED <<started, record>>,
               state'[i] = "done" <=> state[i] = "done"
        PROVE  Spent'[i] = Spent[i]
    BY <1>0, <2>1, <2>2 DEF Spent
  <2>3. CASE Submit
    <3>1. /\ UNCHANGED <<started, record>>
          /\ submitted \in Requests /\ state' = [state EXCEPT ![submitted] = "queued"]
      BY <2>3 DEF Submit
    <3>2. state[submitted] = "planned"
      BY <3>1 DEF Inv, Types, InTurn
    <3>3. state'[i] = "done" <=> state[i] = "done"
      BY <3>1, <3>2 DEF Inv, Types
    <3> QED
      BY <1>2, <2>2, <3>1, <3>3
  <2>4. ASSUME NEW j \in Requests, Take(j) \/ Respond(j) \/ ReadLine(j)
        PROVE  Spent'[i] = Spent[i]
    <3>1. /\ UNCHANGED record /\ state[j] # "done"
          /\ \E s \in {"sending", "streaming"} : state' = [state EXCEPT ![j] = s]
          /\ \/ UNCHANGED started
             \/ state[j] = "queued" /\ started' = [started EXCEPT ![j] = now]
      <4>1. CASE ReadLine(j)
        <5>1. state' = [state EXCEPT ![j] = "streaming"]
          BY <4>1 DEF ReadLine, In, Inv, Types
        <5> QED
          BY <4>1, <5>1 DEF ReadLine, In
      <4> QED
        BY <2>4, <4>1 DEF Take, Respond, In
    <3>2. state'[i] = "done" <=> state[i] = "done"
      BY <3>1 DEF Inv, Types
    <3>3. CASE UNCHANGED started
      BY <2>2, <3>1, <3>2, <3>3
    <3>4. CASE state[j] = "queued" /\ started' = [started EXCEPT ![j] = now]
      <4>1. CASE i = j
        <5>1. started[i] = None /\ started'[i] = now /\ now - now = 0
          BY <1>0, <3>4, <4>1 DEF Inv, Types, InTurn
        <5>2. state[i] # "done" /\ state'[i] # "done"
          BY <3>2, <3>4, <4>1
        <5>3. Spent[i] = 0
          BY <5>1, <5>2 DEF Spent
        <5>4. Spent'[i] = 0
          BY <1>0, <2>1, <5>1, <5>2 DEF Spent, None
        <5> QED
          BY <5>3, <5>4
      <4>2. CASE i # j
        <5>1. started'[i] = started[i]
          BY <3>4, <4>2 DEF Inv, Types
        <5> QED
          BY <1>0, <2>1, <3>1, <3>2, <5>1 DEF Spent
      <4> QED
        BY <4>1, <4>2
    <3> QED
      BY <3>1, <3>3, <3>4
  <2>5. ASSUME NEW j \in Requests, NEW type, NEW start, NEW tokens,
               End(j, Record(j, type, start, tokens)),
               \/ state[j] = "queued" /\ start = now
               \/ started[j] # None /\ state[j] # "done" /\ start = started[j],
               started' = [started EXCEPT ![j] = start]
        PROVE  Spent'[i] = Spent[i]
    <3> DEFINE row == Record(j, type, start, tokens)
    <3>1. /\ state' = [state EXCEPT ![j] = "done"]
          /\ record' = [record EXCEPT ![j] = row]
      BY <2>5 DEF End
    <3>2. row.latency = now - start
      BY DEF Record
    <3> HIDE DEF row
    <3>3. CASE i = j
      <4>1. Spent'[i] = now - start
        BY <1>0, <3>1, <3>2, <3>3 DEF Spent, Inv, Types, TimeInv, TimeTypes
      <4>2. CASE state[j] = "queued" /\ start = now
        <5>1. started[i] = None /\ state[i] # "done"
          BY <3>3, <4>2 DEF Inv, InTurn
        <5> QED
          BY <1>0, <4>1, <4>2, <5>1 DEF Spent
      <4>3. CASE started[j] # None /\ state[j] # "done" /\ start = started[j]
        BY <3>3, <4>1, <4>3 DEF Spent
      <4> QED
        BY <2>5, <4>2, <4>3
    <3>4. CASE i # j
      <4>1. state'[i] = state[i] /\ record'[i] = record[i] /\ started'[i] = started[i]
        BY <2>5, <3>1, <3>4 DEF Inv, Types, TimeInv, TimeTypes
      <4> QED
        BY <1>0, <2>1, <4>1 DEF Spent
    <3> QED
      BY <3>3, <3>4
  <2>6. ASSUME NEW j \in Requests, TurnAway(j) PROVE Spent'[i] = Spent[i]
    BY <2>5, <2>6 DEF TurnAway, AdmissionRecord, In
  <2>7. ASSUME NEW j \in Requests, Refuse(j) \/ Break(j) \/ Finish(j) \/ TimeOut(j)
        PROVE  Spent'[i] = Spent[i]
    <3>1. /\ state[j] \in {"sending", "streaming"} /\ UNCHANGED started
          /\ \E type, tokens : End(j, Record(j, type, started[j], tokens))
      BY <2>7 DEF Refuse, Break, Finish, TimeOut, In, Active, FailureRecord,
                  SuccessRecord
    <3>2. started[j] # None /\ state[j] # "done"
      BY <3>1 DEF Inv, InTurn
    <3>3. started' = [started EXCEPT ![j] = started[j]]
      BY <3>1 DEF Inv, Types
    <3> QED
      BY <2>5, <3>1, <3>2, <3>3
  <2>8. CASE Summarise \/ Ended \/ UNCHANGED vars
    <3>1. UNCHANGED <<state, started, record>>
      BY <2>8 DEF Summarise, Ended, vars
    <3>2. state'[i] = "done" <=> state[i] = "done"
      BY <3>1
    <3> QED
      <4>1. UNCHANGED <<started, record>>
        BY <3>1
      <4> QED
        BY <1>2, <2>2, <3>2, <4>1
  <2>9. Spent'[i] = Spent[i]
    BY <1>2, <2>2, <2>3, <2>4, <2>6, <2>7, <2>8 DEF Next, RequestStep
  <2> QED
    BY <1>2, <2>9
<1> QED
  BY <1>1, <1>2

\* In a unit of time each request on the wire spends one, and no more are on
\* the wire than may be.
LEMMA SpentFitsNext ==
  Inv /\ TimeInv /\ PoolInv /\ SpentFits /\ [Next]_vars => SpentFits'
<1> SUFFICES ASSUME Inv, TimeInv, PoolInv, SpentFits, [Next]_vars
             PROVE  SpentFits'
  OBVIOUS
<1>0. w' = w /\ Requests' = Requests /\ now \in Nat
  BY DEF Next, Submit, RequestStep, Take, TurnAway, Respond, Refuse, Break,
     ReadLine, Finish, TimeOut, End, Tick, Summarise, Ended, vars, Requests,
     Inv, Types
<1> DEFINE before == Spent
           after == Spent'
           busy == IF Tick THEN Active ELSE {}
           limit == InFlightLimit(w)
<1>1. \A i \in Requests : after[i] = IF i \in busy THEN before[i] + 1 ELSE before[i]
  BY SpentNext
<1>2. IsFiniteSet(Requests) /\ \A i \in Requests : before[i] \in Int
  BY SpentType
<1>3. busy \in SUBSET Requests /\ limit \in Nat
  BY LimitType DEF Active, In, TimeInv, TimeTypes
<1>4. Cardinality(busy) \in Nat /\ Cardinality(busy) <= IF Tick THEN limit ELSE 0
  <2>1. Cardinality(Active) \in Nat /\ Cardinality(Active) <= limit
    BY ActiveFinite DEF Inv, PoolInv, PoolBound
  <2> QED
    BY <2>1, FS_EmptySet
<1>5. now' = IF Tick THEN now + 1 ELSE now
  BY DEF Next, Submit, RequestStep, Take, TurnAway, Respond, Refuse, Break,
     ReadLine, Finish, TimeOut, End, Summarise, Ended, vars, Tick
<1>6. SumOver(before, Requests) <= limit * now
  BY DEF SpentFits
<1> HIDE DEF before, after, busy, limit
<1>7. /\ SumOver(before, Requests) \in Int
      /\ SumOver(after, Requests) = SumOver(before, Requests) + Cardinality(busy)
  BY <1>1, <1>2, <1>3, SumOfSome
<1>8. limit * (now + 1) = limit * now + limit /\ limit * now \in Int
  BY <1>0, <1>3
<1>9. SumOver(after, Requests) <= limit * now'
  BY <1>3, <1>4, <1>5, <1>6, <1>7, <1>8
<1>10. SpentFits' <=> SumOver(after, Requests) <= limit * now'
  BY <1>0 DEF SpentFits, after, limit
<1> QED
  BY <1>9, <1>10

\* Every step keeps RowInv.
LEMMA RowNext == Inv /\ TimeInv /\ PoolInv /\ RowInv /\ [Next]_vars => RowInv'
BY KindsNext, SpentFitsNext DEF RowInv

-----------------------------------------------------------------------------
\* Sets that are apart are counted apart.
LEMMA CountApart ==
  ASSUME NEW U, IsFiniteSet(U), NEW S \in SUBSET U, NEW T \in SUBSET U, S \cap T = {}
  PROVE  /\ Cardinality(S) \in Nat /\ Cardinality(T) \in Nat
         /\ Cardinality(S \cup T) = Cardinality(S) + Cardinality(T)
<1>1. IsFiniteSet(S) /\ IsFiniteSet(T) /\ Cardinality(S) \in Nat /\ Cardinality(T) \in Nat
  BY FS_Subset, FS_CardinalityType
<1>2. Cardinality(S \cup T) = Cardinality(S) + Cardinality(T) - Cardinality(S \cap T)
  BY <1>1, FS_Union
<1>3. Cardinality(S \cap T) = 0
  BY FS_EmptySet
<1> QED
  BY <1>1, <1>2, <1>3

\* The same for any two subsets of a finite set.
LEMMA CountsApart ==
  ASSUME NEW U, IsFiniteSet(U)
  PROVE  \A S, T \in SUBSET U : S \cap T = {} =>
           /\ Cardinality(S) \in Nat /\ Cardinality(T) \in Nat
           /\ Cardinality(S \cup T) = Cardinality(S) + Cardinality(T)
BY CountApart

\* Rows are counted from 1, requests from 0.
LEMMA CountFromOne ==
  ASSUME NEW n \in Nat, NEW K \in SUBSET (1..n)
  PROVE  Cardinality({i \in 0..(n - 1) : i + 1 \in K}) = Cardinality(K)
<1> DEFINE I == {i \in 0..(n - 1) : i + 1 \in K}
           f == [k \in K |-> k - 1]
<1>1. IsFiniteSet(K)
  <2>1. IsFiniteSet(1..n)
    BY FS_Interval
  <2> QED
    BY <2>1, FS_Subset
<1>2. \A k \in K : k \in Int /\ k - 1 \in I /\ f[k] = k - 1
  OBVIOUS
<1>3. f \in [K -> I]
  BY <1>2
<1>4. \A j, k \in K : f[j] = f[k] => j = k
  BY <1>2
<1>5. \A i \in I : \E k \in K : f[k] = i
  <2> SUFFICES ASSUME NEW i \in I PROVE \E k \in K : f[k] = i
    OBVIOUS
  <2>1. i + 1 \in K /\ (i + 1) - 1 = i
    OBVIOUS
  <2> QED
    BY <1>2, <2>1
<1> HIDE DEF f, I
<1>6. f \in Bijection(K, I)
  BY <1>3, <1>4, <1>5 DEF Bijection, Injection, Surjection, IsInjective
<1>7. ExistsBijection(K, I)
  BY <1>6 DEF ExistsBijection
<1> QED
  BY <1>1, <1>7, FS_Bijection DEF I

\* The rows of the summary are the records of all requests.
LEMMA RowsAreRecords ==
  ASSUME Inv, TimeInv, RowInv, Done
  PROVE  LET rows == RecordSequence
             n == w.request_count
         IN  /\ n \in Nat /\ Requests = 0..(n - 1)
             /\ Len(rows) = n /\ DOMAIN rows = 1..n
             /\ \A k \in 1..n : k - 1 \in Requests /\ rows[k] = record[k - 1]
             /\ \A i \in Requests : Told(i) /\ KindTold(i)
<1>1. w.request_count \in Nat
  BY CountType DEF Inv
<1>2. \A i \in Requests : Told(i) /\ KindTold(i)
  BY DEF Done, In, TimeInv, Recorded, RowInv, Kinds
<1> QED
  BY <1>1, <1>2 DEF RecordSequence, Requests

\* The percentiles of a summary are ordered, and waiting only adds to them.
LEMMA PercentilesInOrder ==
  ASSUME Inv, TimeInv, RowInv, Done
  PROVE  LET rows == RecordSequence
             latencies == Values(rows, Successes(rows), "latency")
             scheduled == Values(rows, Successes(rows), "scheduled_latency")
         IN  /\ Percentile(latencies, 50) <= Percentile(latencies, 95)
             /\ Percentile(latencies, 95) <= Percentile(latencies, 99)
             /\ OpenLoop(w) => Percentile(latencies, 95) <= Percentile(scheduled, 95)
<1> DEFINE rows == RecordSequence
           D == Successes(rows)
           latencies == Values(rows, D, "latency")
           scheduled == Values(rows, D, "scheduled_latency")
           n == w.request_count
<1>1. /\ n \in Nat
      /\ DOMAIN rows = 1..n
      /\ \A k \in 1..n : k - 1 \in Requests /\ rows[k] = record[k - 1]
      /\ \A i \in Requests : Told(i)
  BY RowsAreRecords
<1> HIDE DEF rows, n
<1>2. D \in SUBSET (1..n) /\ IsFiniteSet(D)
  <2>1. D \in SUBSET (1..n)
    BY <1>1 DEF Successes
  <2>2. n \in Int /\ 1 \in Int
    BY <1>1
  <2>3. IsFiniteSet(1..n)
    BY <2>2, FS_Interval
  <2> QED
    BY <2>1, <2>3, FS_Subset
<1>3. \A k \in D : rows[k].latency \in Nat /\ rows[k]["latency"] = rows[k].latency
                   /\ Given(rows[k].latency)
  <2> SUFFICES ASSUME NEW k \in D
               PROVE  rows[k].latency \in Nat /\ rows[k]["latency"] = rows[k].latency
                      /\ Given(rows[k].latency)
    OBVIOUS
  <2>1. rows[k].latency \in Nat
    BY <1>1, <1>2 DEF Told
  <2> QED
    BY <2>1 DEF Given, None
<1>4. latencies = [k \in D |-> rows[k].latency] /\ latencies \in [D -> Nat]
  BY <1>3 DEF Values
<1>5. /\ Percentile(latencies, 50) <= Percentile(latencies, 95)
      /\ Percentile(latencies, 95) <= Percentile(latencies, 99)
  <2> DEFINE f == latencies
  <2>1. f \in [D -> Nat] /\ \A k \in D : f[k] <= f[k]
    BY <1>4
  <2> HIDE DEF f, D
  <2>2. 50 \in 0..100 /\ 95 \in 0..100 /\ 99 \in 0..100 /\ 50 <= 95 /\ 95 <= 99
    OBVIOUS
  <2>3. Percentile(f, 50) <= Percentile(f, 95) /\ Percentile(f, 95) <= Percentile(f, 99)
    BY <1>2, <2>1, <2>2, PercentileMonotonic
  <2> QED
    BY <2>3 DEF f
<1>6. ASSUME OpenLoop(w)
      PROVE  Percentile(latencies, 95) <= Percentile(scheduled, 95)
  <2>1. \A k \in D : /\ rows[k].scheduled_latency \in Nat
                     /\ rows[k].latency <= rows[k].scheduled_latency
                     /\ Given(rows[k].scheduled_latency)
    <3> SUFFICES ASSUME NEW k \in D
                 PROVE  /\ rows[k].scheduled_latency \in Nat
                        /\ rows[k].latency <= rows[k].scheduled_latency
                        /\ Given(rows[k].scheduled_latency)
      OBVIOUS
    <3> DEFINE i == k - 1
               r == rows[k]
    <3>1. i \in Requests /\ r = record[i] /\ Told(i)
      BY <1>1, <1>2
    <3>2. /\ r.latency \in Nat /\ r.delay = started[i] - Due(w, i)
          /\ r.scheduled_latency = r.delay + r.latency
      BY <1>6, <3>1 DEF Told
    <3>3. /\ started[i] \in Int /\ Due(w, i) \in Nat /\ Due(w, i) <= started[i]
      <4>1. started[i] # None
        BY <3>1 DEF Done, In, Inv, InTurn
      <4> QED
        BY <3>1, <4>1, DueType DEF Inv, Types, TimeInv, TimeTypes, Clocked
    <3> HIDE DEF i, r
    <3>4. r.scheduled_latency \in Nat /\ r.latency <= r.scheduled_latency
      BY <3>2, <3>3
    <3>5. Given(r.scheduled_latency)
      BY <3>4 DEF Given, None
    <3> QED
      BY <3>4, <3>5 DEF r
  <2>2. scheduled = [k \in D |-> rows[k].scheduled_latency]
        /\ scheduled \in [D -> Nat]
    BY <2>1 DEF Values
  <2> DEFINE f == latencies
             g == scheduled
  <2>3. f \in [D -> Nat] /\ g \in [D -> Nat] /\ \A k \in D : f[k] <= g[k]
    BY <1>4, <2>1, <2>2
  <2> HIDE DEF f, g, D
  <2>4. 95 \in 0..100 /\ 95 <= 95
    OBVIOUS
  <2>5. Percentile(f, 95) <= Percentile(g, 95)
    BY <1>2, <2>3, <2>4, PercentileMonotonic
  <2> QED
    BY <2>5 DEF f, g
<1> QED
  BY <1>5, <1>6 DEF rows

\* The failures of a summary, class by class.
LEMMA FailuresCounted ==
  ASSUME Inv, TimeInv, RowInv, Done
  PROVE  LET rows == RecordSequence
             n == w.request_count
             ok == Cardinality(Successes(rows))
             classes == Number(rows, LAMBDA r : r.timeout)
                          + Number(rows, LAMBDA r : r.oom)
                          + Number(rows, LAMBDA r : r.rejected)
                          + OfType(rows, "nccl_error")
                          + OfType(rows, "distributed_worker_error")
         IN  /\ ok \in Nat /\ n \in Nat
             /\ classes <= n - ok
             /\ (n - ok) - OfType(rows, "admission_rejected")
                  = Cardinality({i \in {j \in Requests : ~record[j].success} :
                                   ~Rejected(i)})
<1> DEFINE rows == RecordSequence
           n == w.request_count
           type(k) == rows[k].error_type
           Rows(t) == {k \in 1..n : type(k) = t}
           All == {k \in 1..n : type(k) # "none"}
           A == Rows("timeout")
           B == Rows("oom")
           C == {k \in 1..n : type(k) \in {"rejected", "admission_rejected"}}
           E == Rows("nccl_error")
           F == Rows("distributed_worker_error")
           N == Rows("none")
           G == Rows("admission_rejected")
           H == All \ G
<1>1. /\ n \in Nat /\ Requests = 0..(n - 1)
      /\ DOMAIN rows = 1..n
      /\ \A k \in 1..n : k - 1 \in Requests /\ rows[k] = record[k - 1]
      /\ \A i \in Requests : KindTold(i)
  BY RowsAreRecords
<1>2. \A k \in 1..n :
        /\ rows[k].success <=> type(k) = "none"
        /\ rows[k].timeout <=> type(k) = "timeout"
        /\ rows[k].oom <=> type(k) = "oom"
        /\ rows[k].rejected <=> type(k) \in {"rejected", "admission_rejected"}
        /\ type(k) = "admission_rejected" <=> Rejected(k - 1)
  BY <1>1 DEF KindTold
<1> HIDE DEF rows
<1>3. /\ Successes(rows) = N
      /\ Number(rows, LAMBDA r : r.timeout) = Cardinality(A)
      /\ Number(rows, LAMBDA r : r.oom) = Cardinality(B)
      /\ Number(rows, LAMBDA r : r.rejected) = Cardinality(C)
      /\ OfType(rows, "nccl_error") = Cardinality(E)
      /\ OfType(rows, "distributed_worker_error") = Cardinality(F)
      /\ OfType(rows, "admission_rejected") = Cardinality(G)
  <2>1. /\ Successes(rows) = N
        /\ {k \in DOMAIN rows : rows[k].timeout} = A
        /\ {k \in DOMAIN rows : rows[k].oom} = B
        /\ {k \in DOMAIN rows : rows[k].rejected} = C
    BY <1>1, <1>2 DEF Successes
  <2>2. /\ {k \in DOMAIN rows : rows[k].error_type = "nccl_error"} = E
        /\ {k \in DOMAIN rows : rows[k].error_type = "distributed_worker_error"} = F
        /\ {k \in DOMAIN rows : rows[k].error_type = "admission_rejected"} = G
    BY <1>1
  <2> HIDE DEF A, B, C, E, F, G, N
  <2> QED
    BY <2>1, <2>2 DEF Number, OfType
<1>4. IsFiniteSet(1..n) /\ Cardinality(1..n) = n
  <2> HIDE DEF n
  <2>1. 1 \in Int /\ n \in Int
    BY <1>1
  <2> QED
    BY <1>1, <2>1, FS_Interval
<1>40. \A S, T \in SUBSET (1..n) : S \cap T = {} =>
         /\ Cardinality(S) \in Nat /\ Cardinality(T) \in Nat
         /\ Cardinality(S \cup T) = Cardinality(S) + Cardinality(T)
  BY <1>4, CountsApart
<1>5. Cardinality(N) \in Nat /\ Cardinality(All) = n - Cardinality(N)
  <2>1. N \cup All = 1..n /\ N \cap All = {} /\ N \in SUBSET (1..n) /\ All \in SUBSET (1..n)
    OBVIOUS
  <2> HIDE DEF N, All
  <2>2. Cardinality(N) \in Nat /\ Cardinality(All) \in Nat
        /\ Cardinality(1..n) = Cardinality(N) + Cardinality(All)
    <3>1. Cardinality(N \cup All) = Cardinality(N) + Cardinality(All)
      BY <1>40, <2>1
    <3> QED
      BY <1>40, <2>1, <3>1
  <2> QED
    BY <1>1, <1>4, <2>2
<1>6. Cardinality(A) + Cardinality(B) + Cardinality(C) + Cardinality(E) + Cardinality(F)
        <= Cardinality(All)
  <2>1. /\ A \in SUBSET (1..n) /\ B \in SUBSET (1..n) /\ C \in SUBSET (1..n)
        /\ E \in SUBSET (1..n) /\ F \in SUBSET (1..n) /\ All \in SUBSET (1..n)
        /\ A \cup B \cup C \cup E \cup F \in SUBSET All
    OBVIOUS
  <2>2. /\ A \cap B = {} /\ (A \cup B) \cap C = {} /\ (A \cup B \cup C) \cap E = {}
        /\ (A \cup B \cup C \cup E) \cap F = {}
    OBVIOUS
  <2> HIDE DEF A, B, C, E, F, All
  <2>3. Cardinality(A \cup B) = Cardinality(A) + Cardinality(B)
    BY <1>40, <2>1, <2>2
  <2>4. /\ A \cup B \in SUBSET (1..n) /\ A \cup B \cup C \in SUBSET (1..n)
        /\ A \cup B \cup C \cup E \in SUBSET (1..n)
    BY <2>1
  <2>5. Cardinality(A \cup B \cup C) = Cardinality(A \cup B) + Cardinality(C)
    BY <1>40, <2>1, <2>2, <2>4
  <2>6. Cardinality(A \cup B \cup C \cup E) = Cardinality(A \cup B \cup C) + Cardinality(E)
    BY <1>40, <2>1, <2>2, <2>4
  <2>7. Cardinality(A \cup B \cup C \cup E \cup F)
          = Cardinality(A \cup B \cup C \cup E) + Cardinality(F)
    BY <1>40, <2>1, <2>2, <2>4
  <2>8. /\ Cardinality(A) \in Nat /\ Cardinality(B) \in Nat /\ Cardinality(C) \in Nat
        /\ Cardinality(E) \in Nat /\ Cardinality(F) \in Nat
    <3>1. \A S \in SUBSET (1..n) : Cardinality(S) \in Nat
      BY <1>4, FS_Subset, FS_CardinalityType
    <3> QED
      BY <2>1, <3>1
  <2>9. Cardinality(A \cup B \cup C \cup E \cup F) <= Cardinality(All)
    <3>1. IsFiniteSet(All)
      BY <1>4, <2>1, FS_Subset
    <3> QED
      BY <2>1, <3>1, FS_Subset
  <2> QED
    BY <2>3, <2>5, <2>6, <2>7, <2>8, <2>9
<1>7. Cardinality(All) - Cardinality(G) = Cardinality(H)
  <2>1. /\ G \in SUBSET (1..n) /\ H \in SUBSET (1..n) /\ G \cap H = {} /\ G \cup H = All
    OBVIOUS
  <2> HIDE DEF G, H, All
  <2>2. Cardinality(G \cup H) = Cardinality(G) + Cardinality(H)
        /\ Cardinality(G) \in Nat /\ Cardinality(H) \in Nat
    BY <1>40, <2>1
  <2>3. Cardinality(All) = Cardinality(G \cup H)
    BY <2>1
  <2> QED
    BY <2>2, <2>3
<1>8. {i \in {j \in Requests : ~record[j].success} : ~Rejected(i)}
        = {i \in 0..(n - 1) : i + 1 \in H}
  <2>1. ASSUME NEW i \in 0..(n - 1)
        PROVE  i + 1 \in H <=> ~record[i].success /\ ~Rejected(i)
    <3>1. i + 1 \in 1..n /\ (i + 1) - 1 = i
      BY <1>1
    <3>2. rows[i + 1] = record[i]
      BY <1>1, <3>1
    <3>3. /\ record[i].success <=> type(i + 1) = "none"
          /\ type(i + 1) = "admission_rejected" <=> Rejected(i)
      BY <1>2, <3>1, <3>2
    <3> QED
      BY <3>1, <3>3
  <2> HIDE DEF H
  <2> QED
    BY <1>1, <2>1
<1>9. H \in SUBSET (1..n)
  OBVIOUS
<1> HIDE DEF A, B, C, E, F, G, H, N, All
<1>10. Cardinality({i \in 0..(n - 1) : i + 1 \in H}) = Cardinality(H)
  BY <1>1, <1>9, CountFromOne
<1> QED
  BY <1>1, <1>3, <1>5, <1>6, <1>7, <1>8, <1>10 DEF rows

\* The columns of a summary row agree with each other and with the records.
THEOREM SummaryCorrect == Spec => []SummaryAddsUp
<1>1. Inv /\ TimeInv /\ RateInv /\ RowInv => SummaryAddsUp
  <2> DEFINE rows == RecordSequence
             n == w.request_count
             latencies == Values(rows, Successes(rows), "latency")
             scheduled == Values(rows, Successes(rows), "scheduled_latency")
             ok == Cardinality(Successes(rows))
             failed == {i \in Requests : ~record[i].success}
             f == [i \in Requests |-> record[i].latency]
  <2> SUFFICES ASSUME Inv, TimeInv, RateInv, RowInv, summary # NoSummary
               PROVE  SummaryAddsUp
    BY DEF SummaryAddsUp
  <2>1. Done /\ summary = SummarizeWorkload(w, rows, now, <<>>, <<>>, 1)
    BY DEF RateInv, Summarised
  <2>2. Len(rows) = n
    BY <2>1, RowsAreRecords
  <2>3. /\ summary.latency_p50 = Percentile(latencies, 50)
        /\ summary.latency_p95 = Percentile(latencies, 95)
        /\ summary.latency_p99 = Percentile(latencies, 99)
        /\ summary.scheduled_latency_p95 = Percentile(scheduled, 95)
        /\ summary.success_count = ok /\ summary.error_count = n - ok
        /\ summary.wall_time = now
    BY <2>1, <2>2 DEF SummarizeWorkload
  <2>4. /\ summary.timeout_count = Number(rows, LAMBDA r : r.timeout)
        /\ summary.oom_count = Number(rows, LAMBDA r : r.oom)
        /\ summary.rejected_count = Number(rows, LAMBDA r : r.rejected)
        /\ summary.nccl_error_count = OfType(rows, "nccl_error")
        /\ summary.distributed_worker_error_count
             = OfType(rows, "distributed_worker_error")
        /\ summary.admission_rejected_count = OfType(rows, "admission_rejected")
    BY <2>1 DEF SummarizeWorkload
  <2>5. Total(f) <= InFlightLimit(w) * now
    <3>1. DOMAIN f = Requests /\ \A i \in Requests : f[i] = Spent[i]
      BY <2>1 DEF Spent, Done, In
    <3>2. IsFiniteSet(Requests) /\ \A i \in Requests : Spent[i] \in Int
      BY SpentType
    <3> DEFINE g == Spent
    <3> HIDE DEF f, g
    <3>3. SumOver(f, Requests) = SumOver(g, Requests)
      BY <3>1, <3>2, SumSame DEF g
    <3>4. Total(f) = SumOver(f, Requests)
      BY <3>1, Zenon DEF Total, SumOver
    <3> QED
      BY <3>3, <3>4 DEF g, RowInv, SpentFits
  <2> HIDE DEF rows, n, latencies, scheduled, ok, f
  <2>6. /\ summary.latency_p50 <= summary.latency_p95
        /\ summary.latency_p95 <= summary.latency_p99
        /\ OpenLoop(w) => summary.latency_p95 <= summary.scheduled_latency_p95
    BY <2>1, <2>3, PercentilesInOrder DEF rows, latencies, scheduled
  <2>7. /\ ok \in Nat /\ n \in Nat
        /\ summary.timeout_count + summary.oom_count
             + summary.rejected_count + summary.nccl_error_count
             + summary.distributed_worker_error_count <= n - ok
        /\ (n - ok) - summary.admission_rejected_count
             = Cardinality({i \in failed : ~Rejected(i)})
    BY <2>1, <2>4, FailuresCounted DEF rows, n, ok
  <2>8. summary.success_count + summary.error_count = w.request_count
    BY <2>3, <2>7 DEF n
  <2> QED
    BY <2>3, <2>5, <2>6, <2>7, <2>8 DEF SummaryAddsUp, f
<1>2. Inv /\ TimeInv /\ PoolInv /\ RateInv /\ RowInv /\ [Next]_vars =>
        PoolInv' /\ RateInv' /\ RowInv'
  BY StartsNext, SummarisedNext, PoolBoundNext, BlamedNext, RowNext
     DEF RateInv, PoolInv
<1> QED
  BY <1>1, <1>2, InvInit, InvNext, TimeInit, TimeNext, RateInit, PoolInit,
     RowInit, PTL
     DEF Spec

=============================================================================
