----------------------------- MODULE GuardProofs -----------------------------
(***************************************************************************)
(* Proofs about the drain guard: what a guard that passes has shown, and   *)
(* when it never passes.                                                   *)
(***************************************************************************)
EXTENDS DrainGuard, Sums

Waiting == mine # NoScrape
InRefresh == Waiting /\ phase[mine] = "refreshing"

Types ==
  /\ name \in [Workers -> Int] /\ silent \subseteq Workers
  /\ load \in [Workers -> Nat]
  /\ fresh \in [Workers -> Nat]
  /\ \A w \in Workers : fresh[w] <= load[w]
  /\ between \in [Workers -> Nat]
  /\ stored \in [Workers -> Nat \cup {Missing}]
  /\ phase \in [Scrapes -> {"free", "refreshing", "answered"}]
  /\ fetched \in [Scrapes -> [Workers -> Nat \cup {Missing, Pending, Applied}]]
  /\ response \in [Scrapes -> Nat \cup {Absent}]
  /\ guard \in {"poll", "sleep", "waiting", "drained", "timedout"}
  /\ mine \in Scrapes \cup {NoScrape}
  /\ zeros \in Nat
  /\ late \subseteq Scrapes /\ doubtful \in BOOLEAN /\ clean \in BOOLEAN

\* The guard waits for a scrape of its own, and only for that.
WaitInv ==
  /\ guard = "waiting" <=> Waiting
  /\ Waiting => phase[mine] \in {"refreshing", "answered"}
  /\ ~Waiting => ~doubtful

-----------------------------------------------------------------------------
(* Workers nothing is ever known of *)

\* What is stored for b comes from workers without gauges, or from none.
Blind(b) == \A w \in Workers : FirstNamed(name[w]) = b => w \in silent

Unseen == \E b \in Workers : Blind(b)

BlindInv ==
  /\ \A s \in Scrapes, w \in silent : fetched[s][w] \in {Missing, Pending, Applied}
  /\ \A b \in Workers : Blind(b) => stored[b] = Missing
  /\ Unseen => /\ zeros = 0 /\ guard # "drained"
               /\ \A s \in Scrapes : response[s] = Absent

-----------------------------------------------------------------------------
(* What a scrape knows *)

Drained == \A w \in Workers : load[w] = 0 /\ between[w] = 0

\* After a fetch the load of a worker can only fall, until a request is
\* handed over to it.
FetchInv ==
  \A s \in Scrapes \ late, w \in Workers :
    phase[s] = "refreshing" /\ fetched[s][w] >= 0 => load[w] <= fetched[s][w]

LateInv == InRefresh /\ ~doubtful => late = {} \/ mine \in late

\* What the guard's scrape has stored, or another one since.
StoredInv ==
  ~Unseen /\ InRefresh /\ ~doubtful /\ mine \notin late =>
    \A w \in Workers :
      fetched[mine][w] = Applied /\ stored[w] >= 0 => load[w] <= stored[w]

AnswerInv ==
  Waiting /\ phase[mine] = "answered" /\ response[mine] = 0 /\ ~doubtful => Drained

CleanInv == clean => Drained

LoadInv == FetchInv /\ LateInv /\ StoredInv /\ AnswerInv /\ CleanInv

Inv == Types /\ WaitInv /\ BlindInv /\ LoadInv

-----------------------------------------------------------------------------
(* Workers and their names *)

\* The workers are finitely many numbers.
LEMMA WorkersFinite ==
  /\ IsFiniteSet(Workers) /\ Workers \subseteq Nat
  /\ Cardinality(Workers) = NumWorkers
<1>1. NumWorkers \in Nat /\ NumWorkers >= 1 /\ NumWorkers \in Int /\ 1 \in Int
  BY WorkersAssumption
<1>2. IsFiniteSet(1..NumWorkers) /\ Cardinality(1..NumWorkers) = NumWorkers
  BY <1>1, FS_Interval
<1> QED
  BY <1>1, <1>2 DEF Workers

\* The worker a name stands for is a worker with that name.
LEMMA FirstIsWorker ==
  ASSUME name \in [Workers -> Int], NEW w \in Workers
  PROVE  FirstNamed(name[w]) \in Workers /\ name[FirstNamed(name[w])] = name[w]
<1> DEFINE T == {v \in Workers : name[v] = name[w]}
<1>1. \E u \in T : \A v \in T : u <= v
  BY WorkersFinite, LeastNatural
<1>2. \E u \in Workers : name[u] = name[w] /\ \A v \in Workers : name[v] = name[w] => u <= v
  BY <1>1
<1> QED
  BY <1>2, Zenon DEF FirstNamed

\* Unless some worker is never seen, each is the first of its name.
LEMMA SeenIsFirst ==
  ASSUME name \in [Workers -> Int], ~Unseen, NEW w \in Workers
  PROVE  FirstNamed(name[w]) = w
<1>1. PICK v \in Workers : FirstNamed(name[v]) = w
  BY DEF Unseen, Blind
<1>2. name[w] = name[v]
  BY <1>1, FirstIsWorker
<1> QED
  BY <1>1, <1>2

\* A worker without gauges or a name given twice: some worker is never seen.
LEMMA BlindReplica ==
  ASSUME Types,
         silent # {} \/ Cardinality({name[w] : w \in Workers}) < NumWorkers
  PROVE  Unseen
<1> SUFFICES ASSUME ~Unseen PROVE FALSE
  OBVIOUS
<1>1. \A w \in Workers : FirstNamed(name[w]) = w
  BY SeenIsFirst DEF Types
<1>2. silent = {}
  BY <1>1 DEF Unseen, Blind, Types
<1>3. \A v, w \in Workers : name[v] = name[w] => v = w
  BY <1>1, Zenon
<1> DEFINE image == {name[w] : w \in Workers}
<1>4. name \in Bijection(Workers, image)
  BY <1>3 DEF Bijection, Injection, Surjection, IsInjective, Types
<1>5. Cardinality(image) = Cardinality(Workers)
  BY <1>4, WorkersFinite, FS_Bijection DEF ExistsBijection
<1> QED
  BY <1>2, <1>5, WorkersFinite, WorkersAssumption

\* The load of the deployment as a sum that Sums speaks of.
LEMMA TotalIsSum == \A f : Total(f) = SumOver(f, Workers)
BY Zenon DEF Total, SumOver

\* The total is zero exactly when every worker is idle.
LEMMA TotalNat ==
  ASSUME NEW f, \A w \in Workers : f[w] \in Nat
  PROVE  Total(f) \in Nat /\ (Total(f) = 0 <=> \A w \in Workers : f[w] = 0)
BY WorkersFinite, TotalIsSum, SumNat

\* parse_vllm_load_metrics finds a load of zero only if all workers are.
LEMMA AggregateType ==
  ASSUME Types
  PROVE  /\ Aggregate \in Nat \cup {Absent}
         /\ Aggregate # Absent => \A w \in Workers : stored[w] # Missing
         /\ Aggregate = 0 => \A w \in Workers : stored[w] = 0
<1>1. CASE \A w \in Workers : Complete(stored[w])
  <2>1. \A w \in Workers : stored[w] \in Nat
    BY <1>1 DEF Types, Complete, Missing
  <2> QED
    BY <1>1, <2>1, TotalNat DEF Aggregate, Missing
<1>2. CASE ~ \A w \in Workers : Complete(stored[w])
  BY <1>2 DEF Aggregate, Absent
<1> QED
  BY <1>1, <1>2

-----------------------------------------------------------------------------
(* Steps *)

\* Types holds at first.
LEMMA TypesInit == Init => Types
<1> SUFFICES ASSUME Init PROVE Types
  OBVIOUS
<1>1. name \in [Workers -> Int] /\ silent \subseteq Workers
  BY NamingsAssumption, SilencesAssumption DEF Init, LoadInit
<1>2. /\ load \in [Workers -> Nat] /\ fresh \in [Workers -> Nat]
      /\ \A w \in Workers : fresh[w] <= load[w]
  <2>1. load \in [Workers -> 0..MaxLoad] /\ fresh = load /\ 0..MaxLoad \subseteq Nat
    BY LoadAssumption DEF Init, LoadInit
  <2> QED
    BY <2>1
<1> QED
  BY <1>1, <1>2 DEF Init, LoadInit, Types, Missing, Pending, Applied, Absent

\* The actions, with what they leave alone spelt out.
LEMMA TypesNext == Types /\ WaitInv /\ [Next]_vars => Types'
<1> SUFFICES ASSUME Types, WaitInv, [Next]_vars PROVE Types'
  OBVIOUS
<1> DEFINE Scraping == /\ phase \in [Scrapes -> {"free", "refreshing", "answered"}]
                       /\ fetched \in [Scrapes -> [Workers -> Nat \cup {Missing, Pending, Applied}]]
                       /\ response \in [Scrapes -> Nat \cup {Absent}]
                       /\ stored \in [Workers -> Nat \cup {Missing}]
           Loading == /\ load \in [Workers -> Nat]
                      /\ fresh \in [Workers -> Nat]
                      /\ \A w \in Workers : fresh[w] <= load[w]
                      /\ between \in [Workers -> Nat]
           Guarding == /\ guard \in {"poll", "sleep", "waiting", "drained", "timedout"}
                       /\ mine \in Scrapes \cup {NoScrape}
                       /\ zeros \in Nat
<1>1. (late \subseteq Scrapes /\ doubtful \in BOOLEAN /\ clean \in BOOLEAN)'
  BY DEF Next, Watch, Refreshing, Ended, vars, history, Types
<1>2. (name \in [Workers -> Int] /\ silent \subseteq Workers)'
  BY
     DEF Next, Poll, ReadResponse, PollFails, TimeOut, Others, Serve, Ended,
         StartScrape, Refresh, Fetch, Store, Respond, RespondElsewhere, Close,
         RequestStep, Finish, Leave, HandOver, GiveUp, vars, system, loadVars,
         setup, Types
<1>3. ASSUME RequestStep PROVE Loading' /\ Scraping'
  <2>1. Scraping'
    BY <1>3 DEF RequestStep, Finish, Leave, HandOver, GiveUp, scrapeVars, Types
  <2>2. ASSUME NEW w \in Workers, Finish(w) PROVE Loading'
    <3>1. load' = [load EXCEPT ![w] = @ - 1] /\ load[w] > 0
      BY <2>2 DEF Finish
    <3>2. PICK n \in {fresh[w], fresh[w] - 1} \cap 0..load'[w] :
            fresh' = [fresh EXCEPT ![w] = n]
      BY <2>2 DEF Finish
    <3>3. n \in Nat /\ n <= load'[w] /\ load'[w] = load[w] - 1
      BY <3>1, <3>2 DEF Types
    <3> QED
      BY <2>2, <3>1, <3>2, <3>3 DEF Finish, Types
  <2>3. ASSUME NEW w \in Workers, Leave(w) PROVE Loading'
    <3>1. PICK n \in {load[w], load[w] - 1} : load' = [load EXCEPT ![w] = n]
      BY <2>3 DEF Leave
    <3>2. n \in Nat /\ fresh[w] - 1 <= n /\ fresh[w] > 0
      BY <2>3, <3>1 DEF Leave, Types
    <3> QED
      BY <2>3, <3>1, <3>2 DEF Leave, Types
  <2>4. ASSUME NEW w \in Workers, GiveUp(w) \/ \E v \in Workers : HandOver(w, v)
        PROVE Loading'
    BY <2>4 DEF GiveUp, HandOver, Types
  <2> QED
    BY <1>3, <2>1, <2>2, <2>3, <2>4 DEF RequestStep
<1>4. ASSUME NEW s \in Scrapes, StartScrape(s) PROVE Loading' /\ Scraping'
  BY <1>4 DEF StartScrape, requestVars, Types
<1>5. ASSUME NEW s \in Scrapes, Refresh(s) PROVE Loading' /\ Scraping'
  <2>1. ASSUME NEW w \in Workers, Fetch(s, w) PROVE Loading' /\ Scraping'
    BY <2>1 DEF Fetch, FetchResults, requestVars, Types
  <2>2. ASSUME NEW w \in Workers, Store(s, w) PROVE Loading' /\ Scraping'
    BY <2>2, FirstIsWorker DEF Store, requestVars, Types
  <2> QED
    BY <1>5, <2>1, <2>2 DEF Refresh
<1>6. ASSUME NEW s \in Scrapes, Respond(s) \/ RespondElsewhere(s) \/ Close(s)
      PROVE Loading' /\ Scraping'
  <2>1. Aggregate \in Nat \cup {Absent}
    BY AggregateType
  <2> QED
    BY <1>6, <2>1 DEF Respond, RespondElsewhere, Close, requestVars, Types
<1>7. ASSUME UNCHANGED loadVars PROVE Loading' /\ Scraping'
  BY <1>7 DEF loadVars, requestVars, scrapeVars, Types
<1>8. Loading' /\ Scraping'
  <2> HIDE DEF Loading, Scraping
  <2>1. CASE Poll
    BY <2>1, <1>4 DEF Poll
  <2>2. CASE ReadResponse
    BY <2>2, <1>6 DEF ReadResponse, WaitInv, Waiting, Types
  <2>3. CASE PollFails \/ TimeOut \/ Ended \/ UNCHANGED vars
    BY <2>3, <1>7 DEF PollFails, TimeOut, Ended, vars, system, loadVars
  <2>4. CASE Others
    BY <2>4, <1>3, <1>4, <1>5, <1>6 DEF Others, Serve
  <2> QED
    BY <2>1, <2>2, <2>3, <2>4 DEF Next
<1>9. Guarding'
  BY
     DEF Next, Poll, ReadResponse, PollFails, TimeOut, Others, Evaluate, Ended,
         vars, system, guardVars, Types
<1> QED
  BY <1>1, <1>2, <1>8, <1>9 DEF Types

\* Every step keeps WaitInv.
LEMMA WaitNext == Types /\ WaitInv /\ [Next]_vars => WaitInv'
<1> SUFFICES ASSUME Types, WaitInv, [Next]_vars PROVE WaitInv'
  OBVIOUS
<1> USE NoScrapeAssumption DEF WaitInv, Waiting
<1>1. CASE Poll
  BY <1>1 DEF Poll, StartScrape, Types
<1>2. CASE (ReadResponse \/ PollFails \/ TimeOut) /\ Watch
  BY <1>2 DEF ReadResponse, PollFails, TimeOut, Watch, loadVars, scrapeVars
<1>3. CASE Ended \/ UNCHANGED vars
  BY <1>3 DEF Ended, vars, system, loadVars, scrapeVars, guardVars, history
<1>4. CASE Others /\ Watch
  <2>1. mine' = mine /\ guard' = guard /\ (doubtful' => mine' # NoScrape)
    BY <1>4 DEF Others, guardVars, Watch
  <2>2. CASE RequestStep
    BY <2>1, <2>2 DEF RequestStep, Finish, Leave, HandOver, GiveUp, scrapeVars
  <2>3. ASSUME NEW s \in Scrapes, s # mine, StartScrape(s) \/ RespondElsewhere(s) \/ Close(s)
        PROVE  WaitInv'
    BY <2>1, <2>3 DEF StartScrape, RespondElsewhere, Close, Types
  <2>4. ASSUME NEW s \in Scrapes, Refresh(s) \/ Respond(s)
        PROVE  WaitInv'
    BY <2>1, <2>4 DEF Refresh, Fetch, Store, Respond, Types
  <2> QED
    BY <1>4, <2>2, <2>3, <2>4 DEF Others, Serve
<1> QED
  BY <1>1, <1>2, <1>3, <1>4 DEF Next

-----------------------------------------------------------------------------
(* A worker that is never seen *)

\* No step renames a worker or gives it gauges.
LEMMA SetupKept == [Next]_vars => name' = name /\ silent' = silent
BY
   DEF Next, Poll, ReadResponse, PollFails, TimeOut, Others, Serve, Ended,
       StartScrape, Refresh, Fetch, Store, Respond, RespondElsewhere, Close,
       RequestStep, Finish, Leave, HandOver, GiveUp, vars, system, loadVars,
       setup

\* So a worker that nothing is known of stays one.
LEMMA UnseenKept ==
  ASSUME [Next]_vars
  PROVE  Unseen' = Unseen /\ (\A b \in Workers : Blind(b)' = Blind(b))
BY SetupKept DEF Unseen, Blind, FirstNamed

\* BlindInv holds at first.
LEMMA BlindInit == Init => BlindInv
BY TypesInit DEF Init, LoadInit, BlindInv, Types

\* Every step keeps BlindInv.
LEMMA BlindNext == Types /\ WaitInv /\ BlindInv /\ [Next]_vars => BlindInv'
<1> SUFFICES ASSUME Types, WaitInv, BlindInv, [Next]_vars PROVE BlindInv'
  OBVIOUS
<1> DEFINE Unknown == \A s \in Scrapes, w \in silent : fetched[s][w] \in {Missing, Pending, Applied}
           Unstored == \A b \in Workers : Blind(b) => stored[b] = Missing
           Unanswered == Unseen => \A s \in Scrapes : response[s] = Absent
           Unpassed == Unseen => zeros = 0 /\ guard # "drained"
<1>0. /\ Unseen' = Unseen /\ (\A b \in Workers : Blind(b)' = Blind(b))
      /\ silent' = silent
  BY UnseenKept, SetupKept
<1>1. ASSUME UNCHANGED scrapeVars PROVE Unknown' /\ Unstored' /\ Unanswered'
  BY <1>0, <1>1 DEF scrapeVars, BlindInv
<1>2. ASSUME NEW s \in Scrapes, StartScrape(s) PROVE Unknown' /\ Unstored' /\ Unanswered'
  BY <1>0, <1>2 DEF StartScrape, BlindInv, Types
<1>3. ASSUME NEW s \in Scrapes, NEW w \in Workers, Fetch(s, w)
      PROVE  Unknown' /\ Unstored' /\ Unanswered'
  BY <1>0, <1>3 DEF Fetch, FetchResults, BlindInv, Types
<1>4. ASSUME NEW s \in Scrapes, NEW w \in Workers, Store(s, w)
      PROVE  Unknown' /\ Unstored' /\ Unanswered'
  <2>1. Unknown' /\ Unanswered'
    BY <1>0, <1>4 DEF Store, BlindInv, Types
  <2>2. ASSUME NEW b \in Workers, Blind(b) PROVE stored'[b] = Missing
    <3>1. CASE FirstNamed(name[w]) = b
      <4>1. w \in silent
        BY <2>2, <3>1 DEF Blind
      <4>2. fetched[s][w] = Missing
        BY <1>4, <4>1 DEF Store, BlindInv
      <4> QED
        BY <1>4, <3>1, <4>2 DEF Store, Types
    <3>2. CASE FirstNamed(name[w]) # b
      BY <1>4, <2>2, <3>2 DEF Store, BlindInv, Types
    <3> QED
      BY <3>1, <3>2
  <2> QED
    BY <1>0, <2>1, <2>2
<1>5. ASSUME NEW s \in Scrapes, Respond(s)
      PROVE  Unknown' /\ Unstored' /\ Unanswered'
  <2>1. Unseen => Aggregate = Absent
    BY AggregateType DEF BlindInv, Unseen
  <2> QED
    BY <1>0, <1>5, <2>1 DEF Respond, BlindInv, Types
<1>6. ASSUME NEW s \in Scrapes, RespondElsewhere(s) \/ Close(s)
      PROVE  Unknown' /\ Unstored' /\ Unanswered'
  BY <1>0, <1>6 DEF RespondElsewhere, Close, BlindInv, Types
<1>7. Unknown' /\ Unstored' /\ Unanswered'
  <2> HIDE DEF Unknown, Unstored, Unanswered
  <2>1. CASE Poll
    BY <2>1, <1>2 DEF Poll
  <2>2. CASE ReadResponse
    BY <2>2, <1>6 DEF ReadResponse, WaitInv, Waiting, Types
  <2>3. CASE PollFails \/ TimeOut \/ Ended \/ UNCHANGED vars
    BY <2>3, <1>1 DEF PollFails, TimeOut, Ended, vars, system, loadVars
  <2>4. CASE RequestStep
    BY <2>4, <1>1 DEF RequestStep, Finish, Leave, HandOver, GiveUp
  <2>5. ASSUME NEW s \in Scrapes, Serve(s)
        PROVE  Unknown' /\ Unstored' /\ Unanswered'
    BY <2>5, <1>3, <1>4, <1>5, <1>6 DEF Serve, Refresh
  <2> QED
    BY <2>1, <2>2, <2>3, <2>4, <2>5, <1>2 DEF Next, Others
<1>8. Unpassed'
  <2> SUFFICES ASSUME Unseen PROVE (zeros = 0 /\ guard # "drained")'
    BY <1>0
  <2>1. zeros = 0 /\ guard # "drained" /\ \A s \in Scrapes : response[s] = Absent
    BY DEF BlindInv
  <2>2. CASE ReadResponse
    BY <2>1, <2>2, StableAssumption
       DEF ReadResponse, Evaluate, WaitInv, Waiting, Types, Absent
  <2>3. CASE ~ReadResponse
    BY <2>1, <2>3
       DEF Next, Poll, PollFails, Evaluate, TimeOut, Others, Ended, guardVars,
           vars, system, Absent
  <2> QED
    BY <2>2, <2>3
<1> QED
  BY <1>7, <1>8 DEF BlindInv

-----------------------------------------------------------------------------
(* Loads *)

\* A request is handed over, or every load stays or falls.
LEMMA LoadSteps ==
  ASSUME Types, WaitInv, [Next]_vars
  PROVE  \/ /\ \A w \in Workers : load'[w] <= load[w]
            /\ late' = late \cap Refreshing(phase') \/ UNCHANGED vars
         \/ /\ \E v, w \in Workers : HandOver(w, v)
            /\ late' = Refreshing(phase')
            /\ UNCHANGED guardVars
<1> DEFINE Falls == \A w \in Workers : load'[w] <= load[w]
<1>1. CASE UNCHANGED vars
  BY <1>1 DEF vars, system, loadVars, requestVars, Types
<1>2. ASSUME UNCHANGED requestVars PROVE Falls
  BY <1>2 DEF requestVars, Types
<1>3. ASSUME NEW s \in Scrapes, StartScrape(s) \/ Serve(s) PROVE UNCHANGED requestVars
  BY <1>3
     DEF StartScrape, Serve, Refresh, Fetch, Store, Respond, RespondElsewhere,
         Close
<1>4. ASSUME NEW w \in Workers, Finish(w) PROVE Falls
  BY <1>4 DEF Finish, Types
<1>5. ASSUME NEW w \in Workers, Leave(w) PROVE Falls
  <2>1. PICK n \in {load[w], load[w] - 1} : load' = [load EXCEPT ![w] = n]
    BY <1>5 DEF Leave
  <2>2. load[w] \in Nat /\ n <= load[w]
    BY <2>1 DEF Types
  <2> QED
    BY <2>1, <2>2 DEF Types
<1>6. ASSUME NEW w \in Workers, GiveUp(w) PROVE Falls
  BY <1>6 DEF GiveUp, Types
<1>7. ASSUME Falls, Watch PROVE late' = late \cap Refreshing(phase')
  <2>1. \A w \in Workers : load[w] \in Nat /\ load'[w] \in Nat
    BY TypesNext DEF Types
  <2> QED
    BY <1>7, <2>1 DEF Watch
<1>8. ASSUME NEW w \in Workers, NEW v \in Workers, HandOver(w, v), Watch
      PROVE  late' = Refreshing(phase')
  <2>1. load'[v] > load[v]
    BY <1>8 DEF HandOver, Types
  <2> QED
    BY <1>8, <2>1 DEF Watch
<1>9. CASE (Poll \/ ReadResponse \/ PollFails \/ TimeOut) /\ Watch
  <2>1. UNCHANGED requestVars
    BY <1>9, <1>3 DEF Poll, ReadResponse, Close, PollFails, TimeOut, loadVars
  <2> QED
    BY <1>2, <1>7, <1>9, <2>1
<1>10. CASE Others /\ Watch
  <2>1. CASE \E v, w \in Workers : HandOver(w, v)
    BY <1>8, <1>10, <2>1 DEF Others
  <2>2. CASE ~ \E v, w \in Workers : HandOver(w, v)
    <3>1. Falls
      <4> HIDE DEF Falls
      <4> QED
        BY <1>2, <1>3, <1>4, <1>5, <1>6, <1>10, <2>2 DEF Others, RequestStep
    <3> QED
      BY <1>7, <1>10, <3>1
  <2> QED
    BY <2>1, <2>2
<1> QED
  BY <1>1, <1>9, <1>10 DEF Next, Ended

\* Once every worker is idle and no retry is under way it stays so.
LEMMA DrainedKept == ASSUME Types, [Next]_vars, Drained PROVE Drained'
<1>1. \A w \in Workers : load[w] = 0 /\ between[w] = 0 /\ fresh[w] = 0
  BY DEF Drained, Types
<1>2. ~RequestStep
  BY <1>1 DEF RequestStep, Finish, Leave, GiveUp, HandOver
<1>3. UNCHANGED requestVars
  BY <1>2
     DEF Next, Poll, ReadResponse, PollFails, TimeOut, Others, Serve, Ended,
         StartScrape, Refresh, Fetch, Store, Respond, RespondElsewhere, Close,
         vars, system, loadVars
<1> QED
  BY <1>3 DEF requestVars, Drained

\* Every step keeps FetchInv.
LEMMA FetchNext == Types /\ WaitInv /\ FetchInv /\ [Next]_vars => FetchInv'
<1> SUFFICES ASSUME Types, WaitInv, FetchInv, [Next]_vars,
                    NEW s \in Scrapes, s \notin late', NEW w \in Workers,
                    phase'[s] = "refreshing", fetched'[s][w] >= 0
             PROVE  load'[w] <= fetched'[s][w]
  BY DEF FetchInv
<1>1. s \in Refreshing(phase')
  BY DEF Refreshing
<1>2. (\A v \in Workers : load'[v] <= load[v]) /\ s \notin late
  BY <1>1, LoadSteps DEF vars, history
<1>3. CASE phase[s] = "refreshing" /\ fetched'[s][w] = fetched[s][w]
  <2>1. load[w] \in Nat /\ load'[w] \in Nat
    BY TypesNext DEF Types
  <2>2. fetched[s][w] \in Int
    BY DEF Types, Missing, Pending, Applied
  <2>3. load[w] <= fetched[s][w]
    BY <1>2, <1>3 DEF FetchInv
  <2> QED
    BY <1>2, <1>3, <2>1, <2>2, <2>3
<1>4. CASE Fetch(s, w)
  BY <1>2, <1>4 DEF Fetch, FetchResults, Types, Missing
<1>5. CASE ~Fetch(s, w) /\ ~(phase[s] = "refreshing" /\ fetched'[s][w] = fetched[s][w])
  <2>1. ASSUME NEW r \in Scrapes, StartScrape(r) PROVE FALSE
    BY <1>5, <2>1 DEF StartScrape, Types, Pending
  <2>2. ASSUME NEW r \in Scrapes, NEW v \in Workers, Fetch(r, v) PROVE FALSE
    <3>1. phase' = phase
      BY <2>2 DEF Fetch
    <3>2. r # s \/ v # w
      BY <1>5, <2>2
    <3>3. fetched'[s][w] = fetched[s][w]
      BY <2>2, <3>2 DEF Fetch, Types
    <3> QED
      BY <1>5, <3>1, <3>3
  <2>3. ASSUME NEW r \in Scrapes, NEW v \in Workers, Store(r, v) PROVE FALSE
    BY <1>5, <2>3 DEF Store, Types, Applied
  <2>4. ASSUME NEW r \in Scrapes, Respond(r) \/ RespondElsewhere(r) \/ Close(r) PROVE FALSE
    BY <1>5, <2>4 DEF Respond, RespondElsewhere, Close, Types
  <2>5. ASSUME UNCHANGED scrapeVars PROVE FALSE
    BY <1>5, <2>5 DEF scrapeVars
  <2>6. ~RequestStep
    BY <2>5 DEF RequestStep, Finish, Leave, HandOver, GiveUp
  <2> QED
    BY <2>1, <2>2, <2>3, <2>4, <2>5, <2>6
       DEF Next, Poll, ReadResponse, PollFails, TimeOut, Others, Serve,
           Refresh, Ended, vars, system, loadVars, WaitInv, Waiting, Types
<1> QED
  BY <1>3, <1>4, <1>5

\* A step after which the guard's scrape has met no hand-over.
LEMMA GuardSteps ==
  ASSUME Types, WaitInv, [Next]_vars, Waiting', ~doubtful'
  PROVE  \/ Poll /\ late' = {}
         \/ /\ Others \/ UNCHANGED vars
            /\ mine' = mine /\ Waiting /\ ~doubtful
            /\ phase'[mine] # phase[mine] => ~Unsettled
<1>1. CASE Poll /\ Watch
  <2>1. mine = NoScrape /\ mine' # NoScrape
    BY <1>1 DEF WaitInv, Waiting, Poll
  <2>2. late = {}
    BY <1>1, <2>1 DEF Watch, Unsettled
  <2>3. UNCHANGED load
    BY <1>1 DEF Poll, StartScrape, requestVars
  <2>4. late' = late \cap Refreshing(phase')
    BY <1>1, <2>3 DEF Watch, Types
  <2> QED
    BY <1>1, <2>2, <2>4
<1>2. CASE (ReadResponse \/ PollFails \/ TimeOut) /\ Watch
  BY <1>2 DEF ReadResponse, PollFails, TimeOut, Watch, Waiting, WaitInv
<1>3. CASE Others /\ Watch
  BY <1>3 DEF Others, guardVars, Watch, Waiting
<1>4. CASE UNCHANGED vars
  BY <1>4 DEF vars, system, loadVars, scrapeVars, guardVars, history, Waiting
<1> QED
  BY <1>1, <1>2, <1>3, <1>4 DEF Next, Ended

\* Only a poll of its own begins a refresh of the guard's.
LEMMA StillRefreshing ==
  ASSUME Types, WaitInv, Others \/ UNCHANGED vars, mine' = mine, Waiting,
         phase'[mine] = "refreshing"
  PROVE  phase[mine] = "refreshing"
<1>1. mine \in Scrapes
  BY DEF Types, Waiting
<1>2. ASSUME NEW s \in Scrapes, s # mine, StartScrape(s)
      PROVE  phase[mine] = "refreshing"
  BY <1>1, <1>2 DEF StartScrape, Types
<1>3. ASSUME NEW s \in Scrapes, Respond(s) \/ RespondElsewhere(s) \/ Close(s)
      PROVE  phase[mine] = "refreshing"
  BY <1>1, <1>3 DEF Respond, RespondElsewhere, Close, Types
<1>4. ASSUME NEW s \in Scrapes, Refresh(s)
      PROVE  phase[mine] = "refreshing"
  BY <1>4 DEF Refresh, Fetch, Store
<1>5. CASE RequestStep \/ UNCHANGED vars
  BY <1>5
     DEF RequestStep, Finish, Leave, HandOver, GiveUp, scrapeVars, vars,
         system, loadVars
<1> QED
  BY <1>2, <1>3, <1>4, <1>5 DEF Others, Serve

\* Every step keeps LateInv.
LEMMA LateNext == Types /\ WaitInv /\ LateInv /\ [Next]_vars => LateInv'
<1> SUFFICES ASSUME Types, WaitInv, LateInv, [Next]_vars, InRefresh', ~doubtful'
             PROVE  late' = {} \/ mine' \in late'
  BY DEF LateInv
<1>1. Waiting' /\ phase'[mine'] = "refreshing" /\ mine' \in Scrapes
  BY TypesNext DEF InRefresh, Waiting, Types
<1>2. CASE Poll /\ late' = {}
  BY <1>2
<1>3. CASE /\ Others \/ UNCHANGED vars
           /\ mine' = mine /\ Waiting /\ ~doubtful
  <2>1. late = {} \/ mine \in late
    BY <1>1, <1>3, StillRefreshing DEF LateInv, InRefresh
  <2>2. mine \in Refreshing(phase')
    BY <1>1, <1>3 DEF Refreshing
  <2> QED
    BY <1>3, <2>1, <2>2, LoadSteps DEF vars, history
<1> QED
  BY <1>1, <1>2, <1>3, GuardSteps

\* Every step keeps StoredInv.
LEMMA StoredNext ==
  Types /\ WaitInv /\ FetchInv /\ LateInv /\ StoredInv /\ [Next]_vars => StoredInv'
<1> SUFFICES ASSUME Types, WaitInv, FetchInv, LateInv, StoredInv, [Next]_vars,
                    ~Unseen, InRefresh', ~doubtful', mine' \notin late',
                    NEW w \in Workers, fetched'[mine'][w] = Applied, stored'[w] >= 0
             PROVE  load'[w] <= stored'[w]
  BY UnseenKept DEF StoredInv
<1>1. Waiting' /\ phase'[mine'] = "refreshing" /\ mine' \in Scrapes
  BY TypesNext DEF InRefresh, Waiting, Types
<1>2. ~Poll
  BY <1>1 DEF Poll, StartScrape, Types, Pending, Applied
<1>3. /\ Others \/ UNCHANGED vars
      /\ mine' = mine /\ Waiting /\ ~doubtful
  BY <1>1, <1>2, GuardSteps
<1>4. phase[mine] = "refreshing" /\ mine \in Refreshing(phase')
  BY <1>1, <1>3, StillRefreshing DEF Refreshing
<1>5. mine \notin late /\ load'[w] <= load[w]
  BY <1>3, <1>4, LoadSteps DEF vars, history
<1>6. late = {}
  BY <1>3, <1>4, <1>5 DEF LateInv, InRefresh
<1>7. load[w] \in Nat /\ load'[w] \in Nat /\ stored[w] \in Int /\ stored'[w] \in Int
  BY TypesNext DEF Types, Missing
<1>8. CASE fetched[mine][w] = Applied /\ stored'[w] = stored[w]
  <2>1. load[w] <= stored[w]
    BY <1>3, <1>4, <1>5, <1>8 DEF StoredInv, InRefresh
  <2> QED
    BY <1>5, <1>7, <1>8, <2>1
<1>9. ASSUME NEW s \in Scrapes, NEW v \in Workers, Store(s, v)
      PROVE  load'[w] <= stored'[w]
  <2>1. FirstNamed(name[v]) = v
    BY SeenIsFirst DEF Types
  <2>2. CASE v = w
    <3>1. stored'[w] = fetched[s][w] /\ phase[s] = "refreshing"
      BY <1>9, <2>1, <2>2 DEF Store, Types
    <3>2. load[w] <= fetched[s][w]
      BY <1>6, <3>1 DEF FetchInv
    <3> QED
      BY <1>5, <1>7, <3>1, <3>2
  <2>3. CASE v # w
    BY <1>3, <1>8, <1>9, <2>1, <2>3 DEF Store, Types
  <2> QED
    BY <2>2, <2>3
<1>10. ASSUME ~ \E s \in Scrapes, v \in Workers : Store(s, v)
       PROVE  fetched[mine][w] = Applied /\ stored'[w] = stored[w]
  <2> DEFINE Kept == fetched[mine][w] = Applied /\ stored' = stored
  <2>0. mine \in Scrapes
    BY <1>1, <1>3
  <2>1. ASSUME NEW s \in Scrapes, s # mine, StartScrape(s) PROVE Kept
    BY <1>3, <2>0, <2>1 DEF StartScrape, Types
  <2>2. ASSUME NEW s \in Scrapes, NEW v \in Workers, Fetch(s, v) PROVE Kept
    <3>1. PICK result \in FetchResults(v) :
            fetched' = [fetched EXCEPT ![s][v] = result]
      BY <2>2 DEF Fetch
    <3>2. result # Applied
      BY <3>1 DEF FetchResults, Missing, Applied, Types
    <3>3. fetched[mine][w] = Applied
      BY <1>3, <2>0, <3>1, <3>2 DEF Types
    <3> QED
      BY <2>2, <3>3 DEF Fetch
  <2>3. ASSUME NEW s \in Scrapes, Respond(s) \/ RespondElsewhere(s) \/ Close(s) PROVE Kept
    BY <1>3, <2>3 DEF Respond, RespondElsewhere, Close
  <2>4. ASSUME RequestStep \/ UNCHANGED vars PROVE Kept
    BY <1>3, <2>4
       DEF RequestStep, Finish, Leave, HandOver, GiveUp, scrapeVars, vars,
           system, loadVars
  <2> HIDE DEF Kept
  <2>5. ASSUME NEW s \in Scrapes, Serve(s) PROVE Kept
    BY <1>10, <2>2, <2>3, <2>5 DEF Serve, Refresh
  <2>6. Kept
    BY <1>3, <2>1, <2>4, <2>5 DEF Others
  <2> QED
    BY <2>6 DEF Kept
<1> QED
  BY <1>8, <1>9, <1>10

\* Every step keeps AnswerInv.
LEMMA AnswerNext ==
  /\ Types /\ WaitInv /\ BlindInv /\ LateInv /\ StoredInv /\ AnswerInv
  /\ [Next]_vars
  => AnswerInv'
<1> SUFFICES ASSUME Types, WaitInv, BlindInv, LateInv, StoredInv, AnswerInv, [Next]_vars,
                    Waiting', phase'[mine'] = "answered", response'[mine'] = 0,
                    ~doubtful'
             PROVE  Drained'
  BY DEF AnswerInv
<1>1. mine' \in Scrapes
  BY TypesNext DEF Waiting, Types
<1>2. ~Poll
  BY <1>1 DEF Poll, StartScrape, Types
<1>3. /\ Others \/ UNCHANGED vars
      /\ mine' = mine /\ Waiting /\ ~doubtful
      /\ phase'[mine] # phase[mine] => ~Unsettled
  BY <1>2, GuardSteps
<1>4. CASE Respond(mine)
  <2>1. /\ phase[mine] = "refreshing" /\ \A w \in Workers : fetched[mine][w] = Applied
        /\ Aggregate = 0 /\ phase'[mine] = "answered"
    BY <1>1, <1>3, <1>4 DEF Respond, Refreshed, Types
  <2>2. late = {} /\ Total(between) = 0
    <3>1. ~Unsettled
      BY <1>3, <2>1
    <3>2. Total(between) \in Nat
      BY TotalNat DEF Types
    <3> QED
      BY <3>1, <3>2 DEF Unsettled
  <2>3. \A w \in Workers : between[w] = 0
    BY <2>2, TotalNat DEF Types
  <2>4. ~Unseen
    BY <2>1, AggregateType DEF Unseen, BlindInv, Absent
  <2>5. \A w \in Workers : load[w] <= stored[w] /\ stored[w] = 0
    BY <1>3, <2>1, <2>2, <2>4, AggregateType DEF StoredInv, InRefresh
  <2>6. Drained
    BY <2>3, <2>5 DEF Drained, Types
  <2> QED
    BY <2>6, DrainedKept
<1>5. CASE ~Respond(mine)
  <2>0. mine \in Scrapes
    BY <1>1, <1>3
  <2> DEFINE Kept == phase[mine] = "answered" /\ response[mine] = 0
  <2>1. ASSUME NEW s \in Scrapes, s # mine, StartScrape(s) \/ RespondElsewhere(s) \/ Close(s) PROVE Kept
    BY <1>3, <2>0, <2>1 DEF StartScrape, RespondElsewhere, Close, Types
  <2>2. ASSUME NEW s \in Scrapes, Refresh(s) PROVE Kept
    BY <1>3, <2>2 DEF Refresh, Fetch, Store
  <2>3. ASSUME RequestStep \/ UNCHANGED vars PROVE Kept
    <3>1. UNCHANGED scrapeVars
      BY <2>3
         DEF RequestStep, Finish, Leave, HandOver, GiveUp, vars, system,
             loadVars
    <3> QED
      BY <1>3, <3>1 DEF scrapeVars
  <2> HIDE DEF Kept
  <2>4. ASSUME NEW s \in Scrapes, Serve(s) PROVE Kept
    BY <1>5, <2>1, <2>2, <2>4 DEF Serve
  <2>5. Kept
    BY <1>3, <2>1, <2>3, <2>4 DEF Others
  <2>6. Drained
    BY <1>3, <2>5 DEF Kept, AnswerInv
  <2> QED
    BY <2>6, DrainedKept
<1> QED
  BY <1>4, <1>5

\* Every step keeps CleanInv.
LEMMA CleanNext ==
  Types /\ WaitInv /\ AnswerInv /\ CleanInv /\ [Next]_vars => CleanInv'
<1> SUFFICES ASSUME Types, WaitInv, AnswerInv, CleanInv, [Next]_vars, clean'
             PROVE  Drained
  BY DrainedKept DEF CleanInv
<1>1. CASE clean
  BY <1>1 DEF CleanInv
<1>2. CASE ~clean
  <2>1. Watch /\ zeros' > zeros /\ ~doubtful
    BY <1>2 DEF Next, Watch, Ended, vars, history
  <2>2. ReadResponse
    BY <2>1
       DEF Next, Poll, PollFails, Evaluate, Absent, TimeOut, Others, Ended,
           guardVars, vars, system, Types
  <2>3. response[mine] = 0 /\ Waiting /\ phase[mine] = "answered"
    BY <2>1, <2>2 DEF ReadResponse, Evaluate, WaitInv, Types
  <2> QED
    BY <2>1, <2>3 DEF AnswerInv
<1> QED
  BY <1>1, <1>2

-----------------------------------------------------------------------------

\* Inv holds at first.
LEMMA InvInit == Init => Inv
<1> SUFFICES ASSUME Init PROVE Inv
  OBVIOUS
<1>1. Types /\ BlindInv
  BY TypesInit, BlindInit
<1>2. WaitInv /\ LoadInv
  BY
     DEF Init, LoadInit, WaitInv, Waiting, LoadInv, FetchInv, LateInv,
         StoredInv, AnswerInv, CleanInv, InRefresh, Applied
<1> QED
  BY <1>1, <1>2 DEF Inv

\* Every step keeps Inv.
LEMMA InvNext == Inv /\ [Next]_vars => Inv'
BY TypesNext, WaitNext, BlindNext, FetchNext, LateNext, StoredNext, AnswerNext,
   CleanNext
   DEF Inv, LoadInv

\* Inv is an invariant.
LEMMA Invariance == Spec => []Inv
BY InvInit, InvNext, PTL DEF Spec

\* The guard lets the next stage start only when every worker is idle and no
\* retry is under way, unless each of its zero samples met a hand-over
\* (wait_for_server_drain).
THEOREM DrainedIsIdle == Spec => []DrainedMeansIdle
<1>1. Inv => DrainedMeansIdle
  <2> SUFFICES ASSUME Inv, clean PROVE Total(load) + Total(between) = 0
    BY DEF DrainedMeansIdle
  <2>1. Drained
    BY DEF Inv, LoadInv, CleanInv
  <2>2. Total(load) = 0 /\ Total(between) = 0
    BY <2>1, TotalNat DEF Drained
  <2> QED
    BY <2>2
<1> QED
  BY <1>1, Invariance, PTL

\* A replica whose gauges the router never has keeps the guard from passing,
\* whatever the others show (prometheus leaves the sums out).
THEOREM BlindReplicaBlocks == Spec => []BlindReplicaBlocksGuard
<1>1. Inv => BlindReplicaBlocksGuard
  BY BlindReplica DEF Inv, BlindInv, BlindReplicaBlocksGuard
<1> QED
  BY <1>1, Invariance, PTL

=============================================================================
