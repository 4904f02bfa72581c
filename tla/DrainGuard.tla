----------------------------- MODULE DrainGuard -----------------------------
(***************************************************************************)
(* wait_for_server_drain (src/scripts/benchmark_vllm.py) polling the       *)
(* router's /metrics, while other clients (the sampler thread, Prometheus) *)
(* scrape it too.  Nothing is submitted meanwhile: the benchmark is the    *)
(* only client and stands still inside the guard.  What earlier stages     *)
(* left behind, such as requests whose client has timed out, is finished   *)
(* by the workers or handed by the router from one worker to another.      *)
(***************************************************************************)
EXTENDS WorkerLoad

CONSTANT StableSamples    \* --drain-stable-samples

ASSUME StableAssumption == StableSamples \in Nat /\ StableSamples >= 1

VARIABLES
  guard,   \* where the guard stands
  mine,    \* the scrape that serves its current poll
  zeros    \* consecutive_zero_samples

\* History: what the guard cannot see.
VARIABLES
  late,      \* scrapes that may have fetched before the last hand-over landed
  doubtful,  \* the guard's scrape met a hand-over
  clean      \* one of the current zero samples met none

guardVars == <<guard, mine, zeros>>
history == <<late, doubtful, clean>>
system == <<loadVars, guardVars>>
vars == <<system, history>>

NoScrape == "none"

ASSUME NoScrapeAssumption == NoScrape \notin Scrapes

Init ==
  /\ LoadInit
  /\ guard = "poll"
  /\ mine = NoScrape
  /\ zeros = 0
  /\ late = {} /\ doubtful = FALSE /\ clean = FALSE

\* Every poll opens a connection of its own.  All but the first follow a
\* time.sleep(poll_interval_s) that has not passed the deadline.
Poll ==
  /\ guard \in {"poll", "sleep"}
  /\ \E s \in Scrapes : StartScrape(s) /\ mine' = s
  /\ guard' = "waiting"
  /\ UNCHANGED zeros

\* A sample without the gauges raises, which also starts the count again.
Evaluate(sample) == zeros' = IF sample = 0 THEN zeros + 1 ELSE 0

ReadResponse ==
  /\ guard = "waiting"
  /\ phase[mine] = "answered"
  /\ Evaluate(response[mine])
  /\ guard' = IF zeros' >= StableSamples THEN "drained" ELSE "sleep"
  /\ Close(mine)
  /\ mine' = NoScrape

\* fetch_metrics_text timed out or failed.  The router's thread is not told:
\* its scrape goes on and still stores what it fetched.
PollFails ==
  /\ guard = "waiting"
  /\ Evaluate(Absent)
  /\ guard' = "sleep"
  /\ mine' = NoScrape
  /\ UNCHANGED loadVars

\* Mutation: the loop runs until it has seen idle queues.
TimeOut_Unchecked ==
  /\ guard = "sleep" /\ zeros >= StableSamples
  /\ guard' = "timedout"
  /\ UNCHANGED <<loadVars, mine, zeros>>

TimeOut ==
  /\ guard = "sleep"
  /\ guard' = "timedout"
  /\ UNCHANGED <<loadVars, mine, zeros>>

\* What happens next is the next stage's, not the guard's.
Ended == guard \in {"drained", "timedout"} /\ UNCHANGED vars
Running == guard \notin {"drained", "timedout"}

Serve(s) ==
  \/ Refresh(s)
  \/ IF s = mine THEN Respond(s) ELSE RespondElsewhere(s) \/ Close(s)

Others ==
  /\ Running
  /\ \/ \E s \in Scrapes \ {mine} : StartScrape(s)
     \/ \E s \in Scrapes : Serve(s)
     \/ RequestStep
  /\ UNCHANGED guardVars

Refreshing(p) == {s \in Scrapes : p[s] = "refreshing"}

\* A request is between two workers, or an answer from before it arrived at the
\* second can still be stored.
Unsettled == Total(between) > 0 \/ late # {}

\* How the history follows every step.
Watch ==
  /\ late' = IF \E w \in Workers : load'[w] > load[w]
             THEN Refreshing(phase')
             ELSE late \cap Refreshing(phase')
  /\ doubtful' = /\ mine' # NoScrape
                 /\ \/ doubtful
                    \/ (mine # mine' \/ phase[mine] # phase'[mine]) /\ Unsettled
  /\ clean' = /\ zeros' > 0
              /\ clean \/ (zeros' > zeros /\ ~doubtful)

Next ==
  \/ Poll /\ Watch
  \/ ReadResponse /\ Watch
  \/ PollFails /\ Watch
  \/ TimeOut /\ Watch
  \/ Others /\ Watch
  \/ Ended

Spec == Init /\ [][Next]_vars

\* Threads run, fetches end (timeout 1 s), and the guard's deadline arrives.
\* Poll needs strong fairness only because Scrapes is finite: the server has a
\* fresh thread for every connection.
FairSpec ==
  /\ Spec
  /\ SF_system(Poll) /\ WF_system(ReadResponse)
  /\ SF_system(TimeOut)
  /\ \A s \in Scrapes : WF_system(Running /\ Serve(s) /\ UNCHANGED guardVars)

-----------------------------------------------------------------------------

\* The guard lets the next stage start only when every worker is idle and no
\* retry is under way, with scrapes of other clients and its own abandoned ones
\* still running.  The one thing that can deceive it is a hand-over that each
\* of its consecutive zero samples met: one sample without is enough.
DrainedMeansIdle ==
  guard = "drained" /\ clean => Total(load) + Total(between) = 0

\* A replica behind the fault proxy shows no queue gauges, so the guard never
\* passes through a router that has one; the same goes for a second worker
\* under one name, whose gauges are never stored.
BlindReplicaBlocksGuard ==
  (silent # {} \/ Cardinality({name[w] : w \in Workers}) < NumWorkers)
    => guard # "drained"

\* The guard always returns or raises, even if some replica never answers.
GuardEnds == <>(guard \in {"drained", "timedout"})
=============================================================================
