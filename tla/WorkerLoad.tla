----------------------------- MODULE WorkerLoad -----------------------------
(***************************************************************************)
(* GET /metrics of the router (src/routing/router.py).  Every scrape runs  *)
(* in a handler thread of its own: it fetches the queue gauges of all the  *)
(* workers in parallel, stores each answer in the shared WorkerState as it *)
(* comes in, and then renders one snapshot.  Scrapes overlap, and nothing  *)
(* orders the answers of one against the answers of another.               *)
(*                                                                         *)
(* The two gauges (running and waiting) are one number here, their sum.    *)
(* Codes below 0 stand for the answers that hold no load.                  *)
(***************************************************************************)
EXTENDS Integers, FiniteSets, FiniteSetsExt

CONSTANTS
  Scrapes,      \* handler threads of GET /metrics, reused one after another
  NumWorkers,
  Namings,      \* names the workers may have; --worker does not force them apart
  Silences,     \* sets of workers whose /metrics may never have the two gauges
  Loads,        \* what the workers may hold when the observation starts
  MaxLoad       \* the most requests they hold together

Workers == 1..NumWorkers

ASSUME ScrapesAssumption == IsFiniteSet(Scrapes)
ASSUME WorkersAssumption == NumWorkers \in Nat /\ NumWorkers >= 2
ASSUME NamingsAssumption == Namings \subseteq [Workers -> Int]
ASSUME LoadAssumption ==
  MaxLoad \in Nat /\ Loads \subseteq [Workers -> 0..MaxLoad]
ASSUME SilencesAssumption == Silences \subseteq SUBSET Workers

VARIABLES
  name,      \* WorkerState.name
  silent,    \* the workers without gauges
  load,      \* the requests each worker really holds
  fresh,     \* how many of them the router may still take to another worker
  between,   \* requests the router took back from each and has not sent on
  stored,    \* upstream_running + upstream_waiting of each WorkerState
  phase,     \* where each scrape stands
  fetched,   \* per scrape, what its fetch of each worker returned
  response   \* per scrape, the aggregate it published

setup == <<name, silent>>
requestVars == <<load, fresh, between>>
scrapeVars == <<stored, phase, fetched, response>>
loadVars == <<setup, requestVars, scrapeVars>>

Missing == -1   \* never scraped, unreachable, or without both gauges
Pending == -2   \* the future has not finished
Applied == -3   \* the result has been stored
Absent  == -4   \* the response leaves the aggregate out

Complete(m) == m >= 0

Total(f) == MapThenSumSet(LAMBDA w : f[w], Workers)

LoadInit ==
  /\ name \in Namings /\ silent \in Silences
  /\ load \in Loads
  /\ fresh = load
  /\ between = [w \in Workers |-> 0]
  /\ stored = [w \in Workers |-> Missing]
  /\ phase = [s \in Scrapes |-> "free"]
  /\ fetched = [s \in Scrapes |-> [w \in Workers |-> Applied]]
  /\ response = [s \in Scrapes |-> Absent]

\* The worker finishes one of its requests, on its first attempt or its last.
Finish(w) ==
  /\ load[w] > 0
  /\ load' = [load EXCEPT ![w] = @ - 1]
  /\ \E n \in {fresh[w], fresh[w] - 1} \cap 0..load'[w] :
       fresh' = [fresh EXCEPT ![w] = n]
  /\ UNCHANGED <<setup, between, scrapeVars>>

\* do_POST: the first attempt at a worker has failed or timed out.  A worker
\* that is only slow goes on with the request the router has given up.
Leave(w) ==
  /\ fresh[w] > 0
  /\ \E n \in {load[w], load[w] - 1} : load' = [load EXCEPT ![w] = n]
  /\ fresh' = [fresh EXCEPT ![w] = @ - 1]
  /\ between' = [between EXCEPT ![w] = @ + 1]
  /\ UNCHANGED <<setup, scrapeVars>>

\* The retry goes to a worker of another name; there is one retry.
HandOver(w, v) ==
  /\ between[w] > 0
  /\ name[v] # name[w]
  /\ between' = [between EXCEPT ![w] = @ - 1]
  /\ load' = [load EXCEPT ![v] = @ + 1]
  /\ UNCHANGED <<setup, fresh, scrapeVars>>

\* choose_worker has no candidate left, or no retry is allowed.
GiveUp(w) ==
  /\ between[w] > 0
  /\ between' = [between EXCEPT ![w] = @ - 1]
  /\ UNCHANGED <<setup, load, fresh, scrapeVars>>

RequestStep ==
  \E w \in Workers :
    \/ Finish(w) \/ Leave(w) \/ GiveUp(w)
    \/ \E v \in Workers : HandOver(w, v)

\* refresh_worker_load submits one fetch per worker.
StartScrape(s) ==
  /\ phase[s] = "free"
  /\ phase' = [phase EXCEPT ![s] = "refreshing"]
  /\ fetched' = [fetched EXCEPT ![s] = [w \in Workers |-> Pending]]
  /\ UNCHANGED <<setup, requestVars, stored, response>>

\* Mutation: a failed fetch counts as an empty queue.
FetchResults_ZeroWhenDown(w) ==
  IF w \in silent THEN {Missing} ELSE {load[w], 0, Missing}

\* fetch_worker_load: the gauges, an answer without them, or an error.
FetchResults(w) ==
  IF w \in silent THEN {Missing} ELSE {load[w], Missing}

Fetch(s, w) ==
  /\ phase[s] = "refreshing"
  /\ fetched[s][w] = Pending
  /\ \E result \in FetchResults(w) :
       fetched' = [fetched EXCEPT ![s][w] = result]
  /\ UNCHANGED <<setup, requestVars, stored, phase, response>>

\* update_upstream_metrics writes the first worker of that name.
FirstNamed(n) ==
  CHOOSE w \in Workers :
    name[w] = n /\ \A v \in Workers : name[v] = n => w <= v

\* as_completed hands over the finished fetches in any order.
Store(s, w) ==
  /\ phase[s] = "refreshing"
  /\ fetched[s][w] \notin {Pending, Applied}
  /\ stored' = [stored EXCEPT ![FirstNamed(name[w])] = fetched[s][w]]
  /\ fetched' = [fetched EXCEPT ![s][w] = Applied]
  /\ UNCHANGED <<setup, requestVars, phase, response>>

\* Mutation: workers without gauges are left out of the sum.
Aggregate_SkipMissing ==
  MapThenSumSet(LAMBDA w : IF Complete(stored[w]) THEN stored[w] ELSE 0,
                              Workers)

\* prometheus() publishes the two sums only when every worker is complete.
Aggregate ==
  IF \A w \in Workers : Complete(stored[w])
  THEN Total(stored)
  ELSE Absent

Refreshed(s) ==
  phase[s] = "refreshing" /\ \A w \in Workers : fetched[s][w] = Applied

Respond(s) ==
  /\ Refreshed(s)
  /\ response' = [response EXCEPT ![s] = Aggregate]
  /\ phase' = [phase EXCEPT ![s] = "answered"]
  /\ UNCHANGED <<setup, requestVars, stored, fetched>>

\* The same for a client whose use of the response is not modelled.
RespondElsewhere(s) ==
  /\ Refreshed(s)
  /\ phase' = [phase EXCEPT ![s] = "free"]
  /\ UNCHANGED <<setup, requestVars, stored, fetched, response>>

\* The connection closes and the thread ends.
Close(s) ==
  /\ phase[s] = "answered"
  /\ phase' = [phase EXCEPT ![s] = "free"]
  /\ response' = [response EXCEPT ![s] = Absent]
  /\ UNCHANGED <<setup, requestVars, stored, fetched>>

Refresh(s) == \E w \in Workers : Fetch(s, w) \/ Store(s, w)
=============================================================================
