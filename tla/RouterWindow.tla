---------------------------- MODULE RouterWindow ----------------------------
(***************************************************************************)
(* The router's counters during one workload of a benchmark, and the       *)
(* snapshots that the client takes of them.  The router may be restarted   *)
(* at any time, which sets its counters back to zero and forgets the       *)
(* requests under way; what happened between the two named snapshots is    *)
(* kept in "seen".                                                         *)
(***************************************************************************)
EXTENDS Telemetry

CONSTANTS
  Workers,
  MaxAttempts,   \* bound: attempts before and during the workload
  MaxRestarts,   \* bound: restarts of the router
  MaxPeriodic    \* bound: snapshots of the sampler thread

ASSUME BoundsAssumption ==
  /\ IsFiniteSet(Workers)
  /\ MaxAttempts \in Nat /\ MaxRestarts \in Nat /\ MaxPeriodic \in Nat

VARIABLES
  counts,    \* the router's counters and gauges, per worker
  seen,      \* the events since the snapshot "before_workload", per worker
  held,      \* attempts under way at the two named snapshots, per worker
  snapshots,
  attempts,  \* attempts so far
  restarts,
  reset      \* has the router been restarted since "before_workload"?

windowVars == <<counts, seen, held, snapshots, attempts, restarts, reset>>

Counters == {"attempts", "successes", "failures", "cancellations"}
Gauges == {"inflight", "circuit_open", "upstream_metrics_up"}

Fresh == [f \in Counters \cup Gauges |-> 0]
NoEvents == [w \in Workers |-> [f \in Counters |-> 0]]

WindowInit ==
  /\ counts = [w \in Workers |-> Fresh]
  /\ seen = NoEvents
  /\ held = [phase \in {"before_workload", "after_workload"} |->
               [w \in Workers |-> 0]]
  /\ snapshots = <<>> /\ attempts = 0 /\ restarts = 0 /\ reset = FALSE

Taken(phase) == OfPhase(snapshots, phase) # {}

Dispatch(w) ==
  /\ attempts < MaxAttempts
  /\ counts[w].circuit_open = 0
  /\ attempts' = attempts + 1
  /\ counts' = [counts EXCEPT ![w].attempts = @ + 1, ![w].inflight = @ + 1]
  /\ seen' = [seen EXCEPT ![w].attempts = @ + 1]
  /\ UNCHANGED <<held, snapshots, restarts, reset>>

\* A failure may open the circuit.
Settle(w) ==
  /\ counts[w].inflight > 0
  /\ \E outcome \in Counters \ {"attempts"}, open \in {0, 1} :
       /\ open = 1 => outcome = "failures"
       /\ counts' = [counts EXCEPT
                       ![w][outcome] = @ + 1, ![w].inflight = @ - 1,
                       ![w].circuit_open = Max({@, open})]
       /\ seen' = [seen EXCEPT ![w][outcome] = @ + 1]
  /\ UNCHANGED <<held, snapshots, attempts, restarts, reset>>

CloseCircuit(w) ==
  /\ counts[w].circuit_open = 1
  /\ counts' = [counts EXCEPT ![w].circuit_open = 0]
  /\ UNCHANGED <<seen, held, snapshots, attempts, restarts, reset>>

RestartRouter ==
  /\ restarts < MaxRestarts
  /\ restarts' = restarts + 1
  /\ counts' = [w \in Workers |-> Fresh]
  /\ reset' = TRUE
  /\ UNCHANGED <<seen, held, snapshots, attempts>>

\* A successful snapshot; the router has just asked its workers for their load.
Snapshot(phase) ==
  \E up \in {0, 1} :
    snapshots' = Append(snapshots,
      [phase |-> phase,
       metrics |-> [m \in (Counters \cup Gauges) \X Workers |->
                      IF m[1] = "upstream_metrics_up" THEN up
                      ELSE counts[m[2]][m[1]]]])

SamplePeriodically ==
  /\ Cardinality(OfPhase(snapshots, "none")) < MaxPeriodic
  /\ Snapshot("none")
  /\ UNCHANGED <<counts, seen, held, attempts, restarts, reset>>

\* One of the two named snapshots, which may fail.
SampleNow(phase) ==
  /\ Snapshot(phase) \/ UNCHANGED snapshots
  /\ held' = [held EXCEPT ![phase] = [w \in Workers |-> counts[w].inflight]]
  /\ seen' = IF phase = "before_workload" THEN NoEvents ELSE seen
  /\ reset' = (reset /\ phase # "before_workload")
  /\ UNCHANGED <<counts, attempts, restarts>>

RouterStep ==
  \/ \E w \in Workers : Dispatch(w) \/ Settle(w) \/ CloseCircuit(w)
  \/ RestartRouter \/ SamplePeriodically

-----------------------------------------------------------------------------

\* The columns a summary row gets from the router can be relied upon.  None of
\* its counts exceeds what happened between the two named snapshots, even when
\* the router was restarted in between; without a restart they are exact for
\* every worker, and attempts that are neither successes, errors nor
\* cancellations are those under way.  The columns agree with one another.
ColumnsSound(columns) ==
  LET named == {<<"request_counts", "attempts">>, <<"success_counts", "successes">>,
                <<"error_counts", "failures">>,
                <<"cancellation_counts", "cancellations">>}
      Growth(w) == held["after_workload"][w] - held["before_workload"][w]
      open == {w \in DOMAIN columns.health_states :
                 columns.health_states[w] = "circuit_open"}
  IN  /\ Taken("before_workload") /\ Taken("after_workload") =>
           /\ \A c \in named : \A w \in Workers :
                /\ columns[c[1]][w] <= seen[w][c[2]]
                /\ ~reset => columns[c[1]][w] = seen[w][c[2]]
           /\ ~reset => \A w \in Workers :
                columns.request_counts[w]
                  = columns.success_counts[w] + columns.error_counts[w]
                      + columns.cancellation_counts[w] + Growth(w)
      /\ open # {} => Cardinality(open) <= columns.circuit_open_workers_max
      /\ columns.imbalance[1] = 0
           => \A v, w \in DOMAIN columns.request_counts :
                columns.request_counts[v] = columns.request_counts[w]
=============================================================================
