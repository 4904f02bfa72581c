---------------------------- MODULE ArrivalPlan -----------------------------
(***************************************************************************)
(* What a load plan promises: request i arrives in its turn and not before *)
(* its time, requests begin in the order of their arrival while at most    *)
(* "limit" of them are under way, and each of them ends, once.             *)
(***************************************************************************)
EXTENDS Naturals, FiniteSets

VARIABLES
  due,     \* the time of each request, counted from 0
  limit,
  clock,
  arrived, \* how many have arrived
  begun,   \* how many have begun
  ended    \* those that have ended

plan == <<due, limit, clock, arrived, begun, ended>>

Init == clock = 0 /\ arrived = 0 /\ begun = 0 /\ ended = {}

Requests == DOMAIN due

UnderWay == {i \in Requests : i < begun /\ i \notin ended}

Tick ==
  /\ clock' = clock + 1
  /\ UNCHANGED <<due, limit, arrived, begun, ended>>

Arrive ==
  /\ arrived \in Requests
  /\ clock >= due[arrived]
  /\ arrived' = arrived + 1
  /\ UNCHANGED <<due, limit, clock, begun, ended>>

\* A request that is turned away ends as it begins.
Begin ==
  /\ begun < arrived
  /\ Cardinality(UnderWay) < limit
  /\ begun' = begun + 1
  /\ ended' \in {ended, ended \cup {begun}}
  /\ UNCHANGED <<due, limit, clock, arrived>>

End(i) ==
  /\ i \in UnderWay
  /\ ended' = ended \cup {i}
  /\ UNCHANGED <<due, limit, clock, arrived, begun>>

Next == Tick \/ Arrive \/ Begin \/ \E i \in Requests : End(i)

SafeSpec == Init /\ [][Next]_plan

Spec == SafeSpec /\ <>(ended = Requests)
=============================================================================
