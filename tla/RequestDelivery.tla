--------------------------- MODULE RequestDelivery ---------------------------
(***************************************************************************)
(* What the router promises each client, whatever the workers, the policy  *)
(* and the circuits do: a request is tried on at most MaxAttempts worker   *)
(* names, never twice on one, all of them before the response starts; the  *)
(* response starts at most once; and a submitted request is closed in the  *)
(* end, unless its client stops reading and keeps its connection.          *)
(***************************************************************************)
EXTENDS Naturals, FiniteSets

CONSTANTS
  Requests,
  Readers,      \* the clients that go on reading, or close their connection
  Names,
  MaxAttempts

VARIABLES
  phase,   \* how far the client has come
  tried    \* the worker names the request was sent to

vars == <<phase, tried>>

Init ==
  /\ phase = [r \in Requests |-> "new"]
  /\ tried = [r \in Requests |-> {}]

Submit(r) ==
  /\ phase[r] = "new"
  /\ phase' = [phase EXCEPT ![r] = "pending"]
  /\ UNCHANGED tried

Try(r, n) ==
  /\ phase[r] = "pending"
  /\ n \notin tried[r]
  /\ Cardinality(tried[r]) < MaxAttempts
  /\ tried' = [tried EXCEPT ![r] = @ \cup {n}]
  /\ UNCHANGED phase

Respond(r) ==
  /\ phase[r] = "pending"
  /\ tried[r] # {}
  /\ phase' = [phase EXCEPT ![r] = "responding"]
  /\ UNCHANGED tried

Close(r) ==
  /\ phase[r] \in {"pending", "responding"}
  /\ phase' = [phase EXCEPT ![r] = "closed"]
  /\ UNCHANGED tried

Next ==
  \E r \in Requests :
    Submit(r) \/ (\E n \in Names : Try(r, n)) \/ Respond(r) \/ Close(r)

SafeSpec == Init /\ [][Next]_vars

Spec == SafeSpec /\ \A r \in Readers : WF_vars(Close(r))
=============================================================================
