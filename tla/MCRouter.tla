------------------------------ MODULE MCRouter ------------------------------
(* Instances of the router small enough for TLC. *)
EXTENDS RouterProperties, TLC

\* The name order is the reverse of the --worker order.
MCName == [w \in Workers |-> 10 - w]

\* main does not reject two workers of one name.
MCSharedName == [w \in Workers |-> IF w = 3 THEN 3 ELSE 1]

MCSymmetry == Permutations(Requests)
=============================================================================
