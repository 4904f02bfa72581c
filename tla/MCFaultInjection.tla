-------------------------- MODULE MCFaultInjection --------------------------
\* FaultInjection for TLC: workers named in the order of the command line.
EXTENDS FaultInjection, TLC

MCName == [w \in Workers |-> w]

MCSymmetry == Permutations(Requests)
=============================================================================
