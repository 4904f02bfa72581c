---------------------------- MODULE MCDrainGuard ----------------------------
\* DrainGuard for TLC: two workers with distinct or equal names; the first holds
\* the only request and has its gauges or has not.
EXTENDS DrainGuard

MCNamings == {[w \in Workers |-> w], [w \in Workers |-> 1]}
MCLoads == {[w \in Workers |-> IF w = 1 THEN 1 ELSE 0]}
MCSilences == {{}, {1}}
=============================================================================
