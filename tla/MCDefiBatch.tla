----------------------------- MODULE MCDefiBatch -----------------------------
EXTENDS DefiBatch
CONSTANTS a1, a2
MCOwner == [a \in Actions |-> 1]
=============================================================================
