------------------------------- MODULE MCSlab -------------------------------
EXTENDS CLSlab

\* Nothing tells the runs apart, and no property is about liveness.
AnyRun == Permutations(Runs)
=============================================================================
