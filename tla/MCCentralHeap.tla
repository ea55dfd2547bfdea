--------------------------- MODULE MCCentralHeap ---------------------------
\* Three segments, one of them with the metadata, for two heaps: the other
\* two change hands while crashes interrupt every step.
EXTENDS CLCentralHeap
=============================================================================
