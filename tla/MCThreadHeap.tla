---------------------------- MODULE MCThreadHeap ----------------------------
\* One thread can go through all heaps, so that they run out for the other.
EXTENDS CLThreadHeap

CONSTANTS t1, t2

MCLeavable == {<<t1, 1>>, <<t1, 2>>}

\* Recovery has put nothing into the table, or one heap.
MCInit == Init /\ threadHeapTable \subseteq {2}
MCSpec == MCInit /\ [][Next]_vars /\ Fairness
=============================================================================
