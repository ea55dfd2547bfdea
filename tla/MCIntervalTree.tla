--------------------------- MODULE MCIntervalTree ---------------------------
EXTENDS CLIntervalTree, SequencesExt

\* Two families of trees.  The low ones hold up to LowNum intervals of any length
\* and take every call.  The high ones have grown to all starts, three black
\* levels, from the left upwards, and only shrink, until they are low.
CONSTANT LowNum

GrownInit ==
    /\ tree = FoldLeft(LAMBDA t, i : Inserted(t, Node(i)), NULL,
                       [k \in 1 .. Cardinality(Starts) |-> [start |-> k, len |-> 1]])
    /\ hand = NULL
    /\ stored = [start : Starts, len : {1}]
    /\ spoilt = {}

LowIntervals == {i \in Intervals : i.start <= LowNum /\ \A j \in stored : j.start <= LowNum}

MCNext ==
    \/ \E i \in LowIntervals : InsertConstructed(i) \/ Insert(i)
    \/ \E i \in LowIntervals : InsertAgain(i)
    \/ FreeNode
    \/ \E len \in Lens : GetAndRemoveFit(len)
    \/ \E i \in Intervals : GetAndRemoveExactly(i)

MCSpec == (Init \/ GrownInit) /\ [][MCNext]_vars
=============================================================================
