----------------------------- MODULE ExtentMap -----------------------------
(***************************************************************************)
(* What the extent finder of a segment promises: a function from the       *)
(* segment's pages to the extents entered for them.                        *)
(***************************************************************************)
CONSTANTS Pages, Extents, NoExtent

VARIABLE extents

Init == extents = [p \in Pages |-> NoExtent]

Put(p, e) == extents' = [extents EXCEPT ![p] = e]
Drop(p)   == extents' = [extents EXCEPT ![p] = NoExtent]
DropAll   == extents' = [p \in Pages |-> NoExtent]

Next ==
    \/ \E p \in Pages : Drop(p) \/ \E e \in Extents : Put(p, e)
    \/ DropAll

Spec == Init /\ [][Next]_extents
=============================================================================
