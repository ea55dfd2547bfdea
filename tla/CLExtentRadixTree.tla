------------------------- MODULE CLExtentRadixTree -------------------------
(***************************************************************************)
(* The extents of one segment's pages: a radix tree of two levels over the *)
(* page's number.  A leaf is made with its first extent and deleted with   *)
(* its last; how many it has is kept in the upper 16 bits of the root's    *)
(* pointer to it.  Only the thread of the heap that owns the segment calls *)
(* in.  (The root's own count is kept in the caller's copy of the finder,  *)
(* and nothing ever reads it.)                                             *)
(*                                                                         *)
(* operator new ends the program rather than fail.                         *)
(***************************************************************************)
EXTENDS Integers

CONSTANTS
    RootSlots, LeafSlots,   \* 2^10 and 2^9 in the code
    Segment,                \* whose pages these are
    Extents,
    NoExtent,               \* CLExtent(0)
    NoNode                  \* the null pointer

Counts  == 2^16            \* uint16_t *count
SegmentPages == RootSlots * LeafSlots
Pages   == Segment * SegmentPages .. Segment * SegmentPages + SegmentPages - 1
RootIdx == 0 .. RootSlots - 1
LeafIdx == 0 .. LeafSlots - 1
Leaves  == [LeafIdx -> Extents \cup {NoExtent}]

ASSUME TreeAssumption ==
    /\ RootSlots \in Nat \ {0}
    /\ LeafSlots \in 1 .. Counts - 1
    /\ Segment \in Nat
    /\ NoExtent \notin Extents
    /\ NoNode \notin Leaves
    /\ NoNode \notin [RootIdx -> Leaves \cup {NoNode}]

VARIABLES
    m_root,    \* NoNode, or the root's pointers to the leaves
    count      \* count[i]: the extents in the leaf at i, beside the pointer

treeVars == <<m_root, count>>

\* getIndexFromKey on the two levels: the first masks the segment's number.
RootIndex(p) == (p % SegmentPages) \div LeafSlots
LeafIndex(p) == p % LeafSlots

NewLeaf == [j \in LeafIdx |-> NoExtent]

TreeInit ==
    /\ m_root = NoNode
    /\ count = [i \in RootIdx |-> 0]

InitTree ==
    /\ m_root = NoNode
    /\ m_root' = [i \in RootIdx |-> NoNode]
    /\ count' = [i \in RootIdx |-> 0]

\* The root's destructor deletes every leaf.
Destroy ==
    /\ m_root # NoNode
    /\ m_root' = NoNode
    /\ count' = [i \in RootIdx |-> 0]

Leaf(i) == IF m_root[i] = NoNode THEN NewLeaf ELSE m_root[i]

Insert(p, e) ==
    LET i == RootIndex(p) j == LeafIndex(p) IN
    /\ m_root # NoNode
    /\ m_root' = [m_root EXCEPT ![i] = [Leaf(i) EXCEPT ![j] = e]]
    /\ count' = IF Leaf(i)[j] = NoExtent
                THEN [count EXCEPT ![i] = (@ + 1) % Counts]
                ELSE count

\* Mutants: the leaf goes with its last extent but one; it never goes.
EmptyTooEarly(n) == n <= 1
EmptyNever(n)    == FALSE

Empty(n) == n = 0

\* An extent of one page is removed twice, as head and as tail.
Remove(p) ==
    LET i    == RootIndex(p)
        j    == LeafIndex(p)
        left == IF m_root[i][j] = NoExtent THEN count[i] ELSE (count[i] - 1) % Counts
    IN
    /\ m_root # NoNode
    /\ IF m_root[i] = NoNode
       THEN UNCHANGED treeVars
       ELSE /\ m_root' = [m_root EXCEPT
                  ![i] = IF Empty(left) THEN NoNode ELSE [@ EXCEPT ![j] = NoExtent]]
            /\ count' = [count EXCEPT ![i] = left]

Get(p) ==
    IF m_root = NoNode \/ m_root[RootIndex(p)] = NoNode
    THEN NoExtent
    ELSE m_root[RootIndex(p)][LeafIndex(p)]

TreeNext ==
    \/ InitTree \/ Destroy
    \/ \E p \in Pages : Remove(p) \/ \E e \in Extents : Insert(p, e)

TreeSpec == TreeInit /\ [][TreeNext]_treeVars

-----------------------------------------------------------------------------
TreeTypeOK ==
    /\ m_root \in {NoNode} \cup [RootIdx -> Leaves \cup {NoNode}]
    /\ count \in [RootIdx -> 0 .. LeafSlots]

\* There is a leaf exactly where there are extents: none is kept for nothing,
\* and the counts that decide about it are never off.
LeavesExact ==
    m_root # NoNode =>
        \A i \in RootIdx :
            /\ m_root[i] # NoNode <=> \E p \in Pages : RootIndex(p) = i /\ Get(p) # NoExtent
            /\ m_root[i] = NoNode <=> count[i] = 0

\* The tree is the function from pages to extents that merging and freeing
\* rely on, whatever the order of insertions, replacements and removals.
Map == INSTANCE ExtentMap WITH extents <- [p \in Pages |-> Get(p)]

ImplementsMap == Map!Spec
=============================================================================
