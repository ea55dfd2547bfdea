--------------------------- MODULE CLIntervalTree ---------------------------
(***************************************************************************)
(* The red-black tree in which a heap finds its free pages, ordered by the *)
(* length of the intervals and then by their start, with the recursive     *)
(* insertion and removal of the code and every case of their rebalancing.  *)
(*                                                                         *)
(* A tree is NULL or a node with its two subtrees.  A removed node keeps   *)
(* its fields, the caller frees it or inserts it again for another         *)
(* interval.  Four things can spoil a tree, two of removal and two of its  *)
(* callers; the model takes the step that does and goes no further, and    *)
(* "spoilt" says which it was:                                             *)
(*   "swap"    an interval to remove changes places with its left child    *)
(*             and not with its predecessor, so that what lies right of    *)
(*             that child is on the wrong side of it;                      *)
(*   "flag"    after a removal from the right, which subtree has become    *)
(*             too low is read from a variable that was never set;         *)
(*   "shared"  a node whose right subtree took its place is inserted again *)
(*             with its old link to that subtree;                          *)
(*   "raw"     free() does not construct the node it inserts: the links to *)
(*             its subtrees are what its memory held before, those of a    *)
(*             node given back or, in a new DRAM run, anything.            *)
(* The properties say that nothing else does.                              *)
(***************************************************************************)
EXTENDS Integers, Sequences, FiniteSets, FiniteSetsExt

CONSTANTS
    Starts,     \* where intervals may start, far enough from each other
    MaxLen      \* bound on their length

ASSUME TreeAssumption ==
    /\ Starts \subseteq Nat
    /\ MaxLen \in Nat \ {0}

Lens      == 1 .. MaxLen
Intervals == [start : Starts, len : Lens]

VARIABLES
    tree,     \* m_root
    hand,     \* the removed node in its caller's hands, or NULL
    stored,   \* history: the intervals in the tree, as its callers know them
    spoilt    \* history

vars == <<tree, hand, stored, spoilt>>

Sides    == {"left", "right"}
Other(s) == IF s = "left" THEN "right" ELSE "left"

NULL == [color |-> "black"]     \* getRootColor() of an empty tree is black

Node(i) == [color |-> "red", start |-> i.start, len |-> i.len, left |-> NULL, right |-> NULL]

\* A node that was only given its interval: each link is NULL or leads somewhere,
\* for which another node stands, that is not looked into.
RawNodes(i) == [color : {"red"}, start : {i.start}, len : {i.len},
                left : {NULL, Node(i)}, right : {NULL, Node(i)}]

SetInterval(n, i) == [n EXCEPT !.start = i.start, !.len = i.len]

IntervalOf(n) == [start |-> n.start, len |-> n.len]

Less(a, b) == \/ a.len < b.len
              \/ a.len = b.len /\ a.start < b.start

SetRootColor(t, color) == IF t = NULL THEN t ELSE [t EXCEPT !.color = color]

Init ==
    /\ tree = NULL
    /\ hand = NULL
    /\ stored = {}
    /\ spoilt = {}

-----------------------------------------------------------------------------
(* Rotation and insertion *)

\* Mutant: the inner subtree stays where it was.
RaiseKeepsInner(t, s) == [t[s] EXCEPT ![Other(s)] = t]

\* rotateL raises the left child, rotateR the right one.
Raise(t, s) == [t[s] EXCEPT ![Other(s)] = [t EXCEPT ![s] = t[s][Other(s)]]]

\* adjustLL, adjustRR
AdjustOuter(t, s) == [Raise([t EXCEPT !.color = "red"], s) EXCEPT !.color = "black"]

\* adjustLR, adjustRL
AdjustInner(t, s) == AdjustOuter([t EXCEPT ![s] = Raise(@, Other(s))], s)

PaintChildsBlack(t) ==
    [t EXCEPT !.color = "red",
              !.left = SetRootColor(@, "black"),
              !.right = SetRootColor(@, "black")]

\* The child of t at "to" is red, and so is that child's child at "state".
DoAdjustDuringInsertion(t, to, state) ==
    IF t[Other(to)].color = "red"
    THEN [root |-> PaintChildsBlack(t), state |-> "New"]
    ELSE [root  |-> IF state = to THEN AdjustOuter(t, to) ELSE AdjustInner(t, to),
          state |-> "N"]

\* state: "New" when the root has become red, a side when the root was red and
\* its child at that side has become red, else "N".
RECURSIVE InsertInto(_, _)
InsertInto(t, n) ==
    IF t = NULL THEN [root |-> n, state |-> "New"]
    ELSE LET to   == IF Less(n, t) THEN "left" ELSE "right"
             sub  == InsertInto(t[to], n)
             this == [t EXCEPT ![to] = sub.root]
         IN CASE sub.state \in Sides -> DoAdjustDuringInsertion(this, to, sub.state)
              [] sub.state = "New"   -> [root  |-> this,
                                         state |-> IF t.color = "black" THEN "N" ELSE to]
              [] sub.state = "N"     -> [root |-> this, state |-> "N"]

Inserted(t, n) == SetRootColor(InsertInto(t, [n EXCEPT !.color = "red"]).root, "black")

-----------------------------------------------------------------------------
(* Removal.  A result has the removed node, the tree's new root, whether    *)
(* the tree has lost a black level, and what has spoilt it.                 *)

\* Both nephews are black: the sibling loses a level as well.
RepaintSibling(t, from) ==
    [root |-> [t EXCEPT !.color = "black", ![Other(from)].color = "red"],
     keep |-> t.color = "black"]

\* The subtree of t at "from" has lost a black level.
RECURSIVE DoAdjustDuringDeletion(_, _)
DoAdjustDuringDeletion(t, from) ==
    LET s   == Other(from)
        bro == t[s]
    IN CASE bro.color = "red" ->
              LET up == Raise([t EXCEPT !.color = "red"], s)
              IN [root |-> [up EXCEPT !.color = "black",
                                      ![from] = DoAdjustDuringDeletion(@, from).root],
                  keep |-> FALSE]
         [] bro.color = "black" /\ bro[s].color = "red" ->
              LET up == Raise([t EXCEPT !.color = "black", ![s].color = t.color], s)
              IN [root |-> [up EXCEPT ![s].color = "black"], keep |-> FALSE]
         [] bro.color = "black" /\ bro[s].color = "black" /\ bro[from].color = "red" ->
              LET inner == [t EXCEPT !.color = "black",
                                     ![s] = [Raise(@, from) EXCEPT !.color = t.color]]
              IN [root |-> Raise(inner, s), keep |-> FALSE]
         [] OTHER -> RepaintSibling(t, from)

Nothing == [res |-> NULL, root |-> NULL, keep |-> FALSE, spoils |-> {}]

\* sub was removed from the subtree of t at "from".
Rejoin(t, from, sub) ==
    LET this == [t EXCEPT ![from] = sub.root]
        fix  == IF sub.keep THEN DoAdjustDuringDeletion(this, from)
                            ELSE [root |-> this, keep |-> FALSE]
    IN [sub EXCEPT !.root = fix.root, !.keep = fix.keep,
                   !.spoils = IF sub.keep /\ from = "right" THEN @ \cup {"flag"} ELSE @]

IsLeaf(t) == t.left = NULL

\* Removes the interval in the root.
RECURSIVE RemoveRoot(_)
RemoveRoot(t) ==
    IF IsLeaf(t)
    THEN [res    |-> t,
          root   |-> IF t.color = "red" THEN NULL ELSE SetRootColor(t.right, "black"),
          keep   |-> t.color = "black" /\ t.right = NULL,
          spoils |-> {}]
    ELSE LET sub == RemoveRoot(SetInterval(t.left, t))
             out == Rejoin(SetInterval(t, t.left), "left", sub)
         IN IF t.left.right = NULL THEN out ELSE [out EXCEPT !.spoils = @ \cup {"swap"}]

\* Mutant: a shorter interval may stand for a better one on its right.
RemoveFitFirst(t, len) ==
    IF t # NULL /\ t.len >= len THEN RemoveRoot(t) ELSE Nothing

\* getAndRemove(len): a shortest interval of at least len.
RECURSIVE RemoveFit(_, _)
RemoveFit(t, len) ==
    IF t = NULL THEN Nothing
    ELSE LET from == IF t.len < len THEN "right" ELSE "left"
             sub  == IF t.len = len THEN Nothing ELSE RemoveFit(t[from], len)
         IN CASE sub.res # NULL                -> Rejoin(t, from, sub)
              [] sub.res = NULL /\ t.len >= len -> RemoveRoot(t)
              [] OTHER                          -> Nothing

\* getAndRemove(len, start)
RECURSIVE RemoveExactly(_, _)
RemoveExactly(t, i) ==
    IF t = NULL THEN Nothing
    ELSE IF IntervalOf(t) = i THEN RemoveRoot(t)
    ELSE LET from == IF Less(t, i) THEN "right" ELSE "left"
             sub  == RemoveExactly(t[from], i)
         IN IF sub.res = NULL THEN Nothing ELSE Rejoin(t, from, sub)

-----------------------------------------------------------------------------
(* The calls of CLNVMLargeObjAllocator.  Bound: each start is used by one   *)
(* interval at a time, so that insert never meets its like and never fails. *)

Unspoilt == spoilt = {}

New(i) == \A j \in stored : j.start # i.start

\* A new node, constructed, for what a new segment has left.  Before it, alloc
\* has found no fit: nothing is in its hands.
InsertConstructed(i) ==
    /\ Unspoilt /\ New(i) /\ hand = NULL
    /\ tree' = Inserted(tree, Node(i))
    /\ stored' = stored \cup {i}
    /\ UNCHANGED <<hand, spoilt>>

\* A new node for pages that free() merges with nothing.  All is well if its
\* memory happens to hold no links.
Insert(i) ==
    /\ Unspoilt /\ New(i) /\ hand = NULL
    /\ \E n \in RawNodes(i) :
          /\ tree' = Inserted(tree, n)
          /\ spoilt' = IF n = Node(i) THEN {} ELSE {"raw"}
    /\ stored' = stored \cup {i}
    /\ UNCHANGED hand

\* A removed node again, for what is left of its pages or for merged ones.
InsertAgain(i) ==
    /\ Unspoilt /\ New(i) /\ hand # NULL
    /\ tree' = Inserted(tree, SetInterval(hand, i))
    /\ stored' = stored \cup {i}
    /\ hand' = NULL
    /\ spoilt' = IF hand.right = NULL THEN {} ELSE {"shared"}

\* Its memory keeps the links, for the next Insert to find.
FreeNode ==
    /\ Unspoilt /\ hand # NULL
    /\ hand' = NULL
    /\ UNCHANGED <<tree, stored, spoilt>>

\* The flag that was never set may have the right value, and then all is well.
Take(out) ==
    /\ out.res # NULL
    /\ tree' = out.root
    /\ stored' = stored \ {IntervalOf(out.res)}
    /\ \/ spoilt' = out.spoils \ {"flag"}
       \/ spoilt' = out.spoils /\ "flag" \in out.spoils

GetAndRemoveFit(len) ==
    LET out == RemoveFit(tree, len) IN
    /\ Unspoilt /\ hand = NULL
    /\ Take(out)
    /\ hand' = out.res

\* free() removes the interval before the pages and the one behind them; the
\* second node goes back to the allocator.
GetAndRemoveExactly(i) ==
    LET out == RemoveExactly(tree, i) IN
    /\ Unspoilt /\ i \in stored
    /\ Take(out)
    /\ hand' = IF hand = NULL THEN out.res ELSE hand

Next ==
    \/ \E i \in Intervals : InsertConstructed(i) \/ Insert(i)
    \/ \E i \in Intervals : InsertAgain(i)
    \/ FreeNode
    \/ \E len \in Lens : GetAndRemoveFit(len)
    \/ \E i \in Intervals : GetAndRemoveExactly(i)

Spec == Init /\ [][Next]_vars
-----------------------------------------------------------------------------
RECURSIVE InOrder(_)
InOrder(t) == IF t = NULL THEN <<>> ELSE InOrder(t.left) \o <<IntervalOf(t)>> \o InOrder(t.right)

\* The number of black nodes on every path, or -1 if it differs or if a red
\* node has a red child.
RECURSIVE BlackHeight(_)
BlackHeight(t) ==
    IF t = NULL THEN 0
    ELSE LET l == BlackHeight(t.left)
             r == BlackHeight(t.right)
         IN IF l # r \/ l = -1 \/ (t.color = "red" /\ "red" \in {t.left.color, t.right.color})
            THEN -1
            ELSE l + (IF t.color = "black" THEN 1 ELSE 0)

\* Nodes are well formed (NULL, or colour, interval and subtrees).
RECURSIVE IsTree(_)
IsTree(t) ==
    \/ t = NULL
    \/ /\ DOMAIN t = {"color", "start", "len", "left", "right"}
       /\ t.color \in {"red", "black"}
       /\ IntervalOf(t) \in Intervals
       /\ IsTree(t.left) /\ IsTree(t.right)

TypeOK ==
    /\ IsTree(tree) /\ IsTree(hand)
    /\ stored \subseteq Intervals
    /\ spoilt \subseteq {"swap", "flag", "shared", "raw"}

RedBlack == tree.color = "black" /\ BlackHeight(tree) >= 0

\* The tree holds exactly the intervals given to it and not taken, in order:
\* no insertion, removal or rotation in between has lost, doubled or misplaced
\* one.  And it stays balanced: its root is black, no red node has a red child
\* and every path has as many black nodes.
HoldsInOrder ==
    /\ TypeOK
    /\ Unspoilt =>
          LET s == InOrder(tree) IN
          /\ {s[k] : k \in DOMAIN s} = stored
          /\ \A k \in 1 .. Len(s) - 1 : Less(s[k], s[k + 1])
          /\ RedBlack

\* A request gets a shortest interval that is long enough and fails only when
\* there is none; merging finds every interval that extents promise.
FindsBestFit ==
    Unspoilt =>
        /\ \A len \in Lens :
             LET fits == {i \in stored : i.len >= len}
                 res  == RemoveFit(tree, len).res
             IN IF fits = {} THEN res = NULL
                ELSE /\ res # NULL
                     /\ IntervalOf(res) \in fits
                     /\ \A i \in fits : res.len <= i.len
        /\ \A i \in stored :
             LET res == RemoveExactly(tree, i).res
             IN res # NULL /\ IntervalOf(res) = i
=============================================================================
