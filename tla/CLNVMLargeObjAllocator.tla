----------------------- MODULE CLNVMLargeObjAllocator -----------------------
(***************************************************************************)
(* The pages of one thread heap: CLThreadHeap hands out runs and large     *)
(* objects, CLNVMLargeObjAllocator keeps the free intervals in a tree by   *)
(* length, CLNVMExtentFinder keeps at the first and last page of every     *)
(* free interval and large object, and at every page of a run, what lies   *)
(* there, so that a freed neighbour can be merged.  Tree and extents must  *)
(* agree through splitting, merging and the return of whole segments.      *)
(*                                                                         *)
(* Only the heap's own thread works on this state; objects freed by other  *)
(* threads come through the mailbox and are freed here.  The tree is taken *)
(* to be what CLIntervalTree promises: best fit, no interval forgotten.    *)
(* Addresses are pages, offsets into the address space.                    *)
(***************************************************************************)
EXTENDS Integers, Sequences, FiniteSets

CONSTANTS
    SegmentNum,
    SegmentPages,   \* pages of a segment, 2^19 in the code
    RunPages,       \* pages of a run, 8 in the code
    RunAlign,       \* a run's address drops what lies below this boundary: 4 pages
    CacheSize,      \* runs m_NVMRunCache can keep, 254 in the code
    MaxRequest      \* bound: pages of the largest object

ASSUME PagesAssumption ==
    /\ {SegmentNum, SegmentPages, RunPages, RunAlign} \subseteq Nat \ {0}
    /\ CacheSize \in Nat
    /\ RunPages < SegmentPages
    /\ SegmentPages % RunAlign = 0
    /\ MaxRequest \in 1 .. SegmentPages - 1

VARIABLES
    m_intervalTree,   \* the free intervals of the heap
    m_extents,        \* the extent the finder has for a page
    owned,            \* the heap's segments
    m_freeSegments,   \* those of the central heap
    m_NVMRunCache,    \* empty runs kept for the next slab, oldest first
    hand,             \* pages reserved for a request that is not yet served
    objects, runs,    \* history: what the program and the slabs have
    lost              \* history: pages that no free list can reach any more

space == <<m_intervalTree, m_extents, owned, m_freeSegments>>
vars  == <<m_intervalTree, m_extents, owned, m_freeSegments, m_NVMRunCache, hand,
           objects, runs, lost>>

Segments == 0 .. SegmentNum - 1
Pages    == 0 .. SegmentNum * SegmentPages - 1

Interval(start, len) == [start |-> start, len |-> len]
PagesOf(i)   == i.start .. i.start + i.len - 1
SegmentOf(p) == p \div SegmentPages
SegmentStart(s) == s * SegmentPages
AsRuns(starts) == {Interval(r, RunPages) : r \in starts}
Cached == {m_NVMRunCache[i] : i \in DOMAIN m_NVMRunCache}

NoExtent == [kind |-> "none", len |-> 0]
Nothing  == [kind |-> "none", start |-> 0, len |-> 0]

Init ==
    /\ m_intervalTree = {}
    /\ m_extents = [p \in Pages |-> NoExtent]
    /\ owned = {}
    /\ m_freeSegments \in SUBSET Segments
    /\ m_NVMRunCache = <<>>
    /\ hand = Nothing
    /\ objects = {}
    /\ runs = {}
    /\ lost = {}

-----------------------------------------------------------------------------
(* CLNVMExtentFinder, as functions of the extents. *)

SetHeadTail(ext, i, e) == [ext EXCEPT ![i.start] = e, ![i.start + i.len - 1] = e]

InsertHeadTail(ext, i, kind) == SetHeadTail(ext, i, [kind |-> kind, len |-> i.len])
RemoveHeadTail(ext, i)       == SetHeadTail(ext, i, NoExtent)

SetRun(ext, start, e) ==
    [p \in Pages |-> IF p \in start .. start + RunPages - 1 THEN e ELSE ext[p]]

InsertExtentOfRun(ext, start) == SetRun(ext, start, [kind |-> "run", len |-> RunPages])
RemoveExtentOfRun(ext, start) == SetRun(ext, start, NoExtent)

\* Mutant: what is left of the free space is not entered again.
RemoveFreeSpaceNoRest(ext, i) ==
    IF ext[i.start].kind = "free" THEN RemoveHeadTail(ext, i) ELSE ext

\* Takes i off the front of a free extent and enters the rest again.
RemoveFreeSpace(ext, i) ==
    LET e == ext[i.start] IN
    CASE e.kind # "free"  -> ext
      [] e.len = i.len    -> RemoveHeadTail(ext, i)
      [] OTHER            -> InsertHeadTail(RemoveHeadTail(ext, i),
                                            Interval(i.start + i.len, e.len - i.len), "free")

-----------------------------------------------------------------------------
(* allocFromLargeObjAllocator *)

BestFit(size) ==
    {i \in m_intervalTree :
        i.len >= size /\ \A j \in m_intervalTree : j.len >= size => i.len <= j.len}

\* Mutant: the rest is entered at its old length.
RestKeepsLength(i, size) == IF i.len > size THEN {Interval(i.start + size, i.len)} ELSE {}

Rest(i, size) == IF i.len > size THEN {Interval(i.start + size, i.len - size)} ELSE {}

ReserveFromTree(size, start) ==
    /\ \E i \in BestFit(size) :
          /\ start = i.start
          /\ m_intervalTree' = (m_intervalTree \ {i}) \cup Rest(i, size)
    /\ m_extents' = RemoveFreeSpace(m_extents, Interval(start, size))
    /\ UNCHANGED <<owned, m_freeSegments>>

\* Should the segment's extents or tree node lack memory, it goes back at once.
ReserveFromSegment(size, start) ==
    /\ BestFit(size) = {}
    /\ \E s \in m_freeSegments :
          LET whole == Interval(SegmentStart(s), SegmentPages) IN
          /\ start = whole.start
          /\ owned' = owned \cup {s}
          /\ m_freeSegments' = m_freeSegments \ {s}
          /\ m_intervalTree' = m_intervalTree \cup Rest(whole, size)
          /\ m_extents' = RemoveFreeSpace(InsertHeadTail(m_extents, whole, "free"),
                                          Interval(start, size))

Reserve(kind, size) ==
    /\ hand = Nothing
    /\ \E start \in Pages :
          /\ ReserveFromTree(size, start) \/ ReserveFromSegment(size, start)
          /\ hand' = [kind |-> kind, start |-> start, len |-> size]
    /\ UNCHANGED <<m_NVMRunCache, objects, runs, lost>>

ReserveLargeObj == \E size \in 1 .. MaxRequest : Reserve("large", size)

\* The run cache was empty when it was looked at.  The messages that are handled
\* when the tree has nothing may have filled it since.
ReserveRun      == Reserve("run", RunPages)

-----------------------------------------------------------------------------
(* tryMergeAndFree, given the extents without those of the freed pages. *)

\* Mutant: the preceding page is not looked at.
FreeBeforeIgnored(ext, i) == {}

\* The free neighbours, within the segment, as their extents have them.
FreeBefore(ext, i) ==
    IF i.start = SegmentStart(SegmentOf(i.start)) \/ ext[i.start - 1].kind # "free" THEN {}
    ELSE LET len == ext[i.start - 1].len IN {Interval(i.start - len, len)}

FreeAfter(ext, i) ==
    LET next == i.start + i.len IN
    IF next \notin Pages \/ SegmentOf(next) # SegmentOf(i.start) \/ ext[next].kind # "free" THEN {}
    ELSE {Interval(next, ext[next].len)}

RemoveAll(ext, neighbours) ==
    LET ends == UNION {{j.start, j.start + j.len - 1} : j \in neighbours} IN
    [p \in Pages |-> IF p \in ends THEN NoExtent ELSE ext[p]]

Total(i, before, after) ==
    Interval(IF before = {} THEN i.start ELSE (CHOOSE j \in before : TRUE).start,
             Cardinality(UNION {PagesOf(j) : j \in before \cup after \cup {i}}))

IsWholeSegment(i) == i.len = SegmentPages

\* The neighbours' intervals leave the tree: free() relies on finding them there.
MergeAndFree(ext, i) ==
    LET before == FreeBefore(ext, i)
        after  == FreeAfter(ext, i)
        merged == before \cup after
        total  == Total(i, before, after)
        s      == SegmentOf(i.start)
        bare   == RemoveAll(ext, merged)
    IN
    /\ IF IsWholeSegment(total)
       THEN /\ m_intervalTree' = m_intervalTree \ merged
            /\ m_extents' = [p \in Pages |-> IF SegmentOf(p) = s THEN NoExtent ELSE bare[p]]
            /\ owned' = owned \ {s}
            /\ m_freeSegments' = m_freeSegments \cup {s}
       ELSE /\ m_intervalTree' = (m_intervalTree \ merged) \cup {total}
            /\ m_extents' = InsertHeadTail(bare, total, "free")
            /\ UNCHANGED <<owned, m_freeSegments>>
    /\ UNCHANGED lost

\* Without a neighbour a tree node is needed, and there is no memory for it.
LosePages(ext, i) ==
    /\ FreeBefore(ext, i) \cup FreeAfter(ext, i) = {}
    /\ m_extents' = ext
    /\ lost' = lost \cup {i}
    /\ UNCHANGED <<m_intervalTree, owned, m_freeSegments>>

FreePages(ext, i) == MergeAndFree(ext, i) \/ LosePages(ext, i)

-----------------------------------------------------------------------------
(* The heap's operations. *)

AllocLargeObj ==
    /\ hand.kind = "large"
    /\ m_extents' = InsertHeadTail(m_extents, hand, "large")
    /\ objects' = objects \cup {Interval(hand.start, hand.len)}
    /\ hand' = Nothing
    /\ UNCHANGED <<m_intervalTree, owned, m_freeSegments, m_NVMRunCache, runs, lost>>

AllocRun ==
    /\ hand.kind = "run"
    /\ hand.start % RunAlign = 0
    /\ m_extents' = InsertExtentOfRun(m_extents, hand.start)
    /\ runs' = runs \cup {hand.start}
    /\ hand' = Nothing
    /\ UNCHANGED <<m_intervalTree, owned, m_freeSegments, m_NVMRunCache, objects, lost>>

\* CLBitmapNVMRun keeps the run's address without the bits below RunAlign: a run
\* off that boundary overlaps what precedes it.  The heap stays in this state.
MisplaceRun ==
    /\ hand.kind = "run"
    /\ hand.start % RunAlign # 0
    /\ hand' = [hand EXCEPT !.kind = "misplaced"]
    /\ UNCHANGED <<space, m_NVMRunCache, objects, runs, lost>>

\* No memory for the run's management structure.  The extents' memory comes from
\* operator new, which ends the program rather than fail: AllocLargeObj succeeds.
GiveUp ==
    /\ hand.kind = "run"
    /\ FreePages(m_extents, Interval(hand.start, hand.len))
    /\ hand' = Nothing
    /\ UNCHANGED <<m_NVMRunCache, objects, runs>>

AllocCachedRun ==
    /\ hand = Nothing /\ m_NVMRunCache # <<>>
    /\ m_NVMRunCache' = Tail(m_NVMRunCache)
    /\ runs' = runs \cup {Head(m_NVMRunCache)}
    /\ m_extents' = InsertExtentOfRun(m_extents, Head(m_NVMRunCache))
    /\ UNCHANGED <<m_intervalTree, owned, m_freeSegments, hand, objects, lost>>

\* No memory for the management structure: back to the cache, as the youngest.
KeepCachedRun ==
    /\ hand = Nothing /\ m_NVMRunCache # <<>>
    /\ m_NVMRunCache' = Append(Tail(m_NVMRunCache), Head(m_NVMRunCache))
    /\ UNCHANGED <<space, hand, objects, runs, lost>>

FreeLargeObj(o) ==
    LET i == Interval(o.start, m_extents[o.start].len) IN
    /\ hand = Nothing
    /\ FreePages(RemoveHeadTail(m_extents, i), i)
    /\ objects' = objects \ {o}
    /\ UNCHANGED <<m_NVMRunCache, hand, runs>>

\* The slab gives an empty run back, to the cache if that has room.
CacheRun(r) ==
    /\ hand = Nothing
    /\ Len(m_NVMRunCache) < CacheSize
    /\ m_NVMRunCache' = Append(m_NVMRunCache, r)
    /\ runs' = runs \ {r}
    /\ UNCHANGED <<space, hand, objects, lost>>

FreeRun(r) ==
    /\ hand = Nothing
    /\ Len(m_NVMRunCache) = CacheSize
    /\ FreePages(RemoveExtentOfRun(m_extents, r), Interval(r, RunPages))
    /\ runs' = runs \ {r}
    /\ UNCHANGED <<m_NVMRunCache, hand, objects>>

\* The other heaps take segments from the central heap and bring theirs back.
OtherHeaps ==
    /\ \/ \E s \in m_freeSegments : m_freeSegments' = m_freeSegments \ {s}
       \/ \E s \in Segments \ (owned \cup m_freeSegments) :
             m_freeSegments' = m_freeSegments \cup {s}
    /\ UNCHANGED <<m_intervalTree, m_extents, owned, m_NVMRunCache, hand, objects, runs,
                   lost>>

Next ==
    \/ ReserveLargeObj \/ ReserveRun
    \/ AllocLargeObj \/ AllocRun \/ MisplaceRun \/ GiveUp
    \/ AllocCachedRun \/ KeepCachedRun
    \/ \E o \in objects : FreeLargeObj(o)
    \/ \E r \in runs : CacheRun(r) \/ FreeRun(r)
    \/ OtherHeaps

Spec == Init /\ [][Next]_vars

-----------------------------------------------------------------------------
Intervals == [start : Pages, len : 1 .. SegmentPages - 1]

TypeOK ==
    /\ m_intervalTree \subseteq Intervals
    /\ m_extents \in [Pages -> [kind : {"none", "free", "large", "run"}, len : 0 .. SegmentPages]]
    /\ owned \subseteq Segments
    /\ m_freeSegments \subseteq Segments
    /\ m_NVMRunCache \in Seq(Pages)
    /\ hand \in [kind : {"large", "run", "misplaced"}, start : Pages, len : 1 .. SegmentPages - 1] \cup {Nothing}
    /\ objects \subseteq Intervals
    /\ runs \subseteq Pages
    /\ lost \subseteq Intervals

Reserved == IF hand = Nothing THEN {} ELSE {Interval(hand.start, hand.len)}
Tiles    == m_intervalTree \cup objects \cup AsRuns(runs \cup Cached) \cup lost \cup Reserved

\* Every page of the heap's segments is in exactly one place, free or in use,
\* and the heap has nothing in anybody else's segments: no two objects overlap,
\* no page leaks, no segment is returned with something in it.
Tiling ==
    /\ TypeOK
    /\ {p \in Pages : SegmentOf(p) \in owned} = UNION {PagesOf(i) : i \in Tiles}
    /\ \A i, j \in Tiles : i = j \/ PagesOf(i) \cap PagesOf(j) = {}
    /\ Cardinality(Tiles) = Cardinality(m_intervalTree) + Cardinality(objects)
                            + Cardinality(runs) + Len(m_NVMRunCache)
                            + Cardinality(lost) + Cardinality(Reserved)
    /\ owned \cap m_freeSegments = {}

Ends(i) == {i.start, i.start + i.len - 1}

\* The extents say of every page what the tree and the holders say: merging
\* finds the free neighbours, with their lengths, and free() finds its object.
ExtentsAgree ==
    \A p \in Pages : m_extents[p] =
        CASE \E i \in m_intervalTree : p \in Ends(i) ->
                [kind |-> "free", len |-> (CHOOSE i \in m_intervalTree : p \in Ends(i)).len]
          [] \E i \in objects : p \in Ends(i) ->
                [kind |-> "large", len |-> (CHOOSE i \in objects : p \in Ends(i)).len]
          [] \E i \in AsRuns(runs \cup Cached) : p \in PagesOf(i) ->
                [kind |-> "run", len |-> RunPages]
          [] OTHER -> NoExtent

\* Free space is whole: two free intervals of a segment never touch, and a
\* segment that is free altogether is not kept from the other heaps.
FreeSpaceWhole ==
    /\ \A i, j \in m_intervalTree :
          i.start + i.len = j.start => SegmentOf(i.start) # SegmentOf(j.start)
    /\ \A s \in owned : \E i \in Tiles \ m_intervalTree : SegmentOf(i.start) = s
=============================================================================
