------------------------- MODULE CLThreadHeapRecovery -------------------------
(***************************************************************************)
(* The recovery of one heap's pages.  The search tells the heap of every   *)
(* object that can be reached in its segments (CLThreadHeap::localAllocAt);*)
(* CLAllocatedSpaceTracer collects the space they need.  endRecover then   *)
(* frees what lies between, and the segments in which nothing was found.   *)
(* What it leaves must account for every page of the heap's segments, as   *)
(* the invariants of CLNVMLargeObjAllocator have it.                       *)
(*                                                                         *)
(* The free intervals it enters in the tree are at addresses, where alloc  *)
(* and tryMergeAndFree of a running heap read and enter offsets: what was  *)
(* recovered as free is not free to them, and the heap that takes over is  *)
(* not that of CLNVMLargeObjAllocator.  What is checked here is where the  *)
(* intervals are, not that the heap could use them.                        *)
(*                                                                         *)
(* Other heaps recover at the same time in segments of their own.  Pages   *)
(* are offsets into the address space, whose start is segment aligned; only*)
(* m_intervalTree holds addresses.                                         *)
(***************************************************************************)
EXTENDS Integers, Functions

CONSTANTS
    SegmentNum, SegmentPages, RunPages, RunAlign,   \* see CLNVMLargeObjAllocator
    AddrSpaceStart,   \* getNVMAddrSpaceStart, in pages
    MetaPages,        \* META_AREA_SIZE, at the start of the first segment
    MaxBlocks         \* bound: runs and large objects that are found

ASSUME RecoveryAssumption ==
    /\ {SegmentNum, SegmentPages, RunPages, RunAlign} \subseteq Nat \ {0}
    /\ AddrSpaceStart \in Nat /\ MaxBlocks \in Nat
    /\ MetaPages \in 1 .. SegmentPages - 1
    /\ RunPages < SegmentPages
    /\ SegmentPages % RunPages = 0 /\ RunPages % RunAlign = 0

VARIABLES
    live,             \* the runs and large objects in NVM that can be reached
    owned,            \* the segments the header gives to this heap
    m_freeSegments,   \* the segments it has returned
    m_extents,        \* the extent the finder has for a page
    m_intervalTree,   \* the free intervals, where the tree has them
    m_tracer,         \* CLAllocatedSpaceTracer
    pc,
    todo, prevEnd,    \* of the loop over m_tracer: what lies ahead, and the page reached
    index,            \* of the loop over the segments
    lost              \* history: free intervals for which there was no tree node

vars == <<live, owned, m_freeSegments, m_extents, m_intervalTree, m_tracer, pc, todo,
          prevEnd, index, lost>>

\* The pages at the addresses in the tree.  The code never works them out: this
\* is for the properties alone.
PagesAt(tree) == {[i EXCEPT !.start = @ - AddrSpaceStart] : i \in tree}

Spaces(kind) == {[start |-> b.start, len |-> b.len] : b \in {c \in live : c.kind = kind}}

\* Where the pages of the heap are, as this module's state shows it, the tree
\* taken for the pages at its addresses.
Heap == INSTANCE CLNVMLargeObjAllocator WITH
    m_intervalTree <- PagesAt(m_intervalTree),
    m_NVMRunCache  <- <<>>,
    hand           <- [kind |-> "none", start |-> 0, len |-> 0],
    objects        <- Spaces("large") \cup Spaces("meta"),
    runs           <- {b.start : b \in Spaces("run")},
    CacheSize      <- 0,
    MaxRequest     <- SegmentPages - 1

Segments     == Heap!Segments
Pages        == Heap!Pages
PagesOf(i)   == Heap!PagesOf(i)
SegmentOf(p) == Heap!SegmentOf(p)
Space(p, len) == Heap!Interval(p, len)
End(i)       == i.start + i.len

\* What a crash may leave: runs where CLBitmapNVMRun can put them.
Meta == [kind |-> "meta", start |-> 0, len |-> MetaPages]
Blocks ==
    LET all == [kind : {"large"}, start : Pages, len : 1 .. SegmentPages - 1]
               \cup {[kind |-> "run", start |-> p, len |-> RunPages] : p \in Pages}
    IN {b \in all : /\ SegmentOf(b.start) = SegmentOf(End(b) - 1)
                    /\ b.kind = "run" => b.start % RunAlign = 0}

Init ==
    /\ owned \in SUBSET Segments
    /\ \E n \in 0 .. MaxBlocks :
       \E found \in [1 .. n -> {b \in Blocks : SegmentOf(b.start) \in owned}] :
          live = Range(found) \cup {m \in {Meta} : 0 \in owned}
    /\ \A b, c \in live : b = c \/ PagesOf(b) \cap PagesOf(c) = {}
    /\ m_freeSegments = {}
    /\ m_extents = [p \in Pages |-> Heap!NoExtent]
    /\ m_intervalTree = {}
    /\ m_tracer = {}
    /\ pc = "search"
    /\ todo = {} /\ prevEnd = 0 /\ index = 0
    /\ lost = {}

-----------------------------------------------------------------------------
(* localAllocAt, for an object whose page has no extent yet. *)

Unknown(p) == m_extents[p] = Heap!NoExtent

\* Mutant: no more than a page of a space is traced.
TracePage(spaces, ext) ==
    /\ m_tracer' = m_tracer \cup {Space(i.start, 1) : i \in spaces}
    /\ m_extents' = ext
    /\ UNCHANGED <<live, owned, m_freeSegments, m_intervalTree, todo, prevEnd, index, lost>>

Trace(spaces, ext) ==
    /\ m_tracer' = m_tracer \cup spaces
    /\ m_extents' = ext
    /\ UNCHANGED <<live, owned, m_freeSegments, m_intervalTree, todo, prevEnd, index, lost>>

RecoverLargeObj(b) ==
    /\ pc = "search" /\ b.kind = "large"
    /\ Unknown(b.start)
    /\ LET space == Space(b.start, b.len)
       IN Trace({space}, Heap!InsertHeadTail(m_extents, space, "large"))
    /\ UNCHANGED pc

\* The address of the run is that of any object in it, rounded down to a run.
RunOf(p) == p - (p % RunPages)

RecoverRun(b) ==
    /\ pc = "search" /\ b.kind = "run"
    /\ \E p \in PagesOf(b) :
          /\ Unknown(p) /\ RunOf(p) = b.start
          /\ Trace({Space(RunOf(p), RunPages)}, Heap!InsertExtentOfRun(m_extents, RunOf(p)))
    /\ UNCHANGED pc

\* A run off that boundary comes back at another address, over what lies there.
\* The heap stays in this state.
MisplaceRun(b) ==
    /\ pc = "search" /\ b.kind = "run"
    /\ \E p \in PagesOf(b) : Unknown(p) /\ RunOf(p) # b.start
    /\ pc' = "misplaced"
    /\ UNCHANGED <<live, owned, m_freeSegments, m_extents, m_intervalTree, m_tracer, todo,
                   prevEnd, index, lost>>

-----------------------------------------------------------------------------
(* endRecover, once every reachable object was found. *)

FoundAll == \A b \in live \ {Meta} : ~Unknown(b.start)

\* The first heap, whose segment it is, keeps the meta area.
TraceMeta ==
    /\ pc = "search" /\ FoundAll
    /\ pc' = "begin"
    /\ IF Meta \in live
       THEN LET area == Space(0, MetaPages)
            IN Trace({area}, Heap!InsertHeadTail(m_extents, area, "large"))
       ELSE Trace({}, m_extents)

First(spaces) == CHOOSE i \in spaces : \A j \in spaces : i.start <= j.start

SegmentStartOf(p) == Heap!SegmentStart(SegmentOf(p))
SegmentEndOf(p)   == SegmentStartOf(p) + SegmentPages

Begin ==
    /\ pc = "begin"
    /\ IF m_tracer = {}
       THEN /\ pc' = "segments"
            /\ UNCHANGED <<todo, prevEnd>>
       ELSE /\ pc' = "spaces"
            /\ todo' = m_tracer
            /\ prevEnd' = SegmentStartOf(First(m_tracer).start)
    /\ UNCHANGED <<live, owned, m_freeSegments, m_extents, m_intervalTree, m_tracer, index, lost>>

\* What free() does with a gap: it needs a tree node, and nobody looks whether
\* there was memory for one.  It is given the address, not the offset.
FreeGaps(gaps) ==
    /\ m_extents' = [p \in Pages |->
          IF \E i \in gaps : p \in {i.start, End(i) - 1}
          THEN [kind |-> "free", len |-> (CHOOSE i \in gaps : p \in {i.start, End(i) - 1}).len]
          ELSE m_extents[p]]
    /\ \E refused \in SUBSET gaps :
          /\ lost' = lost \cup refused
          /\ m_intervalTree' = m_intervalTree
                \cup {Space(AddrSpaceStart + i.start, i.len) : i \in gaps \ refused}
    /\ UNCHANGED <<live, owned, m_freeSegments, m_tracer, index>>

Gaps(from, to) ==
    IF SegmentOf(from) = SegmentOf(to) THEN {Space(from, to - from)}
    ELSE {Space(from, SegmentEndOf(from) - from)}
         \cup {i \in {Space(SegmentStartOf(to), to - SegmentStartOf(to))} : i.len > 0}

SkipSpace ==
    /\ pc = "spaces" /\ todo # {}
    /\ LET next == First(todo) IN
       /\ prevEnd = next.start
       /\ prevEnd' = End(next)
       /\ todo' = todo \ {next}
    /\ UNCHANGED <<live, owned, m_freeSegments, m_extents, m_intervalTree, m_tracer, pc, index,
                   lost>>

\* The last space ended with its segment and the next one lies in another
\* segment than the one that follows.
Overruns(next) == prevEnd = SegmentStartOf(prevEnd) /\ SegmentOf(next.start) # SegmentOf(prevEnd)

FreeBetween ==
    /\ pc = "spaces" /\ todo # {}
    /\ LET next == First(todo) IN
       /\ prevEnd # next.start /\ ~Overruns(next)
       /\ FreeGaps(Gaps(prevEnd, next.start))
       /\ prevEnd' = End(next)
       /\ todo' = todo \ {next}
    /\ UNCHANGED pc

\* A whole segment is entered as free, be it this heap's or not.  The heap stays
\* in this state.
FreeForeignSegment ==
    /\ pc = "spaces" /\ todo # {}
    /\ prevEnd # First(todo).start /\ Overruns(First(todo))
    /\ pc' = "overrun"
    /\ UNCHANGED <<live, owned, m_freeSegments, m_extents, m_intervalTree, m_tracer, todo,
                   prevEnd, index, lost>>

\* Mutant: the end of the last space is not rounded up.
MaxAddrUnrounded == prevEnd

MaxAddr == SegmentEndOf(prevEnd - 1)

FreeRest ==
    /\ pc = "spaces" /\ todo = {}
    /\ pc' = "segments"
    /\ FreeGaps({i \in {Space(prevEnd, MaxAddr - prevEnd)} : i.len > 0})
    /\ UNCHANGED <<todo, prevEnd>>

NothingFound(s) == s \in owned /\ Unknown(Heap!SegmentStart(s))

VisitSegment ==
    /\ pc = "segments" /\ index \in Segments
    /\ IF NothingFound(index)
       THEN /\ owned' = owned \ {index}
            /\ m_freeSegments' = m_freeSegments \cup {index}
       ELSE UNCHANGED <<owned, m_freeSegments>>
    /\ index' = index + 1
    /\ UNCHANGED <<live, m_extents, m_intervalTree, m_tracer, pc, todo, prevEnd, lost>>

EndRecover ==
    /\ pc = "segments" /\ index = SegmentNum
    /\ pc' = "done"
    /\ m_tracer' = {}
    /\ UNCHANGED <<live, owned, m_freeSegments, m_extents, m_intervalTree, todo, prevEnd, index,
                   lost>>

Next ==
    \/ \E b \in live : RecoverLargeObj(b) \/ RecoverRun(b) \/ MisplaceRun(b)
    \/ TraceMeta \/ Begin
    \/ SkipSpace \/ FreeBetween \/ FreeForeignSegment
    \/ FreeRest
    \/ VisitSegment
    \/ EndRecover

Spec == Init /\ [][Next]_vars

-----------------------------------------------------------------------------
(* Types and correctness. *)

TypeOK ==
    /\ live \subseteq Blocks \cup {Meta}
    /\ owned \subseteq Segments /\ m_freeSegments \subseteq Segments
    /\ m_extents \in [Pages -> [kind : {"none", "free", "large", "run"}, len : 0 .. SegmentPages]]
    /\ PagesAt(m_intervalTree) \cup m_tracer \cup lost \subseteq Heap!Intervals
    /\ pc \in {"search", "misplaced", "begin", "spaces", "overrun", "segments", "done"}
    /\ todo \subseteq m_tracer
    /\ prevEnd \in 0 .. SegmentNum * SegmentPages
    /\ index \in 0 .. SegmentNum

\* At no time is space that a reachable object needs free, neither for this heap
\* nor, with its segment, for any other.
NothingLiveFreed ==
    /\ TypeOK
    /\ \A i \in PagesAt(m_intervalTree) \cup lost, b \in live :
          PagesOf(i) \cap PagesOf(b) = {}
    /\ \A b \in live : SegmentOf(b.start) \in owned \ m_freeSegments

\* Recovery accounts for every page: each page of the heap's segments belongs to
\* one object, or lies at the address of one interval of the tree; the extents say
\* which, free space is whole, and segments without an object went back.  (Where a
\* tree node was refused, the extents still call the interval free.)  But the heap
\* cannot use what was recovered as free: taken for offsets, as alloc takes them,
\* addresses that begin behind the space's length name no page of it.
AllPagesAccounted ==
    pc = "done" =>
        /\ Heap!Tiling
        /\ Heap!FreeSpaceWhole
        /\ lost = {} => Heap!ExtentsAgree
        /\ AddrSpaceStart >= SegmentNum * SegmentPages => m_intervalTree \cap Heap!Intervals = {}
=============================================================================
