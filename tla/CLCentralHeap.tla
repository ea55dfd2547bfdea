--------------------------- MODULE CLCentralHeap ---------------------------
(***************************************************************************)
(* The life of an NVM segment: CLCentralHeap hands segments to thread      *)
(* heaps and takes them back, CLThreadHeapInfoRecorder records their       *)
(* owners in the NVM header, the thread heaps drive both while they run    *)
(* and when they recover.  A crash may come between any two steps and      *)
(* keeps of the header only what was flushed or evicted from the cache.    *)
(*                                                                         *)
(* The free list is indivisible here (CLFreeList implements FreeStack) and *)
(* a pop may take any of its segments, the order being of no consequence.  *)
(* What lies inside a segment is reduced to whether it holds objects, and  *)
(* whether some are reachable from a persistent root.                      *)
(***************************************************************************)
EXTENDS Integers

CONSTANTS
    SegmentNum,
    HeapNum,
    MaxCrashes    \* bound: how often the machine crashes

ASSUME CentralHeapAssumption ==
    /\ SegmentNum \in Nat \ {0}
    /\ HeapNum \in Nat \ {0}
    /\ MaxCrashes \in Nat

SEGMENT_FREE     == 0
FIRST_THREADHEAP == 1
META_SEGMENT     == 0   \* holds the header itself, and the root table

Segments == 0 .. SegmentNum - 1
Heaps    == FIRST_THREADHEAP .. HeapNum
Owners   == Heaps \cup {SEGMENT_FREE}

VARIABLES
    owner,           \* ownerThreadHeapID of every segment, as the CPU sees it
    durable,         \* the same words in NVM, without the CPU's cache
    object,          \* what a segment holds, see Contents
    m_freeSegments,
    m_threadHeapID,
    m_extentFinder,  \* the segments whose extent finder is initialised
    managed,         \* managed[h]: segments with free space in h's interval tree
    pc,              \* what each thread heap is doing
    seg,             \* the segment in the hands of a heap, or its loop cursor
    system,          \* "down", "recover" or "up"
    crashes

nvm  == <<owner, durable>>
heap == <<m_freeSegments, m_threadHeapID, m_extentFinder>>
vars == <<owner, durable, object, m_freeSegments, m_threadHeapID, m_extentFinder,
          managed, pc, seg, system, crashes>>

\* "held": only the running program's own memory refers to the objects.
\* "reachable": a crash leaves a path from a root to one of them.
Contents == {"none", "held", "reachable"}

NoSegment == -1

Step(h, from, to) == pc[h] = from /\ pc' = [pc EXCEPT ![h] = to]

\* The builder of the address space gives segment 0 to heap 1; the rest of the
\* header is as the last run left it.
Init ==
    /\ owner \in [Segments -> Owners]
    /\ owner[META_SEGMENT] = FIRST_THREADHEAP
    /\ durable = owner
    /\ object \in [Segments -> {"none", "reachable"}]
    /\ object[META_SEGMENT] = "reachable"
    /\ \A s \in Segments : object[s] # "none" => owner[s] # SEGMENT_FREE
    /\ m_freeSegments = {}
    /\ m_threadHeapID = [s \in Segments |-> SEGMENT_FREE]
    /\ m_extentFinder = {}
    /\ managed = [h \in Heaps |-> {}]
    /\ pc = [h \in Heaps |-> "off"]
    /\ seg = [h \in Heaps |-> NoSegment]
    /\ system = "down"
    /\ crashes = 0

-----------------------------------------------------------------------------
(* The header: a store reaches NVM when it is flushed, or any time before. *)

Store(s, id) == owner' = [owner EXCEPT ![s] = id]
Flush(s)     == durable' = [durable EXCEPT ![s] = owner[s]]

Evict(s) ==
    /\ Flush(s)
    /\ UNCHANGED <<owner, object, heap, managed, pc, seg, system, crashes>>

-----------------------------------------------------------------------------
(* AllocSegment, then allocFromLargeObjAllocator's use of the segment. *)

PopSegment(h) ==
    /\ Step(h, "run", "init")
    /\ \E s \in m_freeSegments :
          /\ seg' = [seg EXCEPT ![h] = s]
          /\ m_freeSegments' = m_freeSegments \ {s}
    /\ UNCHANGED <<nvm, object, m_threadHeapID, m_extentFinder, managed, system, crashes>>

\* Mutant: the segment keeps the ID of the heap that had it before.
InitSegmentKeepsID(h) ==
    /\ Step(h, "init", "insert")
    /\ m_extentFinder' = m_extentFinder \cup {seg[h]}
    /\ UNCHANGED <<nvm, object, m_freeSegments, m_threadHeapID, managed, seg, system, crashes>>

InitSegment(h) ==
    /\ Step(h, "init", "insert")
    /\ m_extentFinder' = m_extentFinder \cup {seg[h]}
    /\ m_threadHeapID' = [m_threadHeapID EXCEPT ![seg[h]] = h]
    /\ UNCHANGED <<nvm, object, m_freeSegments, managed, seg, system, crashes>>

\* Mutant: without memory for the extent finder the segment is dropped.
InitSegmentLeaks(h) ==
    /\ Step(h, "init", "run")
    /\ seg' = [seg EXCEPT ![h] = NoSegment]
    /\ UNCHANGED <<nvm, object, heap, managed, system, crashes>>

InitSegmentFails(h) ==
    /\ Step(h, "init", "run")
    /\ m_freeSegments' = m_freeSegments \cup {seg[h]}
    /\ seg' = [seg EXCEPT ![h] = NoSegment]
    /\ UNCHANGED <<nvm, object, m_threadHeapID, m_extentFinder, managed, system, crashes>>

\* Mutant: a segment that failed is offered to the others while still in hand.
InsertFailsPushesFirst(h) ==
    /\ \/ /\ Step(h, "insert", "mark")
          /\ UNCHANGED m_freeSegments
       \/ /\ Step(h, "insert", "destroy")
          /\ m_freeSegments' = m_freeSegments \cup {seg[h]}
    /\ UNCHANGED <<nvm, object, m_threadHeapID, m_extentFinder, managed, seg, system, crashes>>

InsertFreeExtent(h) ==
    /\ \/ Step(h, "insert", "mark")
       \/ Step(h, "insert", "destroy")   \* no memory for the extent
    /\ UNCHANGED <<nvm, object, heap, managed, seg, system, crashes>>

MarkAllocated(h) ==
    /\ Step(h, "mark", "flush")
    /\ Store(seg[h], h)
    /\ UNCHANGED <<durable, object, heap, managed, seg, system, crashes>>

\* Mutant: markAllocated without its clflush.
FlushSkipped(h) ==
    /\ Step(h, "flush", "carve")
    /\ UNCHANGED <<nvm, object, heap, managed, seg, system, crashes>>

FlushAllocated(h) ==
    /\ Step(h, "flush", "carve")
    /\ Flush(seg[h])
    /\ UNCHANGED <<owner, object, heap, managed, seg, system, crashes>>

\* The request that asked for the segment gets its first object.
Carve(h) ==
    /\ Step(h, "carve", "run")
    /\ managed' = [managed EXCEPT ![h] = @ \cup {seg[h]}]
    /\ object' = [object EXCEPT ![seg[h]] = "held"]
    /\ seg' = [seg EXCEPT ![h] = NoSegment]
    /\ UNCHANGED <<nvm, heap, system, crashes>>

\* No memory for the tree node: the segment goes back, its header entry stays.
CarveFails(h) ==
    /\ Step(h, "carve", "destroy")
    /\ UNCHANGED <<nvm, object, heap, managed, seg, system, crashes>>

(* FreeSegment, reached from the failures above, from tryMergeAndFree and
   from endRecover. *)

DestroyExtents(h) ==
    /\ \/ Step(h, "destroy", "push")
       \/ Step(h, "recoverDestroy", "recoverPush")
    /\ m_extentFinder' = m_extentFinder \ {seg[h]}
    /\ UNCHANGED <<nvm, object, m_freeSegments, m_threadHeapID, managed, seg, system, crashes>>

PushSegment(h) ==
    /\ \/ Step(h, "push", "run") /\ seg' = [seg EXCEPT ![h] = NoSegment]
       \/ Step(h, "recoverPush", "end") /\ seg' = [seg EXCEPT ![h] = @ + 1]
    /\ m_freeSegments' = m_freeSegments \cup {seg[h]}
    /\ UNCHANGED <<nvm, object, m_threadHeapID, m_extentFinder, managed, system, crashes>>

-----------------------------------------------------------------------------
(* What the program does with its objects. *)

AllocObject(h, s) ==
    /\ pc[h] = "run"
    /\ s \in managed[h]
    /\ object[s] = "none"
    /\ object' = [object EXCEPT ![s] = "held"]
    /\ UNCHANGED <<nvm, heap, managed, pc, seg, system, crashes>>

\* The program links an object to a root, or cuts its last link.
Link(s) ==
    /\ system = "up"
    /\ s # META_SEGMENT
    /\ \/ object[s] = "held" /\ object' = [object EXCEPT ![s] = "reachable"]
       \/ object[s] = "reachable" /\ object' = [object EXCEPT ![s] = "held"]
    /\ UNCHANGED <<nvm, heap, managed, pc, seg, system, crashes>>

\* The heap m_threadHeapID names frees the segment's last object.  The space
\* stays in caches or goes to the interval tree ...
FreeObject(h, s) ==
    /\ pc[h] = "run"
    /\ object[s] = "held"
    /\ m_threadHeapID[s] = h
    /\ object' = [object EXCEPT ![s] = "none"]
    /\ managed' \in {managed, [managed EXCEPT ![h] = @ \cup {s}]}
    /\ UNCHANGED <<nvm, heap, pc, seg, system, crashes>>

\* ... or merges with the rest: the whole segment returns to the central heap.
FreeLastObject(h, s) ==
    /\ Step(h, "run", "destroy")
    /\ object[s] = "held"
    /\ m_threadHeapID[s] = h
    /\ object' = [object EXCEPT ![s] = "none"]
    /\ managed' = [managed EXCEPT ![h] = @ \ {s}]
    /\ seg' = [seg EXCEPT ![h] = s]
    /\ UNCHANGED <<nvm, heap, system, crashes>>

-----------------------------------------------------------------------------
(* Crash, restart, recovery. *)

Crash ==
    /\ system # "down"
    /\ crashes < MaxCrashes
    /\ crashes' = crashes + 1
    /\ system' = "down"
    /\ owner' = durable
    /\ object' = [s \in Segments |-> IF object[s] = "held" THEN "none" ELSE object[s]]
    /\ m_freeSegments' = {}
    /\ m_threadHeapID' = [s \in Segments |-> SEGMENT_FREE]
    /\ m_extentFinder' = {}
    /\ managed' = [h \in Heaps |-> {}]
    /\ pc' = [h \in Heaps |-> "off"]
    /\ seg' = [h \in Heaps |-> NoSegment]
    /\ UNCHANGED durable

\* CLCentralHeap's constructor, then one recovery thread for every heap that
\* owns a segment.
Restart ==
    /\ system = "down"
    /\ system' = "recover"
    /\ m_threadHeapID' = owner
    /\ m_extentFinder' = {s \in Segments : owner[s] # SEGMENT_FREE}
    /\ m_freeSegments' = {s \in Segments : owner[s] = SEGMENT_FREE}
    /\ pc' = [h \in Heaps |-> IF \E s \in Segments : owner[s] = h THEN "search" ELSE "off"]
    /\ UNCHANGED <<nvm, object, managed, seg, crashes>>

\* Mutant: recovery forgets that heap 1 carries the metadata.
RecoverableIgnoresMeta(h) ==
    {s \in Segments \ {META_SEGMENT} : m_threadHeapID[s] = h /\ object[s] = "reachable"}

\* The segments in which the search from the roots, or endRecover itself,
\* finds space in use.  The messages of the other heaps' searches are
\* taken as delivered.
Recoverable(h) ==
    {s \in Segments : /\ m_threadHeapID[s] = h
                      /\ object[s] = "reachable"
                      /\ s = META_SEGMENT => h = FIRST_THREADHEAP}

Search(h) ==
    /\ Step(h, "search", "searched")
    /\ managed' = [managed EXCEPT ![h] = Recoverable(h)]
    /\ UNCHANGED <<nvm, object, heap, seg, system, crashes>>

\* Mutant: a heap counts itself among those still searching.
SearchDoneCountsItself(h) ==
    /\ Step(h, "searched", "end")
    /\ \A g \in Heaps : pc[g] \notin {"search", "searched"}
    /\ seg' = [seg EXCEPT ![h] = 0]
    /\ UNCHANGED <<nvm, object, heap, managed, system, crashes>>

\* searchingThreadNum has come down to zero.
SearchDone(h) ==
    /\ Step(h, "searched", "end")
    /\ \A g \in Heaps : pc[g] # "search"
    /\ seg' = [seg EXCEPT ![h] = 0]
    /\ UNCHANGED <<nvm, object, heap, managed, system, crashes>>

Unused(h, s) == owner[s] = h /\ s \notin managed[h]

(* endRecover's loop over the header. *)

KeepSegment(h) ==
    /\ pc[h] = "end"
    /\ seg[h] \in Segments
    /\ ~Unused(h, seg[h])
    /\ seg' = [seg EXCEPT ![h] = @ + 1]
    /\ UNCHANGED <<nvm, object, heap, managed, pc, system, crashes>>

MarkFree(h) ==
    /\ Step(h, "end", "recoverFlush")
    /\ seg[h] \in Segments
    /\ Unused(h, seg[h])
    /\ Store(seg[h], SEGMENT_FREE)
    /\ UNCHANGED <<durable, object, heap, managed, seg, system, crashes>>

FlushFree(h) ==
    /\ Step(h, "recoverFlush", "recoverDestroy")
    /\ Flush(seg[h])
    /\ UNCHANGED <<owner, object, heap, managed, seg, system, crashes>>

EndRecover(h) ==
    /\ Step(h, "end", "recovered")
    /\ seg[h] = SegmentNum
    /\ seg' = [seg EXCEPT ![h] = NoSegment]
    /\ UNCHANGED <<nvm, object, heap, managed, system, crashes>>

\* canFinish is down to zero: buildNVMAddrSpace returns.
StartUp ==
    /\ system = "recover"
    /\ \A h \in Heaps : pc[h] \in {"off", "recovered"}
    /\ system' = "up"
    /\ UNCHANGED <<nvm, object, heap, managed, pc, seg, crashes>>

\* A thread takes the heap: bindThreadHeap keeps the recovered one,
\* createLocalHeap puts a new one in its place.
TakeHeap(h) ==
    /\ system = "up"
    /\ pc[h] \in {"off", "recovered"}
    /\ pc' = [pc EXCEPT ![h] = "run"]
    /\ managed' \in {managed, [managed EXCEPT ![h] = {}]}
    /\ UNCHANGED <<nvm, object, heap, seg, system, crashes>>

-----------------------------------------------------------------------------
Allocate(h) ==
    \/ PopSegment(h) \/ InitSegment(h) \/ InitSegmentFails(h) \/ InsertFreeExtent(h)
    \/ MarkAllocated(h) \/ FlushAllocated(h) \/ Carve(h) \/ CarveFails(h)

Free(h) == DestroyExtents(h) \/ PushSegment(h)

Recover(h) ==
    \/ Search(h) \/ SearchDone(h) \/ KeepSegment(h)
    \/ MarkFree(h) \/ FlushFree(h) \/ EndRecover(h)

Use(h) ==
    \/ TakeHeap(h)
    \/ \E s \in Segments : AllocObject(h, s) \/ FreeObject(h, s) \/ FreeLastObject(h, s)

Next ==
    \/ \E h \in Heaps : Allocate(h) \/ Free(h) \/ Recover(h) \/ Use(h)
    \/ \E s \in Segments : Evict(s) \/ Link(s)
    \/ Crash \/ Restart \/ StartUp

Spec == Init /\ [][Next]_vars

\* buildNVMAddrSpace runs to its end: its threads are scheduled, and the
\* latches wake the waiters.
FairSpec ==
    /\ Spec
    /\ WF_vars(StartUp)
    /\ \A h \in Heaps : WF_vars(Recover(h) \/ Free(h))

-----------------------------------------------------------------------------
RunPCs     == {"run", "init", "insert", "mark", "flush", "carve", "destroy", "push"}
RecoverPCs == {"search", "searched", "end", "recoverFlush", "recoverDestroy",
               "recoverPush", "recovered"}

TypeOK ==
    /\ owner \in [Segments -> Owners]
    /\ durable \in [Segments -> Owners]
    /\ object \in [Segments -> Contents]
    /\ m_freeSegments \in SUBSET Segments
    /\ m_threadHeapID \in [Segments -> Owners]
    /\ m_extentFinder \in SUBSET Segments
    /\ managed \in [Heaps -> SUBSET Segments]
    /\ pc \in [Heaps -> RunPCs \cup RecoverPCs \cup {"off"}]
    /\ seg \in [Heaps -> Segments \cup {NoSegment, SegmentNum}]
    /\ system \in {"down", "recover", "up"}
    /\ crashes \in 0 .. MaxCrashes

\* In the hands of h alone: neither in the list nor with objects.
InHand(h, s) ==
    /\ seg[h] = s
    /\ pc[h] \in {"init", "insert", "mark", "flush", "carve", "destroy", "push",
                  "recoverFlush", "recoverDestroy", "recoverPush"}

\* A segment belongs to one heap at a time.  In particular one with objects is
\* never offered to another heap, before a crash, after it or during recovery,
\* and the one with the header and the roots is never offered at all.
SegmentsApart ==
    /\ \A s \in m_freeSegments : object[s] = "none"
    /\ \A h \in Heaps, s \in Segments :
          s \in managed[h] \/ InHand(h, s) =>
              /\ s \notin m_freeSegments
              /\ \A g \in Heaps \ {h} : s \notin managed[g] /\ ~InHand(g, s)
              /\ InHand(h, s) => s \notin managed[h] /\ object[s] = "none"

\* free() finds its way: whenever the program runs, a segment with objects
\* names the heap that manages it and has the extents free() looks up.
FreeFindsItsHeap ==
    system = "up" =>
        /\ \A s \in Segments : object[s] # "none" =>
              s \in m_extentFinder /\ m_threadHeapID[s] # SEGMENT_FREE
        /\ \A h \in Heaps : \A s \in managed[h] :
              s \in m_extentFinder /\ m_threadHeapID[s] = h

\* The header in NVM names the owner of every segment with objects, at every
\* instant at which the power may fail.
OwnerDurable ==
    \A s \in Segments : object[s] # "none" =>
        /\ durable[s] # SEGMENT_FREE
        /\ system = "up" => durable[s] = m_threadHeapID[s]

\* No segment is lost for good: one that no list, heap or running operation
\* has is recorded as owned, and so will be recovered by the next restart.
NoSegmentLost ==
    system # "down" =>
        \A s \in Segments :
            \/ s \in m_freeSegments
            \/ \E h \in Heaps : InHand(h, s)
            \/ durable[s] # SEGMENT_FREE

\* As long as an object stays reachable, its segment keeps its owner in NVM,
\* whatever the other heaps do and however often the machine crashes.
ReachableKeepsOwner ==
    [][\A s \in Segments :
          object[s] = "reachable" /\ object'[s] = "reachable"
              => durable'[s] = durable[s]]_vars

\* Recovery ends: no heap waits for ever at searchingThreadNum or canFinish.
RecoveryEnds == system = "recover" ~> system # "recover"
=============================================================================
