# Verification of Zallocator

Zallocator is an allocator for byte-addressable non-volatile memory (NVM). A
program keeps persistent objects in NVM, names some of them as *roots*, and
after a crash or an ordinary restart the allocator rebuilds all of its own state
in DRAM from three things only: the owner of each segment (a table in the NVM
header), the root table, and what can be reached from the roots. This directory
holds TLA+ models of its components, TLC runs that check them on small
instances, and TLAPS proofs that hold for every instance.

The repository has no README, design document or test, so the models are
read off `src/src/*.{h,cpp}` alone; file names below are relative to that
directory. `PROJECT.json` maps every definition to the lines it stands for.

## 1. The system

```
 NVMalloc (API)  --- buildNVMAddrSpace ---> CLRecoverManager ---+
    | alloc / free / roots                                       | one thread per heap
    v                                                            v
 CLRootInfoManager      CLThreadHeap  <--- messages --->  CLThreadHeap ...
 (root table, NVM)        |   |   |        (CLChannelsManager -> CLMessageChannel
                          |   |   |                            -> CLCacheLineQueue -> CLFreeList)
             CLSlab / CLBitmapNVMRun | \
             (small objects)         |  CLNVMLargeObjAllocator -> CLIntervalTree
                                     |  (pages)                -> CLNVMExtentFinder -> CLExtentRadixTree
                                     v
                              CLCentralHeap -> CLFreeList (free segments)
                                            -> CLThreadHeapInfoRecorder (owners, NVM header)
```

An address space consists of segments of 8 GB, a segment of pages of 16 KB. A
thread heap owns segments, splits them into runs (for small objects) and large
objects, and is worked on by its own thread only. An object freed by another
thread travels to its heap through a channel; there is one channel for every
ordered pair of heaps, so a channel has one producer and one consumer. Shared
between threads are therefore only the free list of segments, the segment
table, the channels with their node pools, and the root table (under a lock).

### Inventory

| Component | State | Operations | What is hard, what makes it correct |
|---|---|---|---|
| CLFreeList | head word: pointer and 16-bit version | push, pop | lock-free, pop reads through a pointer that may be stale (ABA). No node handed out twice, none lost, the links are the list, somebody always gets through. |
| CLCacheLineQueue, CLMessageChannel | m_head, m_tail, nodes of 7 slots, node pool | pushBack, popFront | two threads without a lock, nodes recycled through a free list whose link overlays the queue's. A FIFO; a node is reused only when the consumer is done with it. |
| CLChannelsManager | channels of one heap, m_curChannel | pushBack, pop | the round must reach every channel. |
| CLCentralHeap, CLThreadHeapInfoRecorder | free segments, owner of each, extent finders; owner words in NVM | AllocSegment, FreeSegment, setters; markAllocated, markFree | two heaps on one segment; the order of flushes against a crash; failure in the middle. |
| CLThreadHeap | slabs, large object allocator, run cache, channels | alloc, free, doChannelClean, begin/endRecover, localAllocAt | drives everything above; multi-step failure; recovery. |
| CLNVMLargeObjAllocator, CLNVMExtentFinder | tree of free intervals; extents of pages | alloc, free; insert/remove extents | tree and extents must agree through splits and merges. |
| CLIntervalTree | red-black tree | insert, two getAndRemove | recursive rebalancing with many cases. |
| CLExtentRadixTree, CLRadixTreeNode | two-level tree, counts in pointers | insert, remove, get | a leaf deleted too early takes extents with it. |
| CLSlab, CLDoubleLinkList, CLBitmap, CLBitmapNVMRun, CLObjCache | lists of runs, bitmaps, counts, cache | alloc, free, allocAt | count, bitmap and list membership must agree, in recovery too. |
| CLDRAMRun, CLDRAMSlab | chunks never used, chunks given back | alloc, free | the same lists of runs as in CLSlab, over another kind of run; what becomes of an empty run. |
| CLRecoverManager, CLCountDownLatch | two latches, counter of searchers | doRecover, doSearchAndRecover | no heap may free what another search is about to report. |
| CLAllocatedSpaceTracer | set of spaces found | trace | gaps between them become free space. |
| CLRootInfoManager | root table in NVM, map in DRAM | registRoot, setRootNodeAddr, deleteRoot, findRoot, constructor | crash between any two stores. |
| CLPoliciesManager | constants, size classes | getTypeIndexBySize | a numeric mapping with boundaries. |
| NVMalloc | registry of heaps, thread-local heap | API | threads come and go, heaps are taken over; no two threads on one heap. |
| CLTypeInfoReader | buffer of types, table of names | init, lookups | IDs of 16 bits that are offsets into a buffer; pointers to later entries; what is left after a failed init. |
| CJsonObject, cJSON | a tree of items linked by hand; what operator[] and GetKey keep of it | operator[], GetKey, Add, AddAsFirst, Replace, Delete, Parse, Clear | kept CJsonObjects point into the document; every change must drop exactly those it makes wrong. |
| CLNVMAddrSpaceBuilder, CLExtentFinder | interfaces | | implemented by the program that uses the library. |
| Utils, FlushCount, CLExtent | machine instructions, a packed word | | |

## 2. The modules

Every `MCx` module only fixes an instance of module `x`; a `.cfg` of the same
name gives the constants.

| Module | Stands for | Built on |
|---|---|---|
| `FreeStack` | abstract: a stack with indivisible operations | |
| `CLFreeList` | CLFreeList.h, one load, store or compare-and-swap a step | implements `FreeStack` |
| `FifoChannel` | abstract: a FIFO whose push may fail | |
| `CLMessageChannel` | CLCacheLineQueue.cpp, CLMessageChannel.cpp, one load or store a step | implements `FifoChannel`; its pool is a `FreeStack` |
| `CLCentralHeap` | the life of a segment, with the NVM header, crashes and recovery | its list is a `FreeStack` |
| `CLRootInfoManager` | the root table, one store or flush a step, with crashes | |
| `CLNVMLargeObjAllocator` | the pages of one heap: CLNVMLargeObjAllocator, CLNVMExtentFinder and their callers in CLThreadHeap | the interval tree as `CLIntervalTree` promises, the extents as `ExtentMap` |
| `CLRecoverManager` | the parallel search of recovery with its latches and messages | a channel as `FifoChannel` |
| `CLThreadHeapRecovery` | localAllocAt and endRecover: from what was found to the free space of a heap | states what recovery accounts for with the invariants of `CLNVMLargeObjAllocator`, taken for the pages at the addresses it enters |
| `CLIntervalTree` | the recursive red-black tree | |
| `ExtentMap` | abstract: a function from pages to extents | |
| `CLExtentRadixTree` | the radix tree with its counts | implements `ExtentMap` |
| `CLSlab` | slab, run lists, bitmaps, chunks, counts, object cache, their recovery | |
| `ObjectPool` | abstract: what nvmalloc and nvfree promise to a program of several threads | |
| `CLThreadHeap` | the registry of heaps (NVMalloc), alloc and free of a running heap, its mailbox (CLChannelsManager) | implements `ObjectPool`; a channel as `FifoChannel` |
| `CLPoliciesManager` | getTypeIndexBySize against the table, as operators | |
| `CLTypeInfoReader` | init's two passes, the lookups | sizes go through `CLPoliciesManager` |
| `CJsonObject` | the items of cJSON and what CJsonObject keeps of them | |
| `MCTypeInfo` | the JSON library and the reader in one instance: a document is edited, or init reads a file | `CJsonObject`, `CLTypeInfoReader` |
| `CLMessageChannelProofs`, `CLCentralHeapProofs`, `CLThreadHeapProofs`, `CLThreadHeapRecoveryProofs`, `CLRecoverManagerProofs`, `CLNVMLargeObjAllocatorProofs`, `CLSlabProofs` | theorems | each about the module it is named after; `CLRecoverManagerProofs` also about `CLTypeInfoReader` and `CLPoliciesManager`, which tell recovery the types and classes of what it finds |
| `BaseStructuresProofs` | theorems | about `CLFreeList`, `CLExtentRadixTree` and `CLRootInfoManager`, whose definitions therefore have names of their own |

How state and actions correspond to the code:

* **CLFreeList.** `head` is the list's m_next as pointer and version, `link`
  the m_next of the nodes. `PopReadHead`, `PopReadNext`, `PopSwap` are the three
  accesses of an iteration of pop(), `PushReadHead`, `PushWriteLink`, `PushSwap`
  those of push(), `SwapFails` the way back to the top. `UseNode` is the client
  that overwrites the memory of a node it holds. `stack` and `age` are history.
* **CLMessageChannel.** m_head and m_tail are addresses of slots; an address on
  a cache-line boundary sends its reader to the next node, as the test of the
  low six bits does. `home` records where each message was put.
* **CLCentralHeap.** `owner` is the table of owners as the CPU sees it,
  `durable` the same in NVM; `Flush` is clflush, `Evict` the cache's freedom to
  write back at any time. `pc` and `seg` follow a heap through
  allocFromLargeObjAllocator, FreeSegment and endRecover's loop. `object` keeps
  of a segment's contents only whether there are objects and whether a root
  reaches one. A heap may fail for want of DRAM at each point where the code
  tests for it.
* **CLRootInfoManager.** `words` and `nvm` are the table in the cache and in
  NVM, in words of eight bytes; a text is one symbolic word after another.
  `Walk` is the constructor's iteration over the table, a recursive function from
  positions to what is found from there on (`WalkAt`). Addresses, marks and the words of texts are told
  apart, and texts of different roots too: where a record begins and what a text
  says is known by position in the code, and nothing depends on a chance likeness.
* **CLNVMLargeObjAllocator.** `m_intervalTree` is the set of free intervals,
  `m_extents` the function of the finder; `Reserve*`, `Alloc*`, `GiveUp`,
  `Free*`, `*CachedRun`, `CacheRun` are the paths through alloc and localFree.
* **CLRecoverManager.** `main` and `pc` follow doRecover and each heap's
  doSearchAndRecover. `ptrs`, `owner`, `roots` are the contents of NVM, arbitrary
  but acyclic; `st`, `entry`, `m_mallocCount` are the search's locals. The order in
  which roots and the pointers of an object are pushed is left open (`Orders`).
* **CLThreadHeapRecovery.** `TraceMeta`, `RecoverLargeObj` and `RecoverRun` are
  the calls of localAllocAt, in any order; `Begin` to `EndRecover` is endRecover,
  one call of free() or FreeSegment a step.
* **CLIntervalTree.** The recursion is the code's: `InsertInto`, `RemoveRoot`,
  `RemoveFit`, `RemoveExactly` return the new subtree with the code's state or
  flag; each action is one call of the allocator.
* **CLExtentRadixTree.** `m_root` are the pointers of the root node with what
  they point to, `count` the upper 16 bits of each.
* **CLSlab.** `lists` are the heads with every run's m_next and m_prev; the
  loop of allocObj is one iteration a step. `kind` says which of the two classes
  of runs the template is used with: `m_bitmap` and `lastAccessPos` are
  CLBitmapNVMRun's, `m_tail` and `m_freeChunks` CLDRAMRun's.
* **CLThreadHeap.** `threadHeapTable`, `threadHeapBound` and `localHeap` are
  NVMalloc's; `CreateLocalHeap` and `bindThreadHeap` are its ways to a heap, each
  one step because of the lock. `pc` follows a thread through nvmalloc, nvfree,
  alloc and doChannelClean; `CleanMessage`, `CleanFails` and `CleanNothing` are the
  iterations of its loop, with the local of CLChannelsManager::pop in
  `startChannel`. `owner` is what the segment table says of an object's segment,
  `space` what the heap's slabs and pages can hand out.
* **CLTypeInfoReader.** `AllFit` and `SpaceNeed` are the first pass, `Resolved`
  and `Buffer` the second; the buffer is a sequence of words, an ID the index of one.
* **CJsonObject.** `item` is the memory of cJSON items with their next, prev and
  child, `live` those in use; `obj` is what each CJsonObject holds: its own
  document or a pointer into another's, the cursor of GetKey, and the two maps of
  CJsonObjects that operator[] has made. One action per operation; the overloads
  for the types of scalars, which differ in the scalar only, are one action.

Steps the code cannot survive. Some steps lead to a state in which the
program is broken by a flaw of the code (section 6). The models take these steps
and explore nothing behind them; a variable says which it was (`spoilt`, or a
`pc` or `hand` of that name). The properties then say that *nothing else*
breaks the component. This is deliberate: otherwise every property would only
repeat the first flaw.

## 3. The runs

Each run puts one question. All times are those of two TLC workers.

| Run | Module | Instance | Distinct states | What it shows |
|---|---|---|---|---|
| `freelist` | `CLFreeList` | 2 threads, 3 nodes, 4 versions | 345 416 | Every interleaving of pop, push and writes to held memory: no node is handed out twice or lost, each step is one of `FreeStack`; while a thread is inside an operation, operations complete. |
| `channel` | `CLMessageChannel` | 3 nodes of 2 slots, 2 values, 5 messages | 306 112 | Every node is in one place and reused only when the consumer is done with it; an unread message stays where it is; nothing accepted is lost or reordered; what was accepted arrives. |
| `centralheap` | `CLCentralHeap` | 4 segments, 2 heaps, 2 crashes | 730 608 | The life of a segment with a crash between any two steps and memory running out anywhere: no segment in two hands, its owner durable while it has objects and unchanged while they are reachable; recovery ends. |
| `rootinfo` | `CLRootInfoManager` | 2 roots, 2 addresses, 1 reader, 8 words, 2 crashes | 170 715 | Every restart finds the address a root had or was getting, and a table it can read; findRoot never returns another root's address. |
| `pages` | `CLNVMLargeObjAllocator` | 2 segments of 4 pages, runs of 2, a run cache of 1 | 113 273 | Free intervals, live blocks and cached runs tile the segments; the extents of a boundary page are exactly what the tree holds; no two neighbouring free intervals stay apart, no empty segment is kept. |
| `recover` | `CLRecoverManager` | 3 heaps, 2 objects | 288 994 | Every acyclic graph, every placement of objects and roots, every set of heaps to recover: exactly what is reachable is marked, nobody frees too early, everybody comes to the end. |
| `tree` | `CLIntervalTree` | up to 7 intervals of lengths 1 and 2; and a grown tree of 11 | 445 150 | Ordered, red-black and best fit through every order of insertions and removals, up to the first of the four flaws of section 6. |
| `slab` | `CLSlab` | 3 runs of size 12, objects of 3 and 5, words of 6 bits, a cache of 2; NVM and DRAM runs | 424 095 | The two lists are well linked and each run is in the right one; counts, bitmaps, chunks and cache agree; objects do not overlap; a new run is taken only when nothing was free as the allocation searched: what is free then came back by messages handled on the way. |
| `page_recovery` | `CLThreadHeapRecovery` | 3 segments of 4 pages, up to 3 blocks | 207 939 | Whatever recovery found, in whatever order: endRecover frees nothing reachable, and every page of the heap is in an object, at the address of a free interval with its extents right, or gone with its segment. A running heap cannot use that free space (section 6, 3), and the property says so. |
| `radix` | `CLExtentRadixTree` | 2 leaves of 4 slots, 2 extents | 6 562 | Leaves exactly where there are extents; a function from pages to extents. |
| `threadheap` | `CLThreadHeap` | 2 threads, 3 heaps, 2 objects | 322 454 | Whoever frees what, on heaps created, taken over and abandoned: no two threads on a heap, an object in one place, handed out only when available; a message is read as long as somebody attends to the heap. |
| `typeinfo` | `CJsonObject`, `CLTypeInfoReader`, `CLPoliciesManager` | a document of 4 items, 3 CJsonObjects; files of up to 3 entries | 86 256 | The links of a document stay a tree, and what operator[] keeps is what a lookup would find; IDs lead to the entries they name; every size from 1 gets a class that fits, the smallest that does, save the sizes above 512 that are classes themselves: those get the next one. |

A type invariant is part of the first invariant of each run, or proved with it
(section 5).

That each property can fail is shown as well: PROJECT.json pairs it with a
definition changed the way a plausible bug would change it (marked *Mutant* in
the modules, which use none of them), under which TLC finds it violated in the
same instance.

### Why the bounds are enough

* **Versions = 4** of 2^16. A version is only compared for equality; what matters
  is whether it can come round while a thread sleeps. `WindowBound` says it does
  not: no compare-and-swap beyond `Versions - 1` falls into one thread's window.
  With 4 versions windows of up to three foreign swaps are explored, which is
  enough for A -> B -> A (pop, pop, push), and the version wraps many times. The
  proof covers every number of versions, threads and nodes. Three nodes are
  needed for a stale `next` that is itself held by somebody else.
* **Slots = 2** per queue node (7 in the code) and five messages: three nodes fill
  up, so a node is emptied, recycled and taken for the queue again while the
  producer may still hold its address. A node of one slot would be a different
  algorithm (the first slot is also the last), so at least two are assumed.
* **Segments and heaps.** Segment 0 is the metadata segment and never changes
  hands; three others let one be free, one in use and one on its way between two
  heaps. Two crashes allow one during recovery from the other.
* **Roots.** Records of two and three words in a table of eight: both fit, but not
  twice, so `TABLE_FULL` and the missing room for the end mark occur. Three
  records of a name (registered, deleted, registered again) fit the two
  lifetimes that a reader without the lock may confuse.
* **Pages.** Segments of four pages are the smallest in which a block can have
  free space, another block or a border on either side in every combination
  (8 GB segments of 2^19 pages in the code). Two segments are needed so that
  merging could wrongly go across the border between them.
* **Recovery.** With three heaps there is a heap that searches, one that only
  answers and one that comes last to the barrier. Two objects allow a chain over
  heaps. `CHANNEL_CLEAN_CIRCLE` = 2 makes a search both pass and meet the point
  at which it looks at its channels (100 in the code).
* **Tree.** Seven intervals reach every case of insertion and every case of removal
  but one: a removal whose repair climbs more than one level needs a tree of
  three black levels, hence the second initial state, a tree of eleven that was
  grown by insertions and shrinks in every order. Two lengths make equal keys
  (which order by start) and unequal ones.
* **Slab.** Three runs make a list with a head, a middle and an end. Objects of
  size 3 divide a run into four slots, which allows a run that is neither full nor
  empty after an allocation and after a free; those of size 5 do not divide it, and
  are rounded up to three. Words of six bits (64 in the code) make the bitmap two
  words. A DRAM run loses a unit to its header.
  While an allocation waits for a run any number of objects may come back, as
  messages bring them. The runs are symmetric: no property
  is about liveness.
* **Running heaps.** With three heaps a mailbox has two channels, so the round of
  `pop` has a way to go wrong, and an object freed by a second thread can be for a
  heap nobody attends to. One thread may move on from the heaps 1 and 2
  (`Leavable`), so that it can bind all three and the other finds none. Recovery has
  put heap 2 into the table or none. `CHANNEL_CLEAN_CIRCLE` = 1 (100 in the code):
  every allocation looks at the mailbox, and the count can be below, at and beyond
  the circle. Two objects meet in one channel, or in two.
* **Documents.** Four items make an array with a first, a middle and a last one;
  the fourth is used while there is one CJsonObject only, the other three with all
  three, which make a chain (a part of a part) or two for one part. With more than one
  CJsonObject the document begins with item 1: how items are numbered is told apart by
  no property, and a document that begins with another has the shape of one that was
  made after Clear. The keys `k` and `kUpper` differ in case, `l` differs from both; indexes are 0 and 1, and -1. A value
  put into a document is a scalar, an array with one or an object with one. All
  seven ways to spoil a document are reached.
* **Types.** IDs have 5 bits (16 in the code): the limit is 31 bytes, three words, so
  files of three entries are accepted and refused. A file has any names, twice or
  undeclared, and any of its fields may be missing; or it is one entry of any size
  from 0 to a little more than the field of sizes holds, which is 32 832 values here (2^48 in
  the code): every size with a class, some without, and some that wrap round.

`CHECK_DEADLOCK FALSE` is said where a model ends: recovery returns
(`recover`, `page_recovery`), or a step the code cannot survive was taken (`tree`,
`slab`, `pages`, `threadheap`, `typeinfo`).

## 4. Fairness

* `CLFreeList`: weak fairness of each thread's next access inside an operation.
  The operating system schedules threads; nothing obliges one to begin. This
  gives lock-freedom (`LockFree`), not that each thread gets through: a loser of
  the compare-and-swap may lose again, and the code does not prevent it.
* `CLMessageChannel`: weak fairness of a push that has begun and of `Pop`. The
  second is the receiving heap's polling (doChannelClean on every 100th
  allocation, CLThreadHeap.cpp:312). A heap whose thread never allocates again
  does not poll, and its messages stay where they are: `Delivered` is about heaps
  that do.
* `CLRecoverManager`: weak fairness of the main thread and of each heap's
  thread. A waiter on a latch has no step until it is woken, so fairness does
  not wake it: the count-down does.
* `CLThreadHeap`: weak fairness of each thread's next step inside nvmalloc and
  nvfree, and strong fairness of beginning an allocation. The second says that a
  thread goes on allocating, and comes to it although it also frees and binds;
  nothing obliges it to free. `MailIsRead` is about heaps whose threads do so.
* `CLCentralHeap`: weak fairness of the steps of start-up and of each heap's
  recovery. `RecoveryEnds` allows for another crash, which is not fair.

## 5. The proofs

TLAPS checks the following for every value of the constants, under the
assumptions named in the modules and nothing else.

| Theorem | States |
|---|---|
| `BaseStructuresProofs!TypeCorrect`, `PopExclusive`, `NothingLost`, `LinksMatchStack` | the four invariants of `CLFreeList` |
| `BaseStructuresProofs!ListImplementsStack` | `CLFreeList` implements `FreeStack` |
| `CLMessageChannelProofs!NodesStayInOnePlace`, `UnreadStaysKept` | the two invariants of `CLMessageChannel` |
| `CLMessageChannelProofs!ChannelImplementsFifo` | `CLMessageChannel` implements `FifoChannel` |
| `CLCentralHeapProofs!TypeCorrect`, `SegmentsStayApart`, `FreeRouted`, `OwnersAreDurable`, `NoSegmentIsLost` | the five invariants of `CLCentralHeap` |
| `CLCentralHeapProofs!OwnerIsKept` | the action property `ReachableKeepsOwner` |
| `CLThreadHeapProofs!HeapsAreExclusive`, `ObjectsInOnePlace` | the two invariants of `CLThreadHeap` |
| `CLThreadHeapProofs!HeapsImplementPool` | `CLThreadHeap` implements `ObjectPool` |
| `BaseStructuresProofs!CountsNeverWrap`, `LeavesAreExact` | no count wraps, a leaf exactly where there are extents |
| `BaseStructuresProofs!TreeImplementsMap` | `CLExtentRadixTree` implements `ExtentMap` |
| `BaseStructuresProofs!RootsAreKept`, `ReadersFindTheirRoot` | the two invariants of `CLRootInfoManager` |
| `CLRecoverManagerProofs!NobodyIsLate`, `RecoveryIsExact` | the two invariants of `CLRecoverManager` |
| `CLRecoverManagerProofs!IDsLeadToEntries`, `RecoveredClassFits` | the two invariants of `CLTypeInfoReader`, the second with `CLPoliciesManager` |
| `CLNVMLargeObjAllocatorProofs!PagesAreTiled`, `ExtentsAreRight`, `FreeSpaceIsWhole` | the three invariants of `CLNVMLargeObjAllocator` |
| `CLThreadHeapRecoveryProofs!ReachableIsKept`, `PagesAreAccounted` | the two invariants of `CLThreadHeapRecovery` |
| `CLSlabProofs!ListsAreIntact`, `CountsAreRight`, `ObjectsAreApart` | the three invariants of `CLSlab` |
| `CLSlabProofs!NewRunsAreNeeded` | the action property `NewRunOnlyWhenNeeded` |

**CLFreeList**, assuming NULL is no node and there is at least one version. The
four invariants are not inductive: they say nothing of what a thread has read
and not yet used. `IInv` adds `LocalsOK`: while a thread is between its read of
the head and its compare-and-swap, the version in the head is the one it read
advanced by the number of swaps since (`After`), and if there was none, its
copies of head and link are still true. From `WindowBound` follows
`VersionTells`: a compare-and-swap that succeeds had no other in its window.
`PopTakesTop` and the two swap lemmas then show that it does to `stack` what
`FreeStack` does; every other step changes nothing `FreeStack` sees.

**CLMessageChannel**, for any nodes, slots and messages. What the invariants say of
nodes and messages does not mention where the end pointers are, or what a thread
has read. `IInv` describes the queue through `home`, the places of all messages
sent: they follow each other slot by slot and node by node, and from the last
message read on no node is come to twice (`Chain`); m_tail and m_head are one place
behind the last message sent and the last one read (`Ends`); a full node is linked
to the next (`Links`); `Pushing` and `Popping` say what each thread relies on
between its steps, the consumer's old copy of m_tail included. `Chain` is what makes
recycling safe: when the consumer leaves a full node, no unread message lies
in it (`Consumed`), so it may go to the pool. One lemma per load or store.

**CLCentralHeap**, assuming at least one segment and one heap. `IInv` says of each
segment where it is: `ObjectOK` (with objects: owned, on record and known to
free()), `HeaderOK` (listed, in somebody's hands, or owned on record), `ManagedOK`
(with free space in it), `HandOK` (how far an acquisition or a return has come with
it, each flush included), of each heap what its search has found (`FoundOK`), and
which control points go with which state of the system (`Phases`). A crash keeps
`durable` alone, so everything `CrashStep` needs has to be said about `durable`
before it: this is why `ObjectOK` equates owner and durable. One lemma per action.

**CLThreadHeap**, assuming at least two heaps and a circle of at least one. Three
facts about mailboxes (emptied, one message more, one message less) carry the
sequences; above them the actions are about sets. `HeapsAreExclusive` is inductive
with the types and says that the registry's marks are the thread's heaps;
`ObjectsInOnePlace` is inductive on top of it: a thread that takes a message out, or
hands out what its heap has, touches no other heap's objects because it is alone on
its own. The refinement maps what is free anywhere to `available`, and what a thread
is freeing or a mailbox holds to `returned`.

**CLExtentRadixTree**, assuming at most 65 535 slots in a leaf (2^9 in the code),
which is what the 16 bits of a count can hold. `TreeIInv` is the type invariant with
`Counted`: a count is the number of used slots of its leaf. The arithmetic of a
page's number and its two indices (`DivideUnique`, `PageOfSlots`, `SlotsOfPage`)
is proved from the definition of division.

**CLRootInfoManager**, for any names and sizes of records, any table of at least one
word and any number of crashes, assuming what `RootInfoAssumption` says: a record has
its address and a word of text at least, and the symbols are distinct. `RootIInv` is in
two halves. The first holds whatever was done to the table: the texts of every
record that m_roots or a reader relies on are in place, and no other record's address
word lies within them (`ReliedOK`), and an operation in progress is at the table's end
or at its root's record (`OpOK`); `ReadersFindTheirRoot` needs no more. The second
holds while no restart is spoilt (`spoilt`). `Chain`: the table is record behind record
up to the end mark, with one live record for a name at most; `Stands`: the live
records give each root an address it may have. The table the CPU sees is of this kind
and agrees with m_roots (`RootsOK`), and NVM has the same words as far as they were
flushed, but for the one address word whose flush is due, and then its table is
of this kind as well, before that store or after it (`NvmOK`). Two lemmas say what a single
store of an address makes of a table: it grows by one record (`TableGrows`), or a
record changes (`RecordChanges`). That the walk over such a table finds the live
records and the end is `WalkSound`. `WalkFrom` is recursive from the table's end
backwards; that it exists is proved with the library's well-founded orders
(`WalkIsDefined`), and it is followed from the end to the front (`Backwards`).

**CLRecoverManager**, for any number of heaps (two at least) and objects, any of the
graphs of `Init` (that they have no cycles is not used) and any order in which roots
and pointers are pushed.
searchingThreadNum and the latches are numbers; `IInv` says of each that it is the
size of a set, the heaps whose program counter is before the point where it is
counted down, so that zero means that no heap is there. `NobodyLate` follows, with
what each stage may leave in the channels. For `RecoversExactly` it says where a
reachable object that is not yet marked can be: every edge out of a visited object
leads to a visited one, or to one that is *pending*, on a stack or in a channel;
what is pending is reachable. When nothing is pending, what is visited is closed
under edges and holds the roots, so it holds everything reachable. Reachability is
the least closed set, so this step needs no induction.

**CLNVMLargeObjAllocator**, assuming what `PagesAssumption` says: positive sizes, a run
and a request smaller than a segment, segments that are a multiple of RunAlign.
`Tiling` says that nothing overlaps, but the step that merges relies on more: that
the extents at its neighbours' ends are right, and that the free space found there
does not touch more free space. `IInv` puts the three together: `Tiled` (the
intervals of the tree and those in use tile the heap's segments, each within one,
and no two free ones touch), `Marked` (the extents at the ends of free intervals
and of objects, at every page of a run, and none elsewhere), `UsedOnce` (what is in
use is there for one reason only, so that it can be counted), and `HandIsRun`. The
lemmas are about intervals and do not mention the operations: taking the front of
a tile (`SplitTiled`), joining a tile with the free ones that touch it
(`JoinedTiled`), a segment that comes or goes (`SegmentEnters`, `SegmentLeaves`), and
for the extents one fact (`Remarked`): a change confined to some pages, right on
them, and those pages touched by no tile that stays. `FreeSpaceWhole` needs its
converse: if all of a segment were free, the interval at its start would be
shorter than the segment, and the one behind it would touch it. The counting in
`Tiling` uses bijections of the library.

**CLThreadHeapRecovery**, assuming what `RecoveryAssumption` says: positive sizes, a run
smaller than a segment, segments that are a multiple of a run, a run of RunAlign.
What `AllPagesAccounted` says of the free intervals it says of the pages at their
addresses (`PagesAt`), and `NoOffsets` adds that none of them is an offset of the
heap's, when the address space starts behind its own length.
Neither property says anything of the loops of endRecover, so `IInv` follows them.
`TracerOK`: what the tracer holds is the space of reachable objects, and before the
loops begin no less than all those found. `FreedOK` and `ExtentsOK`: what was freed,
with a tree node or without, lies within a segment in use, overlaps nothing and
reaches up to an object or to its segment's end, so that no two freed intervals touch;
every extent is that of an object or of a freed interval. `SweepOK` is the loop over
the spaces: what lies before prevEnd is done and what is in `todo` lies behind it; the
pages before prevEnd in segments in which something was found are `Covered`, used or
freed, and nothing behind prevEnd is freed. FreeBetween keeps it by one lemma about any gap (`GapsEntered`) and one about
what can lie between two spaces that follow each other (`Between`): no segment with an
object in it, unless the step is the flawed one at which the model stops ("overrun").
`SegmentsOK` is the loop over segments; it decides by one extent, and
`SegmentMarked` says why that is enough: at a segment's first page there
is an extent exactly if something was found in it. At the end every page of the
segments that stay is covered once; the counting in `Tiling` uses bijections, and that
no segment is wholly free follows from `InUse`.

**CLSlab**, for both kinds of run, assuming what `SlabAssumption` says: positive sizes,
at least two objects to a run, whole words of bitmap, and at most 65 536 units in a
run, so that the 16 bits of a count suffice (an NVM run has 2^17 bytes in units of 64). Like
the run they are about a slab up to the first of the three steps that spoil it
(section 6, Slabs), behind which the model does not go. What a
list's links lead to is `Chain`, the least set that holds the head and whatever
follows: where a run stands in it (`Neighbours`) and what Push and Erase make of it
(`Pushed`, `Erased`) need no induction. `IInv` has four parts. `RunsOK` says of every
run that is not leaked, the ones without a structure included (a new run is found as
the last one left it): what it can give is what is not in use, its count is how much
that is, and in a DRAM run m_tail is a whole number of objects behind the header,
with all chunks given back before it. `TakenOK`: what is in use fits, is cached or in
the program's hands once only, and exactly the runs with a structure have something in
use. `ListsOK`, and `SearchOK`: allocObj's loop stands before the first half-empty run,
and when it asks for a new one none is left: nothing is free then (`NothingFree`).
While it waits for the run its heap handles messages, and `ReturnedOK` says that what is
free is among what they have freed (`returned`, history), each free adding the one object
(`OneMoreFree`); `NewRunOnlyWhenNeeded` follows at the step that takes the run. The arithmetic of slots (`HowMany`,
`SlotsAre`) is proved from division; that getAndSet finds a free slot if there is one
(`SlotFound`) needs a least element of a set of numbers, which `Least` takes from the
library's well-founded orders; a count is a cardinality, so it never wraps
(`OneMore`).

**CLTypeInfoReader and CLPoliciesManager**, for any names, any files of entries and any
number of values an ID may have (`TypeInfoAssumption`: at least one, NONE is no name,
and a file is a sequence of entries). `ReaderIInv` says that a reader that is ready
holds what its two passes make of an array both accept; the rest is about the passes.
Both are recursive functions: that the sums of the first and the concatenations of the
second exist is shown by induction from a least number (`Forwards`), and then that an
entry's words lie in the buffer where the first pass counted them (`FlattenedWords`,
`BufferHolds`), that entries start one behind the other (`StartsGrow`), so that IDs
differ, and that no ID wraps round because the limit leaves room for it (`IDsAre`). The
classes of sizes are proved against the table for all sizes (`SizesFit`): up to 512
lines of 64 bytes, from there on one argument about the quarters of a power of two
(`QuartersFit`) for six powers.

**Only model-checked**: all liveness (TLAPS does not reason about fairness and
ENABLED here); `CJsonObject`, where what Delete removes with an item is all that the
links lead to, so that a proof would need induction over documents; `CLIntervalTree`,
whose recursive operators are out of the prover's reach.

## 6. Flaws of the code met while modelling

The repository states no promises that a run could contradict, so these are not
findings of a run but steps and states the models take (by the name given) or
leave out.

1. **Roots.** A registration torn by a crash leaves bytes of its texts where the
   next address word comes to lie, unaligned to the end mark
   (CLRootInfoManager.h:148; `spoilt` has "rubbish"). After the first record is
   deleted, every restart dereferences nullptr (94; "first", then `system` is
   "dead"). A root with address NULL is the end mark (151; "null"). findRoot
   reads the record after the lock was released and may return
   ROOTS_INFO_DELETED as an address (NVMalloc.cpp:160).
2. **Recovery of objects.** A heap builds its channels after canStart, so
   a faster heap may push to a channel without an allocator
   (CLThreadHeap.cpp:296; `VisitTooEarly`). allocAt ignores a failed push, and the
   object is not marked (357; `refused`). The search walks cycles for ever
   (CLRecoverManager.cpp:63; only acyclic graphs are modelled). An object reached
   twice is counted twice (CLBitmapNVMRun.h:79; `spoilt` of `CLSlab` has "twice").
3. **Recovery of pages.** A segment behind the last space found may be entered as
   free whoever owns it (CLThreadHeap.cpp:412; `pc` is "overrun"). Runs are
   looked for at multiples of their size although they need not lie there (210;
   "misplaced"). endRecover enters absolute addresses in the tree (407, 413, 419, 431)
   where alloc (101) and tryMergeAndFree (256) have offsets: what is recovered as
   free is handed out at an address that is AddrSpaceStart too high, and never merges
   with what is freed later (the last conjunct of `AllPagesAccounted`). It ignores a
   failure of free() (407, 413; `lost`).
4. **Pages.** The mask of a run's address drops 16 bits where pages have 14
   (CLBitmapNVMRun.h:19; `MisplaceRun`). A request that rounds up to a segment
   leaves an interval of length 0 in the tree (CLThreadHeap.cpp:321; excluded by
   `MaxRequest`).
5. **Interval tree.** Two flaws of removal and two of its callers. Removal of a node with two children swaps it with its left
   child, not its predecessor (CLIntervalTree.cpp:93; "swap"); a flag is read that
   was never set (105; "flag"); a removed node is used again with its old links
   (CLNVMLargeObjAllocator.cpp:26; "shared"); and free() inserts a node from the slab
   that no constructor has run on (158), with the links its memory holds, which may be
   those of a node freed before (29, 152) or anything ("raw").
6. **Slabs.** A run filled by recovery stays with the half-empty ones (CLSlab.h:76;
   "filled"); the number of slots is rounded up (CLBitmap.h:28; "beyond"); the
   bitmap is built before memory for it is tested (CLBitmapNVMRun.h:49);
   CLDRAMSlab forgets runs that become empty (CLSlab.h:156; `leaked`). A size that is itself
   a class above 512, and no power of two, gets the next class
   (CLPoliciesManager.cpp:40; `SmallestClassThatFits` says so). An allocation that has
   found nothing goes for a new run even if the messages it handles on the way bring
   an object of its class back (CLThreadHeap.cpp:64, 109): a run too many (`returned`).
7. **API.** nvfree ignores that free() failed (NVMalloc.cpp:66; `lost`).
   createLocalHeap makes a new heap over one that was recovered, whose memory and
   mail are gone (28; `rebuilt`). A thread that binds another heap leaves its first
   one bound and unattended (129). When a message cannot be handled just as the count
   reaches the circle, the count is not reset and passes it for good: the heap
   reads its mail no more until it runs out of memory (CLThreadHeap.cpp:312;
   `Unattended`).
8. **Free list.** 16 bits of version do not exclude ABA for a thread that sleeps
   through 65 536 swaps (CLFreeList.h:40; excluded by `WindowBound`).
9. **Types.** The limit of the file counts bytes although IDs count words, and
   refuses files an ID could still name (CLTypeInfoReader.cpp:45). After a failed
   init the instance is deleted but not forgotten, and the next init succeeds
   (CLTypeInfoReader.h:59; `m_instance` is "dangling"). getTypeInfoByID does not know
   INVALID_TYPE_ID and reads outside the buffer (CLTypeInfoReader.h:70). A type of size 0 is accepted,
   and sizes are kept in 48 bits (CLTypeInfoReader.h:33), so a multiple of 2^48 is 0 as
   well and any larger size is taken for what is left of it; 0 has no class.
10. **Documents.** Seven ways to leave a kept CJsonObject or the cursor wrong
   (`spoilt`): the scalar overloads of Add and AddAsFirst do not drop what operator[]
   has found or counted there (CJsonObject.cpp:932, 2657; "absent", "shifted"); keys
   are matched whatever their case, and dropped by their exact spelling (1377;
   "case"); the index -1 is the first item for cJSON and the last of all for the
   map (3060; "negative"); Replace does not move the cursor off the item it
   deletes (1391; "cursor"); what operator[] gave for nothing becomes a document of
   its own when something is added to it ("detached"); two CJsonObjects for one part
   do not know of each other ("alias").

## 7. Abstractions and assumptions

* Each heap is worked on by one thread (it is thread-local, NVMalloc.cpp:28), the
  root table under its lock but for findRoot's read.
* The builder of the address space has formatted the header: segment 0 belongs to
  heap 1, all others are free; the address space is aligned to segments.
* Where a free list or a channel is part of another component, it is the
  abstract, indivisible one (`FreeStack`, `FifoChannel`); that the code implements
  these is checked, and for the free list proved. Messages of recovery are taken
  as delivered in `CLCentralHeap`, which `CLRecoverManager` justifies.
* The page model takes the interval tree by its contract (what `HoldsInOrder` and
  `FindsBestFit` say of histories without the flaws in 6) and the extents as a
  function (`ExtentMap`, which `CLExtentRadixTree` implements). The starts of
  intervals in a tree are distinct: they are disjoint.
* Memory is sequentially consistent for each access of CLFreeList's atomic head and
  for the plain accesses of CLCacheLineQueue, as x86 gives it for the store and
  load orders the queue relies on. The cache writes back lines at any time
  (`Evict`), and clflush does so at once.
* DRAM may run out where the code tests for it; operator new elsewhere succeeds.
* A heap's constructor does not fail: it does so only without DRAM. In a program's
  documents memory does not run out. What is parsed or added as a whole has at most one
  key in each object: a text that repeats a key gives a document that repeats it.
* In `CLThreadHeap` sizes are left out, so what is free may always not fit; a place
  that changes hands with its segment is an object of its own.
* A run has at least two slots; requests are below a whole segment.
* Objects are freed once, by whoever holds them: what a program does with a dangling
  pointer is not the allocator's to answer for.

Not modelled: the packing of `CLExtent` into a word; `CLNVMAddrSpaceBuilder` and
`CLExtentFinder`, which are interfaces; of cJSON the parser and the printer (text,
taken as building the value it denotes), references, and arrays made in one call,
which CJsonObject does not use; flush counters and bit scans.

## 8. The plan

The order followed so far: the lock-free list first, since everything shared
rests on it; the channel on top of it; the life of a segment with crashes, the
heart of what the allocator promises; the root table; then the parts of a single
heap from pages to slabs, and recovery in the large (`CLRecoverManager`) and in
the small (`CLThreadHeapRecovery`); then running heaps with the registry and their
mailboxes, and what start-up reads: types, and the documents they come in. Proofs
came in this order: free list, segments, radix tree, running heaps, channel,
recovery, pages, slabs, the recovery of pages, the root table, the types.

What is left to TLC is named at the end of section 5. Still open:

1. `CLIntervalTree` with its subtrees as a function from nodes to nodes instead of
   recursive operators, so that `HoldsInOrder` could be proved.
2. `CJsonObject`: an inductive invariant for `TreeIntact` about the items below each
   document, with the set of items below an item as a fixed point.
3. The packing of `CLExtent` into a word.

New questions replace or join existing runs, so that the whole remains small
enough to be checked after every change.
