------------------------------- MODULE CLSlab -------------------------------
(***************************************************************************)
(* The objects of one size: the slab with its lists of half-empty and of   *)
(* full runs, linked through the runs' management structures.  The slab is *)
(* a template, and two kinds of run are put into it:                       *)
(*   "nvm"   CLBitmapNVMRun, for the small objects of a heap: a bitmap, and*)
(*           a cache of freed objects in front of the slab.  Before the    *)
(*           program runs, recovery puts back the objects it finds;        *)
(*   "dram"  CLDRAMRun, for the allocator's own nodes (CLDRAMSlab): chunks *)
(*           that were never used, then the free list of those given back. *)
(*                                                                         *)
(* Sizes are in units of one bit of the bitmap (64 bytes).  Where a run    *)
(* comes from and goes to (the run cache, the large object allocator, or   *)
(* jemalloc) is left open: any unused one may come, or none.  On the way to*)
(* a new run the heap may read its mailbox: objects of this very class are *)
(* freed while their allocation is past the slab (pc is "clean").          *)
(* Three things can spoil a slab; the model takes the step that does and   *)
(* goes no further, and "spoilt" says which it was:                        *)
(*   "beyond"  the last slot of a run whose size the objects do not divide *)
(*             reaches beyond the run, and is handed out like the others;  *)
(*   "filled"  recovery has filled a run and left it with the half-empty   *)
(*             ones: freeing an object takes it out of the wrong list;     *)
(*   "twice"   recovery comes to an object twice and counts it twice.      *)
(***************************************************************************)
EXTENDS Integers, Sequences, FiniteSets, FiniteSetsExt, SequencesExt

CONSTANTS
    Runs,
    NULL,
    RunSize,      \* NVM_RUN_SIZE and DRAM_RUN_SIZE
    ObjSizes,     \* the sizes a slab may be for
    Header,       \* CACHE_LINE_SIZE, which a DRAM run keeps for its structure
    WordBits,     \* bits of a word of the bitmap
    CacheElems    \* m_maxElementNum of the object cache

ASSUME SlabAssumption ==
    /\ NULL \notin Runs
    /\ {RunSize, WordBits, Header} \cup ObjSizes \subseteq Nat \ {0}
    /\ CacheElems \in Nat
    /\ \A size \in ObjSizes : (RunSize - Header) \div size >= 2
    /\ RunSize % WordBits = 0
    /\ RunSize <= 65536

Words == RunSize \div WordBits

VARIABLES
    kind,             \* of the runs: "nvm" or "dram"
    m_objSize,
    recovering,
    pc, cur,          \* alloc: where it is, and cur of allocObj's loop
    lists,            \* the lists' heads "half" and "full", m_next and m_prev
    m_bitmap,         \* of each run: the free slots
    m_freeCount,
    lastAccessPos,
    m_tail,           \* of each DRAM run: where what was never used begins
    m_freeChunks,     \*                   and the chunks given back, last first
    known,            \* runs with a management structure
    leaked,           \* DRAM runs that nobody frees
    m_objCache,
    objects,          \* the objects in the program's hands
    returned,         \* history: freed since this allocation has left the slab
    spoilt            \* history

slab == <<kind, m_objSize>>
nvm  == <<m_bitmap, lastAccessPos>>
dram == <<m_tail, m_freeChunks, leaked>>
run  == <<m_freeCount, nvm, dram>>
vars == <<slab, recovering, pc, cur, lists, run, known, m_objCache, objects, returned, spoilt>>

MaxFree == (IF kind = "nvm" THEN RunSize ELSE RunSize - Header) \div m_objSize

\* Mutant: the slots overlap.
SlotsTooClose == {b \in 0 .. RunSize - 1 : b % (m_objSize - 1) = 0}

\* CLBitMap's constructor: the first bit of each slot is set, which means free.
BitmapSlots == {b \in 0 .. RunSize - 1 : b % m_objSize = 0}

Slots == IF kind = "nvm" THEN BitmapSlots
         ELSE {Header + k * m_objSize : k \in 0 .. MaxFree - 1}

Objects == [run : Runs, bit : Slots]

Init ==
    /\ kind \in {"nvm", "dram"}
    /\ m_objSize \in ObjSizes
    /\ recovering = (kind = "nvm")
    /\ pc = "idle" /\ cur = NULL
    /\ lists = [half |-> NULL, full |-> NULL,
                next |-> [r \in Runs |-> NULL], prev |-> [r \in Runs |-> NULL]]
    /\ m_bitmap = [r \in Runs |-> BitmapSlots]
    /\ m_freeCount = [r \in Runs |-> MaxFree]
    /\ lastAccessPos = [r \in Runs |-> Words - 1]
    /\ m_tail = [r \in Runs |-> Header]
    /\ m_freeChunks = [r \in Runs |-> <<>>]
    /\ known = {} /\ leaked = {}
    /\ m_objCache = <<>>
    /\ objects = {} /\ returned = {}
    /\ spoilt = {}

-----------------------------------------------------------------------------
(* CLDoubleLinkList *)

Push(l, list, r) ==
    [l EXCEPT ![list] = r,
              !.next[r] = l[list],
              !.prev = [n \in Runs |-> CASE n = r -> NULL
                                         [] n # r /\ n = l[list] -> r
                                         [] OTHER -> @[n]]]

\* Mutant: the list's head is not moved on.
EraseKeepsHead(l, list, r) ==
    LET nextNode == l.next[r]
        prevNode == l.prev[r]
    IN [l EXCEPT !.next = [n \in Runs |-> IF n = prevNode THEN nextNode ELSE @[n]],
                 !.prev = [n \in Runs |-> IF n = nextNode THEN prevNode ELSE @[n]]]

\* The node's own links tell where it is taken from, whichever list is named.
Erase(l, list, r) ==
    LET nextNode == l.next[r]
        prevNode == l.prev[r]
    IN [l EXCEPT ![list] = IF prevNode = NULL THEN nextNode ELSE @,
                 !.next = [n \in Runs |-> IF n = prevNode THEN nextNode ELSE @[n]],
                 !.prev = [n \in Runs |-> IF n = nextNode THEN prevNode ELSE @[n]]]

Forgotten(l, r) == [l EXCEPT !.next[r] = NULL, !.prev[r] = NULL]

-----------------------------------------------------------------------------
(* CLBitMap and CLBitmapNVMRun, CLDRAMRun *)

\* getAndSet: the first free slot in the first word that has one, beginning
\* with the word behind the one used last.
NextSlot(free, pos) ==
    LET inWord(i) == {b \in free : b \div WordBits = (pos + i) % Words}
    IN Min(inWord(Min({i \in 1 .. Words : inWord(i) # {}})))

Unused(r) == m_tail[r] + m_objSize <= RunSize

HasFree(r) == IF kind = "nvm" THEN m_bitmap[r] # {} ELSE Unused(r) \/ m_freeChunks[r] # <<>>

\* What allocObj of run r gives, if there is any.
NextOf(r) == CASE kind = "nvm" -> NextSlot(m_bitmap[r], lastAccessPos[r])
              [] kind = "dram" /\ Unused(r) -> m_tail[r]
              [] OTHER -> Head(m_freeChunks[r])

Unspoilt == spoilt = {}
Object(r, b) == [run |-> r, bit |-> b]

\* Mutant: a slot is counted but its bit stays set.
TakeSlotUnmarked(r, b) ==
    /\ m_freeCount' = [m_freeCount EXCEPT ![r] = (@ - 1) % 65536]
    /\ UNCHANGED m_bitmap

\* The count has 16 bits.
TakeSlot(r, b) ==
    /\ m_bitmap' = [m_bitmap EXCEPT ![r] = @ \ {b}]
    /\ m_freeCount' = [m_freeCount EXCEPT ![r] = (@ - 1) % 65536]

TakeChunk(r) ==
    /\ IF Unused(r)
       THEN m_tail' = [m_tail EXCEPT ![r] = @ + m_objSize] /\ UNCHANGED m_freeChunks
       ELSE m_freeChunks' = [m_freeChunks EXCEPT ![r] = Tail(@)] /\ UNCHANGED m_tail
    /\ m_freeCount' = [m_freeCount EXCEPT ![r] = @ - 1]

Take(r, b) ==
    \/ /\ kind = "nvm"
       /\ TakeSlot(r, b)
       /\ lastAccessPos' = [lastAccessPos EXCEPT ![r] = b \div WordBits]
       /\ UNCHANGED dram
    \/ /\ kind = "dram"
       /\ TakeChunk(r)
       /\ UNCHANGED <<nvm, leaked>>

\* The structures are gone, a later run starts afresh.  Nobody frees a DRAM run:
\* CLDRAMSlab does not look at what the slab's freeObj returns.
Release(r) ==
    /\ known' = known \ {r}
    /\ \/ /\ kind = "nvm"
          /\ m_bitmap' = [m_bitmap EXCEPT ![r] = Slots]
          /\ m_freeCount' = [m_freeCount EXCEPT ![r] = MaxFree]
          /\ lastAccessPos' = [lastAccessPos EXCEPT ![r] = Words - 1]
          /\ UNCHANGED dram
       \/ /\ kind = "dram"
          /\ leaked' = leaked \cup {r}
          /\ UNCHANGED <<m_freeCount, nvm, m_tail, m_freeChunks>>

\* The new structure goes to the half-empty ones.
AddRun(r) ==
    /\ lists' = Push(lists, "half", r)
    /\ known' = known \cup {r}

HandOut(o) ==
    /\ objects' = objects \cup {o}
    /\ spoilt' = IF o.bit + m_objSize > RunSize THEN {"beyond"} ELSE {}

-----------------------------------------------------------------------------
(* allocFromSlab *)

Calm == Unspoilt /\ ~recovering /\ pc = "idle"

AllocFromCache ==
    /\ Calm
    /\ m_objCache # <<>>
    /\ objects' = objects \cup {Head(m_objCache)}
    /\ m_objCache' = Tail(m_objCache)
    /\ UNCHANGED <<slab, recovering, pc, cur, lists, run, known, returned, spoilt>>

AllocStart ==
    /\ Calm
    /\ m_objCache = <<>>
    /\ pc' = "slab"
    /\ cur' = lists.half
    /\ UNCHANGED <<slab, recovering, lists, run, known, m_objCache, objects, returned, spoilt>>

\* Mutant: a run is taken for full when one slot is left.
FilledEarly(count) == count <= 1

Filled(count) == count = 0

ToFull(r) == Push(Erase(lists, "half", r), "full", r)

SlabTakes ==
    /\ Unspoilt /\ pc = "slab" /\ cur # NULL
    /\ HasFree(cur)
    /\ Take(cur, NextOf(cur))
    /\ HandOut(Object(cur, NextOf(cur)))
    /\ lists' = IF Filled(m_freeCount'[cur]) THEN ToFull(cur) ELSE lists
    /\ pc' = "idle"
    /\ cur' = NULL
    /\ UNCHANGED <<slab, recovering, known, m_objCache, returned>>

\* A run that recovery has filled goes to the full ones when it is found so.
SlabMovesOn ==
    /\ Unspoilt /\ pc = "slab" /\ cur # NULL
    /\ ~HasFree(cur) /\ Filled(m_freeCount[cur])
    /\ lists' = ToFull(cur)
    /\ cur' = lists.next[cur]
    /\ UNCHANGED <<slab, recovering, pc, run, known, m_objCache, objects, returned, spoilt>>

SlabExhausted ==
    /\ Unspoilt /\ pc = "slab" /\ cur = NULL
    /\ pc' = "newRun"
    /\ UNCHANGED <<slab, recovering, cur, lists, run, known, m_objCache, objects, returned,
                   spoilt>>

\* Neither the run cache nor the free pages have one: doChannelClean, and then
\* the pages again, but not the slab.
StartClean ==
    /\ Unspoilt /\ pc = "newRun" /\ kind = "nvm"
    /\ pc' = "clean"
    /\ UNCHANGED <<slab, recovering, cur, lists, run, known, m_objCache, objects, returned,
                   spoilt>>

NeedsRun == Unspoilt /\ pc \in {"newRun", "clean"}

\* The constructors, which find the run as Release has left it.
AllocNewRun(r) ==
    /\ NeedsRun /\ r \notin known \cup leaked
    /\ Take(r, NextOf(r))
    /\ HandOut(Object(r, NextOf(r)))
    /\ AddRun(r)
    /\ pc' = "idle"
    /\ returned' = {}
    /\ UNCHANGED <<slab, recovering, cur, m_objCache>>

\* No run is to be had, or no memory for its structure, or a message could not
\* be handled.  (The extents' memory comes from operator new, which ends the
\* program rather than fail.)
AllocFails ==
    /\ NeedsRun
    /\ pc' = "idle"
    /\ returned' = {}
    /\ UNCHANGED <<slab, recovering, cur, lists, run, known, m_objCache, objects, spoilt>>

-----------------------------------------------------------------------------
(* localFree, by the program or for a message *)

Frees(o) ==
    /\ Unspoilt /\ ~recovering /\ o \in objects
    /\ pc \in {"idle", "clean"}
    /\ returned' = IF pc = "clean" THEN returned \cup {o} ELSE returned

Cacheable == kind = "nvm" /\ Len(m_objCache) + 1 < CacheElems

FreeToCache(o) ==
    /\ Frees(o)
    /\ Cacheable
    /\ m_objCache' = Append(m_objCache, o)
    /\ objects' = objects \ {o}
    /\ UNCHANGED <<slab, recovering, pc, cur, lists, run, known, spoilt>>

\* The runs that the links l lead to from a list's head: the fewest that
\* hold the head and whatever follows one of them.
Chain(l, list) ==
    {r \in Runs : \A S \in SUBSET Runs :
        l[list] \in S \cup {NULL} /\ (\A n \in S : l.next[n] \in S \cup {NULL}) => r \in S}

ListOf(list) == Chain(lists, list)

GiveSlot(o) ==
    /\ m_freeCount' = [m_freeCount EXCEPT ![o.run] = @ + 1]
    /\ \/ /\ kind = "nvm"
          /\ m_bitmap' = [m_bitmap EXCEPT ![o.run] = @ \cup {o.bit}]
          /\ UNCHANGED m_freeChunks
       \/ /\ kind = "dram"
          /\ m_freeChunks' = [m_freeChunks EXCEPT ![o.run] = <<o.bit>> \o @]
          /\ UNCHANGED m_bitmap
    /\ UNCHANGED <<lastAccessPos, m_tail, leaked, known>>

FreeOfUnfilled(o) ==
    /\ IF m_freeCount[o.run] + 1 = MaxFree
       THEN /\ Release(o.run)
            /\ lists' = Forgotten(Erase(lists, "half", o.run), o.run)
       ELSE GiveSlot(o) /\ UNCHANGED lists
    /\ UNCHANGED spoilt

FreeOfFull(o) ==
    /\ GiveSlot(o)
    /\ lists' = Push(Erase(lists, "full", o.run), "half", o.run)
    /\ spoilt' = IF o.run \in ListOf("full") THEN {} ELSE {"filled"}

FreeToSlab(o) ==
    /\ Frees(o)
    /\ ~Cacheable
    /\ IF Filled(m_freeCount[o.run]) THEN FreeOfFull(o) ELSE FreeOfUnfilled(o)
    /\ objects' = objects \ {o}
    /\ UNCHANGED <<slab, recovering, pc, cur, m_objCache>>

-----------------------------------------------------------------------------
(* Recovery: localAllocAt for the objects there are, which lie in their runs. *)

RecoverAt(o) ==
    /\ recovering /\ Unspoilt
    /\ o.bit + m_objSize <= RunSize
    /\ TakeSlot(o.run, o.bit)
    /\ IF o.run \in known THEN UNCHANGED <<lists, known>> ELSE AddRun(o.run)
    /\ objects' = objects \cup {o}
    /\ spoilt' = IF o \in objects THEN {"twice"} ELSE {}
    /\ UNCHANGED <<slab, recovering, pc, cur, lastAccessPos, dram, m_objCache, returned>>

EndRecover ==
    /\ recovering /\ Unspoilt
    /\ recovering' = FALSE
    /\ UNCHANGED <<slab, pc, cur, lists, run, known, m_objCache, objects, returned, spoilt>>

Alloc ==
    \/ AllocFromCache \/ AllocStart
    \/ SlabTakes \/ SlabMovesOn \/ SlabExhausted \/ StartClean
    \/ AllocFails

Next ==
    \/ Alloc
    \/ \E r \in Runs : AllocNewRun(r)
    \/ \E o \in Objects : FreeToCache(o) \/ FreeToSlab(o)
    \/ \E o \in Objects : RecoverAt(o)
    \/ EndRecover

Spec == Init /\ [][Next]_vars
-----------------------------------------------------------------------------
TypeOK ==
    /\ kind \in {"nvm", "dram"} /\ m_objSize \in ObjSizes
    /\ recovering \in BOOLEAN
    /\ pc \in {"idle", "slab", "newRun", "clean"}
    /\ cur \in Runs \cup {NULL}
    /\ lists \in [half : Runs \cup {NULL}, full : Runs \cup {NULL},
                  next : [Runs -> Runs \cup {NULL}], prev : [Runs -> Runs \cup {NULL}]]
    /\ m_bitmap \in [Runs -> SUBSET BitmapSlots]
    /\ lastAccessPos \in [Runs -> 0 .. Words - 1]
    /\ m_tail \in [Runs -> Header .. RunSize]
    /\ m_freeChunks \in [Runs -> Seq(Slots)]
    /\ known \subseteq Runs /\ leaked \subseteq Runs \ known
    /\ m_objCache \in Seq(Objects)
    /\ objects \subseteq Objects /\ returned \subseteq Objects
    /\ spoilt \subseteq {"beyond", "filled", "twice"}
    /\ Unspoilt => m_freeCount \in [Runs -> 0 .. MaxFree]

Cached == {m_objCache[k] : k \in DOMAIN m_objCache}

InUse(r) == {o \in objects \cup Cached : o.run = r}

\* Through all the moves between the lists each run is in exactly one of them,
\* linked both ways, and only full runs are with the full ones: a free that
\* finds a run full may take it from that list.
ListsIntact ==
    /\ TypeOK
    /\ Unspoilt =>
          /\ ListOf("half") \cap ListOf("full") = {}
          /\ ListOf("half") \cup ListOf("full") = known
          /\ \A r \in known : LET n == lists.next[r] IN n # NULL => n # r /\ lists.prev[n] = r
          /\ \A list \in {"half", "full"} : lists[list] # NULL => lists.prev[lists[list]] = NULL
          /\ \A r \in ListOf("full") : m_freeCount[r] = 0

\* What a run may still give out, and how often it counts it.
FreeSlots(r) == IF kind = "nvm" THEN m_bitmap[r]
                ELSE {b \in Slots : b >= m_tail[r]} \cup ToSet(m_freeChunks[r])

\* Count and bitmap, or free list, agree with what is in use, whether it was
\* allocated or recovered; in particular no slot is in use twice, and
\* allocObj's loop never stands before a run that has nothing to give and is
\* not full.  A run without objects has gone back to the heap, or is leaked,
\* but none in use is.
CountsAgree ==
    Unspoilt =>
        /\ \A r \in known :
             /\ FreeSlots(r) = Slots \ {o.bit : o \in InUse(r)}
             /\ IsInjective(m_freeChunks[r])
             /\ m_freeCount[r] = MaxFree - Cardinality(InUse(r))
             /\ InUse(r) # {}
        /\ \A r \in leaked : InUse(r) = {}
        /\ objects \cap Cached = {}
        /\ Cardinality(Cached) = Len(m_objCache)

\* Objects in use, and the header of a DRAM run, neither overlap nor reach beyond their run.
Apart ==
    Unspoilt => \A o, p \in objects \cup Cached :
        /\ o.bit + m_objSize <= RunSize
        /\ kind = "dram" => o.bit >= Header
        /\ o.run = p.run /\ o.bit < p.bit => o.bit + m_objSize <= p.bit

\* What an allocation could give out instead of an object of a new run.
FreeObjects ==
    Cached \cup {o \in Objects : /\ o.run \in known /\ o.bit \in FreeSlots(o.run)
                                /\ o.bit + m_objSize <= RunSize}

\* A new run is taken only when nothing was free as the allocation searched its
\* cache and its slab: what is free has come back since, by a message it handled
\* on its way to the run.  Then it takes a run too many, but never otherwise.
NewRunOnlyWhenNeeded ==
    [][(~recovering /\ known' # known /\ known \subseteq known') =>
          FreeObjects \subseteq returned]_vars
=============================================================================
