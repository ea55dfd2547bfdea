---------------------------- MODULE CLThreadHeap ----------------------------
(***************************************************************************)
(* Running heaps: which thread works on which (the registry of NVMalloc),  *)
(* and how an object that any thread frees comes back to the heap it is    *)
(* from.  A heap's own thread takes an object in at once; any other thread *)
(* sends it to the heap's mailbox (CLChannelsManager, one channel for each *)
(* other heap), which the heap empties at every CHANNEL_CLEAN_CIRCLE-th    *)
(* call of alloc, and when it has run out of memory.                       *)
(*                                                                         *)
(* What is behind a heap is kept to what it can hand out, whether in its   *)
(* slabs, its caches or the large object allocator, and to the segments    *)
(* that are nobody's (CLSlab, CLNVMLargeObjAllocator and CLCentralHeap are *)
(* its models); sizes are left out, so what is free may always not fit.    *)
(* A place that changes hands with its segment is an object of its own.    *)
(* Channels are indivisible (CLMessageChannel implements FifoChannel).     *)
(*                                                                         *)
(* Where createLocalHeap makes a new heap over one that recovery has put   *)
(* into the table, the old heap's memory and mail are gone; the model takes*)
(* the step and nothing happens behind it: "rebuilt" names the heap.       *)
(***************************************************************************)
EXTENDS Integers, Sequences, FiniteSets

CONSTANTS
    Threads,
    Objects,
    MAX_THREAD_NUM,
    CHANNEL_CLEAN_CIRCLE,
    NULL,
    Leavable    \* bound: <<t, h>> where thread t may go from heap h to another

ASSUME ThreadHeapAssumption ==
    /\ MAX_THREAD_NUM \in Nat \ {0, 1}
    /\ CHANNEL_CLEAN_CIRCLE \in Nat \ {0}
    /\ NULL \notin Objects

Heaps    == 1 .. MAX_THREAD_NUM
Channels == 0 .. MAX_THREAD_NUM - 2
NoHeap   == 0

VARIABLES
    threadHeapTable,    \* the heaps with an entry in the table
    threadHeapBound,
    localHeap,          \* of each thread
    pc, arg,            \* of each thread: where it is; the object it frees
    m_mallocCount,
    m_channels, m_curChannel,
    startChannel,       \* of each heap: the local of pop(), 0 while nobody is there
    owner,              \* the heap that an object's segment belongs to
    space,              \* of each heap: what it can hand out
    live,               \* what the program holds
    lost,               \* history: what nobody will ever hand out again
    rebuilt             \* history

registry == <<threadHeapTable, threadHeapBound, localHeap>>
control  == <<pc, arg, m_mallocCount>>
mail     == <<m_channels, m_curChannel, startChannel>>
memory   == <<owner, space, live, lost>>
vars     == <<registry, control, mail, memory, rebuilt>>

\* buildNVMAddrSpace has returned: recovery has put heaps into the table, and
\* what they have is in use or free.
Init ==
    /\ threadHeapTable \in SUBSET Heaps
    /\ threadHeapBound = {}
    /\ localHeap = [t \in Threads |-> NoHeap]
    /\ pc = [t \in Threads |-> "idle"]
    /\ arg = [t \in Threads |-> NULL]
    /\ m_mallocCount = [h \in Heaps |-> 0]
    /\ m_channels = [h \in Heaps |-> [i \in Channels |-> <<>>]]
    /\ m_curChannel = [h \in Heaps |-> 0]
    /\ startChannel = [h \in Heaps |-> 0]
    /\ owner \in [Objects -> threadHeapTable \cup {NoHeap}]
    /\ live \in SUBSET {o \in Objects : owner[o] # NoHeap}
    /\ space = [h \in Heaps |-> {o \in Objects \ live : owner[o] = h}]
    /\ lost = {}
    /\ rebuilt = {}

Step(t, from, to) == pc[t] = from /\ pc' = [pc EXCEPT ![t] = to]

Calm == rebuilt = {}

-----------------------------------------------------------------------------
(* NVMalloc: a thread gets its heap.  The registry's lock makes each step one. *)

FirstUnbound(h) ==
    /\ h \in Heaps \ threadHeapBound
    /\ \A g \in Heaps : g < h => g \in threadHeapBound

\* What a heap's constructor leaves.
Counts(S) ==
    /\ m_mallocCount' = [h \in Heaps |-> IF h \in S THEN 0 ELSE m_mallocCount[h]]
    /\ m_curChannel' = [h \in Heaps |-> IF h \in S THEN 0 ELSE m_curChannel[h]]

Empty(S) ==
    /\ m_channels' = [h \in Heaps |-> IF h \in S THEN [i \in Channels |-> <<>>] ELSE m_channels[h]]
    /\ space' = [h \in Heaps |-> IF h \in S THEN {} ELSE space[h]]

Elements(c) == UNION {{c[i][k] : k \in DOMAIN c[i]} : i \in Channels}

InMail(h) == Elements(m_channels[h])

Bind(t, h) ==
    /\ localHeap' = [localHeap EXCEPT ![t] = h]
    /\ threadHeapTable' = threadHeapTable \cup {h}
    /\ threadHeapBound' = threadHeapBound \cup {h}

AfterCreate(t) ==
    \/ Step(t, "createForAlloc", "alloc")
    \/ Step(t, "createForFree", "free")

CreateLocalHeap(t) ==
    /\ Calm
    /\ AfterCreate(t)
    /\ \E h \in Heaps :
          /\ FirstUnbound(h)
          /\ Counts({h}) /\ Empty({h})
          /\ Bind(t, h)
          /\ lost' = lost \cup space[h] \cup InMail(h)
          /\ rebuilt' = threadHeapTable \cap {h}
    /\ UNCHANGED <<arg, startChannel, owner, live>>

\* All heaps are bound: nvmalloc returns NULL, nvfree forgets the object.
CreateFails(t) ==
    /\ Calm
    /\ pc[t] \in {"createForAlloc", "createForFree"}
    /\ threadHeapBound = Heaps
    /\ pc' = [pc EXCEPT ![t] = "idle"]
    /\ arg' = [arg EXCEPT ![t] = NULL]
    /\ lost' = lost \cup ({arg[t]} \ {NULL})
    /\ UNCHANGED <<registry, m_mallocCount, mail, owner, space, live, rebuilt>>

\* Mutant: the mark of a bound heap is not looked at.
BindAnyHeap(t, h) ==
    /\ Calm
    /\ pc[t] = "idle"
    /\ Bind(t, h)
    /\ Empty({h} \ threadHeapTable)
    /\ Counts(({h} \ threadHeapTable) \cup {localHeap[t]})
    /\ UNCHANGED <<pc, arg, startChannel, owner, live, lost, rebuilt>>

\* A heap is taken over as recovery has left it, or a new one is made.  What the
\* thread worked on before stays bound, and nobody works on it any more: its
\* count and current channel are never read again (0 in the model).
bindThreadHeap(t, h) ==
    /\ Calm
    /\ pc[t] = "idle"
    /\ h \notin threadHeapBound
    /\ localHeap[t] = NoHeap \/ <<t, localHeap[t]>> \in Leavable
    /\ Bind(t, h)
    /\ Empty({h} \ threadHeapTable)
    /\ Counts(({h} \ threadHeapTable) \cup {localHeap[t]})
    /\ UNCHANGED <<pc, arg, startChannel, owner, live, lost, rebuilt>>

-----------------------------------------------------------------------------
(* localFree *)

\* An object freed goes to its slab or becomes pages again, with its run or its
\* neighbours; a whole segment goes back to the central heap.
TakenIn(h, o) ==
    /\ space' = [space EXCEPT ![h] = @ \cup {o}]
    /\ UNCHANGED <<owner, lost>>

ToNobody(h, o) ==
    /\ owner' = [owner EXCEPT ![o] = NoHeap]
    /\ UNCHANGED <<space, lost>>

FreedBy(h, o) == TakenIn(h, o) \/ ToNobody(h, o)

\* tryMergeAndFree has no node for the tree: the pages are lost, localFree fails.
LostBy(h, o) ==
    /\ lost' = lost \cup {o}
    /\ UNCHANGED <<owner, space>>

-----------------------------------------------------------------------------
(* nvfree *)

nvfree(t, o) ==
    /\ Calm
    /\ pc[t] = "idle" /\ o \in live
    /\ arg' = [arg EXCEPT ![t] = o]
    /\ live' = live \ {o}
    /\ pc' = [pc EXCEPT ![t] = IF localHeap[t] = NoHeap THEN "createForFree" ELSE "free"]
    /\ UNCHANGED <<registry, m_mallocCount, mail, owner, space, lost, rebuilt>>

FreeReturns(t) ==
    /\ Calm
    /\ Step(t, "free", "idle")
    /\ arg' = [arg EXCEPT ![t] = NULL]
    /\ UNCHANGED <<registry, m_mallocCount, live, rebuilt>>

\* A failure is not reported: nvfree does not look at what free() returns.
FreeLocally(t) ==
    /\ FreeReturns(t)
    /\ owner[arg[t]] = localHeap[t]
    /\ FreedBy(localHeap[t], arg[t]) \/ LostBy(localHeap[t], arg[t])
    /\ UNCHANGED mail

\* The channel of heap h that heap g sends to.
ChannelOf(h, g) == (IF g > h THEN g - 1 ELSE g) - 1

Deliver(h, i, o) ==
    m_channels' = [m_channels EXCEPT ![h] = [m_channels[h] EXCEPT ![i] = Append(@, o)]]

\* Mutant: the object goes to the next heap's mailbox.
SendAstray(t) ==
    /\ FreeReturns(t)
    /\ owner[arg[t]] # localHeap[t]
    /\ Deliver((owner[arg[t]] % MAX_THREAD_NUM) + 1, 0, arg[t])
    /\ UNCHANGED <<m_curChannel, startChannel, owner, space, lost>>

SendToOwner(t) ==
    /\ FreeReturns(t)
    /\ owner[arg[t]] # localHeap[t]
    /\ Deliver(owner[arg[t]], ChannelOf(owner[arg[t]], localHeap[t]), arg[t])
    /\ UNCHANGED <<m_curChannel, startChannel, owner, space, lost>>

\* No memory for a node of the channel.
SendRefused(t) ==
    /\ FreeReturns(t)
    /\ owner[arg[t]] # localHeap[t]
    /\ lost' = lost \cup {arg[t]}
    /\ UNCHANGED <<mail, owner, space>>

-----------------------------------------------------------------------------
(* nvmalloc and alloc *)

nvmalloc(t) ==
    /\ Calm
    /\ Step(t, "idle", "createForAlloc")
    /\ localHeap[t] = NoHeap
    /\ UNCHANGED <<registry, arg, m_mallocCount, mail, memory, rebuilt>>

\* Bound: beyond the circle the count only grows (it wraps at 2^32).
Counted(n) == IF n > CHANNEL_CLEAN_CIRCLE THEN n ELSE n + 1

StartClean(t, to) ==
    /\ pc' = [pc EXCEPT ![t] = to]
    /\ startChannel' = [startChannel EXCEPT ![localHeap[t]] = m_curChannel[localHeap[t]]]

alloc(t) ==
    /\ Calm
    /\ localHeap[t] # NoHeap
    /\ pc[t] \in {"idle", "alloc"}
    /\ m_mallocCount' = [m_mallocCount EXCEPT ![localHeap[t]] = Counted(@)]
    /\ IF m_mallocCount'[localHeap[t]] = CHANNEL_CLEAN_CIRCLE
       THEN StartClean(t, "cleanFirst")
       ELSE /\ pc' = [pc EXCEPT ![t] = "take"]
            /\ UNCHANGED startChannel
    /\ UNCHANGED <<registry, arg, m_channels, m_curChannel, memory, rebuilt>>

HandOut(t, o) ==
    /\ pc' = [pc EXCEPT ![t] = "idle"]
    /\ live' = live \cup {o}
    /\ UNCHANGED <<registry, arg, m_mallocCount, mail, lost, rebuilt>>

Take(t, o) ==
    /\ Calm
    /\ pc[t] \in {"take", "retry"}
    /\ o \in space[localHeap[t]]
    /\ space' = [space EXCEPT ![localHeap[t]] = @ \ {o}]
    /\ HandOut(t, o)
    /\ UNCHANGED owner

\* Nothing fits.
Exhausted(t) ==
    /\ Calm
    /\ pc[t] = "take"
    /\ StartClean(t, "cleanAgain")
    /\ UNCHANGED <<registry, arg, m_mallocCount, m_channels, m_curChannel, memory, rebuilt>>

TakeSegment(t, o) ==
    /\ Calm
    /\ pc[t] = "retry"
    /\ owner[o] = NoHeap
    /\ owner' = [owner EXCEPT ![o] = localHeap[t]]
    /\ HandOut(t, o)
    /\ UNCHANGED space

\* The extents of what was found cannot be inserted and it goes back, or no
\* segment is left, or no memory to register it.
ReturnNull(t) ==
    /\ Calm
    /\ pc[t] \in {"take", "retry"}
    /\ pc' = [pc EXCEPT ![t] = "idle"]
    /\ UNCHANGED <<registry, arg, m_mallocCount, mail, memory, rebuilt>>

-----------------------------------------------------------------------------
(* doChannelClean *)

Cleaning(t) == Calm /\ pc[t] \in {"cleanFirst", "cleanAgain"}

CurrentChannel(h) == m_channels[h][m_curChannel[h]]

\* Mutant: the message is read but stays in the channel.
PopLeaves(h, o) ==
    /\ CurrentChannel(h) # <<>> /\ o = Head(CurrentChannel(h))
    /\ UNCHANGED <<m_channels, m_curChannel>>

Pop(h, o) ==
    /\ CurrentChannel(h) # <<>> /\ o = Head(CurrentChannel(h))
    /\ m_channels' = [m_channels EXCEPT ![h] = [m_channels[h] EXCEPT ![m_curChannel[h]] = Tail(@)]]
    /\ UNCHANGED m_curChannel

LeaveClean(h) == startChannel' = [startChannel EXCEPT ![h] = 0]

CleanMessage(t, o) ==
    /\ Cleaning(t)
    /\ Pop(localHeap[t], o)
    /\ FreedBy(localHeap[t], o)
    /\ startChannel' = [startChannel EXCEPT ![localHeap[t]] = m_curChannel[localHeap[t]]]
    /\ UNCHANGED <<registry, control, live, rebuilt>>

\* The message cannot be handled: alloc returns NULL and does not reset the count.
CleanFails(t, o) ==
    /\ Cleaning(t)
    /\ Pop(localHeap[t], o)
    /\ LostBy(localHeap[t], o)
    /\ pc' = [pc EXCEPT ![t] = "idle"]
    /\ LeaveClean(localHeap[t])
    /\ UNCHANGED <<registry, arg, m_mallocCount, live, rebuilt>>

\* Mutant: the last channel is left out.
NextChannelShort(i) == IF i + 1 >= MAX_THREAD_NUM - 2 THEN 0 ELSE i + 1

NextChannel(i) == IF i + 1 = MAX_THREAD_NUM - 1 THEN 0 ELSE i + 1

RoundEnds(h) == NextChannel(m_curChannel[h]) = startChannel[h]

CleanNothing(t) ==
    LET h == localHeap[t] IN
    /\ Cleaning(t)
    /\ CurrentChannel(h) = <<>>
    /\ m_curChannel' = [m_curChannel EXCEPT ![h] = NextChannel(@)]
    /\ IF RoundEnds(h)
       THEN /\ m_mallocCount' = [m_mallocCount EXCEPT ![h] = 0]
            /\ pc' = [pc EXCEPT ![t] = IF pc[t] = "cleanFirst" THEN "take" ELSE "retry"]
            /\ LeaveClean(h)
       ELSE UNCHANGED <<m_mallocCount, pc, startChannel>>
    /\ UNCHANGED <<registry, arg, m_channels, memory, rebuilt>>

-----------------------------------------------------------------------------
Alloc(t) ==
    \/ pc[t] = "alloc" /\ alloc(t)
    \/ \E o \in Objects : Take(t, o) \/ TakeSegment(t, o)
    \/ Exhausted(t) \/ ReturnNull(t)
    \/ \E o \in Objects : CleanMessage(t, o) \/ CleanFails(t, o)
    \/ CleanNothing(t)

Free(t) == FreeLocally(t) \/ SendToOwner(t) \/ SendRefused(t)

Create(t) == CreateLocalHeap(t) \/ CreateFails(t)

StartAlloc(t) == nvmalloc(t) \/ (pc[t] = "idle" /\ alloc(t))

Program(t) ==
    \/ StartAlloc(t)
    \/ \E o \in Objects : nvfree(t, o)
    \/ \E h \in Heaps : bindThreadHeap(t, h)

Next == \E t \in Threads : Program(t) \/ Create(t) \/ Alloc(t) \/ Free(t)

Spec == Init /\ [][Next]_vars

\* The threads are scheduled, and they go on allocating.  A thread need not free.
Fairness ==
    \A t \in Threads :
       /\ WF_vars(Create(t) \/ Alloc(t) \/ Free(t))
       /\ SF_vars(StartAlloc(t))

FairSpec == Spec /\ Fairness
-----------------------------------------------------------------------------
PCs == {"idle", "createForAlloc", "createForFree", "alloc", "free", "take", "retry",
        "cleanFirst", "cleanAgain"}

TypeOK ==
    /\ threadHeapTable \subseteq Heaps
    /\ threadHeapBound \subseteq Heaps
    /\ localHeap \in [Threads -> Heaps \cup {NoHeap}]
    /\ pc \in [Threads -> PCs]
    /\ arg \in [Threads -> Objects \cup {NULL}]
    /\ m_mallocCount \in [Heaps -> 0 .. CHANNEL_CLEAN_CIRCLE + 1]
    /\ m_channels \in [Heaps -> [Channels -> Seq(Objects)]]
    /\ m_curChannel \in [Heaps -> Channels]
    /\ startChannel \in [Heaps -> Channels]
    /\ owner \in [Objects -> Heaps \cup {NoHeap}]
    /\ space \in [Heaps -> SUBSET Objects]
    /\ live \subseteq Objects
    /\ lost \subseteq Objects
    /\ rebuilt \subseteq Heaps

\* The single-threaded parts of a heap rest on this, and a channel's one producer
\* and one consumer: no two threads work on a heap, whichever way they came by
\* it, and a thread works on a heap that is in the table and marked as bound, and
\* holds on to what it frees while it does.
OneThreadPerHeap ==
    /\ TypeOK
    /\ threadHeapBound \subseteq threadHeapTable
    /\ \A t \in Threads :
          /\ localHeap[t] # NoHeap => localHeap[t] \in threadHeapBound
          /\ pc[t] \notin {"idle", "createForAlloc", "createForFree"} => localHeap[t] # NoHeap
          /\ pc[t] \in {"createForFree", "free"} <=> arg[t] # NULL
          /\ \A u \in Threads \ {t} : localHeap[t] # NoHeap => localHeap[u] # localHeap[t]

\* The places an object can be in: in nobody's segment, in the hands of the
\* program or of a thread that frees it, with its heap, or as a message.
Nobodys   == {o \in Objects : owner[o] = NoHeap}
Available == Nobodys \cup UNION {space[h] : h \in Heaps}
Freeing   == {arg[t] : t \in Threads} \ {NULL}
Returned  == Freeing \cup UNION {InMail(h) : h \in Heaps}

\* No two places of a mailbox hold the same.
Once(c) ==
    \A i, j \in Channels : \A k \in DOMAIN c[i], l \in DOMAIN c[j] :
       c[i][k] = c[j][l] => i = j /\ k = l

\* Each object is in one place at a time and its heap's own affair: handed out, it
\* is nowhere else, as a message it is in the mailbox of the heap whose
\* segment it lies in, once, and a segment does not change hands meanwhile.
OnePlaceEach ==
    /\ \A h \in Heaps :
          /\ Once(m_channels[h])
          /\ \A o \in space[h] \cup InMail(h) : owner[o] = h
          /\ space[h] \cap InMail(h) = {}
          /\ (space[h] \cup InMail(h)) \cap (live \cup Freeing \cup lost) = {}
    /\ \A o \in live \cup Freeing \cup lost : owner[o] # NoHeap
    /\ \A o \in Objects : owner[o] \in threadHeapTable \cup {NoHeap}
    /\ live \cap Freeing = {} /\ lost \cap (live \cup Freeing) = {}
    /\ \A t, u \in Threads : arg[t] = arg[u] /\ t # u => arg[t] = NULL

\* Nothing is lost but by the failures that the code ignores.
Pool == INSTANCE ObjectPool WITH
    available <- Available,
    held      <- live,
    returned  <- Returned,
    gone      <- lost

\* Whatever the threads do, nvmalloc and nvfree behave like the abstract pool: an
\* object is handed out only when it is available, and freeing it makes it so
\* once it has arrived.
ImplementsPool == Pool!Spec

\* Nobody looks into the mailbox of a heap whose thread has gone to another or
\* has never come, and of one that stopped counting: a message that could not be
\* handled at the end of a circle leaves the count beyond it.
Unattended(h) ==
    \/ \A t \in Threads : localHeap[t] # h
    \/ m_mallocCount[h] > CHANNEL_CLEAN_CIRCLE
    \/ ~Calm

Sent(o) == \E h \in Heaps : o \in InMail(h)

\* A message comes out of the mailbox as long as somebody attends to the heap.
MailIsRead ==
    \A o \in Objects : Sent(o) ~> ~Sent(o) \/ Unattended(owner[o])
=============================================================================
