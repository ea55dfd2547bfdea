-------------------------- MODULE CLRecoverManager --------------------------
(***************************************************************************)
(* The search of recovery: one thread per heap walks the objects that can  *)
(* be reached from the heap's roots, marks its own and tells the other     *)
(* heaps of theirs through their channels (CLChannelsManager).  A heap may *)
(* free what it has not marked only when no search can tell it of another  *)
(* object; searchingThreadNum and two latches (CLCountDownLatch) see to it.*)
(*                                                                         *)
(* A channel is indivisible here (CLMessageChannel implements FifoChannel) *)
(* and its memory may run out at any push.                                 *)
(***************************************************************************)
EXTENDS Integers, Sequences, FiniteSets

CONSTANTS
    HeapNum,
    ObjectNum,
    CHANNEL_CLEAN_CIRCLE   \* objects a search visits between two looks at its channels

ASSUME RecoverAssumption ==
    /\ HeapNum \in Nat \ {0, 1}
    /\ ObjectNum \in Nat
    /\ CHANNEL_CLEAN_CIRCLE \in Nat \ {0}

Heaps   == 1 .. HeapNum
Objects == 1 .. ObjectNum
NoHeap  == 0
NULL    == 0

VARIABLES
    ptrs, owner, roots, needRecover,   \* what is in NVM, see Init
    main,                  \* doRecover: [pc, heap]
    canStart, canFinish,   \* the latches: [count, asleep]
    searchingThreadNum,
    pc,
    st,                    \* st[h]: the stack of objects to visit, top first
    entry,                 \* entry[h]: the object in h's hands
    m_mallocCount,
    built,                 \* heaps whose CLThreadHeap, with its channels, is constructed
    m_channels,            \* m_channels[h][i]: messages in the i-th channel of h
    m_curChannel,
    startChannel,          \* startChannel[h]: the local of pop()
    allocated,             \* allocated[h]: the objects h has marked
    refused                \* history: objects whose push has failed

nvm     == <<ptrs, owner, roots, needRecover>>
latches == <<canStart, canFinish>>
mailbox == <<m_channels, m_curChannel, startChannel, allocated>>
vars    == <<nvm, main, latches, searchingThreadNum, pc, st, entry, m_mallocCount,
             built, mailbox, refused>>

Channels == 0 .. HeapNum - 2

NotCounted == [count |-> 0, asleep |-> {}]
Main       == 0      \* doRecover's thread, beside those of the heaps

\* Bound: objects form no cycle.  The search remembers nothing it has visited
\* and would walk a cycle for ever.
Init ==
    /\ ptrs \in [Objects -> SUBSET Objects]
    /\ \A o \in Objects : \A p \in ptrs[o] : p > o
    /\ owner \in [Objects -> Heaps \cup {NoHeap}]
    /\ roots \in SUBSET Objects
    /\ needRecover \in SUBSET Heaps
    /\ \A o \in Objects : owner[o] \in needRecover \cup {NoHeap}
    /\ main = [pc |-> "create", heap |-> 1]
    /\ canStart = [count |-> Cardinality(needRecover), asleep |-> {}]
    /\ canFinish = canStart
    /\ searchingThreadNum = 0
    /\ pc = [h \in Heaps |-> "off"]
    /\ st = [h \in Heaps |-> <<>>]
    /\ entry = [h \in Heaps |-> NULL]
    /\ m_mallocCount = [h \in Heaps |-> 0]
    /\ built = {}
    /\ m_channels = [h \in Heaps |-> [i \in Channels |-> <<>>]]
    /\ m_curChannel = [h \in Heaps |-> 0]
    /\ startChannel = [h \in Heaps |-> 0]
    /\ allocated = [h \in Heaps |-> {}]
    /\ refused = {}

-----------------------------------------------------------------------------
(* CLCountDownLatch: its mutex makes each of these one step. *)

\* Mutant: the last one down wakes nobody.
DecrementedSilently(latch) == [latch EXCEPT !.count = @ - 1]

Decremented(latch) ==
    [count |-> latch.count - 1, asleep |-> IF latch.count = 1 THEN {} ELSE latch.asleep]

\* wait(): passes at zero, else sleeps until it is woken and looks again.
Passes(latch, t)     == t \notin latch.asleep /\ latch.count = 0
FallsAsleep(latch, t, after) ==
    /\ t \notin latch.asleep
    /\ latch.count > 0
    /\ after = [latch EXCEPT !.asleep = @ \cup {t}]

-----------------------------------------------------------------------------
(* doRecover, after it has read from the header who needs recovery. *)

Create ==
    /\ main.pc = "create"
    /\ main.heap \in Heaps
    /\ IF main.heap \in needRecover
       THEN /\ pc' = [pc EXCEPT ![main.heap] = "wait"]
            /\ main' = [main EXCEPT !.pc = "increment"]
       ELSE /\ main' = [main EXCEPT !.heap = @ + 1]
            /\ UNCHANGED pc
    /\ UNCHANGED <<nvm, latches, searchingThreadNum, st, entry, m_mallocCount, built,
                   mailbox, refused>>

Increment ==
    /\ main.pc = "increment"
    /\ searchingThreadNum' = searchingThreadNum + 1
    /\ main' = [main EXCEPT !.pc = "countDown"]
    /\ UNCHANGED <<nvm, latches, pc, st, entry, m_mallocCount, built, mailbox, refused>>

CountDownStart ==
    /\ main.pc = "countDown"
    /\ canStart' = Decremented(canStart)
    /\ main' = [pc |-> "create", heap |-> main.heap + 1]
    /\ UNCHANGED <<nvm, canFinish, searchingThreadNum, pc, st, entry, m_mallocCount, built,
                   mailbox, refused>>

AwaitFinish ==
    /\ main.pc = "create" /\ main.heap = HeapNum + 1
    /\ \/ /\ Passes(canFinish, Main)
          /\ main' = [main EXCEPT !.pc = "done"]
          /\ UNCHANGED canFinish
       \/ /\ FallsAsleep(canFinish, Main, canFinish')
          /\ UNCHANGED main
    /\ UNCHANGED <<nvm, canStart, searchingThreadNum, pc, st, entry, m_mallocCount, built,
                   mailbox, refused>>

-----------------------------------------------------------------------------
(* CLChannelsManager: the channel of h that g pushes to, and pop(). *)

ChannelOf(h, g) == (IF g > h THEN g - 1 ELSE g) - 1

CleanPCs == {"cleanInSearch", "cleanWaiting", "cleanLast"}

Step(h, from, to) == pc[h] = from /\ pc' = [pc EXCEPT ![h] = to]

StartClean(h, from, to) ==
    /\ Step(h, from, to)
    /\ startChannel' = [startChannel EXCEPT ![h] = m_curChannel[h]]

\* doRecoverChannelClean: the next message, which is always the heap's own.
PopMessage(h) ==
    LET channel == m_channels[h][m_curChannel[h]] IN
    /\ pc[h] \in CleanPCs
    /\ channel # <<>>
    /\ m_channels' = [m_channels EXCEPT ![h][m_curChannel[h]] = Tail(@)]
    /\ allocated' = [allocated EXCEPT ![h] = @ \cup {Head(channel)}]
    /\ startChannel' = [startChannel EXCEPT ![h] = m_curChannel[h]]
    /\ UNCHANGED <<nvm, main, latches, searchingThreadNum, pc, st, entry, m_mallocCount,
                   built, m_curChannel, refused>>

\* Mutant: the round ends at the first empty channel.
NextChannelStops(h, next) == TRUE

\* The round ends where it has started.
RoundEnds(h, next) == next = startChannel[h]

PopNothing(h) ==
    LET next == IF m_curChannel[h] + 1 = HeapNum - 1 THEN 0 ELSE m_curChannel[h] + 1 IN
    /\ pc[h] \in CleanPCs
    /\ m_channels[h][m_curChannel[h]] = <<>>
    /\ m_curChannel' = [m_curChannel EXCEPT ![h] = next]
    /\ IF RoundEnds(h, next)
       THEN \/ Step(h, "cleanInSearch", "visit")
            \/ Step(h, "cleanWaiting", "barrier")
            \/ Step(h, "cleanLast", "endRecover")
       ELSE UNCHANGED pc
    /\ UNCHANGED <<nvm, main, latches, searchingThreadNum, st, entry, m_mallocCount, built,
                   m_channels, startChannel, allocated, refused>>

-----------------------------------------------------------------------------
(* doSearchAndRecover *)

AwaitStart(h) ==
    /\ pc[h] = "wait"
    /\ \/ /\ Passes(canStart, h)
          /\ pc' = [pc EXCEPT ![h] = "gather"]
          /\ UNCHANGED canStart
       \/ /\ FallsAsleep(canStart, h, canStart')
          /\ UNCHANGED pc
    /\ UNCHANGED <<nvm, main, canFinish, searchingThreadNum, st, entry, m_mallocCount, built,
                   mailbox, refused>>

\* The order of roots is that of their names, the order of pointers that of a type.
Orders(S) == {s \in [1 .. Cardinality(S) -> S] : \A o \in S : \E i \in DOMAIN s : s[i] = o}

GatherRoots(h) == {r \in roots : owner[r] = h}

\* The constructor also puts new channels in their place.
Construct(h) ==
    /\ Step(h, "gather", "search")
    /\ \E order \in Orders(GatherRoots(h)) : st' = [st EXCEPT ![h] = order]
    /\ built' = built \cup {h}
    /\ m_channels' = [m_channels EXCEPT ![h] = [i \in Channels |-> <<>>]]
    /\ m_curChannel' = [m_curChannel EXCEPT ![h] = 0]
    /\ UNCHANGED <<nvm, main, latches, searchingThreadNum, entry, m_mallocCount,
                   startChannel, allocated, refused>>

PopEntry(h) ==
    /\ st[h] # <<>>
    /\ entry' = [entry EXCEPT ![h] = Head(st[h])]
    /\ st' = [st EXCEPT ![h] = Tail(@)]
    /\ IF m_mallocCount[h] + 1 = CHANNEL_CLEAN_CIRCLE
       THEN /\ StartClean(h, "search", "cleanInSearch")
            /\ m_mallocCount' = [m_mallocCount EXCEPT ![h] = 0]
       ELSE /\ Step(h, "search", "visit")
            /\ m_mallocCount' = [m_mallocCount EXCEPT ![h] = @ + 1]
            /\ UNCHANGED startChannel
    /\ UNCHANGED <<nvm, main, latches, searchingThreadNum, built, m_channels, m_curChannel,
                   allocated, refused>>

PushChildren(h) ==
    /\ Step(h, "visit", "search")
    /\ \E order \in Orders(ptrs[entry[h]]) : st' = [st EXCEPT ![h] = order \o @]
    /\ entry' = [entry EXCEPT ![h] = NULL]
    /\ UNCHANGED <<nvm, main, latches, searchingThreadNum, m_mallocCount, built, m_curChannel,
                   startChannel>>

VisitOwn(h) ==
    /\ entry[h] # NULL /\ owner[entry[h]] = h
    /\ allocated' = [allocated EXCEPT ![h] = @ \cup {entry[h]}]
    /\ PushChildren(h)
    /\ UNCHANGED <<m_channels, refused>>

\* An address in no heap's segments: nobody marks it, yet the search goes on.
VisitNobodys(h) ==
    /\ entry[h] # NULL /\ owner[entry[h]] = NoHeap
    /\ PushChildren(h)
    /\ UNCHANGED <<m_channels, allocated, refused>>

\* The result of pushBack is not looked at: without memory the message is lost.
VisitOthers(h) ==
    /\ entry[h] # NULL /\ owner[entry[h]] \in built \ {h}
    /\ LET g == owner[entry[h]] IN
       \/ /\ m_channels' = [m_channels EXCEPT ![g][ChannelOf(g, h)] = Append(@, entry[h])]
          /\ UNCHANGED refused
       \/ /\ refused' = refused \cup {entry[h]}
          /\ UNCHANGED m_channels
    /\ PushChildren(h)
    /\ UNCHANGED allocated

\* The owner's channels are not constructed yet: the push uses a NULL node
\* allocator, and the program is gone.
VisitTooEarly(h) ==
    /\ pc[h] = "visit"
    /\ owner[entry[h]] \in Heaps \ (built \cup {h})
    /\ pc' = [g \in Heaps |-> "crashed"]
    /\ main' = [main EXCEPT !.pc = "crashed"]
    /\ UNCHANGED <<nvm, latches, searchingThreadNum, st, entry, m_mallocCount, built,
                   mailbox, refused>>

SearchDone(h) ==
    /\ Step(h, "search", "barrier")
    /\ st[h] = <<>>
    /\ searchingThreadNum' = searchingThreadNum - 1
    /\ UNCHANGED <<nvm, main, latches, st, entry, m_mallocCount, built, mailbox, refused>>

\* Mutant: the channels are not looked at again after the last search.
LastCleanSkipped(h) ==
    /\ \/ /\ searchingThreadNum # 0
          /\ StartClean(h, "barrier", "cleanWaiting")
       \/ /\ searchingThreadNum = 0
          /\ Step(h, "barrier", "endRecover")
          /\ UNCHANGED startChannel
    /\ UNCHANGED <<nvm, main, latches, searchingThreadNum, st, entry, m_mallocCount, built,
                   m_channels, m_curChannel, allocated, refused>>

Barrier(h) ==
    /\ \/ /\ searchingThreadNum # 0
          /\ StartClean(h, "barrier", "cleanWaiting")
       \/ /\ searchingThreadNum = 0
          /\ StartClean(h, "barrier", "cleanLast")
    /\ UNCHANGED <<nvm, main, latches, searchingThreadNum, st, entry, m_mallocCount, built,
                   m_channels, m_curChannel, allocated, refused>>

\* From here the heap frees whatever it has not marked.
EndRecover(h) ==
    /\ Step(h, "endRecover", "countDown")
    /\ UNCHANGED <<nvm, main, latches, searchingThreadNum, st, entry, m_mallocCount, built,
                   mailbox, refused>>

CountDownFinish(h) ==
    /\ Step(h, "countDown", "done")
    /\ canFinish' = Decremented(canFinish)
    /\ UNCHANGED <<nvm, main, canStart, searchingThreadNum, st, entry, m_mallocCount, built,
                   mailbox, refused>>

-----------------------------------------------------------------------------
DoRecover == Create \/ Increment \/ CountDownStart \/ AwaitFinish

Visit(h) == VisitOwn(h) \/ VisitNobodys(h) \/ VisitOthers(h) \/ VisitTooEarly(h)

DoSearchAndRecover(h) ==
    \/ AwaitStart(h) \/ Construct(h)
    \/ PopEntry(h) \/ Visit(h) \/ SearchDone(h)
    \/ PopMessage(h) \/ PopNothing(h) \/ Barrier(h)
    \/ EndRecover(h) \/ CountDownFinish(h)

Next == DoRecover \/ \E h \in Heaps : DoSearchAndRecover(h)

Spec == Init /\ [][Next]_vars

\* The threads are scheduled.
FairSpec == Spec /\ WF_vars(DoRecover) /\ \A h \in Heaps : WF_vars(DoSearchAndRecover(h))
-----------------------------------------------------------------------------
PCs == {"off", "wait", "gather", "search", "visit", "barrier", "endRecover", "countDown",
        "done", "crashed"} \cup CleanPCs

Latches == [count : 0 .. HeapNum, asleep : SUBSET (Heaps \cup {Main})]

TypeOK ==
    /\ ptrs \in [Objects -> SUBSET Objects]
    /\ owner \in [Objects -> Heaps \cup {NoHeap}]
    /\ roots \subseteq Objects
    /\ needRecover \subseteq Heaps
    /\ main \in [pc : {"create", "increment", "countDown", "done", "crashed"},
                 heap : 1 .. HeapNum + 1]
    /\ canStart \in Latches /\ canFinish \in Latches
    /\ searchingThreadNum \in 0 .. HeapNum
    /\ pc \in [Heaps -> PCs]
    /\ st \in [Heaps -> Seq(Objects)]
    /\ entry \in [Heaps -> Objects \cup {NULL}]
    /\ m_mallocCount \in [Heaps -> 0 .. CHANNEL_CLEAN_CIRCLE - 1]
    /\ built \subseteq Heaps
    /\ m_channels \in [Heaps -> [Channels -> Seq(Objects)]]
    /\ m_curChannel \in [Heaps -> Channels]
    /\ startChannel \in [Heaps -> Channels]
    /\ allocated \in [Heaps -> SUBSET Objects]
    /\ refused \subseteq Objects

\* What a path from a root leads to.
Reachable ==
    {o \in Objects : \A S \in SUBSET Objects :
        /\ {r \in roots : owner[r] # NoHeap} \subseteq S
        /\ \A p \in S : ptrs[p] \subseteq S
        => o \in S}

Owned(h) == {o \in Reachable : owner[o] = h}

Freeing == {"endRecover", "countDown", "done"}

\* When a heap frees what it has not marked, it has marked every object of its
\* own that can be reached, whichever heap's search came to it; at no time has
\* it marked anything else.
RecoversExactly ==
    \A h \in Heaps :
        /\ allocated[h] \subseteq Owned(h)
        /\ pc[h] \in Freeing => Owned(h) \subseteq allocated[h] \cup refused

\* Once a heap frees, nobody searches and no message to it is left or to come.
NobodyLate ==
    /\ TypeOK
    /\ \A h \in Heaps : pc[h] \in Freeing =>
          /\ \A g \in needRecover : pc[g] \in Freeing \cup {"barrier", "cleanWaiting", "cleanLast"}
          /\ \A i \in Channels : m_channels[h][i] = <<>>

\* Recovery comes to its end: doRecover returns, unless the program is gone.
RecoveryEnds == <>(main.pc \in {"done", "crashed"})
=============================================================================
