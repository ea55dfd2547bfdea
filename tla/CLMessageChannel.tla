-------------------------- MODULE CLMessageChannel --------------------------
(***************************************************************************)
(* CLMessageChannel: the queue through which one thread heap hands objects *)
(* to another, with one thread pushing and one popping.  Messages lie in   *)
(* the slots of cache-line nodes (CLCacheLineQueue); the end pointers      *)
(* m_head and m_tail are addresses of slots, and an address on a cache-    *)
(* line boundary, one past the last slot, sends its reader to the next     *)
(* node.  Nodes the consumer has emptied return to the producer through a  *)
(* CLFreeList, whose operations are indivisible here (CLFreeList           *)
(* implements FreeStack) and whose link shares memory with m_next.         *)
(***************************************************************************)
EXTENDS Naturals, Sequences

CONSTANTS
    Nodes,        \* the nodes the DRAM slab can ever supply
    NULL,
    Slots,        \* messages per node, 7 in the code
    Messages,
    MaxMessages   \* bound: how many messages are pushed

ASSUME ChannelAssumption ==
    /\ NULL \notin Nodes \cup Messages
    /\ Slots \in Nat \ {0}
    /\ MaxMessages \in Nat

VARIABLES
    m_head, m_tail,  \* addresses of slots, see Address
    m_next,          \* of every node: the queue's link and the pool's
    m_vals,
    m_nodesPool,     \* the free list of emptied nodes, top first
    unallocated,     \* nodes the slab has not handed out
    push,            \* the pushing thread: [pc, val, node]
    pop,             \* the popping thread: [pc, tail, head, node, res]
    sent, received,  \* history: messages pushed and popped
    home             \* history: home[i] is the slot message i was put in

vars == <<m_head, m_tail, m_next, m_vals, m_nodesPool, unallocated, push, pop,
          sent, received, home>>

queue == <<m_head, m_tail>>
memory == <<m_next, m_vals>>
history == <<sent, received, home>>

\* The address of a slot; Slots + 1 is the boundary behind the last one.
Address  == [node : Nodes, slot : 1 .. Slots + 1]
NoAddress == [node |-> NULL, slot |-> 0]

\* The low six bits of the address are zero.
AtBoundary(a) == a = NoAddress \/ a.slot = Slots + 1
After(a) == [a EXCEPT !.slot = @ + 1]
Pointers == Nodes \cup {NULL}

Idle    == [pc |-> "idle", val |-> NULL, node |-> NULL]
NotPopping == [pc |-> "idle", tail |-> NoAddress, head |-> NoAddress,
               node |-> NULL, res |-> NULL]

Init ==
    /\ m_head = NoAddress
    /\ m_tail = NoAddress
    /\ m_next \in [Nodes -> Pointers]
    /\ m_vals = [n \in Nodes |-> [s \in 1 .. Slots |-> NULL]]
    /\ m_nodesPool = <<>>
    /\ unallocated = Nodes
    /\ push = Idle
    /\ pop = NotPopping
    /\ sent = <<>> /\ received = <<>> /\ home = <<>>

-----------------------------------------------------------------------------
(* pushBack(val): m_tail is written by the pushing thread alone. *)

PushStart(val) ==
    /\ push.pc = "idle"
    /\ Len(sent) < MaxMessages
    /\ push' = [Idle EXCEPT !.pc = IF AtBoundary(m_tail) THEN "takeNode" ELSE "slot",
                            !.val = val]
    /\ UNCHANGED <<queue, memory, m_nodesPool, unallocated, pop, history>>

PushWriteSlot ==
    /\ push.pc = "slot"
    /\ m_vals' = [m_vals EXCEPT ![m_tail.node][m_tail.slot] = push.val]
    /\ push' = [push EXCEPT !.pc = "advance"]
    /\ UNCHANGED <<queue, m_next, m_nodesPool, unallocated, pop, history>>

\* The store that makes the message visible to the popping thread.
Publish(address) ==
    /\ m_tail' = After(address)
    /\ sent' = Append(sent, push.val)
    /\ home' = Append(home, address)

PushAdvance ==
    /\ push.pc = "advance"
    /\ Publish(m_tail)
    /\ push' = Idle
    /\ UNCHANGED <<m_head, memory, m_nodesPool, unallocated, pop, received>>

PushTakeNode ==
    /\ push.pc = "takeNode"
    /\ IF m_nodesPool = <<>>
       THEN /\ push' = [push EXCEPT !.pc = "allocNode"]
            /\ UNCHANGED m_nodesPool
       ELSE /\ push' = [push EXCEPT !.pc = "link", !.node = Head(m_nodesPool)]
            /\ m_nodesPool' = Tail(m_nodesPool)
    /\ UNCHANGED <<queue, memory, unallocated, pop, history>>

PushAllocNode ==
    /\ push.pc = "allocNode"
    /\ \E n \in unallocated :
          /\ push' = [push EXCEPT !.pc = "link", !.node = n]
          /\ unallocated' = unallocated \ {n}
    /\ UNCHANGED <<queue, memory, m_nodesPool, pop, history>>

\* DRAM is exhausted: pushBack returns false and the message is not sent.
PushFails ==
    /\ push.pc = "allocNode"
    /\ push' = Idle
    /\ UNCHANGED <<queue, memory, m_nodesPool, unallocated, pop, history>>

PushLink ==
    /\ push.pc = "link"
    /\ m_next' = IF m_tail = NoAddress THEN m_next
                 ELSE [m_next EXCEPT ![m_tail.node] = push.node]
    /\ push' = [push EXCEPT !.pc = "clear"]
    /\ UNCHANGED <<queue, m_vals, m_nodesPool, unallocated, pop, history>>

PushClearNext ==
    /\ push.pc = "clear"
    /\ m_next' = [m_next EXCEPT ![push.node] = NULL]
    /\ push' = [push EXCEPT !.pc = "first"]
    /\ UNCHANGED <<queue, m_vals, m_nodesPool, unallocated, pop, history>>

\* Mutant: the message lands one slot too far.
PushWriteSecond ==
    /\ push.pc = "first"
    /\ m_vals' = [m_vals EXCEPT ![push.node][2] = push.val]
    /\ push' = [push EXCEPT !.pc = "newTail"]
    /\ UNCHANGED <<queue, m_next, m_nodesPool, unallocated, pop, history>>

PushWriteFirst ==
    /\ push.pc = "first"
    /\ m_vals' = [m_vals EXCEPT ![push.node][1] = push.val]
    /\ push' = [push EXCEPT !.pc = "newTail"]
    /\ UNCHANGED <<queue, m_next, m_nodesPool, unallocated, pop, history>>

PushNewTail ==
    /\ push.pc = "newTail"
    /\ Publish([node |-> push.node, slot |-> 1])
    /\ push' = IF m_tail = NoAddress THEN [push EXCEPT !.pc = "setHead"] ELSE Idle
    /\ UNCHANGED <<m_head, memory, m_nodesPool, unallocated, pop, received>>

\* Mutant: the queue never learns where it starts.
PushSetHeadSkipped ==
    /\ push.pc = "setHead"
    /\ push' = Idle
    /\ UNCHANGED <<queue, memory, m_nodesPool, unallocated, pop, history>>

\* The very first node: until this store the consumer finds m_head zero.
PushSetHead ==
    /\ push.pc = "setHead"
    /\ m_head' = [node |-> push.node, slot |-> 1]
    /\ push' = Idle
    /\ UNCHANGED <<m_tail, memory, m_nodesPool, unallocated, pop, history>>

-----------------------------------------------------------------------------
(* popFront(): reads m_tail, then m_head. *)

PopLoadTail ==
    /\ pop.pc = "idle"
    /\ pop' = [NotPopping EXCEPT !.pc = "head", !.tail = m_tail]
    /\ UNCHANGED <<queue, memory, m_nodesPool, unallocated, push, history>>

\* Mutant: reads past the tail.
PopLoadHeadIgnoresTail ==
    /\ pop.pc = "head"
    /\ pop' = IF m_head = NoAddress
              THEN NotPopping
              ELSE [pop EXCEPT !.pc = IF AtBoundary(m_head) THEN "next" ELSE "slot",
                               !.head = m_head]
    /\ UNCHANGED <<queue, memory, m_nodesPool, unallocated, push, history>>

PopLoadHead ==
    /\ pop.pc = "head"
    /\ pop' = IF m_head = pop.tail \/ m_head = NoAddress
              THEN NotPopping
              ELSE [pop EXCEPT !.pc = IF AtBoundary(m_head) THEN "next" ELSE "slot",
                               !.head = m_head]
    /\ UNCHANGED <<queue, memory, m_nodesPool, unallocated, push, history>>

PopReadSlot ==
    /\ pop.pc = "slot"
    /\ pop' = [pop EXCEPT !.pc = "advance", !.res = m_vals[pop.head.node][pop.head.slot]]
    /\ UNCHANGED <<queue, memory, m_nodesPool, unallocated, push, history>>

\* The message leaves the queue.
Consume(address) ==
    /\ m_head' = address
    /\ received' = Append(received, pop.res)

PopAdvance ==
    /\ pop.pc = "advance"
    /\ Consume(After(pop.head))
    /\ pop' = NotPopping
    /\ UNCHANGED <<m_tail, memory, m_nodesPool, unallocated, push, sent, home>>

PopReadNext ==
    /\ pop.pc = "next"
    /\ pop' = [pop EXCEPT !.pc = "first", !.node = m_next[pop.head.node]]
    /\ UNCHANGED <<queue, memory, m_nodesPool, unallocated, push, history>>

PopReadFirst ==
    /\ pop.pc = "first"
    /\ pop' = [pop EXCEPT !.pc = "newHead", !.res = m_vals[pop.node][1]]
    /\ UNCHANGED <<queue, memory, m_nodesPool, unallocated, push, history>>

PopNewHead ==
    /\ pop.pc = "newHead"
    /\ Consume([node |-> pop.node, slot |-> 2])
    /\ pop' = [pop EXCEPT !.pc = "recycle"]
    /\ UNCHANGED <<m_tail, memory, m_nodesPool, unallocated, push, sent, home>>

\* Mutant: the emptied node is dropped.
PopDropsNode ==
    /\ pop.pc = "recycle"
    /\ pop' = NotPopping
    /\ UNCHANGED <<queue, memory, m_nodesPool, unallocated, push, history>>

\* The emptied node goes to the pool, which overwrites its m_next.
PopRecycle ==
    /\ pop.pc = "recycle"
    /\ m_nodesPool' = <<pop.head.node>> \o m_nodesPool
    /\ m_next' = [m_next EXCEPT ![pop.head.node] =
                      IF m_nodesPool = <<>> THEN NULL ELSE Head(m_nodesPool)]
    /\ pop' = NotPopping
    /\ UNCHANGED <<queue, m_vals, unallocated, push, history>>

-----------------------------------------------------------------------------
PushContinue ==
    \/ PushWriteSlot \/ PushAdvance
    \/ PushTakeNode \/ PushAllocNode \/ PushFails
    \/ PushLink \/ PushClearNext \/ PushWriteFirst \/ PushNewTail \/ PushSetHead

Pop ==
    \/ PopLoadTail \/ PopLoadHead
    \/ PopReadSlot \/ PopAdvance
    \/ PopReadNext \/ PopReadFirst \/ PopNewHead \/ PopRecycle

Next == PushContinue \/ Pop \/ \E val \in Messages : PushStart(val)

Spec == Init /\ [][Next]_vars

\* A push that has started is scheduled to its end, and the receiving heap
\* keeps polling (doChannelClean); nobody is obliged to send.
FairSpec == Spec /\ WF_vars(PushContinue) /\ WF_vars(Pop)

-----------------------------------------------------------------------------
PushPCs == {"idle", "slot", "advance", "takeNode", "allocNode", "link", "clear",
            "first", "newTail", "setHead"}
PopPCs  == {"idle", "head", "slot", "advance", "next", "first", "newHead", "recycle"}
Values  == Messages \cup {NULL}

TypeOK ==
    /\ m_head \in Address \cup {NoAddress}
    /\ m_tail \in Address \cup {NoAddress}
    /\ m_next \in [Nodes -> Pointers]
    /\ m_vals \in [Nodes -> [1 .. Slots -> Values]]
    /\ m_nodesPool \in Seq(Nodes)
    /\ unallocated \in SUBSET Nodes
    /\ push \in [pc : PushPCs, val : Values, node : Pointers]
    /\ pop \in [pc : PopPCs, tail : Address \cup {NoAddress},
                head : Address \cup {NoAddress}, node : Pointers, res : Values]
    /\ sent \in Seq(Messages)
    /\ received \in Seq(Messages)
    /\ home \in Seq([node : Nodes, slot : 1 .. Slots])

\* The slots the queue still needs: those of unread messages, and that of the
\* last message read, whose node m_head and perhaps m_tail still point into.
Live == {i \in DOMAIN home : i >= Len(received)}

LiveNodes == {home[i].node : i \in Live}
Pooled    == {m_nodesPool[i] : i \in DOMAIN m_nodesPool}
InHand    == IF push.pc \in {"link", "clear", "first", "newTail"} THEN {push.node} ELSE {}
Emptied   == IF pop.pc = "recycle" THEN {pop.head.node} ELSE {}

\* Every node is in one place: no node is leaked, by a failed push or a push
\* racing a pop, and one the pool or the slab can hand out again is in nobody's
\* use, so that the producer never writes into a node the consumer has returned
\* nor the consumer reads one the producer is refilling.
NodesInOnePlace ==
    /\ TypeOK
    /\ LiveNodes \cup Pooled \cup unallocated \cup InHand \cup Emptied = Nodes
    /\ \A i, j \in DOMAIN m_nodesPool : m_nodesPool[i] = m_nodesPool[j] => i = j
    /\ LiveNodes \cap (Pooled \cup unallocated \cup InHand \cup Emptied) = {}
    /\ Pooled \cap (unallocated \cup InHand \cup Emptied) = {}
    /\ unallocated \cap (InHand \cup Emptied) = {}
    /\ InHand \cap Emptied = {}

\* Every unread message is where it was put, unchanged: a slot is not
\* overwritten, and its node not reused, before the message is read.  Whenever
\* the consumer follows m_next or a head, it finds a node there.
UnreadKept ==
    /\ \A i \in Len(received) + 1 .. Len(sent) : m_vals[home[i].node][home[i].slot] = sent[i]
    /\ pop.pc \in {"slot", "advance", "next"} => pop.head # NoAddress
    /\ pop.pc \in {"first", "newHead", "recycle"} => pop.node # NULL

\* The channel implements the FIFO: nothing lost, invented, repeated or
\* reordered between a push that returned true and the pops.
Fifo == INSTANCE FifoChannel
ImplementsFifo == Fifo!Spec

\* Every message whose push has succeeded is received, if the receiving heap
\* keeps polling: no message stays behind a boundary or an unset m_head.
Delivered ==
    \A i \in 1 .. MaxMessages : Len(sent) >= i ~> Len(received) >= i
=============================================================================
