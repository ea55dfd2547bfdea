----------------------- MODULE CLMessageChannelProofs -----------------------
(***************************************************************************)
(* Proofs about the channel, for any number of nodes, slots and messages.  *)
(***************************************************************************)
EXTENDS CLMessageChannel, TLAPS

\* Every message has a place, and none is read that was not sent.
Counts == Len(home) = Len(sent) /\ Len(received) <= Len(sent)

\* Places follow each other slot by slot, and node by node; from the last message
\* read on, a node is not come to twice.
Chain ==
    /\ Len(home) > 0 => home[1].slot = 1
    /\ \A i \in 1 .. Len(home) - 1 :
          IF home[i].slot = Slots THEN home[i + 1].slot = 1 ELSE home[i + 1] = After(home[i])
    /\ \A i, j \in Live :
          i < j /\ home[i].node = home[j].node => home[j].slot = home[i].slot + (j - i)

\* The end pointers are one behind what was sent and what was read.
Ends ==
    /\ m_tail = IF Len(sent) = 0 THEN NoAddress ELSE After(home[Len(sent)])
    /\ m_head = IF Len(received) > 0 THEN After(home[Len(received)])
                ELSE IF Len(sent) = 0 \/ push.pc = "setHead" THEN NoAddress
                ELSE home[1]

\* A full node is linked to the one behind it.
Links ==
    /\ \A i \in Live : i < Len(home) /\ home[i].slot = Slots
                          => m_next[home[i].node] = home[i + 1].node
    /\ push.pc \in {"clear", "first", "newTail"} /\ Len(sent) > 0
          => m_next[home[Len(sent)].node] = push.node

Pushing ==
    /\ push.pc \notin {"idle", "setHead"} => push.val \in Messages
    /\ push.pc \in {"slot", "advance"} => Len(sent) > 0 /\ home[Len(sent)].slot < Slots
    /\ push.pc \in {"takeNode", "allocNode", "link", "clear", "first", "newTail"} /\ Len(sent) > 0
          => home[Len(sent)].slot = Slots
    /\ push.pc \in {"link", "clear", "first", "newTail"} => push.node \in Nodes
    /\ push.pc = "advance" => m_vals[m_tail.node][m_tail.slot] = push.val
    /\ push.pc = "newTail" => m_vals[push.node][1] = push.val
    /\ push.pc = "setHead" => Len(sent) > 0 /\ Len(received) = 0 /\ push.node = home[1].node

Popping ==
    /\ pop.pc = "head" => IF pop.tail = NoAddress THEN Len(received) = 0
                          ELSE \E k \in Live : pop.tail = After(home[k])
    /\ pop.pc \in {"slot", "advance", "next", "first", "newHead"} =>
          Len(received) < Len(sent) /\ pop.head = m_head /\ m_head # NoAddress
    /\ pop.pc \in {"slot", "advance"} => ~AtBoundary(m_head)
    /\ pop.pc \in {"next", "first", "newHead"} =>
          Len(received) > 0 /\ home[Len(received)].slot = Slots
    /\ pop.pc \in {"first", "newHead"} => pop.node = home[Len(received) + 1].node
    /\ pop.pc \in {"advance", "newHead"} => pop.res = sent[Len(received) + 1]
    /\ pop.pc = "recycle" => Len(received) > 0 /\ pop.head.node \in Nodes /\ pop.node \in Nodes

IInv == NodesInOnePlace /\ UnreadKept /\ Counts /\ Chain /\ Ends /\ Links /\ Pushing /\ Popping

-----------------------------------------------------------------------------
(* What every step starts from. *)

\* The shape of the history, and where the producer stands.
LEMMA Shape ==
    ASSUME IInv
    PROVE  /\ Slots \in Nat \ {0} /\ NULL \notin Nodes /\ NULL \notin Messages
           /\ Len(sent) \in Nat /\ Len(received) \in Nat
           /\ Len(home) = Len(sent) /\ Len(received) <= Len(sent)
           /\ Live = {i \in 1 .. Len(sent) : i >= Len(received)}
           /\ \A i \in 1 .. Len(sent) : /\ home[i] \in [node : Nodes, slot : 1 .. Slots]
                                        /\ sent[i] \in Messages
           /\ \A i \in Live : home[i].node \in LiveNodes
           /\ LiveNodes \subseteq Nodes
<1>1. TypeOK /\ Counts BY DEF IInv, NodesInOnePlace
<1>2. Slots \in Nat \ {0} /\ NULL \notin Nodes /\ NULL \notin Messages BY ChannelAssumption
<1>3. /\ Len(sent) \in Nat /\ Len(received) \in Nat
      /\ Len(home) = Len(sent) /\ Len(received) <= Len(sent)
      /\ DOMAIN home = 1 .. Len(sent)
  BY <1>1 DEF TypeOK, Counts
<1>4. Live = {i \in 1 .. Len(sent) : i >= Len(received)} BY <1>3 DEF Live
<1>5. \A i \in 1 .. Len(sent) : home[i] \in [node : Nodes, slot : 1 .. Slots] /\ sent[i] \in Messages
  <2> DEFINE Place == [node : Nodes, slot : 1 .. Slots]
  <2>1. home \in Seq(Place) /\ sent \in Seq(Messages) BY <1>1 DEF TypeOK
  <2> HIDE DEF Place
  <2>2. \A i \in 1 .. Len(sent) : home[i] \in Place /\ sent[i] \in Messages BY <2>1, <1>3
  <2> QED BY <2>2 DEF Place
<1>6. \A i \in Live : home[i].node \in LiveNodes BY DEF LiveNodes
<1>7. LiveNodes \subseteq Nodes BY <1>4, <1>5 DEF LiveNodes
<1> QED BY <1>2, <1>3, <1>4, <1>5, <1>6, <1>7

\* The address behind a message's place.
LEMMA Behind ==
    ASSUME NEW a \in [node : Nodes, slot : 1 .. Slots]
    PROVE  /\ After(a) = [node |-> a.node, slot |-> a.slot + 1]
           /\ After(a) \in Address /\ After(a) # NoAddress
           /\ AtBoundary(After(a)) <=> a.slot = Slots
<1>1. a = [node |-> a.node, slot |-> a.slot] /\ a.node \in Nodes /\ a.slot \in 1 .. Slots OBVIOUS
<1>2. After(a) = [node |-> a.node, slot |-> a.slot + 1] BY <1>1 DEF After
<1>3. After(a).node = a.node /\ After(a).slot = a.slot + 1 BY <1>2
<1>4. Slots \in Nat /\ NULL \notin Nodes BY ChannelAssumption
<1>5. After(a) \in Address BY <1>1, <1>2, <1>4 DEF Address
<1>6. After(a) # NoAddress BY <1>1, <1>3, <1>4 DEF NoAddress
<1>7. AtBoundary(After(a)) <=> a.slot = Slots BY <1>1, <1>3, <1>4, <1>6 DEF AtBoundary
<1> QED BY <1>2, <1>5, <1>6, <1>7

\* Where the producer stands: behind the last message, whose node is live.
LEMMA AtTail ==
    ASSUME IInv
    PROVE  /\ Len(sent) = 0 <=> m_tail = NoAddress
           /\ Len(sent) > 0 =>
                 /\ Len(sent) \in Live
                 /\ m_tail = [node |-> home[Len(sent)].node, slot |-> home[Len(sent)].slot + 1]
                 /\ m_tail.node = home[Len(sent)].node
                 /\ m_tail.slot = home[Len(sent)].slot + 1
                 /\ AtBoundary(m_tail) <=> home[Len(sent)].slot = Slots
<1>1. m_tail = IF Len(sent) = 0 THEN NoAddress ELSE After(home[Len(sent)]) BY DEF IInv, Ends
<1>2. CASE Len(sent) = 0 BY <1>1, <1>2
<1>3. CASE Len(sent) # 0
  <2>1. Len(sent) \in Live /\ home[Len(sent)] \in [node : Nodes, slot : 1 .. Slots] /\ Len(sent) > 0
    BY <1>3, Shape
  <2>2. /\ m_tail = [node |-> home[Len(sent)].node, slot |-> home[Len(sent)].slot + 1]
        /\ m_tail # NoAddress
        /\ AtBoundary(m_tail) <=> home[Len(sent)].slot = Slots
    BY <1>1, <1>3, <2>1, Behind
  <2> QED BY <1>3, <2>1, <2>2
<1> QED BY <1>2, <1>3

\* Where the consumer stands: before the first message not read.
LEMMA AtHead ==
    ASSUME IInv, m_head # NoAddress, Len(received) < Len(sent)
    PROVE  /\ Len(received) + 1 \in Live /\ Len(received) + 1 \in 1 .. Len(sent)
           /\ ~AtBoundary(m_head) => m_head = home[Len(received) + 1]
           /\ AtBoundary(m_head) => /\ Len(received) > 0 /\ Len(received) \in Live
                                    /\ home[Len(received)].slot = Slots
                                    /\ m_head.node = home[Len(received)].node
                                    /\ home[Len(received) + 1].slot = 1
           /\ push.pc = "setHead" => Len(received) > 0
<1> DEFINE r == Len(received)
<1>1. r \in Nat /\ Len(sent) \in Nat /\ r + 1 \in Live /\ r + 1 \in 1 .. Len(sent)
      /\ Len(home) = Len(sent) /\ Slots \in Nat
  BY Shape
<1>2. home[r + 1] \in [node : Nodes, slot : 1 .. Slots] BY <1>1, Shape
<1>3. Ends /\ Chain BY DEF IInv
<1>4. CASE r = 0
  <2>1. push.pc # "setHead" /\ m_head = home[1] BY <1>1, <1>3, <1>4 DEF Ends
  <2>2. ~AtBoundary(m_head) BY <1>1, <1>2, <1>4, <2>1 DEF AtBoundary
  <2> QED BY <1>1, <1>4, <2>1, <2>2
<1>5. CASE r > 0
  <2>1. r \in Live /\ home[r] \in [node : Nodes, slot : 1 .. Slots] /\ r \in 1 .. Len(home) - 1
    BY <1>1, <1>5, Shape
  <2>2. m_head = After(home[r]) BY <1>3, <1>5 DEF Ends
  <2>3. m_head = [node |-> home[r].node, slot |-> home[r].slot + 1]
        /\ (AtBoundary(m_head) <=> home[r].slot = Slots)
    BY <2>1, <2>2, Behind
  <2>4. IF home[r].slot = Slots THEN home[r + 1].slot = 1 ELSE home[r + 1] = After(home[r])
    BY <1>3, <2>1 DEF Chain
  <2> QED BY <1>1, <1>5, <2>1, <2>2, <2>3, <2>4
<1> QED BY <1>1, <1>4, <1>5

\* A step that leaves the messages alone leaves their places alone.
LEMMA HistoryKept ==
    ASSUME IInv, UNCHANGED history
    PROVE  Live' = Live /\ LiveNodes' = LiveNodes /\ Counts' /\ Chain'
BY DEF IInv, history, Live, LiveNodes, Counts, Chain, After

\* A node in the producer's hand, or emptied by the consumer, is not live.
LEMMA NotLive ==
    ASSUME IInv
    PROVE  /\ push.pc \in {"link", "clear", "first", "newTail"} =>
                 push.node \in Nodes /\ \A i \in Live : home[i].node # push.node
           /\ pop.pc = "recycle" => /\ \A i \in Live : home[i].node # pop.head.node
                                    /\ InHand \cap {pop.head.node} = {}
BY Shape DEF IInv, NodesInOnePlace, InHand, Emptied, Pushing

\* A step that moves no node between places.
LEMMA PlacesKept ==
    ASSUME IInv, TypeOK', UNCHANGED <<history, m_nodesPool, unallocated>>,
           InHand' = InHand, Emptied' = Emptied
    PROVE  NodesInOnePlace'
BY HistoryKept DEF IInv, NodesInOnePlace, Pooled

\* What is read is sent before it is read, and only then.
LEMMA Kept ==
    ASSUME IInv, UNCHANGED <<history, m_vals>>, Popping', pop' = pop
    PROVE  UnreadKept'
BY DEF IInv, UnreadKept, history

\* One message more: its place is live, and so is the node it lies in.
LEMMA Published ==
    ASSUME IInv, NEW a \in [node : Nodes, slot : 1 .. Slots], Publish(a), received' = received,
           push.val \in Messages,
           IF Len(sent) = 0 \/ home[Len(sent)].slot = Slots
           THEN a.slot = 1 /\ a.node \notin LiveNodes
           ELSE a = After(home[Len(sent)])
    PROVE  /\ sent' \in Seq(Messages) /\ home' \in Seq([node : Nodes, slot : 1 .. Slots])
           /\ Len(sent') = Len(sent) + 1
           /\ \A i \in 1 .. Len(sent) : sent'[i] = sent[i] /\ home'[i] = home[i]
           /\ sent'[Len(sent) + 1] = push.val /\ home'[Len(sent) + 1] = a
           /\ Live' = Live \cup {Len(sent) + 1}
           /\ LiveNodes' = LiveNodes \cup {a.node}
           /\ Counts' /\ Chain'
<1> DEFINE n == Len(sent)
           Place == [node : Nodes, slot : 1 .. Slots]
<1>1. home \in Seq(Place) /\ sent \in Seq(Messages) /\ a \in Place /\ Len(home) = n /\ n \in Nat
  BY Shape DEF IInv, NodesInOnePlace, TypeOK
<1>2. sent' = Append(sent, push.val) /\ home' = Append(home, a) BY DEF Publish
<1> HIDE DEF Place
<1>3. /\ sent' \in Seq(Messages) /\ home' \in Seq(Place)
      /\ Len(sent') = n + 1 /\ Len(home') = n + 1 /\ DOMAIN home' = 1 .. n + 1
      /\ \A i \in 1 .. n : sent'[i] = sent[i] /\ home'[i] = home[i]
      /\ sent'[n + 1] = push.val /\ home'[n + 1] = a
  BY <1>1, <1>2
<1> USE DEF Place
<1>4. Counts' BY <1>3, Shape DEF Counts
<1>5. Live' = Live \cup {n + 1} BY <1>3, Shape DEF Live
<1>6. LiveNodes' = LiveNodes \cup {a.node}
  <2>1. LiveNodes' = {home'[i].node : i \in Live'} BY DEF LiveNodes
  <2>2. \A i \in Live : i \in 1 .. n /\ home'[i] = home[i] BY <1>3, Shape
  <2> QED BY <1>3, <1>5, <2>1, <2>2 DEF LiveNodes
<1>7. Chain'
  <2>0. Chain BY DEF IInv
  <2>1. home'[1].slot = 1
    <3>1. CASE n = 0 BY <1>3, <3>1
    <3>2. CASE n > 0
      <4>1. 1 \in 1 .. n BY <1>1, <3>2
      <4> QED BY <1>1, <1>3, <2>0, <3>2, <4>1 DEF Chain
    <3> QED BY <1>1, <3>1, <3>2
  <2>2. ASSUME NEW i \in 1 .. Len(home') - 1
        PROVE  IF home'[i].slot = Slots THEN home'[i + 1].slot = 1
               ELSE home'[i + 1] = After(home'[i])
    <3>1. i \in 1 .. n /\ home'[i] = home[i] /\ n > 0 BY <1>1, <1>3
    <3>2. CASE i = n BY <1>3, <3>1, <3>2
    <3>3. CASE i # n
      <4>1. i \in 1 .. Len(home) - 1 /\ i + 1 \in 1 .. n BY <1>1, <3>1, <3>3
      <4> QED BY <1>3, <2>0, <3>1, <4>1 DEF Chain
    <3> QED BY <3>2, <3>3
  <2>3. ASSUME NEW i \in Live', NEW j \in Live', i < j, home'[i].node = home'[j].node
        PROVE  home'[j].slot = home'[i].slot + (j - i)
    <3>1. /\ i \in Live /\ i \in 1 .. n /\ home'[i] = home[i] /\ home[i].node \in LiveNodes
          /\ home[i].slot \in 1 .. Slots /\ Slots \in Nat
      BY <1>3, <1>5, <2>3, Shape
    <3>2. CASE j \in Live
      <4>1. j \in 1 .. n BY <3>2, Shape
      <4>2. home'[j] = home[j] BY <1>3, <4>1
      <4> QED BY <2>0, <2>3, <3>1, <3>2, <4>2 DEF Chain
    <3>3. CASE j = n + 1
      <4>0. a.node \in LiveNodes BY <1>3, <2>3, <3>1, <3>3
      <4>1. n > 0 /\ n \in Live /\ home[n].slot # Slots /\ a = After(home[n])
            /\ home[n] \in Place
        <5>1. n > 0 BY <1>1, <3>1
        <5>2. home[n].slot # Slots /\ a = After(home[n]) BY <4>0, <5>1
        <5> QED BY <5>1, <5>2, Shape
      <4>2. a.node = home[n].node /\ a.slot = home[n].slot + 1 BY <4>1, Behind
      <4>3. CASE i = n BY <1>3, <3>1, <3>3, <4>2, <4>3
      <4>4. CASE i # n
        <5>1. i < n BY <1>1, <3>1, <4>4
        <5>2. home[n].slot = home[i].slot + (n - i)
          BY <1>3, <2>0, <2>3, <3>1, <3>3, <4>1, <4>2, <5>1 DEF Chain
        <5>3. home'[j].slot = home[n].slot + 1 BY <1>3, <3>3, <4>2
        <5>4. i \in Nat /\ home[i].slot \in Nat BY <3>1
        <5>5. home'[i].slot = home[i].slot /\ n \in Nat BY <1>1, <3>1
        <5> HIDE DEF n
        <5> QED BY <3>3, <5>2, <5>3, <5>4, <5>5
      <4> QED BY <4>3, <4>4
    <3> QED BY <1>5, <2>3, <3>2, <3>3
  <2> QED BY <2>1, <2>2, <2>3 DEF Chain
<1> QED BY <1>3, <1>4, <1>5, <1>6, <1>7

\* One message less: at a boundary the node left behind is live no more.
LEMMA Consumed ==
    ASSUME IInv, m_head # NoAddress, Len(received) < Len(sent), UNCHANGED <<sent, home>>,
           received' = Append(received, sent[Len(received) + 1])
    PROVE  /\ received' \in Seq(Messages) /\ Len(received') = Len(received) + 1
           /\ Live' = Live \ {Len(received)}
           /\ LiveNodes' = IF AtBoundary(m_head) THEN LiveNodes \ {m_head.node} ELSE LiveNodes
           /\ Counts' /\ Chain'
<1> DEFINE r == Len(received)
<1>1. received \in Seq(Messages) /\ r \in Nat /\ Len(sent) \in Nat /\ sent[r + 1] \in Messages
  BY Shape DEF IInv, NodesInOnePlace, TypeOK
<1>2. received' \in Seq(Messages) /\ Len(received') = r + 1 BY <1>1
<1>3. Counts' BY <1>1, <1>2, Shape DEF Counts
<1>4. Live' = Live \ {r}
  <2>1. Live' = {i \in 1 .. Len(sent) : i >= r + 1}
    <3>1. DOMAIN home = 1 .. Len(sent) BY Shape DEF IInv, NodesInOnePlace, TypeOK
    <3> QED BY <1>2, <3>1 DEF Live
  <2> QED BY <1>1, <2>1, Shape
<1>5. Chain' BY <1>4 DEF IInv, Chain, After
<1>6. LiveNodes' = {home[i].node : i \in Live'} BY DEF LiveNodes
<1>7. LiveNodes' = IF AtBoundary(m_head) THEN LiveNodes \ {m_head.node} ELSE LiveNodes
  <2>1. CASE AtBoundary(m_head)
    <3>1. /\ r \in Live /\ r \in 1 .. Len(sent) /\ home[r].slot = Slots /\ m_head.node = home[r].node
      BY <2>1, AtHead, Shape
    <3>2. \A i \in Live' : home[i].node # home[r].node
      <4> SUFFICES ASSUME NEW i \in Live', home[i].node = home[r].node PROVE FALSE OBVIOUS
      <4>1. i \in Live /\ r < i /\ home[i].slot \in 1 .. Slots /\ i \in Nat /\ Slots \in Nat
        BY <1>1, <1>4, Shape
      <4>2. home[i].slot = Slots + (i - r) BY <3>1, <4>1 DEF IInv, Chain
      <4> QED BY <1>1, <4>1, <4>2
    <3> QED BY <1>4, <1>6, <2>1, <3>1, <3>2 DEF LiveNodes
  <2>2. CASE ~AtBoundary(m_head)
    <3>1. r \in Live => r + 1 \in Live' /\ home[r + 1].node = home[r].node
      <4> SUFFICES ASSUME r \in Live PROVE r + 1 \in Live' /\ home[r + 1].node = home[r].node OBVIOUS
      <4>1. /\ r > 0 /\ r + 1 \in Live' /\ home[r] \in [node : Nodes, slot : 1 .. Slots]
        BY <1>1, <1>4, AtHead, Shape
      <4>2. home[r + 1] = m_head /\ m_head = After(home[r])
        BY <1>1, <2>2, <4>1, AtHead DEF IInv, Ends
      <4> QED BY <4>1, <4>2, Behind
    <3> QED BY <1>4, <1>6, <2>2, <3>1 DEF LiveNodes
  <2> QED BY <2>1, <2>2
<1> QED BY <1>2, <1>3, <1>4, <1>5, <1>7

\* A step of the producer before its message is out.
LEMMA NotYetOut ==
    ASSUME IInv, UNCHANGED <<m_head, m_tail, pop, sent, received, home>>,
           push.pc # "setHead", push'.pc # "setHead"
    PROVE  /\ Live' = Live /\ LiveNodes' = LiveNodes /\ Counts' /\ Chain'
           /\ Ends' /\ Popping' /\ Emptied' = Emptied
<1>1. Live' = Live /\ LiveNodes' = LiveNodes /\ Counts' /\ Chain'
  BY HistoryKept DEF history
<1>2. Ends' BY DEF IInv, Ends, After
<1>3. Popping' BY <1>1 DEF IInv, Popping, After, AtBoundary
<1>4. Emptied' = Emptied BY DEF Emptied
<1> QED BY <1>1, <1>2, <1>3, <1>4

-----------------------------------------------------------------------------
(* The pushing thread's steps. *)

LEMMA PushStartKeeps ==
    ASSUME IInv, NEW val \in Messages, PushStart(val)
    PROVE  IInv'
<1>1. TypeOK /\ Ends /\ Links /\ Pushing /\ Popping BY DEF IInv, NodesInOnePlace
<1>2. /\ push.pc = "idle" /\ push' = [pc |-> IF AtBoundary(m_tail) THEN "takeNode" ELSE "slot",
                                       val |-> val, node |-> NULL]
      /\ UNCHANGED <<m_head, m_tail, m_next, m_vals, m_nodesPool, unallocated, pop,
                     sent, received, home, history>>
  BY DEF PushStart, Idle, queue, memory, history
<1>3. push'.pc \in {"takeNode", "slot"} /\ push'.val = val BY <1>2
<1>4. push' \in [pc : PushPCs, val : Values, node : Pointers]
  BY <1>2 DEF PushPCs, Values, Pointers
<1>5. TypeOK' BY <1>1, <1>2, <1>4 DEF TypeOK
<1>6. Live' = Live /\ Counts' /\ Chain' BY <1>2, HistoryKept
<1>7. NodesInOnePlace'
  <2>1. InHand' = InHand /\ Emptied' = Emptied BY <1>2, <1>3 DEF InHand, Emptied
  <2> QED BY <1>2, <1>5, <2>1, PlacesKept
<1>8. Ends' /\ Links' BY <1>1, <1>2, <1>3, <1>6 DEF Ends, Links, After
<1>9. Pushing'
  <2>1. push'.pc = "slot" => Len(sent) > 0 /\ home[Len(sent)].slot < Slots
    <3>1. push'.pc = "slot" => ~AtBoundary(m_tail) BY <1>2
    <3>2. ~AtBoundary(m_tail) => m_tail # NoAddress BY DEF AtBoundary
    <3> QED BY <3>1, <3>2, AtTail, Shape
  <2>2. push'.pc = "takeNode" /\ Len(sent) > 0 => home[Len(sent)].slot = Slots
    BY <1>2, AtTail
  <2> QED BY <1>2, <1>3, <2>1, <2>2 DEF Pushing
<1>10. Popping' BY <1>1, <1>2, <1>6 DEF Popping, After, AtBoundary
<1>11. UnreadKept' BY <1>2, <1>10, Kept
<1> QED BY <1>6, <1>7, <1>8, <1>9, <1>10, <1>11 DEF IInv

\* The slot written lies behind every slot still to be read.
LEMMA PushWriteSlotKeeps ==
    ASSUME IInv, PushWriteSlot
    PROVE  IInv'
<1>1. TypeOK /\ Ends /\ Links /\ Pushing /\ Popping /\ Chain /\ UnreadKept
  BY DEF IInv, NodesInOnePlace
<1>2. /\ push.pc = "slot" /\ push' = [push EXCEPT !.pc = "advance"]
      /\ m_vals' = [m_vals EXCEPT ![m_tail.node][m_tail.slot] = push.val]
      /\ UNCHANGED <<m_head, m_tail, m_next, m_nodesPool, unallocated, pop,
                     sent, received, home, history>>
  BY DEF PushWriteSlot, queue, memory, history
<1>3. /\ push'.pc = "advance" /\ push'.val = push.val /\ push'.node = push.node
      /\ push' \in [pc : PushPCs, val : Values, node : Pointers]
  BY <1>1, <1>2 DEF TypeOK, PushPCs
<1>4. /\ Len(sent) > 0 /\ Len(sent) \in Live /\ home[Len(sent)].slot < Slots
      /\ m_tail.node = home[Len(sent)].node /\ m_tail.slot = home[Len(sent)].slot + 1
      /\ m_tail.node \in Nodes /\ m_tail.slot \in 1 .. Slots
  BY <1>1, <1>2, AtTail, Shape DEF Pushing
<1>5. /\ m_vals' \in [Nodes -> [1 .. Slots -> Values]]
      /\ m_vals'[m_tail.node][m_tail.slot] = push.val
      /\ \A n \in Nodes, s \in 1 .. Slots :
            n # m_tail.node \/ s # m_tail.slot => m_vals'[n][s] = m_vals[n][s]
  BY <1>1, <1>2, <1>4 DEF TypeOK
<1>6. TypeOK' BY <1>1, <1>2, <1>3, <1>5 DEF TypeOK
<1>7. Live' = Live /\ Counts' /\ Chain' BY <1>2, HistoryKept
<1>8. NodesInOnePlace'
  <2>1. InHand' = InHand /\ Emptied' = Emptied BY <1>2, <1>3 DEF InHand, Emptied
  <2> QED BY <1>2, <1>6, <2>1, PlacesKept
<1>9. Ends' /\ Links' BY <1>1, <1>2, <1>3, <1>7 DEF Ends, Links, After
<1>10. Pushing' BY <1>1, <1>2, <1>3, <1>4, <1>5 DEF Pushing
<1>11. Popping' BY <1>1, <1>2, <1>7 DEF Popping, After, AtBoundary
<1>12. UnreadKept'
  <2>1. ASSUME NEW i \in Len(received) + 1 .. Len(sent)
        PROVE  m_vals'[home[i].node][home[i].slot] = sent[i]
    <3>1. i \in Live /\ i <= Len(sent) /\ i \in Nat /\ Len(sent) \in Nat
          /\ home[i].node \in Nodes /\ home[i].slot \in 1 .. Slots
      BY Shape
    <3>2. home[i].node = home[Len(sent)].node /\ i < Len(sent)
             => home[Len(sent)].slot = home[i].slot + (Len(sent) - i)
      BY <1>1, <1>4, <3>1 DEF Chain
    <3>3. home[i].node # m_tail.node \/ home[i].slot # m_tail.slot
      BY <1>4, <3>1, <3>2
    <3>4. m_vals[home[i].node][home[i].slot] = sent[i] BY <1>1 DEF UnreadKept
    <3> QED BY <1>5, <3>1, <3>3, <3>4
  <2> QED BY <1>1, <1>2, <2>1 DEF UnreadKept
<1> QED BY <1>7, <1>8, <1>9, <1>10, <1>11, <1>12 DEF IInv

LEMMA PushAdvanceKeeps ==
    ASSUME IInv, PushAdvance
    PROVE  IInv'
<1> DEFINE n == Len(sent)
<1>1. TypeOK /\ Ends /\ Links /\ Pushing /\ Popping /\ UnreadKept
  BY DEF IInv, NodesInOnePlace
<1>2. /\ push.pc = "advance" /\ push' = [pc |-> "idle", val |-> NULL, node |-> NULL]
      /\ Publish(m_tail) /\ m_tail' = After(m_tail)
      /\ UNCHANGED <<m_head, m_next, m_vals, m_nodesPool, unallocated, pop, received>>
  BY DEF PushAdvance, Publish, Idle, memory
<1>3. push'.pc = "idle" /\ push' \in [pc : PushPCs, val : Values, node : Pointers]
  BY <1>2 DEF PushPCs, Values, Pointers
<1>4. /\ n > 0 /\ n \in Nat /\ n \in Live /\ home[n].slot < Slots /\ push.val \in Messages
      /\ m_vals[m_tail.node][m_tail.slot] = push.val
      /\ home[n] \in [node : Nodes, slot : 1 .. Slots]
      /\ m_tail = [node |-> home[n].node, slot |-> home[n].slot + 1]
      /\ m_tail = After(home[n]) /\ home[n].slot # Slots
  BY <1>1, <1>2, AtTail, Shape DEF Pushing, Ends
<1>5. /\ m_tail \in [node : Nodes, slot : 1 .. Slots] /\ push.val \in Messages
      /\ IF n = 0 \/ home[n].slot = Slots THEN m_tail.slot = 1 /\ m_tail.node \notin LiveNodes
         ELSE m_tail = After(home[n])
  BY <1>4, Shape
<1>6. /\ sent' \in Seq(Messages) /\ home' \in Seq([node : Nodes, slot : 1 .. Slots])
      /\ Len(sent') = n + 1
      /\ \A i \in 1 .. n : sent'[i] = sent[i] /\ home'[i] = home[i]
      /\ sent'[n + 1] = push.val /\ home'[n + 1] = m_tail
      /\ Live' = Live \cup {n + 1}
      /\ LiveNodes' = LiveNodes \cup {m_tail.node}
      /\ Counts' /\ Chain'
  <2>1. Publish(m_tail) /\ received' = received BY <1>2
  <2> QED BY <1>5, <2>1, Published
<1>7. LiveNodes' = LiveNodes BY <1>4, <1>6, Shape
<1>8. TypeOK'
  <2>1. m_tail' \in Address BY <1>2, <1>5, Behind
  <2> QED BY <1>1, <1>2, <1>3, <1>6, <2>1 DEF TypeOK
<1>9. NodesInOnePlace'
  <2>1. InHand' = InHand /\ Emptied' = Emptied BY <1>2, <1>3 DEF InHand, Emptied
  <2> QED BY <1>2, <1>7, <1>8, <2>1 DEF IInv, NodesInOnePlace, Pooled
<1>10. Ends'
  <2>1. m_tail' = After(home'[Len(sent')]) BY <1>2, <1>6
  <2>2. Len(received) > 0 => home'[Len(received)] = home[Len(received)] BY <1>6, Shape
  <2>3. home'[1] = home[1] BY <1>4, <1>6
  <2> QED BY <1>1, <1>2, <1>3, <1>4, <1>6, <2>1, <2>2, <2>3 DEF Ends
<1>11. Links'
  <2> SUFFICES ASSUME NEW i \in Live', i < n + 1, home'[i].slot = Slots
               PROVE  m_next'[home'[i].node] = home'[i + 1].node
    BY <1>2, <1>3, <1>6 DEF Links, Counts
  <2>1. i \in Live /\ i \in 1 .. n /\ home'[i] = home[i] BY <1>4, <1>6, Shape
  <2>2. i < n BY <1>4, <2>1
  <2>3. i + 1 \in 1 .. n BY <1>4, <2>1, <2>2
  <2>4. m_next[home[i].node] = home[i + 1].node BY <1>1, <2>1, <2>2, Shape DEF Links
  <2> QED BY <1>2, <1>6, <2>1, <2>3, <2>4
<1>12. Pushing' BY <1>3 DEF Pushing
<1>13. Popping'
  <2>1. pop.pc = "head" => IF pop.tail = NoAddress THEN Len(received) = 0
                           ELSE \E k \in Live' : pop.tail = After(home'[k])
    BY <1>1, <1>6, Shape DEF Popping
  <2>2. Len(received) < n => sent'[Len(received) + 1] = sent[Len(received) + 1]
                             /\ home'[Len(received) + 1] = home[Len(received) + 1]
    <3>1. Len(received) < n => Len(received) + 1 \in 1 .. n BY Shape
    <3> QED BY <1>6, <3>1
  <2>3. Len(received) > 0 => home'[Len(received)] = home[Len(received)]
    <3>1. Len(received) > 0 => Len(received) \in 1 .. n BY Shape
    <3> QED BY <1>6, <3>1
  <2>4. Len(received) \in Nat /\ Len(received) <= n BY Shape
  <2>5. pop' = pop /\ received' = received /\ m_head' = m_head BY <1>2
  <2>6. pop.pc \in {"slot", "advance", "next", "first", "newHead"} =>
            Len(received) < n /\ Len(received) < Len(sent') /\ pop.head = m_head /\ m_head # NoAddress
    BY <1>1, <1>6, <2>4 DEF Popping
  <2>7. pop.pc \in {"next", "first", "newHead"} =>
            Len(received) > 0 /\ home'[Len(received)].slot = Slots
    BY <1>1, <2>3 DEF Popping
  <2>8. /\ pop.pc \in {"first", "newHead"} => pop.node = home'[Len(received) + 1].node
        /\ pop.pc \in {"advance", "newHead"} => pop.res = sent'[Len(received) + 1]
    BY <1>1, <2>2, <2>6 DEF Popping
  <2> QED BY <1>1, <2>1, <2>5, <2>6, <2>7, <2>8 DEF Popping, AtBoundary
<1>14. UnreadKept'
  <2>1. ASSUME NEW i \in Len(received) + 1 .. n + 1
        PROVE  m_vals[home'[i].node][home'[i].slot] = sent'[i]
    <3>1. CASE i = n + 1 BY <1>4, <1>6, <3>1
    <3>2. CASE i # n + 1
      <4>1. i \in 1 .. n /\ i \in Len(received) + 1 .. n BY <1>4, <3>2, Shape
      <4> QED BY <1>1, <1>6, <4>1 DEF UnreadKept
    <3> QED BY <3>1, <3>2
  <2> QED BY <1>1, <1>2, <1>6, <2>1 DEF UnreadKept
<1> QED BY <1>6, <1>9, <1>10, <1>11, <1>12, <1>13, <1>14 DEF IInv

LEMMA PushTakeNodeKeeps ==
    ASSUME IInv, PushTakeNode
    PROVE  IInv'
<1>1. TypeOK /\ Links /\ Pushing BY DEF IInv, NodesInOnePlace
<1>2. /\ push.pc = "takeNode"
      /\ UNCHANGED <<m_head, m_tail, m_next, m_vals, unallocated, pop, sent, received, home, history>>
  BY DEF PushTakeNode, queue, memory, history
<1>3. CASE m_nodesPool = <<>>
  <2>1. m_nodesPool' = m_nodesPool /\ push' = [push EXCEPT !.pc = "allocNode"]
    BY <1>3 DEF PushTakeNode
  <2>2. push'.pc = "allocNode" /\ push'.val = push.val /\ push'.node = push.node
        /\ push' \in [pc : PushPCs, val : Values, node : Pointers]
    BY <1>1, <2>1 DEF TypeOK, PushPCs
  <2>3. Live' = Live /\ Counts' /\ Chain' /\ Ends' /\ Popping' /\ Emptied' = Emptied
    BY <1>2, <2>2, NotYetOut
  <2>4. TypeOK' BY <1>1, <1>2, <2>1, <2>2 DEF TypeOK
  <2>5. NodesInOnePlace'
    <3>1. InHand' = InHand BY <1>2, <2>2 DEF InHand
    <3> QED BY <1>2, <2>1, <2>3, <2>4, <3>1, PlacesKept
  <2>6. Links' BY <1>1, <1>2, <2>2, <2>3 DEF Links
  <2>7. Pushing' BY <1>1, <1>2, <2>2 DEF Pushing
  <2>8. UnreadKept' BY <1>2, <2>3, Kept
  <2> QED BY <2>3, <2>5, <2>6, <2>7, <2>8 DEF IInv
<1>4. CASE m_nodesPool # <<>>
  <2> DEFINE h == Head(m_nodesPool)
             t == Tail(m_nodesPool)
  <2>1. m_nodesPool' = t /\ push' = [push EXCEPT !.pc = "link", !.node = h]
    BY <1>4 DEF PushTakeNode
  <2>2. /\ m_nodesPool \in Seq(Nodes) /\ Len(m_nodesPool) \in Nat /\ Len(m_nodesPool) > 0
        /\ h \in Nodes /\ h = m_nodesPool[1] /\ t \in Seq(Nodes) /\ Len(t) = Len(m_nodesPool) - 1
        /\ \A i \in 1 .. Len(t) : t[i] = m_nodesPool[i + 1]
        /\ DOMAIN t = 1 .. Len(t) /\ DOMAIN m_nodesPool = 1 .. Len(m_nodesPool)
    BY <1>1, <1>4 DEF TypeOK
  <2>3. push'.pc = "link" /\ push'.val = push.val /\ push'.node = h
        /\ push' \in [pc : PushPCs, val : Values, node : Pointers]
    BY <1>1, <2>1, <2>2 DEF TypeOK, PushPCs, Pointers
  <2>4. Live' = Live /\ LiveNodes' = LiveNodes /\ Counts' /\ Chain' /\ Ends' /\ Popping'
        /\ Emptied' = Emptied
    BY <1>2, <2>3, NotYetOut
  <2>5. TypeOK' BY <1>1, <1>2, <2>1, <2>2, <2>3 DEF TypeOK
  <2>6. NodesInOnePlace'
    <3>0. NodesInOnePlace BY DEF IInv
    <3>1. \A i, j \in DOMAIN m_nodesPool : m_nodesPool[i] = m_nodesPool[j] => i = j
      BY <3>0 DEF NodesInOnePlace
    <3>2. \A i, j \in DOMAIN t : t[i] = t[j] => i = j
      <4> SUFFICES ASSUME NEW i \in 1 .. Len(t), NEW j \in 1 .. Len(t), t[i] = t[j] PROVE i = j
        BY <2>2
      <4>1. i + 1 \in DOMAIN m_nodesPool /\ j + 1 \in DOMAIN m_nodesPool BY <2>2
      <4>2. i + 1 = j + 1 BY <2>2, <3>1, <4>1
      <4> QED BY <4>2
    <3>3. Pooled = {h} \cup Pooled' /\ h \notin Pooled'
      <4>1. Pooled' = {t[i] : i \in 1 .. Len(t)} BY <2>1, <2>2 DEF Pooled
      <4>2. Pooled = {m_nodesPool[i] : i \in 1 .. Len(m_nodesPool)} BY <2>2 DEF Pooled
      <4>3. \A i \in 1 .. Len(t) : i + 1 \in 1 .. Len(m_nodesPool) /\ t[i] = m_nodesPool[i + 1]
                                   /\ i + 1 # 1
        BY <2>2
      <4>4. ASSUME NEW i \in 1 .. Len(m_nodesPool), i # 1
            PROVE  i - 1 \in 1 .. Len(t) /\ t[i - 1] = m_nodesPool[i]
        <5>1. i - 1 \in 1 .. Len(t) /\ (i - 1) + 1 = i BY <2>2, <4>4
        <5> QED BY <2>2, <5>1
      <4>5. h \notin Pooled'
        <5> SUFFICES ASSUME NEW i \in 1 .. Len(t), t[i] = h PROVE FALSE BY <4>1
        <5>1. i + 1 \in DOMAIN m_nodesPool /\ 1 \in DOMAIN m_nodesPool
              /\ m_nodesPool[i + 1] = m_nodesPool[1]
          BY <2>2, <4>3
        <5>2. i + 1 = 1 BY <3>1, <5>1
        <5> QED BY <5>2
      <4>6. 1 \in 1 .. Len(m_nodesPool) BY <2>2
      <4>7. \A e \in Pooled : e = h \/ e \in Pooled'
        <5> SUFFICES ASSUME NEW i \in 1 .. Len(m_nodesPool), m_nodesPool[i] # h
                     PROVE  m_nodesPool[i] \in Pooled'
          BY <4>2
        <5>1. i # 1 BY <2>2
        <5> QED BY <4>1, <4>4, <5>1
      <4>8. \A e \in Pooled' : e \in Pooled BY <4>1, <4>2, <4>3
      <4> HIDE DEF h, t
      <4> QED BY <2>2, <4>2, <4>5, <4>6, <4>7, <4>8
    <3>4. InHand = {} /\ InHand' = {h} BY <1>2, <2>3 DEF InHand
    <3> HIDE DEF h, t
    <3> QED BY <1>2, <2>1, <2>4, <2>5, <3>0, <3>2, <3>3, <3>4 DEF NodesInOnePlace
  <2>7. Links' BY <1>1, <1>2, <2>3, <2>4 DEF Links
  <2>8. Pushing' BY <1>1, <1>2, <2>2, <2>3 DEF Pushing
  <2>9. UnreadKept' BY <1>2, <2>4, Kept
  <2> QED BY <2>4, <2>6, <2>7, <2>8, <2>9 DEF IInv
<1> QED BY <1>3, <1>4

LEMMA PushAllocNodeKeeps ==
    ASSUME IInv, PushAllocNode
    PROVE  IInv'
<1>1. TypeOK /\ Links /\ Pushing BY DEF IInv, NodesInOnePlace
<1>2. PICK n \in unallocated : /\ push' = [push EXCEPT !.pc = "link", !.node = n]
                               /\ unallocated' = unallocated \ {n}
  BY DEF PushAllocNode
<1>3. /\ push.pc = "allocNode"
      /\ UNCHANGED <<m_head, m_tail, m_next, m_vals, m_nodesPool, pop, sent, received, home, history>>
  BY DEF PushAllocNode, queue, memory, history
<1>4. n \in Nodes /\ push'.pc = "link" /\ push'.val = push.val /\ push'.node = n
      /\ push' \in [pc : PushPCs, val : Values, node : Pointers]
  BY <1>1, <1>2 DEF TypeOK, PushPCs, Pointers
<1>5. Live' = Live /\ LiveNodes' = LiveNodes /\ Counts' /\ Chain' /\ Ends' /\ Popping'
      /\ Emptied' = Emptied
  BY <1>3, <1>4, NotYetOut
<1>6. TypeOK' BY <1>1, <1>2, <1>3, <1>4 DEF TypeOK
<1>7. NodesInOnePlace'
  <2>1. InHand = {} /\ InHand' = {n} BY <1>3, <1>4 DEF InHand
  <2>2. Pooled' = Pooled BY <1>3 DEF Pooled
  <2> QED BY <1>2, <1>3, <1>5, <1>6, <2>1, <2>2 DEF IInv, NodesInOnePlace
<1>8. Links' BY <1>1, <1>3, <1>4, <1>5 DEF Links
<1>9. Pushing' BY <1>1, <1>3, <1>4 DEF Pushing
<1>10. UnreadKept' BY <1>3, <1>5, Kept
<1> QED BY <1>5, <1>7, <1>8, <1>9, <1>10 DEF IInv

LEMMA PushFailsKeeps ==
    ASSUME IInv, PushFails
    PROVE  IInv'
<1>1. TypeOK /\ Links /\ Pushing BY DEF IInv, NodesInOnePlace
<1>2. /\ push.pc = "allocNode" /\ push' = [pc |-> "idle", val |-> NULL, node |-> NULL]
      /\ UNCHANGED <<m_head, m_tail, m_next, m_vals, m_nodesPool, unallocated, pop,
                     sent, received, home, history>>
  BY DEF PushFails, Idle, queue, memory, history
<1>3. push'.pc = "idle" /\ push' \in [pc : PushPCs, val : Values, node : Pointers]
  BY <1>2 DEF PushPCs, Values, Pointers
<1>4. Live' = Live /\ Counts' /\ Chain' /\ Ends' /\ Popping' /\ Emptied' = Emptied
  BY <1>2, <1>3, NotYetOut
<1>5. TypeOK' BY <1>1, <1>2, <1>3 DEF TypeOK
<1>6. NodesInOnePlace'
  <2>1. InHand' = InHand BY <1>2, <1>3 DEF InHand
  <2> QED BY <1>2, <1>4, <1>5, <2>1, PlacesKept
<1>7. Links' BY <1>1, <1>2, <1>3, <1>4 DEF Links
<1>8. Pushing' BY <1>3 DEF Pushing
<1>9. UnreadKept' BY <1>2, <1>4, Kept
<1> QED BY <1>4, <1>6, <1>7, <1>8, <1>9 DEF IInv

\* The full node at the tail comes last, so that no other full node's link is lost.
LEMMA PushLinkKeeps ==
    ASSUME IInv, PushLink
    PROVE  IInv'
<1> DEFINE n == Len(sent)
<1>1. TypeOK /\ Links /\ Pushing /\ Chain BY DEF IInv, NodesInOnePlace
<1>2. /\ push.pc = "link" /\ push' = [push EXCEPT !.pc = "clear"]
      /\ m_next' = IF m_tail = NoAddress THEN m_next ELSE [m_next EXCEPT ![m_tail.node] = push.node]
      /\ UNCHANGED <<m_head, m_tail, m_vals, m_nodesPool, unallocated, pop, sent, received, home,
                     history>>
  BY DEF PushLink, queue, history
<1>3. push'.pc = "clear" /\ push'.val = push.val /\ push'.node = push.node
      /\ push' \in [pc : PushPCs, val : Values, node : Pointers]
  BY <1>1, <1>2 DEF TypeOK, PushPCs
<1>4. push.node \in Nodes /\ push.node \in Pointers BY <1>1, <1>2 DEF Pushing, Pointers
<1>5. n > 0 => /\ n \in Live /\ home[n].slot = Slots /\ m_tail.node = home[n].node
               /\ m_tail # NoAddress /\ m_tail.node \in Nodes
  BY <1>1, <1>2, AtTail, Shape DEF Pushing
<1>6. /\ m_next' \in [Nodes -> Pointers]
      /\ n > 0 => m_next'[home[n].node] = push.node
      /\ \A x \in Nodes : (n > 0 /\ x = home[n].node) \/ m_next'[x] = m_next[x]
  <2>1. n = 0 <=> m_tail = NoAddress BY AtTail
  <2>2. m_next \in [Nodes -> Pointers] /\ n \in Nat BY <1>1, Shape DEF TypeOK
  <2>3. CASE n = 0 BY <1>2, <2>1, <2>2, <2>3
  <2>4. CASE n > 0 BY <1>2, <1>4, <1>5, <2>2, <2>4
  <2> QED BY <2>2, <2>3, <2>4
<1>7. Live' = Live /\ Counts' /\ Chain' /\ Ends' /\ Popping' /\ Emptied' = Emptied
  BY <1>2, <1>3, NotYetOut
<1>8. TypeOK' BY <1>1, <1>2, <1>3, <1>6 DEF TypeOK
<1>9. NodesInOnePlace'
  <2>1. InHand' = InHand BY <1>2, <1>3 DEF InHand
  <2> QED BY <1>2, <1>7, <1>8, <2>1, PlacesKept
<1>10. Links'
  <2>1. ASSUME NEW i \in Live, i < n, home[i].slot = Slots
        PROVE  m_next'[home[i].node] = home[i + 1].node
    <3>1. i \in Nat /\ n \in Nat /\ n > 0 /\ Slots \in Nat /\ home[i].node \in Nodes BY <2>1, Shape
    <3>2. home[i].node # home[n].node
      <4> SUFFICES ASSUME home[i].node = home[n].node PROVE FALSE OBVIOUS
      <4>1. home[n].slot = home[i].slot + (n - i) BY <1>1, <1>5, <2>1, <3>1 DEF Chain
      <4>2. home[n].slot = Slots BY <1>5, <3>1
      <4> HIDE DEF n
      <4> QED BY <2>1, <3>1, <4>1, <4>2
    <3>3. m_next[home[i].node] = home[i + 1].node BY <1>1, <2>1, Shape DEF Links
    <3> QED BY <1>6, <3>1, <3>2, <3>3
  <2> QED BY <1>2, <1>3, <1>6, <1>7, <2>1, Shape DEF Links
<1>11. Pushing' BY <1>1, <1>2, <1>3 DEF Pushing
<1>12. UnreadKept' BY <1>2, <1>7, Kept
<1> QED BY <1>7, <1>9, <1>10, <1>11, <1>12 DEF IInv

LEMMA PushClearNextKeeps ==
    ASSUME IInv, PushClearNext
    PROVE  IInv'
<1>1. TypeOK /\ Links /\ Pushing BY DEF IInv, NodesInOnePlace
<1>2. /\ push.pc = "clear" /\ push' = [push EXCEPT !.pc = "first"]
      /\ m_next' = [m_next EXCEPT ![push.node] = NULL]
      /\ UNCHANGED <<m_head, m_tail, m_vals, m_nodesPool, unallocated, pop, sent, received, home,
                     history>>
  BY DEF PushClearNext, queue, history
<1>3. push'.pc = "first" /\ push'.val = push.val /\ push'.node = push.node
      /\ push' \in [pc : PushPCs, val : Values, node : Pointers]
  BY <1>1, <1>2 DEF TypeOK, PushPCs
<1>4. push.node \in Nodes /\ \A i \in Live : home[i].node # push.node BY <1>2, NotLive
<1>5. m_next' \in [Nodes -> Pointers] /\ \A x \in Nodes \ {push.node} : m_next'[x] = m_next[x]
  BY <1>1, <1>2 DEF TypeOK, Pointers
<1>6. \A i \in Live : m_next'[home[i].node] = m_next[home[i].node]
  BY <1>4, <1>5, Shape
<1>7. Live' = Live /\ Counts' /\ Chain' /\ Ends' /\ Popping' /\ Emptied' = Emptied
  BY <1>2, <1>3, NotYetOut
<1>8. TypeOK' BY <1>1, <1>2, <1>3, <1>5 DEF TypeOK
<1>9. NodesInOnePlace'
  <2>1. InHand' = InHand BY <1>2, <1>3 DEF InHand
  <2> QED BY <1>2, <1>7, <1>8, <2>1, PlacesKept
<1>10. Links'
  <2>1. Len(sent) > 0 => Len(sent) \in Live BY AtTail
  <2> QED BY <1>1, <1>2, <1>3, <1>6, <1>7, <2>1 DEF Links
<1>11. Pushing' BY <1>1, <1>2, <1>3 DEF Pushing
<1>12. UnreadKept' BY <1>2, <1>7, Kept
<1> QED BY <1>7, <1>9, <1>10, <1>11, <1>12 DEF IInv

LEMMA PushWriteFirstKeeps ==
    ASSUME IInv, PushWriteFirst
    PROVE  IInv'
<1>1. TypeOK /\ Links /\ Pushing /\ UnreadKept BY DEF IInv, NodesInOnePlace
<1>2. /\ push.pc = "first" /\ push' = [push EXCEPT !.pc = "newTail"]
      /\ m_vals' = [m_vals EXCEPT ![push.node][1] = push.val]
      /\ UNCHANGED <<m_head, m_tail, m_next, m_nodesPool, unallocated, pop, sent, received, home,
                     history>>
  BY DEF PushWriteFirst, queue, history
<1>3. push'.pc = "newTail" /\ push'.val = push.val /\ push'.node = push.node
      /\ push' \in [pc : PushPCs, val : Values, node : Pointers]
  BY <1>1, <1>2 DEF TypeOK, PushPCs
<1>4. push.node \in Nodes /\ \A i \in Live : home[i].node # push.node BY <1>2, NotLive
<1>5. /\ m_vals' \in [Nodes -> [1 .. Slots -> Values]]
      /\ m_vals'[push.node][1] = push.val
      /\ \A x \in Nodes \ {push.node} : m_vals'[x] = m_vals[x]
  <2>1. 1 \in 1 .. Slots BY Shape
  <2> QED BY <1>1, <1>2, <1>4, <2>1 DEF TypeOK
<1>6. Live' = Live /\ Counts' /\ Chain' /\ Ends' /\ Popping' /\ Emptied' = Emptied
  BY <1>2, <1>3, NotYetOut
<1>7. TypeOK' BY <1>1, <1>2, <1>3, <1>5 DEF TypeOK
<1>8. NodesInOnePlace'
  <2>1. InHand' = InHand BY <1>2, <1>3 DEF InHand
  <2> QED BY <1>2, <1>6, <1>7, <2>1, PlacesKept
<1>9. Links' BY <1>1, <1>2, <1>3, <1>6 DEF Links
<1>10. Pushing' BY <1>1, <1>2, <1>3, <1>5 DEF Pushing
<1>11. UnreadKept'
  <2>1. ASSUME NEW i \in Len(received) + 1 .. Len(sent)
        PROVE  m_vals'[home[i].node][home[i].slot] = sent[i]
    <3>1. i \in Live /\ home[i].node \in Nodes BY Shape
    <3>2. m_vals'[home[i].node] = m_vals[home[i].node] BY <1>4, <1>5, <3>1
    <3> QED BY <1>1, <3>2 DEF UnreadKept
  <2> QED BY <1>1, <1>2, <2>1 DEF UnreadKept
<1> QED BY <1>6, <1>8, <1>9, <1>10, <1>11 DEF IInv

\* The node in the producer's hand becomes the last one of the queue.
LEMMA PushNewTailKeeps ==
    ASSUME IInv, PushNewTail
    PROVE  IInv'
<1> DEFINE n == Len(sent)
           a == [node |-> push.node, slot |-> 1]
<1>1. TypeOK /\ Ends /\ Links /\ Pushing /\ Popping /\ UnreadKept /\ NodesInOnePlace
  BY DEF IInv, NodesInOnePlace
<1>2. /\ push.pc = "newTail" /\ Publish(a) /\ m_tail' = After(a) /\ received' = received
      /\ push' = IF m_tail = NoAddress THEN [push EXCEPT !.pc = "setHead"]
                 ELSE [pc |-> "idle", val |-> NULL, node |-> NULL]
      /\ UNCHANGED <<m_head, m_next, m_vals, m_nodesPool, unallocated, pop, received>>
  BY DEF PushNewTail, Publish, Idle, memory
<1>3. /\ push'.pc = IF n = 0 THEN "setHead" ELSE "idle"
      /\ n = 0 => push'.node = push.node
      /\ push' \in [pc : PushPCs, val : Values, node : Pointers]
  <2>1. n = 0 <=> m_tail = NoAddress BY AtTail
  <2> QED BY <1>1, <1>2, <2>1 DEF TypeOK, PushPCs, Values, Pointers
<1>4. /\ push.node \in Nodes /\ push.node \notin LiveNodes /\ push.val \in Messages
      /\ m_vals[push.node][1] = push.val
      /\ n > 0 => home[n].slot = Slots
      /\ n \in Nat /\ Slots \in Nat \ {0} /\ Len(home) = n
      /\ Len(received) \in Nat /\ Len(received) <= n
  <2>1. push.node \notin LiveNodes BY <1>2, NotLive DEF LiveNodes
  <2> QED BY <1>1, <1>2, <2>1, NotLive, Shape DEF Pushing
<1>5. a \in [node : Nodes, slot : 1 .. Slots] /\ a.node = push.node /\ a.slot = 1 BY <1>4
<1>6. /\ sent' \in Seq(Messages) /\ home' \in Seq([node : Nodes, slot : 1 .. Slots])
      /\ Len(sent') = n + 1
      /\ \A i \in 1 .. n : sent'[i] = sent[i] /\ home'[i] = home[i]
      /\ sent'[n + 1] = push.val /\ home'[n + 1] = a
      /\ Live' = Live \cup {n + 1}
      /\ LiveNodes' = LiveNodes \cup {push.node}
      /\ Counts' /\ Chain'
  <2>1. IF n = 0 \/ home[n].slot = Slots THEN a.slot = 1 /\ a.node \notin LiveNodes
        ELSE a = After(home[n])
    BY <1>4, <1>5
  <2> HIDE DEF a
  <2> QED BY <1>2, <1>4, <1>5, <2>1, Published
<1> HIDE DEF a
<1>7. TypeOK'
  <2>1. m_tail' \in Address BY <1>2, <1>5, Behind
  <2> QED BY <1>1, <1>2, <1>3, <1>6, <2>1 DEF TypeOK
<1>8. NodesInOnePlace'
  <2>1. InHand = {push.node} /\ InHand' = {} BY <1>2, <1>3 DEF InHand
  <2>2. Emptied' = Emptied /\ Pooled' = Pooled BY <1>2 DEF Emptied, Pooled
  <2> QED BY <1>1, <1>2, <1>6, <1>7, <2>1, <2>2 DEF NodesInOnePlace
<1>9. Ends'
  <2>1. m_tail' = After(home'[Len(sent')]) /\ Len(sent') # 0 BY <1>2, <1>4, <1>6
  <2>2. CASE Len(received) > 0
    <3>1. home'[Len(received)] = home[Len(received)] BY <1>4, <1>6, <2>2
    <3> QED BY <1>1, <1>2, <2>1, <2>2, <3>1 DEF Ends
  <2>3. CASE Len(received) = 0 /\ n = 0 BY <1>1, <1>2, <1>3, <1>4, <2>1, <2>3 DEF Ends
  <2>4. CASE Len(received) = 0 /\ n > 0
    <3>1. home'[1] = home[1] BY <1>4, <1>6, <2>4
    <3>2. push'.pc # "setHead" BY <1>3, <2>4
    <3> QED BY <1>1, <1>2, <2>1, <2>4, <3>1, <3>2 DEF Ends
  <2> QED BY <1>4, <2>2, <2>3, <2>4
<1>10. Links'
  <2> SUFFICES ASSUME NEW i \in Live', i < n + 1, home'[i].slot = Slots
               PROVE  m_next'[home'[i].node] = home'[i + 1].node
    BY <1>2, <1>3, <1>6 DEF Links, Counts
  <2>1. i \in Live /\ i \in 1 .. n /\ home'[i] = home[i] BY <1>4, <1>6, Shape
  <2>2. CASE i = n
    <3>1. m_next[home[n].node] = push.node BY <1>1, <1>2, <1>4, <2>1, <2>2 DEF Links
    <3> QED BY <1>2, <1>5, <1>6, <2>1, <2>2, <3>1
  <2>3. CASE i # n
    <3>1. i < n /\ i + 1 \in 1 .. n BY <1>4, <2>1, <2>3
    <3>2. m_next[home[i].node] = home[i + 1].node BY <1>1, <1>4, <2>1, <3>1 DEF Links
    <3> QED BY <1>2, <1>6, <2>1, <3>1, <3>2
  <2> QED BY <2>2, <2>3
<1>11. Pushing'
  <2>1. push'.pc = "setHead" => Len(sent') > 0 /\ Len(received') = 0 /\ push'.node = home'[1].node
    BY <1>2, <1>3, <1>4, <1>5, <1>6
  <2> QED BY <1>3, <2>1 DEF Pushing
<1>12. Popping'
  <2>1. pop.pc = "head" => IF pop.tail = NoAddress THEN Len(received) = 0
                           ELSE \E k \in Live' : pop.tail = After(home'[k])
    BY <1>1, <1>6, Shape DEF Popping
  <2>2. Len(received) < n => sent'[Len(received) + 1] = sent[Len(received) + 1]
                             /\ home'[Len(received) + 1] = home[Len(received) + 1]
    <3>1. Len(received) < n => Len(received) + 1 \in 1 .. n BY <1>4
    <3> QED BY <1>6, <3>1
  <2>3. Len(received) > 0 => home'[Len(received)] = home[Len(received)]
    <3>1. Len(received) > 0 => Len(received) \in 1 .. n BY <1>4
    <3> QED BY <1>6, <3>1
  <2> QED BY <1>1, <1>2, <1>4, <1>6, <2>1, <2>2, <2>3 DEF Popping
<1>13. UnreadKept'
  <2>1. ASSUME NEW i \in Len(received) + 1 .. n + 1
        PROVE  m_vals[home'[i].node][home'[i].slot] = sent'[i]
    <3>1. CASE i = n + 1 BY <1>4, <1>5, <1>6, <3>1
    <3>2. CASE i # n + 1
      <4>1. i \in 1 .. n /\ i \in Len(received) + 1 .. n BY <1>4, <3>2
      <4> QED BY <1>1, <1>6, <4>1 DEF UnreadKept
    <3> QED BY <3>1, <3>2
  <2> QED BY <1>1, <1>2, <1>6, <2>1 DEF UnreadKept
<1> QED BY <1>6, <1>8, <1>9, <1>10, <1>11, <1>12, <1>13 DEF IInv

LEMMA PushSetHeadKeeps ==
    ASSUME IInv, PushSetHead
    PROVE  IInv'
<1>1. TypeOK /\ Ends /\ Links /\ Pushing /\ Popping /\ Chain BY DEF IInv, NodesInOnePlace
<1>2. /\ push.pc = "setHead" /\ push' = [pc |-> "idle", val |-> NULL, node |-> NULL]
      /\ m_head' = [node |-> push.node, slot |-> 1]
      /\ UNCHANGED <<m_tail, m_next, m_vals, m_nodesPool, unallocated, pop, sent, received, home,
                     history>>
  BY DEF PushSetHead, Idle, memory, history
<1>3. push'.pc = "idle" /\ push' \in [pc : PushPCs, val : Values, node : Pointers]
  BY <1>2 DEF PushPCs, Values, Pointers
<1>4. /\ Len(sent) > 0 /\ Len(received) = 0 /\ push.node = home[1].node
      /\ home[1].slot = 1 /\ home[1] \in [node : Nodes, slot : 1 .. Slots]
  BY <1>1, <1>2, Shape DEF Pushing, Chain
<1>5. m_head' = home[1] BY <1>2, <1>4
<1>6. m_head = NoAddress BY <1>1, <1>2, <1>4 DEF Ends
<1>7. pop.pc \in {"idle", "head"}
  <2>1. pop.pc \in PopPCs BY <1>1 DEF TypeOK
  <2> QED BY <1>1, <1>4, <1>6, <2>1 DEF Popping, PopPCs
<1>8. Live' = Live /\ Counts' /\ Chain' BY <1>2, HistoryKept
<1>9. TypeOK'
  <2>1. m_head' \in Address BY <1>4, <1>5, Shape DEF Address
  <2> QED BY <1>1, <1>2, <1>3, <2>1 DEF TypeOK
<1>10. NodesInOnePlace'
  <2>1. InHand' = InHand /\ Emptied' = Emptied BY <1>2, <1>3 DEF InHand, Emptied
  <2> QED BY <1>2, <1>9, <2>1, PlacesKept
<1>11. Ends' BY <1>1, <1>2, <1>3, <1>4, <1>5 DEF Ends, After
<1>12. Links' BY <1>1, <1>2, <1>3, <1>8 DEF Links
<1>13. Pushing' BY <1>3 DEF Pushing
<1>14. Popping' BY <1>1, <1>2, <1>7, <1>8 DEF Popping, After
<1>15. UnreadKept' BY <1>2, <1>14, Kept
<1> QED BY <1>8, <1>10, <1>11, <1>12, <1>13, <1>14, <1>15 DEF IInv

-----------------------------------------------------------------------------
(* The popping thread's steps. *)

PopRecords == [pc : PopPCs, tail : Address \cup {NoAddress}, head : Address \cup {NoAddress},
               node : Pointers, res : Values]

\* A step of the consumer that only looks: what it knows is left to show.
LEMMA Looks ==
    ASSUME IInv, pop' \in PopRecords, pop.pc # "recycle", pop'.pc # "recycle",
           UNCHANGED <<queue, memory, m_nodesPool, unallocated, push, history>>,
           pop'.pc \in {"slot", "advance", "next"} => pop'.head # NoAddress,
           pop'.pc \in {"first", "newHead"} => pop'.node \in Nodes,
           Popping'
    PROVE  IInv'
<1>1. UNCHANGED <<m_head, m_tail, m_next, m_vals, m_nodesPool, unallocated, push, sent, received,
                  home, history>>
  BY DEF queue, memory, history
<1>2. TypeOK' BY <1>1 DEF IInv, NodesInOnePlace, TypeOK, PopRecords
<1>3. Live' = Live /\ Counts' /\ Chain' BY <1>1, HistoryKept
<1>4. NodesInOnePlace'
  <2>1. InHand' = InHand /\ Emptied' = Emptied BY <1>1 DEF InHand, Emptied
  <2> QED BY <1>1, <1>2, <2>1, PlacesKept
<1>5. Ends' BY <1>1 DEF IInv, Ends, After
<1>6. Links' BY <1>1, <1>3 DEF IInv, Links
<1>7. Pushing' BY <1>1 DEF IInv, Pushing
<1>8. UnreadKept' BY <1>1, Shape DEF IInv, UnreadKept
<1> QED BY <1>3, <1>4, <1>5, <1>6, <1>7, <1>8 DEF IInv

LEMMA PopLoadTailKeeps ==
    ASSUME IInv, PopLoadTail
    PROVE  IInv'
<1>1. TypeOK /\ Ends BY DEF IInv, NodesInOnePlace
<1>2. /\ pop.pc = "idle"
      /\ pop' = [pc |-> "head", tail |-> m_tail, head |-> NoAddress, node |-> NULL, res |-> NULL]
      /\ UNCHANGED <<queue, memory, m_nodesPool, unallocated, push, history>>
      /\ UNCHANGED <<sent, received, home>>
  BY DEF PopLoadTail, NotPopping, history
<1>3. pop' \in PopRecords BY <1>1, <1>2 DEF TypeOK, PopRecords, PopPCs, Pointers, Values
<1>4. IF m_tail = NoAddress THEN Len(received) = 0 ELSE \E k \in Live : m_tail = After(home[k])
  <2>1. CASE Len(sent) = 0 BY <2>1, AtTail, Shape
  <2>2. CASE Len(sent) # 0
    <3>1. Len(sent) \in Live /\ m_tail # NoAddress BY <2>2, AtTail, Shape
    <3>2. m_tail = After(home[Len(sent)]) BY <1>1, <2>2 DEF Ends
    <3> QED BY <3>1, <3>2
  <2> QED BY <2>1, <2>2
<1>5. Live' = Live BY <1>2, HistoryKept
<1>6. Popping' BY <1>2, <1>4, <1>5 DEF Popping, After
<1> QED BY <1>2, <1>3, <1>6, Looks

\* A head that is not the tail as it was has a message behind it.
LEMMA PopLoadHeadKeeps ==
    ASSUME IInv, PopLoadHead
    PROVE  IInv'
<1>1. TypeOK /\ Ends /\ Popping BY DEF IInv, NodesInOnePlace
<1>2. /\ pop.pc = "head"
      /\ UNCHANGED <<queue, memory, m_nodesPool, unallocated, push, history>>
      /\ UNCHANGED <<sent, received, home, m_head>>
  BY DEF PopLoadHead, history, queue
<1>3. CASE m_head = pop.tail \/ m_head = NoAddress
  <2>1. pop' = [pc |-> "idle", tail |-> NoAddress, head |-> NoAddress, node |-> NULL, res |-> NULL]
    BY <1>3 DEF PopLoadHead, NotPopping
  <2>2. pop' \in PopRecords /\ pop'.pc = "idle"
    BY <2>1 DEF PopRecords, PopPCs, Pointers, Values
  <2>3. Popping' BY <2>2 DEF Popping
  <2> QED BY <1>2, <2>2, <2>3, Looks
<1>4. CASE m_head # pop.tail /\ m_head # NoAddress
  <2>1. pop' = [pop EXCEPT !.pc = IF AtBoundary(m_head) THEN "next" ELSE "slot", !.head = m_head]
    BY <1>4 DEF PopLoadHead
  <2>2. /\ pop' \in PopRecords
        /\ pop'.pc = IF AtBoundary(m_head) THEN "next" ELSE "slot"
        /\ pop'.head = m_head
    BY <1>1, <2>1 DEF TypeOK, PopRecords, PopPCs
  <2>3. Len(received) < Len(sent)
    <3> SUFFICES ASSUME Len(received) = Len(sent) PROVE FALSE BY Shape
    <3>1. CASE Len(sent) = 0 BY <1>1, <1>4, <3>1 DEF Ends
    <3>2. CASE Len(sent) # 0
      <4>1. pop.tail # NoAddress BY <1>1, <1>2, <3>2 DEF Popping
      <4>2. PICK k \in Live : pop.tail = After(home[k]) BY <1>1, <1>2, <4>1 DEF Popping
      <4>3. k = Len(received) BY Shape
      <4>4. m_head = After(home[Len(received)]) BY <1>1, <3>2, Shape DEF Ends
      <4> QED BY <1>4, <4>2, <4>3, <4>4
    <3> QED BY <3>1, <3>2
  <2>4. AtBoundary(m_head) => Len(received) > 0 /\ home[Len(received)].slot = Slots
    BY <1>4, <2>3, AtHead
  <2>5. Popping' BY <1>2, <1>4, <2>2, <2>3, <2>4 DEF Popping, AtBoundary
  <2> QED BY <1>2, <1>4, <2>2, <2>5, Looks
<1> QED BY <1>3, <1>4

LEMMA PopReadSlotKeeps ==
    ASSUME IInv, PopReadSlot
    PROVE  IInv'
<1> DEFINE r == Len(received)
           m == m_vals[pop.head.node][pop.head.slot]
<1>1. TypeOK /\ UnreadKept /\ Popping BY DEF IInv, NodesInOnePlace
<1>2. /\ pop.pc = "slot" /\ pop' = [pop EXCEPT !.pc = "advance", !.res = m]
      /\ UNCHANGED <<queue, memory, m_nodesPool, unallocated, push, history>>
      /\ UNCHANGED <<sent, received, home, m_head>>
  BY DEF PopReadSlot, history, queue
<1>3. r < Len(sent) /\ pop.head = m_head /\ m_head # NoAddress /\ ~AtBoundary(m_head)
  BY <1>1, <1>2 DEF Popping
<1>4. r + 1 \in 1 .. Len(sent) /\ m_head = home[r + 1] BY <1>3, AtHead
<1>5. m = sent[r + 1] /\ m \in Messages
  <2>1. r + 1 \in r + 1 .. Len(sent) BY <1>4, Shape
  <2>2. m_vals[home[r + 1].node][home[r + 1].slot] = sent[r + 1] BY <1>1, <2>1 DEF UnreadKept
  <2> QED BY <1>3, <1>4, <2>2, Shape
<1> HIDE DEF m
<1>6. pop' \in PopRecords /\ pop'.pc = "advance" /\ pop'.head = m_head /\ pop'.res = sent[r + 1]
  BY <1>1, <1>2, <1>3, <1>5 DEF TypeOK, PopRecords, PopPCs, Values
<1>7. Popping' BY <1>2, <1>3, <1>6 DEF Popping, AtBoundary
<1> QED BY <1>2, <1>3, <1>6, <1>7, Looks

LEMMA PopReadNextKeeps ==
    ASSUME IInv, PopReadNext
    PROVE  IInv'
<1> DEFINE r == Len(received)
<1>1. TypeOK /\ Links /\ Popping BY DEF IInv, NodesInOnePlace
<1>2. /\ pop.pc = "next" /\ pop' = [pop EXCEPT !.pc = "first", !.node = m_next[pop.head.node]]
      /\ UNCHANGED <<queue, memory, m_nodesPool, unallocated, push, history>>
      /\ UNCHANGED <<sent, received, home, m_head>>
  BY DEF PopReadNext, history, queue
<1>3. r < Len(sent) /\ pop.head = m_head /\ m_head # NoAddress /\ r > 0 /\ home[r].slot = Slots
  BY <1>1, <1>2 DEF Popping
<1>4. r \in Live /\ r + 1 \in 1 .. Len(sent) /\ m_head.node = home[r].node
  <2>1. r \in Live /\ home[r] \in [node : Nodes, slot : 1 .. Slots] BY <1>3, Shape
  <2>2. m_head = After(home[r]) BY <1>3 DEF IInv, Ends
  <2> QED BY <1>3, <2>1, <2>2, AtHead, Behind
<1>5. m_next[pop.head.node] = home[r + 1].node /\ home[r + 1].node \in Nodes
  <2>1. m_next[home[r].node] = home[r + 1].node BY <1>1, <1>3, <1>4, Shape DEF Links
  <2> QED BY <1>3, <1>4, <2>1, Shape
<1>6. pop' \in PopRecords /\ pop'.pc = "first" /\ pop'.head = m_head /\ pop'.node = home[r + 1].node
  BY <1>1, <1>2, <1>3, <1>5 DEF TypeOK, PopRecords, PopPCs, Pointers
<1>7. Popping' BY <1>2, <1>3, <1>6 DEF Popping, AtBoundary
<1> QED BY <1>2, <1>3, <1>5, <1>6, <1>7, Looks

LEMMA PopReadFirstKeeps ==
    ASSUME IInv, PopReadFirst
    PROVE  IInv'
<1> DEFINE r == Len(received)
           m == m_vals[pop.node][1]
<1>1. TypeOK /\ UnreadKept /\ Popping BY DEF IInv, NodesInOnePlace
<1>2. /\ pop.pc = "first" /\ pop' = [pop EXCEPT !.pc = "newHead", !.res = m]
      /\ UNCHANGED <<queue, memory, m_nodesPool, unallocated, push, history>>
      /\ UNCHANGED <<sent, received, home, m_head>>
  BY DEF PopReadFirst, history, queue
<1>3. /\ r < Len(sent) /\ pop.head = m_head /\ m_head # NoAddress /\ r > 0
      /\ home[r].slot = Slots /\ pop.node = home[r + 1].node
  BY <1>1, <1>2 DEF Popping
<1>4. r + 1 \in 1 .. Len(sent) /\ home[r + 1].slot = 1 /\ pop.node \in Nodes
  <2>1. home[r] \in [node : Nodes, slot : 1 .. Slots] BY <1>3, Shape
  <2>2. m_head = After(home[r]) BY <1>3 DEF IInv, Ends
  <2> QED BY <1>3, <2>1, <2>2, AtHead, Behind, Shape
<1>5. m = sent[r + 1] /\ m \in Messages
  <2>1. r + 1 \in r + 1 .. Len(sent) BY <1>4, Shape
  <2>2. m_vals[home[r + 1].node][home[r + 1].slot] = sent[r + 1] BY <1>1, <2>1 DEF UnreadKept
  <2> QED BY <1>3, <1>4, <2>2, Shape
<1> HIDE DEF m
<1>6. pop' \in PopRecords /\ pop'.pc = "newHead" /\ pop'.head = m_head
      /\ pop'.node = home[r + 1].node /\ pop'.res = sent[r + 1]
  BY <1>1, <1>2, <1>3, <1>5 DEF TypeOK, PopRecords, PopPCs, Values
<1>7. Popping' BY <1>2, <1>3, <1>6 DEF Popping, AtBoundary
<1> QED BY <1>2, <1>3, <1>4, <1>6, <1>7, Looks

LEMMA PopAdvanceKeeps ==
    ASSUME IInv, PopAdvance
    PROVE  IInv'
<1> DEFINE r == Len(received)
<1>1. TypeOK /\ Ends /\ Links /\ Pushing /\ Popping /\ UnreadKept /\ NodesInOnePlace
  BY DEF IInv, NodesInOnePlace
<1>2. /\ pop.pc = "advance" /\ m_head' = After(pop.head) /\ received' = Append(received, pop.res)
      /\ pop' = [pc |-> "idle", tail |-> NoAddress, head |-> NoAddress, node |-> NULL, res |-> NULL]
      /\ UNCHANGED <<m_tail, m_next, m_vals, m_nodesPool, unallocated, push, sent, home>>
  BY DEF PopAdvance, Consume, NotPopping, memory
<1>3. pop' \in PopRecords /\ pop'.pc = "idle" BY <1>2 DEF PopRecords, PopPCs, Pointers, Values
<1>4. /\ r < Len(sent) /\ pop.head = m_head /\ m_head # NoAddress /\ ~AtBoundary(m_head)
      /\ pop.res = sent[r + 1]
  BY <1>1, <1>2 DEF Popping
<1>5. /\ r + 1 \in 1 .. Len(sent) /\ m_head = home[r + 1] /\ r \in Nat
      /\ home[r + 1] \in [node : Nodes, slot : 1 .. Slots]
      /\ push.pc = "setHead" => r > 0
  BY <1>4, AtHead, Shape
<1>6. /\ received' \in Seq(Messages) /\ Len(received') = r + 1
      /\ Live' = Live \ {r} /\ LiveNodes' = LiveNodes
      /\ Counts' /\ Chain'
  <2>1. received' = Append(received, sent[r + 1]) /\ UNCHANGED <<sent, home>> BY <1>2, <1>4
  <2> QED BY <1>4, <2>1, Consumed
<1>7. TypeOK'
  <2>1. m_head' \in Address BY <1>2, <1>4, <1>5, Behind
  <2> QED BY <1>1, <1>2, <1>3, <1>6, <2>1 DEF TypeOK, PopRecords
<1>8. NodesInOnePlace'
  <2>1. InHand' = InHand /\ Emptied' = Emptied /\ Pooled' = Pooled
    BY <1>2, <1>3 DEF InHand, Emptied, Pooled
  <2> QED BY <1>1, <1>2, <1>6, <1>7, <2>1 DEF NodesInOnePlace
<1>9. Ends'
  <2>1. m_head' = After(home'[Len(received')]) /\ Len(received') > 0 BY <1>2, <1>4, <1>5, <1>6
  <2>2. m_tail' = IF Len(sent') = 0 THEN NoAddress ELSE After(home'[Len(sent')])
    BY <1>1, <1>2 DEF Ends
  <2> QED BY <2>1, <2>2 DEF Ends
<1>10. Links' BY <1>1, <1>2, <1>6 DEF Links
<1>11. Pushing'
  <2>1. push.pc # "setHead"
    <3>1. push.pc = "setHead" => r = 0 BY <1>1 DEF Pushing
    <3> QED BY <1>5, <3>1
  <2> QED BY <1>1, <1>2, <2>1 DEF Pushing
<1>12. Popping' BY <1>3 DEF Popping
<1>13. UnreadKept'
  <2>1. \A i \in r + 2 .. Len(sent) : m_vals[home[i].node][home[i].slot] = sent[i]
    <3>1. \A i \in r + 2 .. Len(sent) : i \in r + 1 .. Len(sent) BY <1>5
    <3> QED BY <1>1, <3>1 DEF UnreadKept
  <2>2. Len(received') + 1 = r + 2 BY <1>5, <1>6
  <2> QED BY <1>2, <1>3, <2>1, <2>2 DEF UnreadKept
<1> QED BY <1>6, <1>8, <1>9, <1>10, <1>11, <1>12, <1>13 DEF IInv

\* The node left behind is live no more; the consumer still holds on to it.
LEMMA PopNewHeadKeeps ==
    ASSUME IInv, PopNewHead
    PROVE  IInv'
<1> DEFINE r == Len(received)
<1>1. TypeOK /\ Ends /\ Links /\ Pushing /\ Popping /\ UnreadKept /\ NodesInOnePlace
  BY DEF IInv, NodesInOnePlace
<1>2. /\ pop.pc = "newHead" /\ m_head' = [node |-> pop.node, slot |-> 2]
      /\ received' = Append(received, pop.res)
      /\ pop' = [pop EXCEPT !.pc = "recycle"]
      /\ UNCHANGED <<m_tail, m_next, m_vals, m_nodesPool, unallocated, push, sent, home>>
  BY DEF PopNewHead, Consume, memory
<1>3. /\ pop' \in PopRecords /\ pop'.pc = "recycle" /\ pop'.head = pop.head
      /\ pop'.node = pop.node
  BY <1>1, <1>2 DEF TypeOK, PopRecords, PopPCs
<1>4. /\ r < Len(sent) /\ pop.head = m_head /\ m_head # NoAddress /\ r > 0
      /\ home[r].slot = Slots /\ pop.node = home[r + 1].node /\ pop.res = sent[r + 1]
  BY <1>1, <1>2 DEF Popping
<1>5. /\ r + 1 \in 1 .. Len(sent) /\ r \in Nat /\ r \in Live
      /\ home[r] \in [node : Nodes, slot : 1 .. Slots]
      /\ home[r + 1] \in [node : Nodes, slot : 1 .. Slots]
  BY <1>4, AtHead, Shape
<1>6. AtBoundary(m_head) /\ m_head.node = home[r].node /\ home[r + 1].slot = 1
  <2>1. m_head = After(home[r]) BY <1>1, <1>4 DEF Ends
  <2>2. AtBoundary(m_head) BY <1>4, <1>5, <2>1, Behind
  <2> QED BY <1>4, <2>2, AtHead
<1>7. /\ received' \in Seq(Messages) /\ Len(received') = r + 1
      /\ Live' = Live \ {r} /\ LiveNodes' = LiveNodes \ {m_head.node}
      /\ Counts' /\ Chain'
  <2>1. received' = Append(received, sent[r + 1]) /\ UNCHANGED <<sent, home>> BY <1>2, <1>4
  <2> QED BY <1>4, <1>6, <2>1, Consumed
<1>8. m_head' = After(home[r + 1])
  <2>1. After(home[r + 1]) = [node |-> pop.node, slot |-> 1 + 1] BY <1>4, <1>5, <1>6, Behind
  <2> QED BY <1>2, <2>1
<1>9. TypeOK'
  <2>1. m_head' \in Address BY <1>5, <1>8, Behind
  <2> QED BY <1>1, <1>2, <1>3, <1>7, <2>1 DEF TypeOK, PopRecords
<1>10. NodesInOnePlace'
  <2>1. InHand' = InHand /\ Pooled' = Pooled BY <1>2 DEF InHand, Pooled
  <2>2. Emptied = {} /\ Emptied' = {m_head.node} BY <1>2, <1>3, <1>4 DEF Emptied
  <2>3. m_head.node \in LiveNodes BY <1>5, <1>6, Shape
  <2> QED BY <1>1, <1>2, <1>7, <1>9, <2>1, <2>2, <2>3 DEF NodesInOnePlace
<1>11. Ends'
  <2>1. m_head' = After(home'[Len(received')]) /\ Len(received') > 0 BY <1>2, <1>5, <1>7, <1>8
  <2>2. m_tail' = IF Len(sent') = 0 THEN NoAddress ELSE After(home'[Len(sent')])
    BY <1>1, <1>2 DEF Ends
  <2> QED BY <2>1, <2>2 DEF Ends
<1>12. Links' BY <1>1, <1>2, <1>7 DEF Links
<1>13. Pushing'
  <2>1. push.pc # "setHead" BY <1>1, <1>4 DEF Pushing
  <2> QED BY <1>1, <1>2, <2>1 DEF Pushing
<1>14. Popping'
  <2>1. pop'.head.node \in Nodes /\ pop'.node \in Nodes BY <1>3, <1>4, <1>5, <1>6
  <2> QED BY <1>3, <1>5, <1>7, <2>1 DEF Popping
<1>15. UnreadKept'
  <2>1. \A i \in r + 2 .. Len(sent) : m_vals[home[i].node][home[i].slot] = sent[i]
    <3>1. \A i \in r + 2 .. Len(sent) : i \in r + 1 .. Len(sent) BY <1>5
    <3> QED BY <1>1, <3>1 DEF UnreadKept
  <2>2. Len(received') + 1 = r + 2 BY <1>5, <1>7
  <2>3. pop'.node # NULL BY <1>3, <1>4, <1>5, Shape
  <2> QED BY <1>2, <1>3, <2>1, <2>2, <2>3 DEF UnreadKept
<1> QED BY <1>7, <1>10, <1>11, <1>12, <1>13, <1>14, <1>15 DEF IInv

LEMMA PopRecycleKeeps ==
    ASSUME IInv, PopRecycle
    PROVE  IInv'
<1> DEFINE h == pop.head.node
<1>1. TypeOK /\ Ends /\ Links /\ Pushing /\ Popping /\ UnreadKept /\ NodesInOnePlace
  BY DEF IInv, NodesInOnePlace
<1>2. /\ pop.pc = "recycle" /\ m_nodesPool' = <<h>> \o m_nodesPool
      /\ m_next' = [m_next EXCEPT ![h] = IF m_nodesPool = <<>> THEN NULL ELSE Head(m_nodesPool)]
      /\ pop' = [pc |-> "idle", tail |-> NoAddress, head |-> NoAddress, node |-> NULL, res |-> NULL]
      /\ UNCHANGED <<m_head, m_tail, m_vals, unallocated, push, sent, received, home, history>>
  BY DEF PopRecycle, NotPopping, queue, history
<1>3. pop' \in PopRecords /\ pop'.pc = "idle" BY <1>2 DEF PopRecords, PopPCs, Pointers, Values
<1>4. h \in Nodes BY <1>1, <1>2 DEF Popping
<1>5. /\ \A i \in Live : home[i].node # h
      /\ push.pc \in {"link", "clear", "first", "newTail"} => push.node # h
  BY <1>2, NotLive DEF InHand
<1>6. /\ m_nodesPool \in Seq(Nodes) /\ Len(m_nodesPool) \in Nat
      /\ m_nodesPool' \in Seq(Nodes) /\ Len(m_nodesPool') = Len(m_nodesPool) + 1
      /\ m_nodesPool'[1] = h
      /\ \A i \in 1 .. Len(m_nodesPool) : m_nodesPool'[i + 1] = m_nodesPool[i]
      /\ DOMAIN m_nodesPool = 1 .. Len(m_nodesPool)
      /\ DOMAIN m_nodesPool' = 1 .. Len(m_nodesPool) + 1
  <2>1. m_nodesPool \in Seq(Nodes) BY <1>1 DEF TypeOK
  <2>2. <<h>> \in Seq(Nodes) /\ Len(<<h>>) = 1 /\ <<h>>[1] = h BY <1>4
  <2> HIDE DEF h
  <2> QED BY <1>2, <2>1, <2>2
<1>7. m_next' \in [Nodes -> Pointers] /\ \A x \in Nodes \ {h} : m_next'[x] = m_next[x]
  <2>1. (IF m_nodesPool = <<>> THEN NULL ELSE Head(m_nodesPool)) \in Pointers
    BY <1>6 DEF Pointers
  <2> QED BY <1>1, <1>2, <1>4, <2>1 DEF TypeOK
<1>8. Live' = Live /\ LiveNodes' = LiveNodes /\ Counts' /\ Chain' BY <1>2, HistoryKept
<1>9. TypeOK' BY <1>1, <1>2, <1>3, <1>6, <1>7 DEF TypeOK, PopRecords
<1>10. Pooled' = Pooled \cup {h}
  <2>1. Pooled = {m_nodesPool[i] : i \in 1 .. Len(m_nodesPool)} BY <1>6 DEF Pooled
  <2>2. Pooled' = {m_nodesPool'[i] : i \in 1 .. Len(m_nodesPool) + 1} BY <1>6 DEF Pooled
  <2>3. \A e \in Pooled : e \in Pooled'
    <3> SUFFICES ASSUME NEW i \in 1 .. Len(m_nodesPool) PROVE m_nodesPool[i] \in Pooled' BY <2>1
    <3>1. i + 1 \in 1 .. Len(m_nodesPool) + 1 BY <1>6
    <3> QED BY <1>6, <2>2, <3>1
  <2>4. h \in Pooled'
    <3>1. 1 \in 1 .. Len(m_nodesPool) + 1 BY <1>6
    <3> QED BY <1>6, <2>2, <3>1
  <2>5. \A e \in Pooled' : e \in Pooled \cup {h}
    <3> SUFFICES ASSUME NEW i \in 1 .. Len(m_nodesPool) + 1
                 PROVE  m_nodesPool'[i] \in Pooled \cup {h}
      BY <2>2
    <3>1. CASE i = 1 BY <1>6, <3>1
    <3>2. CASE i # 1
      <4>1. i - 1 \in 1 .. Len(m_nodesPool) /\ (i - 1) + 1 = i BY <1>6, <3>2
      <4>2. m_nodesPool'[i] = m_nodesPool[i - 1] BY <1>6, <4>1
      <4> QED BY <2>1, <4>1, <4>2
    <3> QED BY <3>1, <3>2
  <2> HIDE DEF h
  <2> QED BY <2>3, <2>4, <2>5
<1>11. Emptied = {h} /\ Emptied' = {} /\ InHand' = InHand BY <1>2, <1>3 DEF Emptied, InHand
<1>12. \A i, j \in DOMAIN m_nodesPool' : m_nodesPool'[i] = m_nodesPool'[j] => i = j
  <2>1. h \notin Pooled BY <1>1, <1>11 DEF NodesInOnePlace
  <2>2. \A i \in 1 .. Len(m_nodesPool) : m_nodesPool[i] # h BY <1>6, <2>1 DEF Pooled
  <2>3. ASSUME NEW i \in 1 .. Len(m_nodesPool) + 1, i # 1
        PROVE  i - 1 \in DOMAIN m_nodesPool /\ m_nodesPool'[i] = m_nodesPool[i - 1]
               /\ m_nodesPool'[i] # h
    <3>1. i - 1 \in 1 .. Len(m_nodesPool) /\ (i - 1) + 1 = i BY <1>6, <2>3
    <3>2. m_nodesPool'[(i - 1) + 1] = m_nodesPool[i - 1] BY <1>6, <3>1
    <3> QED BY <1>6, <2>2, <3>1, <3>2
  <2> SUFFICES ASSUME NEW i \in 1 .. Len(m_nodesPool) + 1, NEW j \in 1 .. Len(m_nodesPool) + 1,
                      m_nodesPool'[i] = m_nodesPool'[j]
               PROVE  i = j
    BY <1>6
  <2>4. CASE i = 1 \/ j = 1 BY <1>6, <2>3, <2>4
  <2>5. CASE i # 1 /\ j # 1
    <3>1. i - 1 = j - 1 BY <1>1, <2>3, <2>5 DEF NodesInOnePlace
    <3> QED BY <1>6, <3>1
  <2> QED BY <2>4, <2>5
<1>13. NodesInOnePlace'
  <2> HIDE DEF h
  <2> QED BY <1>1, <1>2, <1>8, <1>9, <1>10, <1>11, <1>12 DEF NodesInOnePlace
<1>14. Ends' BY <1>1, <1>2 DEF Ends, After
<1>15. Links'
  <2>1. \A i \in Live : m_next'[home[i].node] = m_next[home[i].node] BY <1>5, <1>7, Shape
  <2>2. Len(sent) > 0 => Len(sent) \in Live BY AtTail
  <2> QED BY <1>1, <1>2, <1>8, <2>1, <2>2 DEF Links
<1>16. Pushing' BY <1>1, <1>2 DEF Pushing
<1>17. Popping' BY <1>3 DEF Popping
<1>18. UnreadKept' BY <1>1, <1>2, <1>3 DEF UnreadKept
<1> QED BY <1>8, <1>13, <1>14, <1>15, <1>16, <1>17, <1>18 DEF IInv

-----------------------------------------------------------------------------
(* Together *)

LEMMA Initially == Init => IInv
<1> SUFFICES ASSUME Init PROVE IInv OBVIOUS
<1> USE DEF Init
<1>1. Len(home) = 0 /\ Len(sent) = 0 /\ Len(received) = 0 /\ DOMAIN home = {} OBVIOUS
<1>2. push.pc = "idle" /\ pop.pc = "idle" BY DEF Idle, NotPopping
<1>3. Live = {} /\ LiveNodes = {} BY <1>1 DEF Live, LiveNodes
<1>4. TypeOK
  <2>1. m_nodesPool \in Seq(Nodes) /\ sent \in Seq(Messages) /\ received \in Seq(Messages)
        /\ home \in Seq([node : Nodes, slot : 1 .. Slots])
    OBVIOUS
  <2>2. push \in [pc : PushPCs, val : Values, node : Pointers]
    BY DEF Idle, PushPCs, Values, Pointers
  <2>3. pop \in PopRecords BY DEF NotPopping, PopRecords, PopPCs, Values, Pointers
  <2>4. m_vals \in [Nodes -> [1 .. Slots -> Values]] BY DEF Values
  <2> QED BY <2>1, <2>2, <2>3, <2>4 DEF TypeOK, PopRecords
<1>5. NodesInOnePlace
  <2>1. Pooled = {} /\ DOMAIN m_nodesPool = {} BY DEF Pooled
  <2>2. InHand = {} /\ Emptied = {} BY <1>2 DEF InHand, Emptied
  <2> QED BY <1>3, <1>4, <2>1, <2>2 DEF NodesInOnePlace
<1>6. UnreadKept BY <1>1, <1>2 DEF UnreadKept
<1>7. Counts /\ Chain /\ Ends /\ Links BY <1>1, <1>2, <1>3 DEF Counts, Chain, Ends, Links
<1>8. Pushing /\ Popping BY <1>2 DEF Pushing, Popping
<1> QED BY <1>5, <1>6, <1>7, <1>8 DEF IInv

LEMMA StepsKeep == IInv /\ [Next]_vars => IInv'
<1> SUFFICES ASSUME IInv, [Next]_vars PROVE IInv' OBVIOUS
<1>1. CASE PushContinue
  BY <1>1, PushWriteSlotKeeps, PushAdvanceKeeps, PushTakeNodeKeeps, PushAllocNodeKeeps,
     PushFailsKeeps, PushLinkKeeps, PushClearNextKeeps, PushWriteFirstKeeps, PushNewTailKeeps,
     PushSetHeadKeeps DEF PushContinue
<1>2. CASE Pop
  BY <1>2, PopLoadTailKeeps, PopLoadHeadKeeps, PopReadSlotKeeps, PopAdvanceKeeps,
     PopReadNextKeeps, PopReadFirstKeeps, PopNewHeadKeeps, PopRecycleKeeps DEF Pop
<1>3. CASE \E val \in Messages : PushStart(val) BY <1>3, PushStartKeeps
<1>4. CASE UNCHANGED vars
  <2>1. UNCHANGED <<m_head, m_tail, m_next, m_vals, m_nodesPool, unallocated, push, pop, sent,
                    received, home, history>>
    BY <1>4 DEF vars, history
  <2>2. Live' = Live /\ Counts' /\ Chain' BY <2>1, HistoryKept
  <2>3. TypeOK' BY <2>1 DEF IInv, NodesInOnePlace, TypeOK
  <2>4. NodesInOnePlace'
    <3>1. InHand' = InHand /\ Emptied' = Emptied BY <2>1 DEF InHand, Emptied
    <3> QED BY <2>1, <2>3, <3>1, PlacesKept
  <2>5. Ends' /\ Links' /\ Pushing' BY <2>1, <2>2 DEF IInv, Ends, Links, Pushing, After
  <2>6. Popping' BY <2>1, <2>2 DEF IInv, Popping, After, AtBoundary
  <2>7. UnreadKept' BY <2>1, <2>6, Kept
  <2> QED BY <2>2, <2>4, <2>5, <2>6, <2>7 DEF IInv
<1> QED BY <1>1, <1>2, <1>3, <1>4 DEF Next

LEMMA Invariance == Spec => []IInv
BY Initially, StepsKeep, PTL DEF Spec

\* Every node is in the queue, the pool, the slab or one thread's hands, and in
\* only one of them.
THEOREM NodesStayInOnePlace == Spec => []NodesInOnePlace
<1>1. IInv => NodesInOnePlace BY DEF IInv
<1> QED BY <1>1, Invariance, PTL

\* No message is overwritten before it is read, and the consumer finds a node
\* wherever it follows a pointer.
THEOREM UnreadStaysKept == Spec => []UnreadKept
<1>1. IInv => UnreadKept BY DEF IInv
<1> QED BY <1>1, Invariance, PTL

\* A step of the FIFO, or of none.
LEMMA StepsOfFifo ==
    ASSUME IInv, [Next]_vars
    PROVE  [Fifo!Next]_<<sent, received>>
<1>1. CASE PushAdvance \/ PushNewTail
  <2>1. push.val \in Messages /\ sent' = Append(sent, push.val) /\ received' = received
    BY <1>1 DEF PushAdvance, PushNewTail, Publish, IInv, Pushing
  <2> QED BY <2>1 DEF Fifo!Next, Fifo!Send
<1>2. CASE PopAdvance \/ PopNewHead
  <2>1. /\ Len(received) < Len(sent) /\ received' = Append(received, sent[Len(received) + 1])
        /\ sent' = sent
    BY <1>2 DEF PopAdvance, PopNewHead, Consume, IInv, Popping
  <2> QED BY <2>1 DEF Fifo!Next, Fifo!Receive
<1>3. CASE UNCHANGED vars BY <1>3 DEF vars
<1>4. CASE \E val \in Messages : PushStart(val) BY <1>4 DEF PushStart, history
<1>5. CASE PushContinue /\ ~PushAdvance /\ ~PushNewTail
  BY <1>5 DEF PushContinue, PushWriteSlot, PushTakeNode, PushAllocNode, PushFails, PushLink,
              PushClearNext, PushWriteFirst, PushSetHead, history
<1>6. CASE Pop /\ ~PopAdvance /\ ~PopNewHead
  BY <1>6 DEF Pop, PopLoadTail, PopLoadHead, PopReadSlot, PopReadNext, PopReadFirst, PopRecycle,
              history
<1> QED BY <1>1, <1>2, <1>3, <1>4, <1>5, <1>6 DEF Next, PushContinue, Pop

\* The channel is a FIFO: each message whose push succeeded is received once, and
\* in the order of the pushes.
THEOREM ChannelImplementsFifo == Spec => ImplementsFifo
<1>1. Init => Fifo!Init BY DEF Init, Fifo!Init
<1>2. IInv /\ [Next]_vars => [Fifo!Next]_<<sent, received>> BY StepsOfFifo
<1> QED BY <1>1, <1>2, Invariance, PTL DEF Spec, ImplementsFifo, Fifo!Spec
=============================================================================
