------------------------- MODULE CLThreadHeapProofs -------------------------
(***************************************************************************)
(* Proofs about running heaps, for any number of threads, heaps, objects   *)
(* and messages.  What the channels hold is spoken of through three facts  *)
(* about mailboxes (an emptied one, one message more, one message less);   *)
(* the lemmas after them take the actions one at a time.                   *)
(***************************************************************************)
EXTENDS CLThreadHeap, TLAPS

Boxes == [Channels -> Seq(Objects)]

-----------------------------------------------------------------------------
(* Mailboxes *)

\* A new mailbox holds nothing.
LEMMA EmptyBox ==
    ASSUME NEW c, c = [i \in Channels |-> <<>>]
    PROVE  c \in Boxes /\ Elements(c) = {} /\ Once(c)
<1>1. c \in Boxes BY DEF Boxes
<1>2. \A i \in Channels : DOMAIN c[i] = {} OBVIOUS
<1> QED BY <1>1, <1>2 DEF Elements, Once

\* What a mailbox holds, it holds somewhere.
LEMMA ElementAt ==
    ASSUME NEW c \in Boxes, NEW o
    PROVE  o \in Elements(c) <=> \E i \in Channels : \E k \in 1 .. Len(c[i]) : c[i][k] = o
BY DEF Elements, Boxes

\* One message more.
LEMMA AppendToBox ==
    ASSUME NEW c \in Boxes, NEW i \in Channels, NEW o \in Objects,
           NEW d, d = [c EXCEPT ![i] = Append(@, o)]
    PROVE  /\ d \in Boxes
           /\ Elements(d) = Elements(c) \cup {o}
           /\ Once(c) /\ o \notin Elements(c) => Once(d)
<1>1. d \in Boxes BY DEF Boxes
<1>2. \A j \in Channels \ {i} : d[j] = c[j] BY DEF Boxes
<1>3. /\ c[i] \in Seq(Objects) /\ d[i] \in Seq(Objects)
      /\ Len(d[i]) = Len(c[i]) + 1
      /\ \A k \in 1 .. Len(c[i]) : d[i][k] = c[i][k]
      /\ d[i][Len(c[i]) + 1] = o
      /\ Len(c[i]) \in Nat
  BY DEF Boxes
<1>4. \A e : e \in Elements(d) <=> e \in Elements(c) \cup {o}
  <2> TAKE e
  <2>1. ASSUME e \in Elements(d) PROVE e \in Elements(c) \cup {o}
    <3>1. PICK j \in Channels : \E k \in 1 .. Len(d[j]) : d[j][k] = e BY <1>1, <2>1, ElementAt
    <3>k. PICK k \in 1 .. Len(d[j]) : d[j][k] = e BY <3>1
    <3>2. CASE j # i BY <1>2, <3>k, <3>2, ElementAt
    <3>3. CASE j = i /\ k = Len(c[i]) + 1 BY <1>3, <3>k, <3>3
    <3>4. CASE j = i /\ k # Len(c[i]) + 1
      <4>1. k \in 1 .. Len(c[i]) BY <1>3, <3>k, <3>4
      <4> QED BY <1>3, <3>k, <3>4, <4>1, ElementAt
    <3> QED BY <3>2, <3>3, <3>4
  <2>2. ASSUME e \in Elements(c) PROVE e \in Elements(d)
    <3>1. PICK j \in Channels : \E k \in 1 .. Len(c[j]) : c[j][k] = e BY <2>2, ElementAt
    <3>k. PICK k \in 1 .. Len(c[j]) : c[j][k] = e BY <3>1
    <3>2. k \in 1 .. Len(d[j]) /\ d[j][k] = e BY <1>2, <1>3, <3>k
    <3> QED BY <1>1, <3>2, ElementAt
  <2>3. o \in Elements(d)
    <3>1. Len(c[i]) + 1 \in 1 .. Len(d[i]) BY <1>3
    <3> QED BY <1>1, <1>3, <3>1, ElementAt
  <2> QED BY <2>1, <2>2, <2>3
<1>6. \A j \in Channels : DOMAIN d[j] = 1 .. Len(d[j]) BY <1>1 DEF Boxes
<1>5. ASSUME Once(c), o \notin Elements(c) PROVE Once(d)
  <2> SUFFICES ASSUME NEW j \in Channels, NEW l \in Channels,
                      NEW k \in 1 .. Len(d[j]), NEW m \in 1 .. Len(d[l]), d[j][k] = d[l][m]
               PROVE  j = l /\ k = m
    BY <1>6, SMTT(30) DEF Once
  <2>1. \A x \in Channels : \A y \in 1 .. Len(d[x]) :
           \/ x = i /\ y = Len(c[i]) + 1 /\ d[x][y] = o
           \/ y \in 1 .. Len(c[x]) /\ d[x][y] = c[x][y] /\ d[x][y] # o
    <3> TAKE x \in Channels
    <3> TAKE y \in 1 .. Len(d[x])
    <3>1. CASE x # i BY <1>2, <1>5, <3>1, ElementAt
    <3>2. CASE x = i /\ y # Len(c[i]) + 1
      <4>1. y \in 1 .. Len(c[i]) BY <1>3, <3>2
      <4> QED BY <1>3, <1>5, <3>2, <4>1, ElementAt
    <3> QED BY <1>3, <3>1, <3>2
  <2>2. CASE d[j][k] = o BY <2>1, <2>2
  <2>3. CASE d[j][k] # o
    <3>1. k \in 1 .. Len(c[j]) /\ m \in 1 .. Len(c[l]) /\ c[j][k] = c[l][m] BY <2>1, <2>3
    <3>2. k \in DOMAIN c[j] /\ m \in DOMAIN c[l] BY <3>1 DEF Boxes
    <3> QED BY <1>5, <3>1, <3>2 DEF Once
  <2> QED BY <2>2, <2>3
<1> QED BY <1>1, <1>4, <1>5

\* One message less.
LEMMA TailOfBox ==
    ASSUME NEW c \in Boxes, NEW i \in Channels, c[i] # <<>>, Once(c),
           NEW d, d = [c EXCEPT ![i] = Tail(@)]
    PROVE  /\ d \in Boxes
           /\ Head(c[i]) \in Objects /\ Head(c[i]) \in Elements(c)
           /\ Elements(d) = Elements(c) \ {Head(c[i])}
           /\ Once(d)
<1>1. d \in Boxes BY DEF Boxes
<1>2. \A j \in Channels \ {i} : d[j] = c[j] BY DEF Boxes
<1>3. /\ Len(c[i]) \in Nat \ {0}
      /\ Len(d[i]) = Len(c[i]) - 1
      /\ \A k \in 1 .. Len(d[i]) : d[i][k] = c[i][k + 1]
      /\ Head(c[i]) = c[i][1] /\ c[i][1] \in Objects
  BY DEF Boxes
<1>4. Head(c[i]) \in Elements(c)
  <2>1. 1 \in 1 .. Len(c[i]) BY <1>3
  <2> QED BY <1>3, <2>1, ElementAt
<1>5. \A j \in Channels : DOMAIN c[j] = 1 .. Len(c[j]) /\ DOMAIN d[j] = 1 .. Len(d[j])
  BY <1>1 DEF Boxes
\* Where an element of d was in c.
<1> DEFINE From(j, k) == IF j = i THEN k + 1 ELSE k
<1>6. \A j \in Channels : \A k \in 1 .. Len(d[j]) :
         /\ From(j, k) \in 1 .. Len(c[j])
         /\ c[j][From(j, k)] = d[j][k]
         /\ ~(j = i /\ From(j, k) = 1)
  BY <1>2, <1>3
<1>7. \A e : e \in Elements(d) <=> e \in Elements(c) \ {Head(c[i])}
  <2> TAKE e
  <2>1. ASSUME e \in Elements(d) PROVE e \in Elements(c) \ {Head(c[i])}
    <3>1. PICK j \in Channels : \E k \in 1 .. Len(d[j]) : d[j][k] = e BY <1>1, <2>1, ElementAt
    <3>k. PICK k \in 1 .. Len(d[j]) : d[j][k] = e BY <3>1
    <3>2. e \in Elements(c) BY <1>6, <3>k, ElementAt
    <3>3. ASSUME e = Head(c[i]) PROVE FALSE
      <4>1. c[j][From(j, k)] = c[i][1] BY <1>3, <1>6, <3>k, <3>3
      <4>2. From(j, k) \in DOMAIN c[j] /\ 1 \in DOMAIN c[i] BY <1>3, <1>5, <1>6
      <4>3. j = i /\ From(j, k) = 1 BY <4>1, <4>2 DEF Once
      <4> QED BY <1>6, <4>3
    <3> QED BY <3>2, <3>3
  <2>2. ASSUME e \in Elements(c), e # Head(c[i]) PROVE e \in Elements(d)
    <3>1. PICK j \in Channels : \E k \in 1 .. Len(c[j]) : c[j][k] = e BY <2>2, ElementAt
    <3>k. PICK k \in 1 .. Len(c[j]) : c[j][k] = e BY <3>1
    <3>2. CASE j # i BY <1>1, <1>2, <3>k, <3>2, ElementAt
    <3>3. CASE j = i
      <4>1. k # 1 BY <1>3, <2>2, <3>k, <3>3
      <4>2. k - 1 \in 1 .. Len(d[i]) /\ d[i][k - 1] = e BY <1>3, <3>k, <3>3, <4>1
      <4> QED BY <1>1, <4>2, ElementAt
    <3> QED BY <3>2, <3>3
  <2> QED BY <2>1, <2>2
<1>8. Once(d)
  <2> SUFFICES ASSUME NEW j \in Channels, NEW l \in Channels,
                      NEW k \in 1 .. Len(d[j]), NEW m \in 1 .. Len(d[l]), d[j][k] = d[l][m]
               PROVE  j = l /\ k = m
    BY <1>5 DEF Once
  <2>1. c[j][From(j, k)] = c[l][From(l, m)] BY <1>6
  <2>2. From(j, k) \in DOMAIN c[j] /\ From(l, m) \in DOMAIN c[l] BY <1>5, <1>6
  <2>3. j = l /\ From(j, k) = From(l, m) BY <2>1, <2>2 DEF Once
  <2> QED BY <2>3
<1> QED BY <1>1, <1>3, <1>4, <1>7, <1>8
-----------------------------------------------------------------------------
(* The registry *)

\* OneThreadPerHeap without the types.
Registry ==
    /\ threadHeapBound \subseteq threadHeapTable
    /\ \A t \in Threads :
          /\ localHeap[t] # NoHeap => localHeap[t] \in threadHeapBound
          /\ pc[t] \notin {"idle", "createForAlloc", "createForFree"} => localHeap[t] # NoHeap
          /\ pc[t] \in {"createForFree", "free"} <=> arg[t] # NULL
          /\ \A u \in Threads \ {t} : localHeap[t] # NoHeap => localHeap[u] # localHeap[t]

LEMMA HeapNumbers ==
    /\ NoHeap \notin Heaps
    /\ 0 \in Channels
    /\ \A i \in Channels : NextChannel(i) \in Channels
    /\ \A n \in 0 .. CHANNEL_CLEAN_CIRCLE + 1 : Counted(n) \in 0 .. CHANNEL_CLEAN_CIRCLE + 1
    /\ 0 \in 0 .. CHANNEL_CLEAN_CIRCLE + 1
    /\ \A g, h \in Heaps : g # h => ChannelOf(h, g) \in Channels
BY ThreadHeapAssumption DEF NoHeap, Heaps, Channels, NextChannel, Counted, ChannelOf

LEMMA InitTypeOK == Init => TypeOK
<1> SUFFICES ASSUME Init PROVE TypeOK OBVIOUS
<1>1. m_channels \in [Heaps -> Boxes] BY EmptyBox DEF Init
<1>2. owner \in [Objects -> Heaps \cup {NoHeap}] BY DEF Init
<1>3. space \in [Heaps -> SUBSET Objects] BY DEF Init
<1> QED BY <1>1, <1>2, <1>3, HeapNumbers DEF Init, TypeOK, Boxes, PCs

LEMMA InitRegistry == Init => Registry
BY DEF Init, Registry

LEMMA TypeOKStep == TypeOK /\ Registry /\ [Next]_vars => TypeOK'
<1> SUFFICES ASSUME TypeOK, Registry, [Next]_vars PROVE TypeOK' OBVIOUS
<1> USE HeapNumbers
<1>1. CASE UNCHANGED vars
  BY <1>1 DEF TypeOK, vars, registry, control, mail, memory
<1>2. CASE Next
  <2> PICK t \in Threads : Program(t) \/ Create(t) \/ Alloc(t) \/ Free(t) BY <1>2 DEF Next
  <2>0. m_channels \in [Heaps -> Boxes] BY DEF TypeOK, Boxes
  <2>1. CASE nvmalloc(t)
    BY <2>1 DEF TypeOK, nvmalloc, Step, registry, mail, memory, PCs
  <2>2. CASE alloc(t)
    <3>1. localHeap[t] \in Heaps BY <2>2 DEF alloc, TypeOK
    <3>2. m_mallocCount' \in [Heaps -> 0 .. CHANNEL_CLEAN_CIRCLE + 1]
      BY <2>2 DEF alloc, TypeOK
    <3>3. pc' \in [Threads -> PCs] /\ startChannel' \in [Heaps -> Channels]
      <4>1. \/ StartClean(t, "cleanFirst")
            \/ pc' = [pc EXCEPT ![t] = "take"] /\ UNCHANGED startChannel
        BY <2>2 DEF alloc
      <4> QED BY <3>1, <4>1, ZenonT(40) DEF StartClean, TypeOK, PCs
    <3> QED BY <2>2, <3>2, <3>3 DEF TypeOK, alloc, registry, memory
  <2>3. ASSUME NEW o \in Objects, nvfree(t, o) PROVE TypeOK'
    BY <2>3 DEF TypeOK, nvfree, registry, mail, PCs
  <2>4. ASSUME NEW h \in Heaps, bindThreadHeap(t, h) PROVE TypeOK'
    <3>1. Empty({h} \ threadHeapTable) /\ Counts(({h} \ threadHeapTable) \cup {localHeap[t]})
      BY <2>4 DEF bindThreadHeap
    <3>2. m_channels' \in [Heaps -> Boxes] BY <2>0, <3>1, EmptyBox DEF Empty
    <3>3. space' \in [Heaps -> SUBSET Objects] BY <3>1 DEF Empty, TypeOK
    <3>4. m_mallocCount' \in [Heaps -> 0 .. CHANNEL_CLEAN_CIRCLE + 1]
      BY <3>1 DEF Counts, TypeOK
    <3>5. m_curChannel' \in [Heaps -> Channels] BY <3>1 DEF Counts, TypeOK
    <3> QED BY <2>4, <3>2, <3>3, <3>4, <3>5 DEF TypeOK, bindThreadHeap, Bind, Boxes
  <2>5. CASE CreateLocalHeap(t)
    <3>1. PICK h \in Heaps : /\ Counts({h}) /\ Empty({h})
                             /\ Bind(t, h)
                             /\ lost' = lost \cup space[h] \cup InMail(h)
                             /\ rebuilt' = threadHeapTable \cap {h}
      BY <2>5 DEF CreateLocalHeap
    <3>2. m_channels' \in [Heaps -> Boxes] BY <2>0, <3>1, EmptyBox DEF Empty
    <3>3. space' \in [Heaps -> SUBSET Objects] BY <3>1 DEF Empty, TypeOK
    <3>4. m_mallocCount' \in [Heaps -> 0 .. CHANNEL_CLEAN_CIRCLE + 1]
      BY <3>1 DEF Counts, TypeOK
    <3>5. m_curChannel' \in [Heaps -> Channels] BY <3>1 DEF Counts, TypeOK
    <3>6. lost' \subseteq Objects
      <4>1. m_channels[h] \in Boxes BY <2>0
      <4>2. \A i \in Channels : \A k \in 1 .. Len(m_channels[h][i]) : m_channels[h][i][k] \in Objects
        BY <4>1 DEF Boxes
      <4>3. InMail(h) \subseteq Objects BY <4>1, <4>2, ElementAt DEF InMail
      <4> QED BY <3>1, <4>3 DEF TypeOK
    <3> QED BY <2>5, <3>1, <3>2, <3>3, <3>4, <3>5, <3>6
            DEF TypeOK, CreateLocalHeap, Bind, AfterCreate, Step, Boxes, PCs
  <2>6. CASE CreateFails(t)
    BY <2>6 DEF TypeOK, CreateFails, registry, mail, PCs
  <2>7. CASE Exhausted(t)
    BY <2>7 DEF TypeOK, Registry, Exhausted, StartClean, registry, memory, PCs
  <2>8. CASE ReturnNull(t)
    BY <2>8 DEF TypeOK, ReturnNull, registry, mail, memory, PCs
  <2>9. ASSUME NEW o \in Objects, Take(t, o) PROVE TypeOK'
    BY <2>9 DEF TypeOK, Registry, Take, HandOut, registry, mail, PCs
  <2>10. ASSUME NEW o \in Objects, TakeSegment(t, o) PROVE TypeOK'
    BY <2>10 DEF TypeOK, Registry, TakeSegment, HandOut, registry, mail, PCs
  <2>11. ASSUME NEW o \in Objects, CleanMessage(t, o) \/ CleanFails(t, o) PROVE TypeOK'
    <3>1. Pop(localHeap[t], o) BY <2>11 DEF CleanMessage, CleanFails
    <3>2. m_channels' \in [Heaps -> Boxes]
      <4>1. m_curChannel[localHeap[t]] \in Channels
        BY <2>11 DEF TypeOK, Registry, Cleaning, CleanMessage, CleanFails
      <4>2. localHeap[t] \in Heaps
        BY <2>11 DEF TypeOK, Registry, Cleaning, CleanMessage, CleanFails
      <4> DEFINE b == m_channels[localHeap[t]]
      <4>3. b \in Boxes /\ b[m_curChannel[localHeap[t]]] # <<>>
        BY <2>0, <3>1, <4>2 DEF Pop, CurrentChannel
      <4>4. [b EXCEPT ![m_curChannel[localHeap[t]]] = Tail(@)] \in Boxes
        BY <4>1, <4>3 DEF Boxes
      <4> QED BY <2>0, <3>1, <4>4 DEF Pop
    <3>3. m_curChannel' = m_curChannel BY <3>1 DEF Pop
    <3>4. m_mallocCount' = m_mallocCount BY <2>11 DEF CleanMessage, CleanFails, control
    <3>5. /\ owner' \in [Objects -> Heaps \cup {NoHeap}]
          /\ space' \in [Heaps -> SUBSET Objects]
          /\ lost' \subseteq Objects
      <4>1. CASE TakenIn(localHeap[t], o) BY <4>1 DEF TakenIn, TypeOK
      <4>2. CASE ToNobody(localHeap[t], o) BY <4>2 DEF ToNobody, TypeOK
      <4>3. CASE LostBy(localHeap[t], o) BY <4>3 DEF LostBy, TypeOK
      <4> QED BY <2>11, <4>1, <4>2, <4>3 DEF CleanMessage, CleanFails, FreedBy
    <3>6. startChannel' \in [Heaps -> Channels]
      <4>1. CASE CleanMessage(t, o) BY <4>1 DEF CleanMessage, Cleaning, TypeOK, Registry
      <4>2. CASE CleanFails(t, o) BY <4>2 DEF CleanFails, LeaveClean, TypeOK
      <4> QED BY <2>11, <4>1, <4>2
    <3>7. pc' \in [Threads -> PCs]
      BY <2>11 DEF TypeOK, CleanMessage, CleanFails, control, PCs
    <3> QED BY <2>11, <3>2, <3>3, <3>4, <3>5, <3>6, <3>7
            DEF TypeOK, CleanMessage, CleanFails, registry, control, Boxes
  <2>12. CASE CleanNothing(t)
    <3>1. m_curChannel' \in [Heaps -> Channels] BY <2>12 DEF CleanNothing, TypeOK
    <3>2. /\ m_mallocCount' \in [Heaps -> 0 .. CHANNEL_CLEAN_CIRCLE + 1]
          /\ pc' \in [Threads -> PCs]
          /\ startChannel' \in [Heaps -> Channels]
      <4>1. CASE RoundEnds(localHeap[t])
        <5>1. m_mallocCount' \in [Heaps -> 0 .. CHANNEL_CLEAN_CIRCLE + 1]
          BY <2>12, <4>1 DEF CleanNothing, TypeOK
        <5>2. pc' \in [Threads -> PCs] BY <2>12, <4>1, ZenonT(40) DEF CleanNothing, TypeOK, PCs
        <5>3. startChannel' \in [Heaps -> Channels]
          BY <2>12, <4>1, ZenonT(40) DEF CleanNothing, LeaveClean, TypeOK
        <5> QED BY <5>1, <5>2, <5>3
      <4>2. CASE ~RoundEnds(localHeap[t]) BY <2>12, <4>2 DEF CleanNothing, TypeOK
      <4> QED BY <4>1, <4>2
    <3> QED BY <2>12, <3>1, <3>2 DEF TypeOK, CleanNothing, registry, memory
  <2>13. CASE FreeLocally(t)
    <3>1. /\ owner' \in [Objects -> Heaps \cup {NoHeap}]
          /\ space' \in [Heaps -> SUBSET Objects]
          /\ lost' \subseteq Objects
      <4> DEFINE h == localHeap[t]
      <4>0. arg[t] \in Objects BY <2>13 DEF TypeOK, Registry, FreeLocally, FreeReturns, Step
      <4>1. CASE TakenIn(h, arg[t]) BY <4>0, <4>1 DEF TakenIn, TypeOK
      <4>2. CASE ToNobody(h, arg[t]) BY <4>0, <4>2 DEF ToNobody, TypeOK
      <4>3. CASE LostBy(h, arg[t]) BY <4>0, <4>3 DEF LostBy, TypeOK
      <4> QED BY <2>13, <4>1, <4>2, <4>3 DEF FreeLocally, FreedBy
    <3> QED BY <2>13, <3>1 DEF TypeOK, FreeLocally, FreeReturns, Step, registry, mail, PCs
  <2>14. CASE SendToOwner(t)
    <3>1. arg[t] \in Objects BY <2>14 DEF TypeOK, Registry, SendToOwner, FreeReturns, Step
    <3>2. m_channels' \in [Heaps -> Boxes]
      <4>1. \A h \in Heaps : \A i : [m_channels[h] EXCEPT ![i] = Append(@, arg[t])] \in Boxes
        <5> TAKE h \in Heaps
        <5> TAKE i
        <5> DEFINE d == [m_channels[h] EXCEPT ![i] = Append(@, arg[t])]
        <5>1. m_channels[h] \in Boxes BY <2>0
        <5>2. \A j \in Channels : d[j] \in Seq(Objects) BY <3>1, <5>1 DEF Boxes
        <5>3. d = [j \in Channels |-> d[j]] BY <5>1 DEF Boxes
        <5> QED BY <5>2, <5>3 DEF Boxes
      <4> QED BY <2>0, <2>14, <4>1 DEF SendToOwner, Deliver
    <3> QED BY <2>14, <3>2 DEF TypeOK, SendToOwner, FreeReturns, Step, registry, PCs, Boxes
  <2>15. CASE SendRefused(t)
    BY <2>15 DEF TypeOK, Registry, SendRefused, FreeReturns, Step, registry, mail, PCs
  <2> QED BY <2>1, <2>2, <2>3, <2>4, <2>5, <2>6, <2>7, <2>8, <2>9, <2>10, <2>11, <2>12, <2>13,
             <2>14, <2>15
          DEF Program, StartAlloc, Create, Alloc, Free
<1> QED BY <1>1, <1>2

LEMMA RegistryStep == TypeOK /\ Registry /\ [Next]_vars => Registry'
<1> SUFFICES ASSUME TypeOK, Registry, [Next]_vars PROVE Registry' OBVIOUS
<1> USE HeapNumbers
<1>1. CASE UNCHANGED vars
  BY <1>1 DEF Registry, vars, registry, control
<1>2. CASE Next
  <2> PICK t \in Threads : Program(t) \/ Create(t) \/ Alloc(t) \/ Free(t) BY <1>2 DEF Next
  <2>1. CASE nvmalloc(t)
    BY <2>1 DEF TypeOK, Registry, nvmalloc, Step, registry
  <2>2. CASE alloc(t)
    <3>1. \E s \in {"cleanFirst", "take"} : pc' = [pc EXCEPT ![t] = s]
      BY <2>2 DEF alloc, StartClean
    <3> QED BY <2>2, <3>1 DEF TypeOK, Registry, alloc, registry
  <2>3. ASSUME NEW o \in Objects, nvfree(t, o) PROVE Registry'
    <3>1. o # NULL BY ThreadHeapAssumption
    <3> QED BY <2>3, <3>1 DEF TypeOK, Registry, nvfree, registry
  <2>4. ASSUME NEW h \in Heaps, bindThreadHeap(t, h) PROVE Registry'
    BY <2>4 DEF TypeOK, Registry, bindThreadHeap, Bind
  <2>5. CASE CreateLocalHeap(t)
    <3>1. PICK h \in Heaps : h \notin threadHeapBound /\ Bind(t, h)
      BY <2>5 DEF CreateLocalHeap, FirstUnbound
    <3>2. \/ Step(t, "createForAlloc", "alloc")
          \/ Step(t, "createForFree", "free")
      BY <2>5 DEF CreateLocalHeap, AfterCreate
    <3>3. arg' = arg BY <2>5 DEF CreateLocalHeap
    <3>4. CASE Step(t, "createForAlloc", "alloc")
      BY <3>1, <3>3, <3>4 DEF TypeOK, Registry, Bind, Step
    <3>5. CASE Step(t, "createForFree", "free")
      BY <3>1, <3>3, <3>5 DEF TypeOK, Registry, Bind, Step
    <3> QED BY <3>2, <3>4, <3>5
  <2>6. CASE CreateFails(t)
    BY <2>6 DEF TypeOK, Registry, CreateFails, registry
  <2>7. CASE Exhausted(t)
    BY <2>7 DEF TypeOK, Registry, Exhausted, StartClean, registry
  <2>8. CASE ReturnNull(t)
    BY <2>8 DEF TypeOK, Registry, ReturnNull, registry
  <2>9. ASSUME NEW o \in Objects, Take(t, o) \/ TakeSegment(t, o) PROVE Registry'
    BY <2>9 DEF TypeOK, Registry, Take, TakeSegment, HandOut, registry
  <2>10. ASSUME NEW o \in Objects, CleanMessage(t, o) PROVE Registry'
    BY <2>10 DEF Registry, CleanMessage, registry, control
  <2>11. ASSUME NEW o \in Objects, CleanFails(t, o) PROVE Registry'
    BY <2>11 DEF TypeOK, Registry, CleanFails, Cleaning, registry
  <2>12. CASE CleanNothing(t)
    <3>1. \/ pc' = pc
          \/ \E s \in {"take", "retry"} : pc' = [pc EXCEPT ![t] = s]
      BY <2>12 DEF CleanNothing
    <3>2. CASE pc' = pc BY <2>12, <3>2 DEF Registry, CleanNothing, registry
    <3>3. ASSUME NEW s \in {"take", "retry"}, pc' = [pc EXCEPT ![t] = s] PROVE Registry'
      BY <2>12, <3>3 DEF TypeOK, Registry, CleanNothing, Cleaning, registry
    <3> QED BY <3>1, <3>2, <3>3
  <2>13. CASE Free(t)
    <3>1. FreeReturns(t) BY <2>13 DEF Free, FreeLocally, SendToOwner, SendRefused
    <3> QED BY <3>1 DEF TypeOK, Registry, FreeReturns, Step, registry
  <2> QED BY <2>1, <2>2, <2>3, <2>4, <2>5, <2>6, <2>7, <2>8, <2>9, <2>10, <2>11, <2>12, <2>13
          DEF Program, StartAlloc, Create, Alloc
<1> QED BY <1>1, <1>2

\* No two threads ever work on one heap, whichever way they came by it.
THEOREM HeapsAreExclusive == Spec => []OneThreadPerHeap
<1>1. Init => TypeOK /\ Registry BY InitTypeOK, InitRegistry
<1>2. TypeOK /\ Registry /\ [Next]_vars => (TypeOK /\ Registry)' BY TypeOKStep, RegistryStep
<1>3. TypeOK /\ Registry => OneThreadPerHeap BY DEF Registry, OneThreadPerHeap
<1> QED BY <1>1, <1>2, <1>3, PTL DEF Spec
-----------------------------------------------------------------------------
(* The places of an object *)

LEMMA InitPlaces == Init => OnePlaceEach
<1> SUFFICES ASSUME Init PROVE OnePlaceEach OBVIOUS
<1>1. \A h \in Heaps : InMail(h) = {} /\ Once(m_channels[h]) BY EmptyBox DEF Init, InMail
<1>2. Freeing = {} BY DEF Init, Freeing
<1>3. owner \in [Objects -> threadHeapTable \cup {NoHeap}] BY DEF Init
<1>4. \A h \in Heaps : space[h] = {o \in Objects \ live : owner[o] = h} BY DEF Init
<1>5. lost = {} /\ live \subseteq {o \in Objects : owner[o] # NoHeap}
      /\ \A t \in Threads : arg[t] = NULL
  BY DEF Init
<1> QED BY <1>1, <1>2, <1>3, <1>4, <1>5 DEF OnePlaceEach

LEMMA FreeingGrows ==
    ASSUME TypeOK, NEW t \in Threads, NEW o \in Objects, arg[t] = NULL,
           arg' = [arg EXCEPT ![t] = o]
    PROVE  Freeing' = Freeing \cup {o}
<1>1. \A u \in Threads : arg'[u] = IF u = t THEN o ELSE arg[u] BY DEF TypeOK
<1>2. o # NULL BY ThreadHeapAssumption
<1>3. \A e : e \in Freeing' <=> e \in Freeing \cup {o}
  <2> TAKE e
  <2>1. e \in Freeing' <=> e # NULL /\ \E u \in Threads : arg'[u] = e BY DEF Freeing
  <2>2. e \in Freeing <=> e # NULL /\ \E u \in Threads : arg[u] = e BY DEF Freeing
  <2> QED BY <1>1, <1>2, <2>1, <2>2
<1> QED BY <1>3

LEMMA FreeingShrinks ==
    ASSUME TypeOK, OnePlaceEach, NEW t \in Threads, arg' = [arg EXCEPT ![t] = NULL]
    PROVE  Freeing' = Freeing \ {arg[t]}
<1>1. \A u \in Threads : arg'[u] = IF u = t THEN NULL ELSE arg[u] BY DEF TypeOK
<1>2. \A u \in Threads : u # t /\ arg[u] = arg[t] => arg[u] = NULL BY DEF OnePlaceEach
<1>3. \A e : e \in Freeing' <=> e \in Freeing \ {arg[t]}
  <2> TAKE e
  <2>1. e \in Freeing' <=> e # NULL /\ \E u \in Threads : arg'[u] = e BY DEF Freeing
  <2>2. e \in Freeing <=> e # NULL /\ \E u \in Threads : arg[u] = e BY DEF Freeing
  <2> QED BY <1>1, <1>2, <2>1, <2>2
<1> QED BY <1>3

LEMMA MailsAre ==
    ASSUME TypeOK
    PROVE  /\ m_channels \in [Heaps -> Boxes]
           /\ \A h \in Heaps : InMail(h) \subseteq Objects
<1>1. m_channels \in [Heaps -> Boxes] BY DEF TypeOK, Boxes
<1>2. ASSUME NEW h \in Heaps PROVE InMail(h) \subseteq Objects
  <2>1. m_channels[h] \in Boxes BY <1>1
  <2>2. \A i \in Channels : \A k \in 1 .. Len(m_channels[h][i]) : m_channels[h][i][k] \in Objects
    BY <2>1 DEF Boxes
  <2> QED BY <2>1, <2>2, ElementAt DEF InMail
<1> QED BY <1>1, <1>2

\* Taking a message leaves the others where they are.
LEMMA PopTakesOne ==
    ASSUME TypeOK, OnePlaceEach, NEW h \in Heaps, NEW o, Pop(h, o)
    PROVE  /\ o \in InMail(h) /\ o \in Objects
           /\ \A g \in Heaps : Once(m_channels'[g])
           /\ InMail(h)' = InMail(h) \ {o}
           /\ \A g \in Heaps \ {h} : InMail(g)' = InMail(g)
<1> DEFINE i == m_curChannel[h]
<1>1. m_channels \in [Heaps -> Boxes] BY MailsAre
<1>2. i \in Channels BY DEF TypeOK
<1>3. m_channels[h] \in Boxes /\ m_channels[h][i] # <<>> /\ Once(m_channels[h])
  BY <1>1 DEF Pop, CurrentChannel, OnePlaceEach
<1>4. o = Head(m_channels[h][i]) BY DEF Pop, CurrentChannel
<1>5. m_channels'[h] = [m_channels[h] EXCEPT ![i] = Tail(@)] BY <1>1 DEF Pop
<1>6. /\ o \in Objects /\ o \in Elements(m_channels[h])
      /\ Elements(m_channels'[h]) = Elements(m_channels[h]) \ {o}
      /\ Once(m_channels'[h])
  BY <1>2, <1>3, <1>4, <1>5, TailOfBox
<1>7. \A g \in Heaps \ {h} : m_channels'[g] = m_channels[g] BY <1>1 DEF Pop
<1> QED BY <1>6, <1>7 DEF InMail, OnePlaceEach

\* What is sent arrives where it belongs.
LEMMA SendArrives ==
    ASSUME TypeOK, OnePlaceEach, NEW g \in Heaps, NEW h \in Heaps, g # h,
           NEW o \in Objects, o \notin InMail(g), Deliver(g, ChannelOf(g, h), o)
    PROVE  /\ \A f \in Heaps : Once(m_channels'[f])
           /\ InMail(g)' = InMail(g) \cup {o}
           /\ \A f \in Heaps \ {g} : InMail(f)' = InMail(f)
<1> DEFINE i == ChannelOf(g, h)
<1>1. m_channels \in [Heaps -> Boxes] BY MailsAre
<1>2. i \in Channels BY HeapNumbers
<1>3. m_channels[g] \in Boxes /\ Once(m_channels[g]) BY <1>1 DEF OnePlaceEach
<1>4. m_channels'[g] = [m_channels[g] EXCEPT ![i] = Append(@, o)] BY <1>1 DEF Deliver
<1>5. /\ Elements(m_channels'[g]) = Elements(m_channels[g]) \cup {o}
      /\ Once(m_channels'[g])
  BY <1>2, <1>3, <1>4, AppendToBox DEF InMail
<1>6. \A f \in Heaps \ {g} : m_channels'[f] = m_channels[f] BY <1>1 DEF Deliver
<1> QED BY <1>5, <1>6 DEF InMail, OnePlaceEach

\* The objects of freed memory are their heap's again, or nobody's, or lost.
LEMMA FreedPlaces ==
    ASSUME TypeOK, OnePlaceEach, NEW h \in Heaps, NEW o \in Objects, owner[o] = h,
           o \notin live, o \notin space[h], o \notin lost,
           o \notin Freeing', o \notin InMail(h)',
           Freeing' \subseteq Freeing,
           \A g \in Heaps : InMail(g)' \subseteq InMail(g) /\ Once(m_channels'[g]),
           \A t, u \in Threads : arg'[t] = arg'[u] /\ t # u => arg'[t] = NULL,
           live' = live, threadHeapTable' = threadHeapTable,
           FreedBy(h, o) \/ LostBy(h, o)
    PROVE  OnePlaceEach'
<1>1. \A g \in Heaps : o \notin InMail(g)'
  BY DEF OnePlaceEach, NoHeap, Heaps
<1>2. CASE TakenIn(h, o)
  <2>1. \A g \in Heaps : space'[g] = IF g = h THEN space[g] \cup {o} ELSE space[g]
    BY <1>2 DEF TakenIn, TypeOK
  <2>2. owner' = owner /\ lost' = lost BY <1>2 DEF TakenIn
  <2>3. ASSUME NEW g \in Heaps
        PROVE  /\ \A e \in space'[g] \cup InMail(g)' : owner'[e] = g
               /\ space'[g] \cap InMail(g)' = {}
               /\ (space'[g] \cup InMail(g)') \cap (live' \cup Freeing' \cup lost') = {}
    <3>1. \A e \in space[g] \cup InMail(g) : owner[e] = g BY DEF OnePlaceEach
    <3>2. space[g] \cap InMail(g) = {} BY DEF OnePlaceEach
    <3>3. (space[g] \cup InMail(g)) \cap (live \cup Freeing \cup lost) = {} BY DEF OnePlaceEach
    <3>4. \A e \in space'[g] \cup InMail(g)' : owner'[e] = g
      <4>1. \A e \in InMail(g)' : owner'[e] = g BY <2>2, <3>1
      <4>2. \A e \in space'[g] : e \in space[g] \/ (e = o /\ g = h) BY <2>1
      <4>3. \A e \in space'[g] : owner'[e] = g BY <2>2, <3>1, <4>2
      <4> QED BY <4>1, <4>3
    <3>5. space'[g] \cap InMail(g)' = {} BY <1>1, <2>1, <3>2
    <3>6. space'[g] \cap (live' \cup Freeing' \cup lost') = {} BY <2>1, <2>2, <3>3, ZenonT(40)
    <3>7. InMail(g)' \cap (live' \cup Freeing' \cup lost') = {} BY <2>2, <3>3
    <3> QED BY <3>4, <3>5, <3>6, <3>7
  <2> QED BY <2>2, <2>3, HeapNumbers DEF OnePlaceEach
<1>3. CASE ToNobody(h, o)
  <2>1. \A e \in Objects : owner'[e] = IF e = o THEN NoHeap ELSE owner[e]
    BY <1>3 DEF ToNobody, TypeOK
  <2>2. space' = space /\ lost' = lost BY <1>3 DEF ToNobody
  <2>3. \A g \in Heaps : o \notin space[g] BY DEF OnePlaceEach
  <2>4. \A g \in Heaps : space[g] \subseteq Objects /\ InMail(g) \subseteq Objects
    BY MailsAre DEF TypeOK
  <2>5. o \notin live' \cup Freeing' \cup lost' BY <2>2
  <2>6. live \subseteq Objects /\ Freeing \subseteq Objects /\ lost \subseteq Objects
    BY DEF TypeOK, Freeing
  <2>7. ASSUME NEW g \in Heaps
        PROVE  /\ \A e \in space'[g] \cup InMail(g)' : owner'[e] = g
               /\ space'[g] \cap InMail(g)' = {}
               /\ (space'[g] \cup InMail(g)') \cap (live' \cup Freeing' \cup lost') = {}
    BY <1>1, <2>1, <2>2, <2>3, <2>4 DEF OnePlaceEach
  <2>8. \A e \in live' \cup Freeing' \cup lost' : owner'[e] # NoHeap
    BY <2>1, <2>2, <2>5, <2>6 DEF OnePlaceEach
  <2> QED BY <2>1, <2>2, <2>7, <2>8 DEF OnePlaceEach
<1>4. CASE LostBy(h, o)
  <2>1. owner' = owner /\ space' = space /\ lost' = lost \cup {o} BY <1>4 DEF LostBy
  <2>2. \A g \in Heaps : o \notin space[g] BY DEF OnePlaceEach
  <2>3. ASSUME NEW g \in Heaps
        PROVE  /\ \A e \in space'[g] \cup InMail(g)' : owner'[e] = g
               /\ space'[g] \cap InMail(g)' = {}
               /\ (space'[g] \cup InMail(g)') \cap (live' \cup Freeing' \cup lost') = {}
    BY <1>1, <2>1, <2>2 DEF OnePlaceEach
  <2>4. \A e \in live' \cup Freeing' \cup lost' : owner'[e] # NoHeap
    BY <2>1, HeapNumbers DEF OnePlaceEach
  <2> QED BY <2>1, <2>3, <2>4 DEF OnePlaceEach
<1> QED BY <1>2, <1>3, <1>4 DEF FreedBy

\* An object handed out was in one place, and is in no other now.
LEMMA HandedOutPlaces ==
    ASSUME TypeOK, OnePlaceEach, NEW o \in Objects,
           NEW h \in Heaps, h \in threadHeapTable,
           live' = live \cup {o}, UNCHANGED <<threadHeapTable, arg, m_channels, lost>>,
           \/ /\ o \in space[h]
              /\ space' = [space EXCEPT ![h] = @ \ {o}]
              /\ owner' = owner
           \/ /\ owner[o] = NoHeap
              /\ owner' = [owner EXCEPT ![o] = h]
              /\ space' = space
    PROVE  OnePlaceEach'
<1>1. /\ \A g \in Heaps : InMail(g)' = InMail(g) /\ Once(m_channels'[g])
      /\ Freeing' = Freeing
  BY DEF InMail, Freeing, OnePlaceEach
<1>2. /\ \A g \in Heaps : space'[g] \subseteq space[g] /\ o \notin space'[g]
      /\ \A g \in Heaps : o \notin InMail(g)
      /\ o \notin Freeing \cup lost
  <2>1. CASE o \in space[h] /\ space' = [space EXCEPT ![h] = @ \ {o}]
    <3>1. \A g \in Heaps : o \in space[g] => g = h BY <2>1 DEF OnePlaceEach
    <3>2. \A g \in Heaps : space'[g] = IF g = h THEN space[h] \ {o} ELSE space[g]
      BY <2>1 DEF TypeOK
    <3>3. \A g \in Heaps : o \notin InMail(g) BY <2>1 DEF OnePlaceEach
    <3>4. o \notin Freeing \cup lost BY <2>1 DEF OnePlaceEach
    <3> QED BY <3>1, <3>2, <3>3, <3>4
  <2>2. CASE owner[o] = NoHeap /\ space' = space
    <3>1. \A g \in Heaps : owner[o] # g BY <2>2, HeapNumbers
    <3> QED BY <2>2, <3>1 DEF OnePlaceEach
  <2> QED BY <2>1, <2>2
<1>3. /\ owner'[o] = h
      /\ \A e \in Objects \ {o} : owner'[e] = owner[e]
  BY DEF OnePlaceEach, TypeOK
<1>4. /\ \A g \in Heaps : space[g] \subseteq Objects /\ InMail(g) \subseteq Objects
      /\ live \subseteq Objects /\ Freeing \subseteq Objects /\ lost \subseteq Objects
  BY MailsAre DEF TypeOK, Freeing
<1>5. ASSUME NEW g \in Heaps
      PROVE  /\ \A e \in space'[g] \cup InMail(g)' : owner'[e] = g
             /\ space'[g] \cap InMail(g)' = {}
             /\ (space'[g] \cup InMail(g)') \cap (live' \cup Freeing' \cup lost') = {}
  <2>1. \A e \in space[g] \cup InMail(g) : owner[e] = g BY DEF OnePlaceEach
  <2>2. space[g] \cap InMail(g) = {} BY DEF OnePlaceEach
  <2>3. (space[g] \cup InMail(g)) \cap (live \cup Freeing \cup lost) = {} BY DEF OnePlaceEach
  <2> QED BY <1>1, <1>2, <1>3, <1>4, <2>1, <2>2, <2>3
<1>6. \A e \in live' \cup Freeing' \cup lost' : owner'[e] # NoHeap
  BY <1>1, <1>3, <1>4, HeapNumbers DEF OnePlaceEach
<1>7. \A e \in Objects : owner'[e] \in threadHeapTable' \cup {NoHeap}
  BY <1>3 DEF OnePlaceEach
<1>8. live' \cap Freeing' = {} /\ lost' \cap (live' \cup Freeing') = {}
  BY <1>1, <1>2 DEF OnePlaceEach
<1>9. \A t, u \in Threads : arg'[t] = arg'[u] /\ t # u => arg'[t] = NULL BY DEF OnePlaceEach
<1> QED BY <1>1, <1>5, <1>6, <1>7, <1>8, <1>9 DEF OnePlaceEach

\* What a thread was freeing is lost.
LEMMA LostPlaces ==
    ASSUME TypeOK, OnePlaceEach, NEW t \in Threads,
           arg' = [arg EXCEPT ![t] = NULL], lost' = lost \cup ({arg[t]} \ {NULL}),
           UNCHANGED <<threadHeapTable, m_channels, owner, space, live>>
    PROVE  OnePlaceEach'
<1>1. /\ \A g \in Heaps : InMail(g)' = InMail(g) /\ Once(m_channels'[g])
      /\ Freeing' = Freeing \ {arg[t]}
  BY FreeingShrinks DEF InMail, OnePlaceEach
<1>2. arg[t] # NULL => arg[t] \in Freeing BY DEF Freeing
<1>3. ASSUME NEW g \in Heaps
      PROVE  (space'[g] \cup InMail(g)') \cap (live' \cup Freeing' \cup lost') = {}
  <2>1. (space[g] \cup InMail(g)) \cap (live \cup Freeing \cup lost) = {} BY DEF OnePlaceEach
  <2> QED BY <1>1, <1>2, <2>1
<1>4. \A e \in live' \cup Freeing' \cup lost' : owner'[e] # NoHeap
  BY <1>1, <1>2 DEF OnePlaceEach
<1>5. live' \cap Freeing' = {} /\ lost' \cap (live' \cup Freeing') = {}
  BY <1>1, <1>2 DEF OnePlaceEach
<1>6. \A u, v \in Threads : arg'[u] = arg'[v] /\ u # v => arg'[u] = NULL
  BY DEF OnePlaceEach, TypeOK
<1> QED BY <1>1, <1>3, <1>4, <1>5, <1>6 DEF OnePlaceEach

\* What was with a heap and its mail is gone, or nothing was.
LEMMA EmptiedPlaces ==
    ASSUME TypeOK, OnePlaceEach, NEW S \in SUBSET Heaps, Empty(S),
           NEW L, lost' = lost \cup L, L \subseteq UNION {space[h] \cup InMail(h) : h \in S},
           UNCHANGED <<arg, owner, live>>, threadHeapTable \subseteq threadHeapTable'
    PROVE  OnePlaceEach'
<1>1. \A g \in Heaps : /\ InMail(g)' = IF g \in S THEN {} ELSE InMail(g)
                       /\ space'[g] = IF g \in S THEN {} ELSE space[g]
                       /\ Once(m_channels'[g])
  BY EmptyBox DEF Empty, InMail, OnePlaceEach
<1>2. Freeing' = Freeing BY DEF Freeing
<1>3. \A o \in L : \E h \in S : o \in space[h] \cup InMail(h) OBVIOUS
<1>4. \A o \in L : o \notin live \cup Freeing /\ owner[o] \in S BY <1>3 DEF OnePlaceEach
<1>5. ASSUME NEW g \in Heaps
      PROVE  /\ \A e \in space'[g] \cup InMail(g)' : owner'[e] = g
             /\ space'[g] \cap InMail(g)' = {}
             /\ (space'[g] \cup InMail(g)') \cap (live' \cup Freeing' \cup lost') = {}
  <2>1. \A e \in space[g] \cup InMail(g) : owner[e] = g BY DEF OnePlaceEach
  <2>2. space[g] \cap InMail(g) = {} BY DEF OnePlaceEach
  <2>3. (space[g] \cup InMail(g)) \cap (live \cup Freeing \cup lost) = {} BY DEF OnePlaceEach
  <2> QED BY <1>1, <1>2, <1>4, <2>1, <2>2, <2>3
<1>6. \A e \in live' \cup Freeing' \cup lost' : owner'[e] # NoHeap
  BY <1>2, <1>4, HeapNumbers DEF OnePlaceEach
<1>7. live' \cap Freeing' = {} /\ lost' \cap (live' \cup Freeing') = {}
  BY <1>2, <1>4 DEF OnePlaceEach
<1> QED BY <1>1, <1>5, <1>6, <1>7 DEF OnePlaceEach

LEMMA PlacesStep == TypeOK /\ Registry /\ OnePlaceEach /\ [Next]_vars => OnePlaceEach'
<1> SUFFICES ASSUME TypeOK, Registry, OnePlaceEach, [Next]_vars PROVE OnePlaceEach' OBVIOUS
<1>0. ASSUME UNCHANGED <<threadHeapTable, m_channels, owner, space, live, lost, arg>>
      PROVE  OnePlaceEach'
  BY <1>0 DEF OnePlaceEach, InMail, Freeing
<1>1. CASE UNCHANGED vars
  BY <1>0, <1>1 DEF vars, registry, control, mail, memory
<1>2. CASE Next
  <2> PICK t \in Threads : Program(t) \/ Create(t) \/ Alloc(t) \/ Free(t) BY <1>2 DEF Next
  <2> PICK h : h = localHeap[t] OBVIOUS
  <2>1. CASE nvmalloc(t) \/ alloc(t) \/ Exhausted(t) \/ ReturnNull(t) \/ CleanNothing(t)
    BY <1>0, <2>1
       DEF nvmalloc, alloc, Exhausted, ReturnNull, CleanNothing, registry, mail, memory
  <2>2. ASSUME NEW o \in Objects, nvfree(t, o) PROVE OnePlaceEach'
    <3>1. arg[t] = NULL /\ o \in live /\ live' = live \ {o} /\ arg' = [arg EXCEPT ![t] = o]
      BY <2>2 DEF nvfree, Registry
    <3>2. Freeing' = Freeing \cup {o} BY <3>1, FreeingGrows
    <3>3. UNCHANGED <<threadHeapTable, m_channels, owner, space, lost>>
      BY <2>2 DEF nvfree, registry, mail
    <3>4. \A g \in Heaps : InMail(g)' = InMail(g) BY <3>3 DEF InMail
    <3>5. o \notin Freeing BY <3>1 DEF OnePlaceEach
    <3>6. \A u \in Threads : arg[u] # o BY <3>5, ThreadHeapAssumption DEF Freeing
    <3>7. \A u, v \in Threads : arg'[u] = arg'[v] /\ u # v => arg'[u] = NULL
      BY <3>1, <3>6 DEF OnePlaceEach, TypeOK
    <3>8. live' \cap Freeing' = {} /\ lost' \cap (live' \cup Freeing') = {}
      BY <3>1, <3>2, <3>3 DEF OnePlaceEach
    <3>9. \A g \in Heaps : (space'[g] \cup InMail(g)') \cap (live' \cup Freeing' \cup lost') = {}
      BY <3>1, <3>2, <3>3, <3>4 DEF OnePlaceEach
    <3> QED BY <3>1, <3>2, <3>3, <3>4, <3>7, <3>8, <3>9 DEF OnePlaceEach
  <2>3. ASSUME NEW g \in Heaps, bindThreadHeap(t, g) PROVE OnePlaceEach'
    <3>1. Empty({g} \ threadHeapTable) /\ lost' = lost \cup {}
      BY <2>3 DEF bindThreadHeap
    <3>2. UNCHANGED <<arg, owner, live>> /\ threadHeapTable \subseteq threadHeapTable'
      BY <2>3 DEF bindThreadHeap, Bind
    <3>3. {g} \ threadHeapTable \in SUBSET Heaps OBVIOUS
    <3> QED BY <3>1, <3>2, <3>3, EmptiedPlaces
  <2>4. CASE CreateLocalHeap(t)
    <3>1. PICK g \in Heaps : /\ Empty({g}) /\ Bind(t, g)
                             /\ lost' = lost \cup space[g] \cup InMail(g)
      BY <2>4 DEF CreateLocalHeap
    <3>2. UNCHANGED <<arg, owner, live>> /\ threadHeapTable \subseteq threadHeapTable'
      BY <2>4, <3>1 DEF CreateLocalHeap, Bind
    <3>3. /\ lost' = lost \cup (space[g] \cup InMail(g))
          /\ space[g] \cup InMail(g) \subseteq UNION {space[f] \cup InMail(f) : f \in {g}}
      BY <3>1
    <3> QED BY <3>1, <3>2, <3>3, EmptiedPlaces
  <2>5. CASE CreateFails(t)
    BY <2>5, LostPlaces DEF CreateFails, registry, mail
  <2>6. CASE SendRefused(t)
    <3>1. arg[t] # NULL BY <2>6 DEF SendRefused, FreeReturns, Step, Registry
    <3>2. lost' = lost \cup ({arg[t]} \ {NULL}) BY <2>6, <3>1 DEF SendRefused
    <3> QED BY <2>6, <3>2, LostPlaces DEF SendRefused, FreeReturns, registry, mail
  <2>7. ASSUME NEW o \in Objects, Take(t, o) \/ TakeSegment(t, o) PROVE OnePlaceEach'
    <3>1. h \in Heaps /\ h \in threadHeapTable
      BY <2>7 DEF Take, TakeSegment, Registry, TypeOK
    <3>2. live' = live \cup {o} /\ UNCHANGED <<threadHeapTable, arg, m_channels, lost>>
      BY <2>7 DEF Take, TakeSegment, HandOut, registry, mail
    <3> QED BY <2>7, <3>1, <3>2, HandedOutPlaces DEF Take, TakeSegment
  <2>8. CASE FreeLocally(t)
    <3> PICK o : o = arg[t] OBVIOUS
    <3>1. o \in Objects /\ o \in Freeing
      BY <2>8 DEF FreeLocally, FreeReturns, Step, Registry, TypeOK, Freeing
    <3>2. owner[o] = h /\ h \in Heaps
      BY <2>8 DEF FreeLocally, FreeReturns, Step, Registry, TypeOK
    <3>3. o \notin live \cup lost \cup space[h] \cup InMail(h) BY <3>1, <3>2 DEF OnePlaceEach
    <3>4. arg' = [arg EXCEPT ![t] = NULL]
          /\ UNCHANGED <<live, threadHeapTable, m_channels>>
      BY <2>8 DEF FreeLocally, FreeReturns, registry, mail
    <3>5. Freeing' = Freeing \ {o} BY <3>4, FreeingShrinks
    <3>6. \A g \in Heaps : InMail(g)' = InMail(g) /\ Once(m_channels'[g])
      BY <3>4 DEF InMail, OnePlaceEach
    <3>7. \A u, v \in Threads : arg'[u] = arg'[v] /\ u # v => arg'[u] = NULL
      BY <3>4 DEF OnePlaceEach, TypeOK
    <3>8. FreedBy(h, o) \/ LostBy(h, o) BY <2>8 DEF FreeLocally
    <3> QED BY <3>1, <3>2, <3>3, <3>4, <3>5, <3>6, <3>7, <3>8, FreedPlaces
  <2>9. CASE SendToOwner(t)
    <3> PICK o : o = arg[t] OBVIOUS
    <3> PICK g : g = owner[o] OBVIOUS
    <3>1. o \in Objects /\ o \in Freeing /\ h \in Heaps
      BY <2>9 DEF SendToOwner, FreeReturns, Step, Registry, TypeOK, Freeing
    <3>2. g \in Heaps /\ g # h BY <2>9, <3>1 DEF SendToOwner, OnePlaceEach, TypeOK
    <3>3. \A f \in Heaps : o \notin space[f] \cup InMail(f) BY <3>1 DEF OnePlaceEach
    <3>4. o \notin live \cup lost BY <3>1 DEF OnePlaceEach
    <3>5. arg' = [arg EXCEPT ![t] = NULL]
          /\ UNCHANGED <<live, threadHeapTable, owner, space, lost>>
          /\ Deliver(g, ChannelOf(g, h), o)
      BY <2>9 DEF SendToOwner, FreeReturns, registry
    <3>6. Freeing' = Freeing \ {o} BY <3>5, FreeingShrinks
    <3>7. \A u, v \in Threads : arg'[u] = arg'[v] /\ u # v => arg'[u] = NULL
      BY <3>5 DEF OnePlaceEach, TypeOK
    <3>8. owner[o] = g OBVIOUS
    <3>9. /\ \A f \in Heaps : Once(m_channels'[f])
          /\ InMail(g)' = InMail(g) \cup {o}
          /\ \A f \in Heaps \ {g} : InMail(f)' = InMail(f)
      BY <3>1, <3>2, <3>3, <3>5, SendArrives
    <3>10. ASSUME NEW f \in Heaps
           PROVE  /\ \A e \in space'[f] \cup InMail(f)' : owner'[e] = f
                  /\ space'[f] \cap InMail(f)' = {}
                  /\ (space'[f] \cup InMail(f)') \cap (live' \cup Freeing' \cup lost') = {}
      <4>1. \A e \in space[f] \cup InMail(f) : owner[e] = f BY DEF OnePlaceEach
      <4>2. space[f] \cap InMail(f) = {} BY DEF OnePlaceEach
      <4>3. (space[f] \cup InMail(f)) \cap (live \cup Freeing \cup lost) = {} BY DEF OnePlaceEach
      <4>4. InMail(f)' = IF f = g THEN InMail(f) \cup {o} ELSE InMail(f) BY <3>9
      <4> QED BY <3>3, <3>4, <3>5, <3>6, <3>8, <4>1, <4>2, <4>3, <4>4
    <3>11. live' \cap Freeing' = {} /\ lost' \cap (live' \cup Freeing') = {}
      BY <3>5, <3>6 DEF OnePlaceEach
    <3> QED BY <3>5, <3>6, <3>7, <3>9, <3>10, <3>11 DEF OnePlaceEach
  <2>10. ASSUME NEW o \in Objects, CleanMessage(t, o) \/ CleanFails(t, o) PROVE OnePlaceEach'
    <3>1. h \in Heaps /\ Pop(h, o)
      BY <2>10 DEF CleanMessage, CleanFails, Cleaning, Registry, TypeOK
    <3>2. UNCHANGED <<live, threadHeapTable, arg>>
      BY <2>10 DEF CleanMessage, CleanFails, registry, control
    <3>3. /\ o \in InMail(h)
          /\ \A g \in Heaps : Once(m_channels'[g])
          /\ InMail(h)' = InMail(h) \ {o}
          /\ \A g \in Heaps \ {h} : InMail(g)' = InMail(g)
      BY <3>1, PopTakesOne
    <3>4. owner[o] = h /\ o \notin live \cup lost \cup Freeing \cup space[h]
      BY <3>1, <3>3 DEF OnePlaceEach
    <3>5. Freeing' = Freeing BY <3>2 DEF Freeing
    <3>6. \A u, v \in Threads : arg'[u] = arg'[v] /\ u # v => arg'[u] = NULL
      BY <3>2 DEF OnePlaceEach
    <3>7. FreedBy(h, o) \/ LostBy(h, o) BY <2>10 DEF CleanMessage, CleanFails
    <3>8. \A g \in Heaps : InMail(g)' \subseteq InMail(g) BY <3>3
    <3> QED BY <3>1, <3>2, <3>3, <3>4, <3>5, <3>6, <3>7, <3>8, FreedPlaces
  <2> QED BY <2>1, <2>2, <2>3, <2>4, <2>5, <2>6, <2>7, <2>8, <2>9, <2>10
          DEF Program, StartAlloc, Create, Alloc, Free
<1> QED BY <1>1, <1>2

\* An object is in one place at a time, and what belongs to a heap goes to it.
THEOREM ObjectsInOnePlace == Spec => []OnePlaceEach
<1>1. Init => TypeOK /\ Registry /\ OnePlaceEach BY InitTypeOK, InitRegistry, InitPlaces
<1>2. TypeOK /\ Registry /\ OnePlaceEach /\ [Next]_vars => (TypeOK /\ Registry /\ OnePlaceEach)'
  BY TypeOKStep, RegistryStep, PlacesStep
<1> QED BY <1>1, <1>2, PTL DEF Spec
-----------------------------------------------------------------------------
(* The abstract pool *)

LEMMA InitPool == Init => Pool!Init
<1> SUFFICES ASSUME Init PROVE Pool!Init OBVIOUS
<1>1. Freeing = {} /\ \A h \in Heaps : InMail(h) = {} BY EmptyBox DEF Init, Freeing, InMail
<1>2. Returned = {} BY <1>1 DEF Returned
<1>3. owner \in [Objects -> threadHeapTable \cup {NoHeap}] /\ threadHeapTable \subseteq Heaps
  BY DEF Init
<1>4. \A h \in Heaps : space[h] = {o \in Objects \ live : owner[o] = h} BY DEF Init
<1>5. live \subseteq {o \in Objects : owner[o] # NoHeap} BY DEF Init
<1>6. \A o : o \in Available <=> o \in Objects \ live BY <1>3, <1>4, <1>5 DEF Available, Nobodys
<1>7. lost = {} /\ live \in SUBSET Objects BY <1>5 DEF Init
<1> QED BY <1>2, <1>6, <1>7 DEF Pool!Init

\* The abstract sets, element by element.
LEMMA InSets ==
    ASSUME TypeOK
    PROVE  /\ \A o : o \in Available <=>
                        o \in Objects /\ (owner[o] = NoHeap \/ \E h \in Heaps : o \in space[h])
           /\ \A o : o \in Returned <=> o \in Freeing \/ \E h \in Heaps : o \in InMail(h)
BY DEF Available, Nobodys, Returned, TypeOK

LEMMA AvailableNext ==
    ASSUME TypeOK'
    PROVE  \A o : o \in Available' <=>
                     /\ o \in Objects
                     /\ owner'[o] = NoHeap \/ \E h \in Heaps : o \in space'[h]
BY DEF Available, Nobodys, TypeOK

\* An object freed becomes available or is lost.
LEMMA FreedPool ==
    ASSUME TypeOK, OnePlaceEach, TypeOK', NEW h \in Heaps, NEW o \in Objects,
           owner[o] = h, o \in Returned, Returned' = Returned \ {o}, live' = live,
           o \notin lost, \A g \in Heaps : o \notin space[g],
           FreedBy(h, o) \/ LostBy(h, o)
    PROVE  Pool!Reclaim(o) \/ Pool!Lose(o)
<1>0. h # NoHeap /\ o \notin Available BY InSets, HeapNumbers
<1>1. CASE TakenIn(h, o)
  <2>1. \A g \in Heaps : space'[g] = IF g = h THEN space[g] \cup {o} ELSE space[g]
    BY <1>1 DEF TakenIn, TypeOK
  <2>2. owner' = owner /\ lost' = lost BY <1>1 DEF TakenIn
  <2>3. \A e : (\E g \in Heaps : e \in space'[g]) <=> e = o \/ \E g \in Heaps : e \in space[g]
    BY <2>1
  <2>4. \A e : e \in Available' <=>
                  e \in Objects /\ (owner[e] = NoHeap \/ \E g \in Heaps : e \in space'[g])
    BY <2>2, AvailableNext
  <2>5. Available' = Available \cup {o} BY <2>3, <2>4, InSets
  <2> QED BY <2>2, <2>5 DEF Pool!Reclaim
<1>2. CASE ToNobody(h, o)
  <2>1. \A e \in Objects : owner'[e] = IF e = o THEN NoHeap ELSE owner[e]
    BY <1>2 DEF ToNobody, TypeOK
  <2>2. space' = space /\ lost' = lost BY <1>2 DEF ToNobody
  <2>3. \A e : e \in Available' <=>
                  e \in Objects /\ (owner'[e] = NoHeap \/ \E g \in Heaps : e \in space[g])
    BY <2>2, AvailableNext
  <2>4. Available' = Available \cup {o} BY <2>1, <2>3, InSets
  <2> QED BY <2>2, <2>4 DEF Pool!Reclaim
<1>3. CASE LostBy(h, o)
  <2>1. owner' = owner /\ space' = space /\ lost' = lost \cup {o} BY <1>3 DEF LostBy
  <2>2. Available' = Available BY <2>1 DEF Available, Nobodys
  <2> QED BY <2>1, <2>2 DEF Pool!Lose
<1> QED BY <1>1, <1>2, <1>3 DEF FreedBy

\* What leaves the hands of its thread, with the mail as it was, leaves Returned.
LEMMA ReturnedShrinks ==
    ASSUME TypeOK, OnePlaceEach, NEW t \in Threads, arg[t] # NULL,
           arg' = [arg EXCEPT ![t] = NULL], m_channels' = m_channels
    PROVE  /\ arg[t] \in Objects /\ arg[t] \in Returned
           /\ Returned' = Returned \ {arg[t]}
           /\ arg[t] \notin live \cup lost
           /\ \A h \in Heaps : arg[t] \notin space[h]
<1>1. arg[t] \in Freeing /\ arg[t] \in Objects BY DEF Freeing, TypeOK
<1>2. owner[arg[t]] \in Heaps BY <1>1 DEF OnePlaceEach, TypeOK
<1>3. \A h \in Heaps : arg[t] \notin InMail(h) /\ arg[t] \notin space[h]
  BY <1>1 DEF OnePlaceEach
<1>4. Freeing' = Freeing \ {arg[t]} BY FreeingShrinks
<1>5. \A h \in Heaps : InMail(h)' = InMail(h) BY DEF InMail
<1>6. Returned' = Returned \ {arg[t]}
  <2>1. \A e : e \in Returned' <=> e \in Freeing' \/ \E h \in Heaps : e \in InMail(h)'
    BY DEF Returned
  <2>2. \A e : e \in Returned <=> e \in Freeing \/ \E h \in Heaps : e \in InMail(h)
    BY DEF Returned
  <2> QED BY <1>3, <1>4, <1>5, <2>1, <2>2
<1>7. arg[t] \notin live \cup lost BY <1>1 DEF OnePlaceEach
<1> QED BY <1>1, <1>3, <1>6, <1>7 DEF Returned

LEMMA PoolStep ==
    TypeOK /\ TypeOK' /\ Registry /\ OnePlaceEach /\ [Next]_vars
        => [Pool!Next]_<<Available, live, Returned, lost>>
<1> SUFFICES ASSUME TypeOK, TypeOK', Registry, OnePlaceEach, [Next]_vars
             PROVE  [Pool!Next]_<<Available, live, Returned, lost>>
  OBVIOUS
<1>0. ASSUME UNCHANGED <<m_channels, owner, space, live, lost, arg>>
      PROVE  UNCHANGED <<Available, live, Returned, lost>>
  BY <1>0 DEF Available, Nobodys, Returned, Freeing, InMail
<1>1. CASE UNCHANGED vars
  BY <1>0, <1>1 DEF vars, registry, control, mail, memory
<1>2. CASE Next
  <2> PICK t \in Threads : Program(t) \/ Create(t) \/ Alloc(t) \/ Free(t) BY <1>2 DEF Next
  <2> PICK h : h = localHeap[t] OBVIOUS
  <2>1. CASE nvmalloc(t) \/ alloc(t) \/ Exhausted(t) \/ ReturnNull(t) \/ CleanNothing(t)
    BY <1>0, <2>1
       DEF nvmalloc, alloc, Exhausted, ReturnNull, CleanNothing, registry, mail, memory
  <2>2. ASSUME NEW o \in Objects, nvfree(t, o) PROVE Pool!Free(o)
    <3>1. arg[t] = NULL /\ o \in live /\ live' = live \ {o} /\ arg' = [arg EXCEPT ![t] = o]
      BY <2>2 DEF nvfree, Registry
    <3>2. Freeing' = Freeing \cup {o} BY <3>1, FreeingGrows
    <3>3. UNCHANGED <<m_channels, owner, space, lost>> BY <2>2 DEF nvfree, mail
    <3>4. Returned' = Returned \cup {o} BY <3>2, <3>3 DEF Returned, InMail
    <3>5. Available' = Available BY <3>3 DEF Available, Nobodys
    <3> QED BY <3>1, <3>3, <3>4, <3>5 DEF Pool!Free
  <2>3. ASSUME NEW g \in Heaps, bindThreadHeap(t, g)
        PROVE  UNCHANGED <<Available, live, Returned, lost>>
    <3>1. /\ Empty({g} \ threadHeapTable)
          /\ UNCHANGED <<live, lost, owner, arg>>
      BY <2>3 DEF bindThreadHeap
    <3>2. g \notin threadHeapTable => space[g] = {} /\ InMail(g) = {}
      <4>1. ASSUME NEW o \in space[g] \cup InMail(g) PROVE g \in threadHeapTable
        <5>1. o \in Objects BY MailsAre DEF TypeOK
        <5> QED BY <5>1, HeapNumbers DEF OnePlaceEach
      <4> QED BY <4>1
    <3>3. \A f \in Heaps : InMail(f)' = InMail(f) /\ space'[f] = space[f]
      BY <3>1, <3>2, EmptyBox DEF Empty, InMail
    <3>4. Available' = Available BY <3>1, <3>3 DEF Available, Nobodys
    <3>5. Returned' = Returned BY <3>1, <3>3 DEF Returned, Freeing
    <3> QED BY <3>1, <3>4, <3>5
  <2>4. CASE CreateLocalHeap(t)
    <3>1. PICK g \in Heaps : Empty({g}) /\ lost' = lost \cup space[g] \cup InMail(g)
      BY <2>4 DEF CreateLocalHeap
    <3>2. UNCHANGED <<arg, owner, live>> BY <2>4 DEF CreateLocalHeap
    <3> DEFINE S == space[g] \cup InMail(g)
    <3>3. \A f \in Heaps : /\ InMail(f)' = IF f = g THEN {} ELSE InMail(f)
                           /\ space'[f] = IF f = g THEN {} ELSE space[f]
      BY <3>1, EmptyBox DEF Empty, InMail
    <3>4. \A o \in S : owner[o] = g /\ o \notin Freeing BY DEF OnePlaceEach
    <3>5. Freeing' = Freeing BY <3>2 DEF Freeing
    <3>6. Available' = Available \ S
      <4>1. \A o : o \in Available' <=>
               o \in Objects /\ (owner[o] = NoHeap \/ \E f \in Heaps : o \in space'[f])
        BY <3>2, AvailableNext
      <4>2. \A o \in S : \A f \in Heaps \ {g} : o \notin space[f] BY <3>4 DEF OnePlaceEach
      <4>3. \A o \in S : owner[o] # NoHeap BY <3>4, HeapNumbers
      <4> HIDE DEF S
      <4>4. space[g] \subseteq S BY DEF S
      <4> QED BY <3>3, <4>1, <4>2, <4>3, <4>4, InSets
    <3>7. Returned' = Returned \ S
      <4>1. \A o : o \in Returned' <=> o \in Freeing \/ \E f \in Heaps : o \in InMail(f)'
        BY <3>5 DEF Returned
      <4>2. \A o \in S : \A f \in Heaps \ {g} : o \notin InMail(f) BY <3>4 DEF OnePlaceEach
      <4>3. InMail(g) \subseteq S OBVIOUS
      <4> HIDE DEF S
      <4> QED BY <3>3, <3>4, <4>1, <4>2, <4>3, InSets
    <3>8. S \subseteq Available \cup Returned BY MailsAre, InSets DEF TypeOK
    <3>9. S \in SUBSET Objects BY MailsAre DEF TypeOK
    <3>10. Pool!GiveUp(S) BY <3>1, <3>2, <3>6, <3>7, <3>8 DEF Pool!GiveUp
    <3> QED BY <3>9, <3>10 DEF Pool!Next
  <2>5. CASE CreateFails(t) /\ arg[t] = NULL
    <3>1. arg' = arg BY <2>5 DEF CreateFails, TypeOK
    <3> QED BY <1>0, <2>5, <3>1 DEF CreateFails, mail
  <2>6. CASE SendRefused(t) \/ (CreateFails(t) /\ arg[t] # NULL)
    <3>1. arg[t] # NULL BY <2>6 DEF SendRefused, FreeReturns, Step, Registry
    <3>2. /\ arg' = [arg EXCEPT ![t] = NULL]
          /\ lost' = lost \cup {arg[t]}
          /\ UNCHANGED <<m_channels, owner, space, live>>
      BY <2>6, <3>1 DEF SendRefused, FreeReturns, CreateFails, mail
    <3>3. Available' = Available BY <3>2 DEF Available, Nobodys
    <3>4. Pool!Lose(arg[t]) BY <3>1, <3>2, <3>3, ReturnedShrinks DEF Pool!Lose
    <3> QED BY <3>1, <3>2, <3>4, ReturnedShrinks DEF Pool!Next
  <2>7. ASSUME NEW o \in Objects, Take(t, o) PROVE Pool!Alloc(o)
    <3>1. h \in Heaps BY <2>7 DEF Take, Registry, TypeOK
    <3>2. /\ o \in space[h] /\ space' = [space EXCEPT ![h] = @ \ {o}]
          /\ live' = live \cup {o}
          /\ UNCHANGED <<owner, lost, arg, m_channels>>
      BY <2>7 DEF Take, HandOut, mail
    <3>3. Returned' = Returned BY <3>2 DEF Returned, Freeing, InMail
    <3>4. \A f \in Heaps : space'[f] = IF f = h THEN space[h] \ {o} ELSE space[f]
      BY <3>2 DEF TypeOK
    <3>5. owner[o] = h /\ owner[o] # NoHeap
      BY <3>1, <3>2, HeapNumbers DEF OnePlaceEach
    <3>6. \A f \in Heaps : o \in space[f] => f = h BY <3>5 DEF OnePlaceEach
    <3>7. \A e : e \in Available' <=>
             e \in Objects /\ (owner[e] = NoHeap \/ \E f \in Heaps : e \in space'[f])
      BY <3>2, AvailableNext
    <3>8. Available' = Available \ {o} BY <3>4, <3>5, <3>6, <3>7, InSets
    <3>9. o \in Available BY <3>1, <3>2, InSets
    <3> QED BY <3>2, <3>3, <3>8, <3>9 DEF Pool!Alloc
  <2>8. ASSUME NEW o \in Objects, TakeSegment(t, o) PROVE Pool!Alloc(o)
    <3>1. h \in Heaps BY <2>8 DEF TakeSegment, Registry, TypeOK
    <3>2. /\ owner[o] = NoHeap /\ owner' = [owner EXCEPT ![o] = h]
          /\ live' = live \cup {o}
          /\ UNCHANGED <<space, lost, arg, m_channels>>
      BY <2>8 DEF TakeSegment, HandOut, mail
    <3>3. Returned' = Returned BY <3>2 DEF Returned, Freeing, InMail
    <3>4. \A e \in Objects : owner'[e] = IF e = o THEN h ELSE owner[e] BY <3>2 DEF TypeOK
    <3>5. \A f \in Heaps : o \notin space[f] BY <3>2, HeapNumbers DEF OnePlaceEach
    <3>6. \A e : e \in Available' <=>
             e \in Objects /\ (owner'[e] = NoHeap \/ \E f \in Heaps : e \in space[f])
      BY <3>2, AvailableNext
    <3>7. Available' = Available \ {o} BY <3>1, <3>4, <3>5, <3>6, InSets, HeapNumbers
    <3>8. o \in Available BY <3>2, InSets
    <3> QED BY <3>2, <3>3, <3>7, <3>8 DEF Pool!Alloc
  <2>9. CASE FreeLocally(t)
    <3> PICK o : o = arg[t] OBVIOUS
    <3>1. o # NULL /\ owner[o] = h /\ h \in Heaps
      BY <2>9 DEF FreeLocally, FreeReturns, Step, Registry, TypeOK
    <3>2. arg' = [arg EXCEPT ![t] = NULL] /\ live' = live /\ m_channels' = m_channels
      BY <2>9 DEF FreeLocally, FreeReturns, mail
    <3>3. /\ o \in Objects /\ o \in Returned /\ Returned' = Returned \ {o}
          /\ o \notin lost /\ \A g \in Heaps : o \notin space[g]
      BY <3>1, <3>2, ReturnedShrinks
    <3>4. FreedBy(h, o) \/ LostBy(h, o) BY <2>9 DEF FreeLocally
    <3>5. Pool!Reclaim(o) \/ Pool!Lose(o) BY <3>1, <3>2, <3>3, <3>4, FreedPool
    <3> QED BY <3>3, <3>5 DEF Pool!Next
  <2>10. CASE SendToOwner(t)
    <3> PICK o : o = arg[t] OBVIOUS
    <3> PICK g : g = owner[o] OBVIOUS
    <3>1. o \in Objects /\ o \in Freeing /\ h \in Heaps
      BY <2>10 DEF SendToOwner, FreeReturns, Step, Registry, TypeOK, Freeing
    <3>2. g \in Heaps /\ g # h BY <2>10, <3>1 DEF SendToOwner, OnePlaceEach, TypeOK
    <3>3. o \notin InMail(g) BY <3>1, <3>2 DEF OnePlaceEach
    <3>4. /\ arg' = [arg EXCEPT ![t] = NULL]
          /\ UNCHANGED <<live, owner, space, lost>>
          /\ Deliver(g, ChannelOf(g, h), o)
      BY <2>10 DEF SendToOwner, FreeReturns
    <3>5. Freeing' = Freeing \ {o} BY <3>4, FreeingShrinks
    <3>6. /\ InMail(g)' = InMail(g) \cup {o}
          /\ \A f \in Heaps \ {g} : InMail(f)' = InMail(f)
      BY <3>1, <3>2, <3>3, <3>4, SendArrives
    <3>7. Returned' = Returned
      <4>1. \A e : e \in Returned' <=> e \in Freeing' \/ \E f \in Heaps : e \in InMail(f)'
        BY DEF Returned
      <4>2. \A e : (\E f \in Heaps : e \in InMail(f)')
                      <=> e = o \/ \E f \in Heaps : e \in InMail(f)
        BY <3>2, <3>6
      <4> QED BY <3>1, <3>5, <4>1, <4>2, InSets
    <3>8. Available' = Available BY <3>4 DEF Available, Nobodys
    <3> QED BY <3>4, <3>7, <3>8
  <2>11. ASSUME NEW o \in Objects, CleanMessage(t, o) \/ CleanFails(t, o)
         PROVE  Pool!Reclaim(o) \/ Pool!Lose(o)
    <3>1. h \in Heaps /\ Pop(h, o)
      BY <2>11 DEF CleanMessage, CleanFails, Cleaning, Registry, TypeOK
    <3>2. live' = live /\ arg' = arg BY <2>11 DEF CleanMessage, CleanFails, control
    <3>3. /\ o \in InMail(h)
          /\ InMail(h)' = InMail(h) \ {o}
          /\ \A g \in Heaps \ {h} : InMail(g)' = InMail(g)
      BY <3>1, PopTakesOne
    <3>4. owner[o] = h /\ o \notin lost \cup Freeing BY <3>1, <3>3 DEF OnePlaceEach
    <3>5. \A g \in Heaps : o \notin space[g] BY <3>1, <3>3, <3>4 DEF OnePlaceEach
    <3>6. \A g \in Heaps : o \in InMail(g) => g = h BY <3>4 DEF OnePlaceEach
    <3>7. Freeing' = Freeing BY <3>2 DEF Freeing
    <3>8. Returned' = Returned \ {o}
      <4>1. \A e : e \in Returned' <=> e \in Freeing \/ \E f \in Heaps : e \in InMail(f)'
        BY <3>7 DEF Returned
      <4> QED BY <3>3, <3>4, <3>6, <4>1, InSets
    <3>9. o \in Returned BY <3>1, <3>3, InSets
    <3>10. FreedBy(h, o) \/ LostBy(h, o) BY <2>11 DEF CleanMessage, CleanFails
    <3> QED BY <3>1, <3>2, <3>4, <3>5, <3>8, <3>9, <3>10, FreedPool
  <2> QED BY <2>1, <2>2, <2>3, <2>4, <2>5, <2>6, <2>7, <2>8, <2>9, <2>10, <2>11
          DEF Program, StartAlloc, Create, Alloc, Free, Pool!Next
<1> QED BY <1>1, <1>2

\* Threads that allocate and free as they like, through mailboxes, behave like
\* the abstract pool.
THEOREM HeapsImplementPool == Spec => ImplementsPool
<1>1. Init => Pool!Init BY InitPool
<1>2. Init => TypeOK /\ Registry /\ OnePlaceEach BY InitTypeOK, InitRegistry, InitPlaces
<1>3. TypeOK /\ Registry /\ OnePlaceEach /\ [Next]_vars => (TypeOK /\ Registry /\ OnePlaceEach)'
  BY TypeOKStep, RegistryStep, PlacesStep
<1>4. TypeOK /\ TypeOK' /\ Registry /\ OnePlaceEach /\ [Next]_vars
         => [Pool!Next]_<<Available, live, Returned, lost>>
  BY PoolStep
<1> QED BY <1>1, <1>2, <1>3, <1>4, PTL DEF Spec, ImplementsPool, Pool!Spec
=============================================================================
