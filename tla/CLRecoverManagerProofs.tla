----------------------- MODULE CLRecoverManagerProofs -----------------------
(***************************************************************************)
(* Proofs about the search of recovery, for any number of heaps, any graph *)
(* of objects and any placement of them.  Counters and latches are the     *)
(* sizes of sets of heaps, so that a counter at zero tells where every     *)
(* heap is; what the searches have done so far is a set of visited objects *)
(* that only pending ones lead out of.                                     *)
(*                                                                         *)
(* Then about the types the search follows: where the two passes of        *)
(* CLTypeInfoReader put each entry of the file, and the class that         *)
(* CLPoliciesManager finds for an object of a type's size.                 *)
(***************************************************************************)
EXTENDS CLRecoverManager, CLTypeInfoReader, SequenceTheorems, FiniteSetTheorems,
        WellFoundedInduction, TLAPS

SearchPCs == {"wait", "gather", "search", "visit", "cleanInSearch"}
Past      == Freeing \cup {"barrier", "cleanWaiting", "cleanLast"}

\* Whom doRecover has still to let start, who is counted as searching, and who
\* has not yet counted down at the end.
ToStart   == {h \in needRecover : h >= main.heap}
Searchers == {h \in needRecover :
                 /\ pc[h] \in SearchPCs
                 /\ h < main.heap \/ (h = main.heap /\ main.pc = "countDown")}
ToFinish  == {h \in needRecover : pc[h] # "done"}

Counts ==
    /\ canStart.count = Cardinality(ToStart)
    /\ searchingThreadNum = Cardinality(Searchers)
    /\ canFinish.count = Cardinality(ToFinish)

Phases ==
    /\ main.pc \in {"increment", "countDown"} => main.heap \in needRecover
    /\ \A h \in Heaps :
          /\ pc[h] # "crashed"
          /\ pc[h] = "off" <=> \/ h \notin needRecover \/ h > main.heap
                               \/ h = main.heap /\ main.pc = "create"
          /\ pc[h] \notin {"off", "wait"} => canStart.count = 0
          /\ h \in built <=> pc[h] \notin {"off", "wait", "gather"}
          /\ entry[h] # NULL <=> pc[h] \in {"visit", "cleanInSearch"}
          /\ pc[h] \in SearchPCs \ {"wait", "gather"} \/ st[h] = <<>>

\* The barrier: who has passed it leaves nobody behind who could still push.
Together ==
    \A h \in Heaps : pc[h] \in Freeing \cup {"cleanLast"} =>
        \A g \in needRecover : pc[g] \in Past

Behind(h, i) ==
    IF startChannel[h] <= m_curChannel[h]
    THEN startChannel[h] <= i /\ i < m_curChannel[h]
    ELSE startChannel[h] <= i \/ i < m_curChannel[h]

Swept ==
    \A h \in Heaps, i \in Channels :
        /\ pc[h] = "cleanLast" /\ Behind(h, i) => m_channels[h][i] = <<>>
        /\ pc[h] \in Freeing => m_channels[h][i] = <<>>
        /\ h \notin built => m_channels[h][i] = <<>>

Elems(s) == {s[k] : k \in 1 .. Len(s)}

Mail(h)  == UNION {Elems(m_channels[h][i]) : i \in Channels}
Stacked  == UNION {Elems(st[h]) : h \in Heaps}
InHand   == {entry[h] : h \in Heaps} \ {NULL}
Pending  == Stacked \cup InHand

\* Nothing is searched, told or marked that no root leads to.
OnlyReachable ==
    /\ Pending \subseteq Reachable
    /\ \A h \in Heaps : Mail(h) \cup allocated[h] \subseteq Owned(h)

\* D: the objects that were visited.
Visited(D) ==
    /\ \A r \in roots : owner[r] \in built => r \in D \cup Pending
    /\ \A d \in D : ptrs[d] \subseteq D \cup Pending
    /\ \A d \in D, g \in Heaps : owner[d] = g => d \in allocated[g] \cup Mail(g) \cup refused

Covered == \E D \in SUBSET Objects : Visited(D)

Gone  == main.pc = "crashed" /\ \A h \in Heaps : pc[h] = "crashed"
Alive == main.pc # "crashed" /\ Counts /\ Phases /\ Together /\ Swept

OwnersOK == \A o \in Objects : owner[o] \in needRecover \cup {NoHeap}

IInv == TypeOK /\ OwnersOK /\ (Gone \/ Alive) /\ OnlyReachable /\ Covered

-----------------------------------------------------------------------------
(* Sequences as the sets of what they hold. *)

LEMMA NothingIn == Elems(<<>>) = {}
BY DEF Elems

LEMMA HeadAndTail ==
    ASSUME NEW S, NEW s \in Seq(S), s # <<>>
    PROVE  /\ Head(s) \in S /\ Tail(s) \in Seq(S)
           /\ Elems(s) = {Head(s)} \cup Elems(Tail(s))
<1>1. /\ Len(s) \in Nat \ {0} /\ Head(s) = s[1] /\ s[1] \in S /\ Tail(s) \in Seq(S)
      /\ Len(Tail(s)) = Len(s) - 1
      /\ \A k \in 1 .. Len(Tail(s)) : Tail(s)[k] = s[k + 1]
  OBVIOUS
<1>2. ASSUME NEW e \in Elems(s) PROVE e \in {Head(s)} \cup Elems(Tail(s))
  <2>1. PICK k \in 1 .. Len(s) : s[k] = e BY DEF Elems
  <2>2. CASE k = 1 BY <1>1, <2>1, <2>2
  <2>3. CASE k # 1
    <3>1. k - 1 \in 1 .. Len(Tail(s)) /\ Tail(s)[k - 1] = e BY <1>1, <2>1, <2>3
    <3> QED BY <3>1 DEF Elems
  <2> QED BY <2>2, <2>3
<1>3. ASSUME NEW e \in Elems(Tail(s)) PROVE e \in Elems(s)
  <2>1. PICK k \in 1 .. Len(Tail(s)) : Tail(s)[k] = e BY DEF Elems
  <2>2. k + 1 \in 1 .. Len(s) /\ s[k + 1] = e BY <1>1, <2>1
  <2> QED BY <2>2 DEF Elems
<1>4. Head(s) \in Elems(s)
  <2>1. 1 \in 1 .. Len(s) BY <1>1
  <2> QED BY <1>1, <2>1 DEF Elems
<1> QED BY <1>1, <1>2, <1>3, <1>4

LEMMA Appended ==
    ASSUME NEW S, NEW s \in Seq(S), NEW o \in S
    PROVE  /\ Append(s, o) \in Seq(S)
           /\ Elems(Append(s, o)) = Elems(s) \cup {o}
<1> DEFINE t == Append(s, o)
<1>1. /\ t \in Seq(S) /\ Len(s) \in Nat /\ Len(t) = Len(s) + 1
      /\ \A k \in 1 .. Len(s) : t[k] = s[k]
      /\ t[Len(s) + 1] = o
  OBVIOUS
<1> HIDE DEF t
<1>2. ASSUME NEW e \in Elems(t) PROVE e \in Elems(s) \cup {o}
  <2>1. PICK k \in 1 .. Len(t) : t[k] = e BY DEF Elems
  <2>2. k \in 1 .. Len(s) \/ k = Len(s) + 1 BY <1>1, <2>1
  <2> QED BY <1>1, <2>1, <2>2 DEF Elems
<1>3. ASSUME NEW e \in Elems(s) PROVE e \in Elems(t)
  <2>1. PICK k \in 1 .. Len(s) : s[k] = e BY DEF Elems
  <2>2. k \in 1 .. Len(t) /\ t[k] = e BY <1>1, <2>1
  <2> QED BY <2>2 DEF Elems
<1>4. o \in Elems(t)
  <2>1. Len(s) + 1 \in 1 .. Len(t) BY <1>1
  <2> QED BY <1>1, <2>1 DEF Elems
<1>5. Elems(t) = Elems(s) \cup {o} BY <1>2, <1>3, <1>4
<1> QED BY <1>1, <1>5 DEF t

LEMMA Joined ==
    ASSUME NEW S, NEW s \in Seq(S), NEW t \in Seq(S)
    PROVE  /\ s \o t \in Seq(S)
           /\ Elems(s \o t) = Elems(s) \cup Elems(t)
<1> DEFINE u == s \o t
<1>1. /\ u \in Seq(S) /\ Len(s) \in Nat /\ Len(t) \in Nat /\ Len(u) = Len(s) + Len(t)
      /\ \A k \in 1 .. Len(s) : u[k] = s[k]
      /\ \A k \in Len(s) + 1 .. Len(u) : u[k] = t[k - Len(s)]
  OBVIOUS
<1> HIDE DEF u
<1>2. ASSUME NEW e \in Elems(u) PROVE e \in Elems(s) \cup Elems(t)
  <2>1. PICK k \in 1 .. Len(u) : u[k] = e BY DEF Elems
  <2>2. CASE k \in 1 .. Len(s) BY <1>1, <2>1, <2>2 DEF Elems
  <2>3. CASE k \in Len(s) + 1 .. Len(u)
    <3>1. k - Len(s) \in 1 .. Len(t) /\ t[k - Len(s)] = e BY <1>1, <2>1, <2>3
    <3> QED BY <3>1 DEF Elems
  <2> QED BY <1>1, <2>1, <2>2, <2>3
<1>3. ASSUME NEW e \in Elems(s) PROVE e \in Elems(u)
  <2>1. PICK k \in 1 .. Len(s) : s[k] = e BY DEF Elems
  <2>2. k \in 1 .. Len(u) /\ u[k] = e BY <1>1, <2>1
  <2> QED BY <2>2 DEF Elems
<1>4. ASSUME NEW e \in Elems(t) PROVE e \in Elems(u)
  <2>1. PICK k \in 1 .. Len(t) : t[k] = e BY DEF Elems
  <2>2. k + Len(s) \in 1 .. Len(u) /\ k + Len(s) \in Len(s) + 1 .. Len(u) BY <1>1, <2>1
  <2>3. u[k + Len(s)] = e BY <1>1, <2>1, <2>2
  <2> QED BY <2>2, <2>3 DEF Elems
<1>5. Elems(u) = Elems(s) \cup Elems(t) BY <1>2, <1>3, <1>4
<1> QED BY <1>1, <1>5 DEF u

\* An order of a set of objects holds that set.
LEMMA Ordered ==
    ASSUME NEW S \in SUBSET Objects, NEW s \in Orders(S)
    PROVE  s \in Seq(Objects) /\ Elems(s) = S
<1>1. IsFiniteSet(S)
  <2>1. IsFiniteSet(Objects) BY RecoverAssumption, FS_Interval DEF Objects
  <2> QED BY <2>1, FS_Subset
<1> DEFINE n == Cardinality(S)
<1>2. n \in Nat BY <1>1, FS_CardinalityType
<1>3. s \in [1 .. n -> S] /\ \A o \in S : \E i \in DOMAIN s : s[i] = o BY DEF Orders
<1> HIDE DEF n
<1>4. s \in Seq(S) BY <1>2, <1>3
<1>5. s \in Seq(Objects) BY <1>2, <1>3
<1>6. Len(s) = n /\ DOMAIN s = 1 .. n BY <1>2, <1>3
<1> QED BY <1>3, <1>5, <1>6 DEF Elems

-----------------------------------------------------------------------------
(* Counters *)

LEMMA HeapSets ==
    ASSUME NEW S, S \subseteq Heaps
    PROVE  /\ IsFiniteSet(S) /\ Cardinality(S) \in 0 .. HeapNum
           /\ Cardinality(S) = 0 <=> S = {}
<1>1. IsFiniteSet(Heaps) /\ Cardinality(Heaps) = HeapNum
  BY RecoverAssumption, FS_Interval DEF Heaps
<1>2. IsFiniteSet(S) /\ Cardinality(S) <= Cardinality(Heaps) BY <1>1, FS_Subset
<1>3. Cardinality(S) \in Nat BY <1>2, FS_CardinalityType
<1> QED BY <1>1, <1>2, <1>3, FS_EmptySet, RecoverAssumption

LEMMA OneMore ==
    ASSUME NEW S, S \subseteq Heaps, NEW h \in Heaps, h \notin S
    PROVE  /\ Cardinality(S \cup {h}) = Cardinality(S) + 1
           /\ Cardinality(S) + 1 \in 0 .. HeapNum
<1>1. Cardinality(S \cup {h}) = Cardinality(S) + 1 BY HeapSets, FS_AddElement
<1>2. Cardinality(S \cup {h}) \in 0 .. HeapNum BY HeapSets
<1> QED BY <1>1, <1>2

LEMMA OneLess ==
    ASSUME NEW S, S \subseteq Heaps, NEW h \in S
    PROVE  /\ Cardinality(S \ {h}) = Cardinality(S) - 1
           /\ Cardinality(S) # 0 /\ Cardinality(S) - 1 \in 0 .. HeapNum
<1>1. Cardinality(S \ {h}) = Cardinality(S) - 1 BY HeapSets, FS_RemoveElement
<1>2. Cardinality(S \ {h}) \in 0 .. HeapNum BY HeapSets
<1>3. Cardinality(S) # 0 BY HeapSets
<1> QED BY <1>1, <1>2, <1>3

\* Whoever has gone on past canStart: everybody has been started and counted.
LEMMA AllStarted ==
    ASSUME TypeOK, Counts, canStart.count = 0
    PROVE  \A h \in needRecover : h < main.heap
<1>1. ToStart \subseteq Heaps BY DEF ToStart, TypeOK
<1>2. ToStart = {} BY <1>1, HeapSets DEF Counts
<1>3. main.heap \in 1 .. HeapNum + 1 /\ HeapNum \in Nat BY RecoverAssumption DEF TypeOK
<1>4. \A h \in needRecover : h \in 1 .. HeapNum /\ ~(h >= main.heap) BY <1>2 DEF ToStart, TypeOK, Heaps
<1> QED BY <1>3, <1>4

\* Nobody is left searching when the counter shows nobody.
LEMMA NoneSearches ==
    ASSUME TypeOK, Counts, Phases, canStart.count = 0, searchingThreadNum = 0
    PROVE  \A g \in needRecover : pc[g] \in Past
<1>1. \A g \in needRecover : g < main.heap /\ g \in Heaps BY AllStarted DEF TypeOK
<1>2. Searchers \subseteq Heaps BY DEF Searchers, TypeOK
<1>3. Searchers = {} BY <1>2, HeapSets DEF Counts
<1>4. \A g \in needRecover : pc[g] \notin SearchPCs BY <1>1, <1>3 DEF Searchers
<1>5. \A g \in needRecover : pc[g] \in PCs /\ pc[g] # "off" /\ pc[g] # "crashed"
  <2>1. main.heap \in 1 .. HeapNum + 1 /\ HeapNum \in Nat BY RecoverAssumption DEF TypeOK
  <2>2. \A g \in needRecover : g \in 1 .. HeapNum /\ ~(g > main.heap) /\ g # main.heap
    BY <1>1, <2>1 DEF Heaps
  <2>3. \A g \in needRecover : pc[g] \in PCs BY <1>1 DEF TypeOK
  <2> QED BY <1>1, <2>2, <2>3 DEF Phases
<1> QED BY <1>4, <1>5 DEF Past, PCs, SearchPCs, Freeing, CleanPCs

-----------------------------------------------------------------------------
(* What most steps leave alone. *)

LEMMA NvmKept ==
    ASSUME UNCHANGED nvm
    PROVE  /\ UNCHANGED <<ptrs, owner, roots, needRecover>>
           /\ Reachable' = Reachable
           /\ \A h \in Heaps : Owned(h)' = Owned(h)
           /\ OwnersOK => OwnersOK'
BY DEF nvm, Reachable, Owned, OwnersOK

LEMMA HistoryKept ==
    ASSUME OnlyReachable, Covered, UNCHANGED nvm,
           UNCHANGED <<st, entry, m_channels, allocated, refused, built>>
    PROVE  OnlyReachable' /\ Covered'
<1>1. Pending' = Pending BY DEF Pending, Stacked, InHand
<1>2. \A h \in Heaps : Mail(h)' = Mail(h) BY DEF Mail
<1>3. OnlyReachable' BY <1>1, <1>2, NvmKept DEF OnlyReachable
<1>4. PICK D \in SUBSET Objects : Visited(D) BY DEF Covered
<1>5. Visited(D)'
  <2>1. \A h : Mail(h)' = Mail(h) BY DEF Mail
  <2> QED BY <1>1, <1>4, <2>1, NvmKept DEF Visited
<1> QED BY <1>3, <1>5 DEF Covered

\* A heap goes on, within the search or outside it.
LEMMA CountsKept ==
    ASSUME TypeOK, Counts, NEW h \in Heaps, NEW q,
           UNCHANGED nvm, pc' = [pc EXCEPT ![h] = q],
           UNCHANGED <<main, canFinish, searchingThreadNum>>, canStart'.count = canStart.count,
           pc[h] \in SearchPCs <=> q \in SearchPCs,
           pc[h] = "done" <=> q = "done"
    PROVE  Counts'
<1>1. needRecover \subseteq Heaps /\ \A g \in Heaps : pc'[g] = IF g = h THEN q ELSE pc[g]
  BY DEF TypeOK
<1>2. ToStart' = ToStart BY NvmKept DEF ToStart
<1>3. Searchers' = Searchers BY <1>1, NvmKept DEF Searchers
<1>4. ToFinish' = ToFinish BY <1>1, NvmKept DEF ToFinish
<1> QED BY <1>2, <1>3, <1>4 DEF Counts

LEMMA TogetherKept ==
    ASSUME TypeOK, Together, NEW h \in Heaps, NEW q,
           UNCHANGED nvm, pc' = [pc EXCEPT ![h] = q],
           pc[h] \in Past => q \in Past,
           \/ q \notin Freeing \cup {"cleanLast"}
           \/ pc[h] \in Freeing \cup {"cleanLast"}
           \/ q \in Past /\ \A g \in needRecover : pc[g] \in Past
    PROVE  Together'
<1>1. needRecover \subseteq Heaps /\ \A g \in Heaps : pc'[g] = IF g = h THEN q ELSE pc[g]
  BY DEF TypeOK
<1> QED BY <1>1, NvmKept DEF Together, Freeing

-----------------------------------------------------------------------------
(* doRecover *)

LEMMA InitHolds ==
    ASSUME Init
    PROVE  IInv
<1>1. TypeOK
  <2>1. Cardinality(needRecover) \in 0 .. HeapNum BY HeapSets DEF Init
  <2>2. canStart \in Latches /\ canFinish \in Latches BY <2>1 DEF Init, Latches
  <2>3. 0 \in Channels /\ HeapNum \in Nat \ {0, 1} BY RecoverAssumption DEF Channels
  <2>4. m_channels \in [Heaps -> [Channels -> Seq(Objects)]] BY DEF Init
  <2>5. pc \in [Heaps -> PCs] BY DEF Init, PCs
  <2>6. main.heap \in 1 .. HeapNum + 1 BY <2>3 DEF Init
  <2>7. m_mallocCount \in [Heaps -> 0 .. CHANNEL_CLEAN_CIRCLE - 1] BY RecoverAssumption DEF Init
  <2> QED BY <2>2, <2>3, <2>4, <2>5, <2>6, <2>7 DEF Init, TypeOK, NULL
<1>2. Counts
  <2>1. needRecover \subseteq Heaps /\ main.heap = 1 /\ main.pc = "create" BY DEF Init
  <2>4. \A h \in needRecover : h \in Heaps /\ h >= main.heap BY <2>1 DEF Heaps
  <2>2. ToStart = needRecover /\ ToFinish = needRecover
    BY <2>4 DEF ToStart, ToFinish, Init
  <2>3. Searchers = {} BY DEF Searchers, Init, SearchPCs
  <2> QED BY <2>2, <2>3, FS_EmptySet DEF Counts, Init
<1>3. Phases
  <2>1. \A h \in Heaps : h > main.heap \/ h = main.heap BY DEF Init, Heaps
  <2>2. main.pc = "create" BY DEF Init
  <2> QED BY <2>1, <2>2 DEF Phases, Init, SearchPCs
<1>4. Together BY DEF Together, Init, Freeing
<1>5. Swept BY DEF Swept, Init, Freeing
<1>6. Pending = {} /\ \A h \in Heaps : Mail(h) = {}
  BY NothingIn DEF Init, Pending, Stacked, InHand, Mail
<1>7. OnlyReachable BY <1>6 DEF OnlyReachable, Init
<1>8. Visited({}) BY DEF Visited, Init
<1> QED BY <1>1, <1>2, <1>3, <1>4, <1>5, <1>7, <1>8 DEF IInv, Alive, OwnersOK, Covered, Init

LEMMA CreateKeeps ==
    ASSUME IInv, Create
    PROVE  IInv'
<1>1. TypeOK /\ OwnersOK /\ OnlyReachable /\ Covered
      /\ main.pc # "crashed" /\ Counts /\ Phases /\ Together /\ Swept
  BY DEF IInv, Gone, Alive, Create
<1> DEFINE h == main.heap
<1>2. /\ main.pc = "create" /\ h \in Heaps
      /\ UNCHANGED <<nvm, latches, searchingThreadNum, st, entry, m_mallocCount, built,
                     mailbox, refused>>
  BY DEF Create
<1>3. UNCHANGED <<ptrs, owner, roots, needRecover, canStart, canFinish, m_channels, m_curChannel,
                  startChannel, allocated>>
  BY <1>2 DEF nvm, latches, mailbox
<1>4. \/ /\ h \in needRecover /\ pc' = [pc EXCEPT ![h] = "wait"]
         /\ main'.pc = "increment" /\ main'.heap = h
      \/ /\ h \notin needRecover /\ pc' = pc
         /\ main'.pc = "create" /\ main'.heap = h + 1
  BY <1>1, <1>2 DEF Create, TypeOK
<1>5. HeapNum \in Nat /\ h \in 1 .. HeapNum /\ Heaps = 1 .. HeapNum /\ needRecover \subseteq Heaps
  BY <1>1, <1>2, RecoverAssumption DEF Heaps, TypeOK
<1>6. pc \in [Heaps -> PCs] /\ pc[h] = "off" BY <1>1, <1>2 DEF TypeOK, Phases
<1>7. main' \in [pc : {"create", "increment", "countDown", "done", "crashed"},
                 heap : 1 .. HeapNum + 1]
  <2>1. main' = [main EXCEPT !.pc = "increment"] \/ main' = [main EXCEPT !.heap = @ + 1]
    BY DEF Create
  <2>2. main \in [pc : {"create", "increment", "countDown", "done", "crashed"},
                  heap : 1 .. HeapNum + 1]
    BY <1>1 DEF TypeOK
  <2> QED BY <1>5, <2>1, <2>2
<1>8. TypeOK' BY <1>1, <1>2, <1>3, <1>4, <1>6, <1>7 DEF TypeOK, PCs
<1> HIDE DEF h
<1>9. Counts'
  <2>4. \A g \in needRecover : g >= main'.heap <=> g >= main.heap BY <1>4, <1>5 DEF h
  <2>1. ToStart' = ToStart BY <1>3, <2>4 DEF ToStart
  <2>5. \A g \in needRecover :
           /\ g # h => pc'[g] = pc[g]
           /\ main'.pc # "countDown" /\ main.pc # "countDown"
           /\ g < main'.heap <=> g < main.heap
    BY <1>2, <1>4, <1>5, <1>6 DEF h
  <2>6. ~(h < main.heap) BY <1>5 DEF h
  <2>2. Searchers' = Searchers BY <1>3, <2>5, <2>6 DEF Searchers
  <2>3. ToFinish' = ToFinish BY <1>3, <1>4, <1>5, <1>6 DEF ToFinish
  <2> QED BY <1>1, <1>2, <1>3, <2>1, <2>2, <2>3 DEF Counts
<1>10. Phases'
  <2>1. CASE h \in needRecover
    BY <1>1, <1>2, <1>3, <1>4, <1>5, <1>6, <2>1 DEF Phases, SearchPCs, h
  <2>2. CASE h \notin needRecover
    BY <1>1, <1>2, <1>3, <1>4, <1>5, <1>6, <2>2 DEF Phases, SearchPCs, h
  <2> QED BY <2>1, <2>2
<1>11. Together' BY <1>1, <1>3, <1>4, <1>5, <1>6 DEF Together, Past, Freeing
<1>12. Swept' BY <1>1, <1>2, <1>3, <1>4, <1>5, <1>6 DEF Swept, Behind, Freeing
<1>13. OnlyReachable' /\ Covered' BY <1>1, <1>2, <1>3, HistoryKept
<1>14. OwnersOK' BY <1>1, <1>2, NvmKept
<1> QED BY <1>4, <1>8, <1>9, <1>10, <1>11, <1>12, <1>13, <1>14 DEF IInv, Alive

LEMMA IncrementKeeps ==
    ASSUME IInv, Increment
    PROVE  IInv'
<1>1. TypeOK /\ OwnersOK /\ OnlyReachable /\ Covered
      /\ main.pc # "crashed" /\ Counts /\ Phases /\ Together /\ Swept
  BY DEF IInv, Gone, Alive, Increment
<1> DEFINE h == main.heap
<1>2. /\ main.pc = "increment" /\ main' = [main EXCEPT !.pc = "countDown"]
      /\ searchingThreadNum' = searchingThreadNum + 1
      /\ UNCHANGED <<nvm, latches, pc, st, entry, m_mallocCount, built, mailbox, refused>>
  BY DEF Increment
<1>3. UNCHANGED <<ptrs, owner, roots, needRecover, canStart, canFinish, m_channels, m_curChannel,
                  startChannel, allocated>>
  BY <1>2 DEF nvm, latches, mailbox
<1>4. main'.pc = "countDown" /\ main'.heap = h
      /\ main' \in [pc : {"create", "increment", "countDown", "done", "crashed"},
                    heap : 1 .. HeapNum + 1]
  BY <1>1, <1>2 DEF TypeOK
<1>5. HeapNum \in Nat /\ h \in needRecover /\ h \in 1 .. HeapNum /\ needRecover \subseteq Heaps
      /\ Heaps = 1 .. HeapNum
  BY <1>1, <1>2, RecoverAssumption DEF Heaps, TypeOK, Phases
<1>6. pc[h] = "wait"
  <2>1. h \in ToStart BY <1>5 DEF ToStart, h
  <2>2. ToStart \subseteq Heaps BY <1>5 DEF ToStart
  <2>3. canStart.count # 0 BY <1>1, <2>1, <2>2, HeapSets DEF Counts
  <2>4. pc[h] # "off" BY <1>1, <1>2, <1>5 DEF Phases
  <2> QED BY <1>1, <1>5, <2>3, <2>4 DEF Phases
<1> HIDE DEF h
<1>7. Searchers' = Searchers \cup {h} /\ h \notin Searchers
  BY <1>2, <1>3, <1>4, <1>5, <1>6 DEF Searchers, SearchPCs, h
<1>8. Searchers \subseteq Heaps BY <1>5 DEF Searchers
<1>9. searchingThreadNum' = Cardinality(Searchers') /\ searchingThreadNum' \in 0 .. HeapNum
  BY <1>1, <1>2, <1>5, <1>7, <1>8, OneMore DEF Counts
<1>10. TypeOK' BY <1>1, <1>2, <1>3, <1>4, <1>9 DEF TypeOK
<1>11. Counts'
  <2>1. ToStart' = ToStart BY <1>3, <1>4 DEF ToStart, h
  <2>2. ToFinish' = ToFinish BY <1>2, <1>3 DEF ToFinish
  <2> QED BY <1>1, <1>3, <1>9, <2>1, <2>2 DEF Counts
<1>12. Phases' BY <1>1, <1>2, <1>3, <1>4, <1>5, <1>6 DEF Phases, h
<1>13. Together' BY <1>1, <1>2, <1>3 DEF Together
<1>14. Swept' BY <1>1, <1>2, <1>3 DEF Swept, Behind
<1>15. OnlyReachable' /\ Covered' BY <1>1, <1>2, <1>3, HistoryKept
<1>16. OwnersOK' BY <1>1, <1>2, NvmKept
<1> QED BY <1>4, <1>10, <1>11, <1>12, <1>13, <1>14, <1>15, <1>16 DEF IInv, Alive

LEMMA CountDownStartKeeps ==
    ASSUME IInv, CountDownStart
    PROVE  IInv'
<1>1. TypeOK /\ OwnersOK /\ OnlyReachable /\ Covered
      /\ main.pc # "crashed" /\ Counts /\ Phases /\ Together /\ Swept
  BY DEF IInv, Gone, Alive, CountDownStart
<1> DEFINE h == main.heap
<1>2. /\ main.pc = "countDown" /\ main'.pc = "create" /\ main'.heap = h + 1
      /\ canStart' = Decremented(canStart)
      /\ UNCHANGED <<nvm, canFinish, searchingThreadNum, pc, st, entry, m_mallocCount, built,
                     mailbox, refused>>
  BY DEF CountDownStart
<1>3. UNCHANGED <<ptrs, owner, roots, needRecover, m_channels, m_curChannel,
                  startChannel, allocated>>
  BY <1>2 DEF nvm, mailbox
<1>4. HeapNum \in Nat /\ h \in needRecover /\ h \in 1 .. HeapNum /\ needRecover \subseteq Heaps
      /\ Heaps = 1 .. HeapNum
  BY <1>1, <1>2, RecoverAssumption DEF Heaps, TypeOK, Phases
<1>5. main' \in [pc : {"create", "increment", "countDown", "done", "crashed"},
                 heap : 1 .. HeapNum + 1]
  <2>1. main' = [pc |-> "create", heap |-> h + 1] BY DEF CountDownStart
  <2> QED BY <1>4, <2>1
<1> HIDE DEF h
<1>6. ToStart' = ToStart \ {h} /\ h \in ToStart /\ ToStart \subseteq Heaps
  <2>1. \A g \in needRecover : g >= h + 1 <=> g >= h /\ g # h BY <1>4
  <2>2. \A g \in needRecover : g >= main'.heap <=> g >= main.heap /\ g # h BY <1>2, <2>1 DEF h
  <2>3. ToStart' = ToStart \ {h} BY <1>3, <2>2 DEF ToStart
  <2>4. h \in ToStart BY <1>4 DEF ToStart, h
  <2> QED BY <1>4, <2>3, <2>4 DEF ToStart
<1>7. /\ canStart.count = Cardinality(ToStart) /\ canStart.count # 0
      /\ canStart'.count = Cardinality(ToStart') /\ canStart'.count \in 0 .. HeapNum
      /\ canStart'.asleep \subseteq Heaps \cup {Main}
      /\ canStart' = [count |-> canStart'.count, asleep |-> canStart'.asleep]
  BY <1>1, <1>2, <1>6, OneLess DEF Counts, Decremented, TypeOK, Latches
<1>8. TypeOK' BY <1>1, <1>2, <1>3, <1>5, <1>7 DEF TypeOK, Latches
<1>9. Counts'
  <2>3. \A g \in needRecover : g < h + 1 <=> g < h \/ g = h BY <1>4
  <2>4. \A g \in needRecover : g < main'.heap <=> g < main.heap \/ g = main.heap
    BY <1>2, <2>3 DEF h
  <2>1. Searchers' = Searchers BY <1>2, <1>3, <2>4 DEF Searchers
  <2>2. ToFinish' = ToFinish BY <1>2, <1>3 DEF ToFinish
  <2> QED BY <1>1, <1>2, <1>7, <2>1, <2>2 DEF Counts
<1>10. Phases'
  <2>1. \A g \in Heaps : /\ g > h + 1 \/ g = h + 1 <=> g > h
                         /\ g \in needRecover => (g > h <=> ~(g < h) /\ g # h)
    BY <1>4
  <2> QED BY <1>1, <1>2, <1>3, <1>4, <1>7, <2>1 DEF Phases, h
<1>11. Together' BY <1>1, <1>2, <1>3 DEF Together
<1>12. Swept' BY <1>1, <1>2, <1>3 DEF Swept, Behind
<1>13. OnlyReachable' /\ Covered' BY <1>1, <1>2, <1>3, HistoryKept
<1>14. OwnersOK' BY <1>1, <1>2, NvmKept
<1> QED BY <1>2, <1>8, <1>9, <1>10, <1>11, <1>12, <1>13, <1>14 DEF IInv, Alive

LEMMA AwaitFinishKeeps ==
    ASSUME IInv, AwaitFinish
    PROVE  IInv'
<1>1. TypeOK /\ OwnersOK /\ OnlyReachable /\ Covered
      /\ main.pc # "crashed" /\ Counts /\ Phases /\ Together /\ Swept
  BY DEF IInv, Gone, Alive, AwaitFinish
<1>2. /\ main.pc = "create" /\ main.heap = HeapNum + 1
      /\ main' = main \/ main' = [main EXCEPT !.pc = "done"]
      /\ canFinish' = canFinish \/ canFinish' = [canFinish EXCEPT !.asleep = @ \cup {Main}]
      /\ UNCHANGED <<nvm, canStart, searchingThreadNum, pc, st, entry, m_mallocCount, built,
                     mailbox, refused>>
  BY DEF AwaitFinish, FallsAsleep
<1>3. UNCHANGED <<ptrs, owner, roots, needRecover, m_channels, m_curChannel,
                  startChannel, allocated>>
  BY <1>2 DEF nvm, mailbox
<1>4. /\ main'.heap = main.heap /\ main'.pc \in {"create", "done"}
      /\ main' \in [pc : {"create", "increment", "countDown", "done", "crashed"},
                    heap : 1 .. HeapNum + 1]
  BY <1>1, <1>2 DEF TypeOK
<1>5. canFinish' \in Latches /\ canFinish'.count = canFinish.count
  BY <1>1, <1>2 DEF TypeOK, Latches, Main
<1>6. \A h \in Heaps : h # main.heap BY <1>2, RecoverAssumption DEF Heaps
<1>7. TypeOK' BY <1>1, <1>2, <1>3, <1>4, <1>5 DEF TypeOK
<1>8. Counts'
  <2>1. ToStart' = ToStart BY <1>3, <1>4 DEF ToStart
  <2>2. Searchers' = Searchers BY <1>1, <1>2, <1>3, <1>4, <1>6 DEF Searchers, TypeOK
  <2>3. ToFinish' = ToFinish BY <1>2, <1>3 DEF ToFinish
  <2> QED BY <1>1, <1>2, <1>5, <2>1, <2>2, <2>3 DEF Counts
<1>9. Phases' BY <1>1, <1>2, <1>3, <1>4, <1>6 DEF Phases
<1>10. Together' BY <1>1, <1>2, <1>3 DEF Together
<1>11. Swept' BY <1>1, <1>2, <1>3 DEF Swept, Behind
<1>12. OnlyReachable' /\ Covered' BY <1>1, <1>2, <1>3, HistoryKept
<1>13. OwnersOK' BY <1>1, <1>2, NvmKept
<1> QED BY <1>4, <1>7, <1>8, <1>9, <1>10, <1>11, <1>12, <1>13 DEF IInv, Alive

-----------------------------------------------------------------------------
(* doSearchAndRecover: the steps from one phase to the next. *)

LEMMA AwaitStartKeeps ==
    ASSUME IInv, NEW h \in Heaps, AwaitStart(h)
    PROVE  IInv'
<1>1. TypeOK /\ OwnersOK /\ OnlyReachable /\ Covered
      /\ main.pc # "crashed" /\ Counts /\ Phases /\ Together /\ Swept
  BY DEF IInv, Gone, Alive, AwaitStart
<1>2. /\ pc[h] = "wait"
      /\ \/ canStart.count = 0 /\ pc' = [pc EXCEPT ![h] = "gather"] /\ canStart' = canStart
         \/ canStart' = [canStart EXCEPT !.asleep = @ \cup {h}] /\ pc' = pc
      /\ UNCHANGED <<nvm, main, canFinish, searchingThreadNum, st, entry, m_mallocCount, built,
                     mailbox, refused>>
  BY DEF AwaitStart, Passes, FallsAsleep
<1>3. UNCHANGED <<ptrs, owner, roots, needRecover, m_channels, m_curChannel, startChannel,
                  allocated>>
  BY <1>2 DEF nvm, mailbox
<1>4. canStart' \in Latches /\ canStart'.count = canStart.count
  BY <1>1, <1>2 DEF TypeOK, Latches
<1>5. pc \in [Heaps -> PCs] BY <1>1 DEF TypeOK
<1>6. \E q \in {"wait", "gather"} :
         pc' = [pc EXCEPT ![h] = q] /\ (q = "gather" => canStart.count = 0)
  BY <1>2, <1>5
<1>7. PICK q \in {"wait", "gather"} :
         pc' = [pc EXCEPT ![h] = q] /\ (q = "gather" => canStart.count = 0)
  BY <1>6
<1>8. TypeOK' BY <1>1, <1>2, <1>3, <1>4, <1>5, <1>7 DEF TypeOK, PCs
<1>9. Counts' BY <1>1, <1>2, <1>4, <1>7, CountsKept DEF SearchPCs
<1>10. Phases' BY <1>1, <1>2, <1>3, <1>4, <1>5, <1>7 DEF Phases, SearchPCs
<1>11. Together' BY <1>1, <1>2, <1>7, TogetherKept DEF Past, Freeing
<1>12. Swept' BY <1>1, <1>2, <1>3, <1>5, <1>7 DEF Swept, Behind, Freeing
<1>13. OnlyReachable' /\ Covered' BY <1>1, <1>2, <1>3, HistoryKept
<1>14. OwnersOK' BY <1>1, <1>2, NvmKept
<1> QED BY <1>1, <1>2, <1>8, <1>9, <1>10, <1>11, <1>12, <1>13, <1>14 DEF IInv, Alive

LEMMA SearchDoneKeeps ==
    ASSUME IInv, NEW h \in Heaps, SearchDone(h)
    PROVE  IInv'
<1>1. TypeOK /\ OwnersOK /\ OnlyReachable /\ Covered
      /\ main.pc # "crashed" /\ Counts /\ Phases /\ Together /\ Swept
  BY DEF IInv, Gone, Alive, SearchDone, Step
<1>2. /\ pc[h] = "search" /\ pc' = [pc EXCEPT ![h] = "barrier"] /\ st[h] = <<>>
      /\ searchingThreadNum' = searchingThreadNum - 1
      /\ UNCHANGED <<nvm, main, latches, st, entry, m_mallocCount, built, mailbox, refused>>
  BY DEF SearchDone, Step
<1>3. UNCHANGED <<ptrs, owner, roots, needRecover, canStart, canFinish, m_channels, m_curChannel,
                  startChannel, allocated>>
  BY <1>2 DEF nvm, latches, mailbox
<1>4. pc \in [Heaps -> PCs] /\ needRecover \subseteq Heaps BY <1>1 DEF TypeOK
<1>5. \A g \in Heaps : pc'[g] = IF g = h THEN "barrier" ELSE pc[g] BY <1>2, <1>4
<1>6. h \in Searchers /\ Searchers \subseteq Heaps /\ Searchers' = Searchers \ {h}
  <2>1. canStart.count = 0 /\ h \in needRecover BY <1>1, <1>2 DEF Phases
  <2>2. h < main.heap BY <1>1, <2>1, AllStarted
  <2>3. h \in Searchers BY <1>2, <2>1, <2>2 DEF Searchers, SearchPCs
  <2>4. Searchers' = Searchers \ {h} BY <1>2, <1>3, <1>4, <1>5 DEF Searchers, SearchPCs
  <2> QED BY <1>4, <2>3, <2>4 DEF Searchers
<1>7. searchingThreadNum' = Cardinality(Searchers') /\ searchingThreadNum' \in 0 .. HeapNum
  BY <1>1, <1>2, <1>6, OneLess DEF Counts
<1>8. TypeOK' BY <1>1, <1>2, <1>3, <1>4, <1>7 DEF TypeOK, PCs
<1>9. Counts'
  <2>1. ToStart' = ToStart BY <1>2, <1>3 DEF ToStart
  <2>2. ToFinish' = ToFinish BY <1>2, <1>3, <1>4, <1>5 DEF ToFinish
  <2> QED BY <1>1, <1>3, <1>7, <2>1, <2>2 DEF Counts
<1>10. Phases' BY <1>1, <1>2, <1>3, <1>5 DEF Phases, SearchPCs
<1>11. Together' BY <1>1, <1>2, TogetherKept DEF Past, Freeing
<1>12. Swept' BY <1>1, <1>2, <1>3, <1>5 DEF Swept, Behind, Freeing
<1>13. OnlyReachable' /\ Covered' BY <1>1, <1>2, <1>3, HistoryKept
<1>14. OwnersOK' BY <1>1, <1>2, NvmKept
<1> QED BY <1>1, <1>2, <1>8, <1>9, <1>10, <1>11, <1>12, <1>13, <1>14 DEF IInv, Alive

LEMMA BarrierKeeps ==
    ASSUME IInv, NEW h \in Heaps, Barrier(h)
    PROVE  IInv'
<1>1. TypeOK /\ OwnersOK /\ OnlyReachable /\ Covered
      /\ main.pc # "crashed" /\ Counts /\ Phases /\ Together /\ Swept
  BY DEF IInv, Gone, Alive, Barrier, StartClean, Step
<1>2. /\ pc[h] = "barrier"
      /\ startChannel' = [startChannel EXCEPT ![h] = m_curChannel[h]]
      /\ UNCHANGED <<nvm, main, latches, searchingThreadNum, st, entry, m_mallocCount, built,
                     m_channels, m_curChannel, allocated, refused>>
  BY DEF Barrier, StartClean, Step
<1>3. UNCHANGED <<ptrs, owner, roots, needRecover, canStart, canFinish>>
  BY <1>2 DEF nvm, latches
<1>4. PICK q \in {"cleanWaiting", "cleanLast"} :
         pc' = [pc EXCEPT ![h] = q] /\ (q = "cleanLast" => searchingThreadNum = 0)
  BY DEF Barrier, StartClean, Step
<1>5. pc \in [Heaps -> PCs] /\ needRecover \subseteq Heaps BY <1>1 DEF TypeOK
<1>6. \A g \in Heaps : pc'[g] = IF g = h THEN q ELSE pc[g] BY <1>4, <1>5
<1>7. startChannel' \in [Heaps -> Channels] /\ startChannel'[h] = m_curChannel'[h]
      /\ \A g \in Heaps \ {h} : startChannel'[g] = startChannel[g]
  BY <1>1, <1>2 DEF TypeOK
<1>8. q = "cleanLast" => \A g \in needRecover : pc[g] \in Past
  <2>1. canStart.count = 0 BY <1>1, <1>2 DEF Phases
  <2> QED BY <1>1, <1>4, <2>1, NoneSearches
<1>9. TypeOK' BY <1>1, <1>2, <1>3, <1>4, <1>5, <1>7 DEF TypeOK, PCs, CleanPCs
<1>10. Counts' BY <1>1, <1>2, <1>3, <1>4, CountsKept DEF SearchPCs
<1>11. Phases' BY <1>1, <1>2, <1>3, <1>6 DEF Phases, SearchPCs
<1>12. Together' BY <1>1, <1>2, <1>4, <1>8, TogetherKept DEF Past, Freeing
<1>13. Swept'
  <2>1. \A g \in Heaps \ {h}, i \in Channels : Behind(g, i)' <=> Behind(g, i)
    BY <1>2, <1>7 DEF Behind
  <2>2. \A i \in Channels : ~Behind(h, i)'
    <3>1. m_curChannel'[h] \in Int /\ \A i \in Channels : i \in Int
      BY <1>1, <1>2, RecoverAssumption DEF TypeOK, Channels
    <3> QED BY <1>7, <3>1 DEF Behind
  <2> QED BY <1>1, <1>2, <1>6, <2>1, <2>2 DEF Swept, Freeing
<1>14. OnlyReachable' /\ Covered' BY <1>1, <1>2, <1>3, HistoryKept
<1>15. OwnersOK' BY <1>1, <1>2, NvmKept
<1> QED BY <1>1, <1>2, <1>9, <1>10, <1>11, <1>12, <1>13, <1>14, <1>15 DEF IInv, Alive

LEMMA EndRecoverKeeps ==
    ASSUME IInv, NEW h \in Heaps, EndRecover(h)
    PROVE  IInv'
<1>1. TypeOK /\ OwnersOK /\ OnlyReachable /\ Covered
      /\ main.pc # "crashed" /\ Counts /\ Phases /\ Together /\ Swept
  BY DEF IInv, Gone, Alive, EndRecover, Step
<1>2. /\ pc[h] = "endRecover" /\ pc' = [pc EXCEPT ![h] = "countDown"]
      /\ UNCHANGED <<nvm, main, latches, searchingThreadNum, st, entry, m_mallocCount, built,
                     mailbox, refused>>
  BY DEF EndRecover, Step
<1>3. UNCHANGED <<ptrs, owner, roots, needRecover, canStart, canFinish, m_channels, m_curChannel,
                  startChannel, allocated>>
  BY <1>2 DEF nvm, latches, mailbox
<1>4. pc \in [Heaps -> PCs] BY <1>1 DEF TypeOK
<1>5. \A g \in Heaps : pc'[g] = IF g = h THEN "countDown" ELSE pc[g] BY <1>2, <1>4
<1>6. TypeOK' BY <1>1, <1>2, <1>3, <1>4 DEF TypeOK, PCs
<1>7. Counts' BY <1>1, <1>2, <1>3, CountsKept DEF SearchPCs
<1>8. Phases' BY <1>1, <1>2, <1>3, <1>5 DEF Phases, SearchPCs
<1>9. Together' BY <1>1, <1>2, TogetherKept DEF Past, Freeing
<1>10. Swept' BY <1>1, <1>2, <1>3, <1>5 DEF Swept, Behind, Freeing
<1>11. OnlyReachable' /\ Covered' BY <1>1, <1>2, <1>3, HistoryKept
<1>12. OwnersOK' BY <1>1, <1>2, NvmKept
<1> QED BY <1>1, <1>2, <1>6, <1>7, <1>8, <1>9, <1>10, <1>11, <1>12 DEF IInv, Alive

LEMMA CountDownFinishKeeps ==
    ASSUME IInv, NEW h \in Heaps, CountDownFinish(h)
    PROVE  IInv'
<1>1. TypeOK /\ OwnersOK /\ OnlyReachable /\ Covered
      /\ main.pc # "crashed" /\ Counts /\ Phases /\ Together /\ Swept
  BY DEF IInv, Gone, Alive, CountDownFinish, Step
<1>2. /\ pc[h] = "countDown" /\ pc' = [pc EXCEPT ![h] = "done"]
      /\ canFinish' = Decremented(canFinish)
      /\ UNCHANGED <<nvm, main, canStart, searchingThreadNum, st, entry, m_mallocCount, built,
                     mailbox, refused>>
  BY DEF CountDownFinish, Step
<1>3. UNCHANGED <<ptrs, owner, roots, needRecover, m_channels, m_curChannel, startChannel,
                  allocated>>
  BY <1>2 DEF nvm, mailbox
<1>4. pc \in [Heaps -> PCs] /\ needRecover \subseteq Heaps BY <1>1 DEF TypeOK
<1>5. \A g \in Heaps : pc'[g] = IF g = h THEN "done" ELSE pc[g] BY <1>2, <1>4
<1>6. h \in ToFinish /\ ToFinish \subseteq Heaps /\ ToFinish' = ToFinish \ {h}
  <2>1. h \in needRecover BY <1>1, <1>2 DEF Phases
  <2> QED BY <1>2, <1>3, <1>4, <1>5, <2>1 DEF ToFinish
<1>7. /\ canFinish'.count = Cardinality(ToFinish') /\ canFinish'.count \in 0 .. HeapNum
      /\ canFinish'.asleep \subseteq Heaps \cup {Main}
      /\ canFinish' = [count |-> canFinish'.count, asleep |-> canFinish'.asleep]
  BY <1>1, <1>2, <1>6, OneLess DEF Counts, Decremented, TypeOK, Latches
<1>8. TypeOK' BY <1>1, <1>2, <1>3, <1>4, <1>7 DEF TypeOK, PCs, Latches
<1>9. Counts'
  <2>1. ToStart' = ToStart BY <1>2, <1>3 DEF ToStart
  <2>2. Searchers' = Searchers BY <1>2, <1>3, <1>4, <1>5 DEF Searchers, SearchPCs
  <2> QED BY <1>1, <1>2, <1>7, <2>1, <2>2 DEF Counts
<1>10. Phases' BY <1>1, <1>2, <1>3, <1>5 DEF Phases, SearchPCs
<1>11. Together' BY <1>1, <1>2, TogetherKept DEF Past, Freeing
<1>12. Swept' BY <1>1, <1>2, <1>3, <1>5 DEF Swept, Behind, Freeing
<1>13. OnlyReachable' /\ Covered' BY <1>1, <1>2, <1>3, HistoryKept
<1>14. OwnersOK' BY <1>1, <1>2, NvmKept
<1> QED BY <1>1, <1>2, <1>8, <1>9, <1>10, <1>11, <1>12, <1>13, <1>14 DEF IInv, Alive

LEMMA VisitTooEarlyKeeps ==
    ASSUME IInv, NEW h \in Heaps, VisitTooEarly(h)
    PROVE  IInv'
<1>1. TypeOK /\ OwnersOK /\ OnlyReachable /\ Covered BY DEF IInv
<1>2. /\ pc' = [g \in Heaps |-> "crashed"] /\ main' = [main EXCEPT !.pc = "crashed"]
      /\ UNCHANGED <<nvm, latches, searchingThreadNum, st, entry, m_mallocCount, built,
                     mailbox, refused>>
  BY DEF VisitTooEarly
<1>3. UNCHANGED <<ptrs, owner, roots, needRecover, canStart, canFinish, m_channels, m_curChannel,
                  startChannel, allocated>>
  BY <1>2 DEF nvm, latches, mailbox
<1>4. main' \in [pc : {"create", "increment", "countDown", "done", "crashed"},
                 heap : 1 .. HeapNum + 1] /\ main'.pc = "crashed"
  BY <1>1, <1>2 DEF TypeOK
<1>5. TypeOK' BY <1>1, <1>2, <1>3, <1>4 DEF TypeOK, PCs
<1>6. Gone' BY <1>2, <1>4 DEF Gone
<1>7. OnlyReachable' /\ Covered' BY <1>1, <1>2, <1>3, HistoryKept
<1>8. OwnersOK' BY <1>1, <1>2, NvmKept
<1> QED BY <1>5, <1>6, <1>7, <1>8 DEF IInv

-----------------------------------------------------------------------------
(* doSearchAndRecover: the mail. *)

\* The channels in the order of a round that starts at s and has come to c.
LEMMA Round ==
    ASSUME NEW c \in Channels, NEW s \in Channels, NEW n,
           n = IF c + 1 = HeapNum - 1 THEN 0 ELSE c + 1
    PROVE  /\ n \in Channels
           /\ \A i \in Channels :
                 LET Between(to) == IF s <= to THEN s <= i /\ i < to ELSE s <= i \/ i < to
                 IN IF n = s THEN Between(c) \/ i = c
                    ELSE Between(n) => Between(c) \/ i = c
BY RecoverAssumption DEF Channels

LEMMA MailPopped ==
    ASSUME TypeOK, NEW h \in Heaps, NEW i \in Channels, m_channels[h][i] # <<>>,
           m_channels' = [m_channels EXCEPT ![h][i] = Tail(@)]
    PROVE  /\ m_channels' \in [Heaps -> [Channels -> Seq(Objects)]]
           /\ \A g \in Heaps \ {h} : m_channels'[g] = m_channels[g]
           /\ Mail(h) = {Head(m_channels[h][i])} \cup Mail(h)'
           /\ \A g \in Heaps \ {h} : Mail(g)' = Mail(g)
<1> DEFINE s == m_channels[h][i]
<1>1. m_channels \in [Heaps -> [Channels -> Seq(Objects)]] BY DEF TypeOK
<1>2. s \in Seq(Objects) /\ s # <<>> BY <1>1
<1>3. /\ Tail(s) \in Seq(Objects)
      /\ Elems(s) = {Head(s)} \cup Elems(Tail(s))
  BY <1>2, HeadAndTail
<1> HIDE DEF s
<1>4. m_channels' = [m_channels EXCEPT ![h] = [m_channels[h] EXCEPT ![i] = Tail(s)]]
  BY <1>1 DEF s
<1>5. /\ m_channels' \in [Heaps -> [Channels -> Seq(Objects)]]
      /\ \A g \in Heaps \ {h} : m_channels'[g] = m_channels[g]
      /\ m_channels'[h][i] = Tail(s)
      /\ \A j \in Channels \ {i} : m_channels'[h][j] = m_channels[h][j]
  BY <1>1, <1>3, <1>4
<1>6. \A g \in Heaps \ {h} : Mail(g)' = Mail(g) BY <1>5 DEF Mail
<1>7. \A j \in Channels : Elems(m_channels[h][j])
                          = Elems(m_channels'[h][j]) \cup (IF j = i THEN {Head(s)} ELSE {})
  BY <1>3, <1>5 DEF s
<1>8. Mail(h)' = UNION {Elems(m_channels'[h][j]) : j \in Channels} BY DEF Mail
<1>9. Mail(h) = {Head(s)} \cup Mail(h)' BY <1>7, <1>8 DEF Mail
<1> QED BY <1>5, <1>6, <1>9 DEF s

LEMMA MailPushed ==
    ASSUME TypeOK, NEW h \in Heaps, NEW i \in Channels, NEW o \in Objects,
           m_channels' = [m_channels EXCEPT ![h][i] = Append(@, o)]
    PROVE  /\ m_channels' \in [Heaps -> [Channels -> Seq(Objects)]]
           /\ \A g \in Heaps \ {h} : m_channels'[g] = m_channels[g]
           /\ Mail(h)' = Mail(h) \cup {o}
           /\ \A g \in Heaps \ {h} : Mail(g)' = Mail(g)
<1> DEFINE s == m_channels[h][i]
<1>1. m_channels \in [Heaps -> [Channels -> Seq(Objects)]] BY DEF TypeOK
<1>2. s \in Seq(Objects) BY <1>1
<1>3. Append(s, o) \in Seq(Objects) /\ Elems(Append(s, o)) = Elems(s) \cup {o} BY <1>2, Appended
<1> HIDE DEF s
<1>4. m_channels' = [m_channels EXCEPT ![h] = [m_channels[h] EXCEPT ![i] = Append(s, o)]]
  BY <1>1 DEF s
<1>5. /\ m_channels' \in [Heaps -> [Channels -> Seq(Objects)]]
      /\ \A g \in Heaps \ {h} : m_channels'[g] = m_channels[g]
      /\ m_channels'[h][i] = Append(s, o)
      /\ \A j \in Channels \ {i} : m_channels'[h][j] = m_channels[h][j]
  BY <1>1, <1>3, <1>4
<1>6. \A g \in Heaps \ {h} : Mail(g)' = Mail(g) BY <1>5 DEF Mail
<1>7. \A j \in Channels : Elems(m_channels'[h][j])
                          = Elems(m_channels[h][j]) \cup (IF j = i THEN {o} ELSE {})
  BY <1>3, <1>5 DEF s
<1>8. Mail(h)' = UNION {Elems(m_channels'[h][j]) : j \in Channels} BY DEF Mail
<1>9. Mail(h)' = Mail(h) \cup {o} BY <1>7, <1>8 DEF Mail
<1> QED BY <1>5, <1>6, <1>9

LEMMA PopMessageKeeps ==
    ASSUME IInv, NEW h \in Heaps, PopMessage(h)
    PROVE  IInv'
<1>1. TypeOK /\ OwnersOK /\ OnlyReachable /\ Covered
      /\ main.pc # "crashed" /\ Counts /\ Phases /\ Together /\ Swept
  BY DEF IInv, Gone, Alive, PopMessage, CleanPCs
<1> DEFINE i == m_curChannel[h]
           o == Head(m_channels[h][i])
<1>2. /\ pc[h] \in CleanPCs /\ m_channels[h][i] # <<>>
      /\ m_channels' = [m_channels EXCEPT ![h][i] = Tail(@)]
      /\ allocated' = [allocated EXCEPT ![h] = @ \cup {o}]
      /\ startChannel' = [startChannel EXCEPT ![h] = i]
      /\ UNCHANGED <<nvm, main, latches, searchingThreadNum, pc, st, entry, m_mallocCount,
                     built, m_curChannel, refused>>
  BY DEF PopMessage
<1>3. UNCHANGED <<ptrs, owner, roots, needRecover, canStart, canFinish>>
  BY <1>2 DEF nvm, latches
<1>4. i \in Channels BY <1>1 DEF TypeOK
<1>5. /\ m_channels' \in [Heaps -> [Channels -> Seq(Objects)]]
      /\ \A g \in Heaps \ {h} : m_channels'[g] = m_channels[g]
      /\ Mail(h) = {o} \cup Mail(h)'
      /\ \A g \in Heaps \ {h} : Mail(g)' = Mail(g)
  BY <1>1, <1>2, <1>4, MailPopped
<1> HIDE DEF o
<1>6. o \in Owned(h) /\ o \in Objects BY <1>1, <1>5 DEF OnlyReachable, Owned, Reachable
<1>7. /\ allocated' \in [Heaps -> SUBSET Objects] /\ startChannel' \in [Heaps -> Channels]
      /\ allocated'[h] = allocated[h] \cup {o} /\ startChannel'[h] = i
      /\ \A g \in Heaps \ {h} : allocated'[g] = allocated[g] /\ startChannel'[g] = startChannel[g]
  BY <1>1, <1>2, <1>4, <1>6 DEF TypeOK
<1>8. TypeOK' BY <1>1, <1>2, <1>3, <1>5, <1>7 DEF TypeOK
<1>9. Counts' BY <1>1, <1>2, <1>3 DEF Counts, ToStart, Searchers, ToFinish
<1>10. Phases' BY <1>1, <1>2, <1>3 DEF Phases
<1>11. Together' BY <1>1, <1>2, <1>3 DEF Together
<1>12. Swept'
  <2>1. \A g \in Heaps \ {h}, j \in Channels : Behind(g, j)' <=> Behind(g, j)
    BY <1>2, <1>7 DEF Behind
  <2>2. \A j \in Channels : ~Behind(h, j)'
    <3>1. \A j \in Channels : j \in Int BY RecoverAssumption DEF Channels
    <3> QED BY <1>2, <1>4, <1>7, <3>1 DEF Behind
  <2>3. h \in built /\ pc[h] \notin Freeing BY <1>1, <1>2 DEF Phases, CleanPCs, Freeing
  <2> QED BY <1>1, <1>2, <1>5, <2>1, <2>2, <2>3 DEF Swept
<1>13. UNCHANGED Pending BY <1>2 DEF Pending, Stacked, InHand
<1>14. OnlyReachable'
  <2>1. Pending' \subseteq Reachable' BY <1>1, <1>2, <1>13, NvmKept DEF OnlyReachable
  <2>2. \A g \in Heaps : Mail(g)' \cup allocated'[g] \subseteq Owned(g)
    BY <1>1, <1>5, <1>6, <1>7 DEF OnlyReachable
  <2>3. \A g \in Heaps : Mail(g)' \cup allocated'[g] \subseteq Owned(g)'
    BY <1>2, <2>2, NvmKept
  <2> QED BY <2>1, <2>3 DEF OnlyReachable
<1>15. Covered'
  <2>1. PICK D \in SUBSET Objects : Visited(D) BY <1>1 DEF Covered
  <2>2. \A d \in D, g \in Heaps :
           owner'[d] = g => d \in allocated'[g] \cup Mail(g)' \cup refused'
    <3> SUFFICES ASSUME NEW d \in D, NEW g \in Heaps, owner[d] = g
                 PROVE  d \in allocated'[g] \cup Mail(g)' \cup refused'
      BY <1>3
    <3>1. d \in allocated[g] \cup Mail(g) \cup refused BY <2>1 DEF Visited
    <3> QED BY <1>2, <1>5, <1>7, <3>1
  <2>3. Visited(D)' BY <1>2, <1>3, <1>13, <2>1, <2>2 DEF Visited
  <2> QED BY <2>3 DEF Covered
<1>16. OwnersOK' BY <1>1, <1>2, NvmKept
<1> QED BY <1>1, <1>2, <1>8, <1>9, <1>10, <1>11, <1>12, <1>14, <1>15, <1>16 DEF IInv, Alive

LEMMA PopNothingKeeps ==
    ASSUME IInv, NEW h \in Heaps, PopNothing(h)
    PROVE  IInv'
<1>1. TypeOK /\ OwnersOK /\ OnlyReachable /\ Covered
      /\ main.pc # "crashed" /\ Counts /\ Phases /\ Together /\ Swept
  BY DEF IInv, Gone, Alive, PopNothing, CleanPCs
<1> DEFINE c == m_curChannel[h]
           s == startChannel[h]
           n == IF c + 1 = HeapNum - 1 THEN 0 ELSE c + 1
<1>2. /\ pc[h] \in CleanPCs /\ m_channels[h][c] = <<>>
      /\ m_curChannel' = [m_curChannel EXCEPT ![h] = n]
      /\ UNCHANGED <<nvm, main, latches, searchingThreadNum, st, entry, m_mallocCount, built,
                     m_channels, startChannel, allocated, refused>>
  BY DEF PopNothing
<1>3. UNCHANGED <<ptrs, owner, roots, needRecover, canStart, canFinish>>
  BY <1>2 DEF nvm, latches
<1>4. pc \in [Heaps -> PCs] BY <1>1 DEF TypeOK
<1>5. PICK q : /\ pc' = [pc EXCEPT ![h] = q]
               /\ IF n = s THEN \/ pc[h] = "cleanInSearch" /\ q = "visit"
                                \/ pc[h] = "cleanWaiting" /\ q = "barrier"
                                \/ pc[h] = "cleanLast" /\ q = "endRecover"
                  ELSE q = pc[h]
  <2>1. CASE n = s BY <2>1 DEF PopNothing, RoundEnds, Step
  <2>2. CASE n # s
    <3>1. pc' = pc BY <2>2 DEF PopNothing, RoundEnds
    <3>2. pc' = [pc EXCEPT ![h] = pc[h]] BY <1>4, <3>1
    <3> QED BY <2>2, <3>2
  <2> QED BY <2>1, <2>2
<1>6. \A g \in Heaps : pc'[g] = IF g = h THEN q ELSE pc[g] BY <1>4, <1>5
<1>7. c \in Channels /\ s \in Channels BY <1>1 DEF TypeOK
<1>8. /\ n \in Channels
      /\ n = s => \A j \in Channels : Behind(h, j) \/ j = c
      /\ n # s => \A j \in Channels :
                     (IF s <= n THEN s <= j /\ j < n ELSE s <= j \/ j < n) => Behind(h, j) \/ j = c
  BY <1>7, Round DEF Behind
<1> HIDE DEF n
<1>9. /\ m_curChannel' \in [Heaps -> Channels] /\ m_curChannel'[h] = n
      /\ \A g \in Heaps \ {h} : m_curChannel'[g] = m_curChannel[g]
  BY <1>1, <1>2, <1>8 DEF TypeOK
<1>10. q \in PCs BY <1>2, <1>5 DEF PCs
<1>11. TypeOK' BY <1>1, <1>2, <1>3, <1>4, <1>5, <1>9, <1>10 DEF TypeOK
<1>12. Counts' BY <1>1, <1>2, <1>3, <1>5, CountsKept DEF SearchPCs, CleanPCs
<1>13. Phases' BY <1>1, <1>2, <1>3, <1>5, <1>6 DEF Phases, SearchPCs, CleanPCs
<1>14. Together' BY <1>1, <1>2, <1>5, TogetherKept DEF Past, Freeing, CleanPCs
<1>15. Swept'
  <2>1. \A g \in Heaps \ {h}, j \in Channels : Behind(g, j)' <=> Behind(g, j)
    BY <1>2, <1>9 DEF Behind
  <2>2. ASSUME NEW j \in Channels
        PROVE  q = "cleanLast" /\ Behind(h, j)' => m_channels[h][j] = <<>>
    <3>1. q = "cleanLast" => n # s /\ pc[h] = "cleanLast" BY <1>5
    <3>2. n # s /\ Behind(h, j)' => Behind(h, j) \/ j = c BY <1>2, <1>8, <1>9 DEF Behind
    <3> QED BY <1>1, <1>2, <3>1, <3>2 DEF Swept
  <2>3. ASSUME NEW j \in Channels, q \in Freeing
        PROVE  m_channels[h][j] = <<>>
    <3>1. n = s /\ pc[h] = "cleanLast" BY <1>2, <1>5, <2>3 DEF Freeing, CleanPCs
    <3> QED BY <1>1, <1>2, <1>8, <3>1 DEF Swept
  <2> QED BY <1>1, <1>2, <1>6, <2>1, <2>2, <2>3 DEF Swept
<1>16. OnlyReachable' /\ Covered' BY <1>1, <1>2, <1>3, HistoryKept
<1>17. OwnersOK' BY <1>1, <1>2, NvmKept
<1> QED BY <1>1, <1>2, <1>11, <1>12, <1>13, <1>14, <1>15, <1>16, <1>17 DEF IInv, Alive

-----------------------------------------------------------------------------
(* doSearchAndRecover: the search. *)

LEMMA ReachableClosed ==
    ASSUME TypeOK
    PROVE  /\ Reachable \subseteq Objects
           /\ \A r \in roots : owner[r] # NoHeap => r \in Reachable
           /\ \A o \in Reachable : ptrs[o] \subseteq Reachable
BY DEF TypeOK, Reachable

LEMMA ConstructKeeps ==
    ASSUME IInv, NEW h \in Heaps, Construct(h)
    PROVE  IInv'
<1>1. TypeOK /\ OwnersOK /\ OnlyReachable /\ Covered
      /\ main.pc # "crashed" /\ Counts /\ Phases /\ Together /\ Swept
  BY DEF IInv, Gone, Alive, Construct, Step
<1> DEFINE R == GatherRoots(h)
<1>2. /\ pc[h] = "gather" /\ pc' = [pc EXCEPT ![h] = "search"]
      /\ built' = built \cup {h}
      /\ m_channels' = [m_channels EXCEPT ![h] = [i \in Channels |-> <<>>]]
      /\ m_curChannel' = [m_curChannel EXCEPT ![h] = 0]
      /\ UNCHANGED <<nvm, main, latches, searchingThreadNum, entry, m_mallocCount,
                     startChannel, allocated, refused>>
  BY DEF Construct, Step
<1>3. UNCHANGED <<ptrs, owner, roots, needRecover, canStart, canFinish>>
  BY <1>2 DEF nvm, latches
<1>4. PICK order \in Orders(R) : st' = [st EXCEPT ![h] = order] BY DEF Construct
<1>5. R \in SUBSET Objects BY <1>1 DEF GatherRoots, TypeOK
<1> HIDE DEF R
<1>6. order \in Seq(Objects) /\ Elems(order) = R BY <1>5, Ordered
<1>7. h \notin built /\ st[h] = <<>> /\ entry[h] = NULL
  BY <1>1, <1>2 DEF Phases
<1>8. /\ st' \in [Heaps -> Seq(Objects)] /\ st'[h] = order
      /\ \A g \in Heaps \ {h} : st'[g] = st[g]
  BY <1>1, <1>4, <1>6 DEF TypeOK
<1>9. /\ m_channels' \in [Heaps -> [Channels -> Seq(Objects)]]
      /\ \A i \in Channels : m_channels'[h][i] = <<>> /\ m_channels[h][i] = <<>>
      /\ \A g \in Heaps \ {h} : m_channels'[g] = m_channels[g]
  <2>1. [i \in Channels |-> <<>>] \in [Channels -> Seq(Objects)] OBVIOUS
  <2>2. m_channels \in [Heaps -> [Channels -> Seq(Objects)]] BY <1>1 DEF TypeOK
  <2>3. m_channels' \in [Heaps -> [Channels -> Seq(Objects)]]
    BY <1>2, <2>1, <2>2
  <2>4. \A g \in Heaps : m_channels'[g] = IF g = h THEN [i \in Channels |-> <<>>] ELSE m_channels[g]
    BY <1>2, <2>2
  <2> QED BY <1>1, <1>7, <2>3, <2>4 DEF Swept
<1>10. /\ m_curChannel' \in [Heaps -> Channels]
       /\ \A g \in Heaps \ {h} : m_curChannel'[g] = m_curChannel[g]
  <2>1. 0 \in Channels BY RecoverAssumption DEF Channels
  <2> QED BY <1>1, <1>2, <2>1 DEF TypeOK
<1>11. pc \in [Heaps -> PCs] /\ \A g \in Heaps : pc'[g] = IF g = h THEN "search" ELSE pc[g]
  BY <1>1, <1>2 DEF TypeOK
<1>12. built' \subseteq Heaps BY <1>1, <1>2 DEF TypeOK
<1>13. TypeOK' BY <1>1, <1>2, <1>3, <1>8, <1>9, <1>10, <1>11, <1>12 DEF TypeOK, PCs
<1>14. Counts' BY <1>1, <1>2, <1>3, CountsKept DEF SearchPCs
<1>15. Phases' BY <1>1, <1>2, <1>3, <1>7, <1>8, <1>11 DEF Phases, SearchPCs
<1>16. Together' BY <1>1, <1>2, TogetherKept DEF Past, Freeing
<1>17. Swept'
  <2>1. \A g \in Heaps \ {h}, i \in Channels : Behind(g, i)' <=> Behind(g, i)
    BY <1>2, <1>10 DEF Behind
  <2> QED BY <1>1, <1>2, <1>9, <1>11, <2>1 DEF Swept
<1>18. \A g \in Heaps : Mail(g)' = Mail(g)
  <2>1. \A g \in Heaps, i \in Channels : m_channels'[g][i] = m_channels[g][i] BY <1>9
  <2> QED BY <2>1 DEF Mail
<1>19. Pending' = Pending \cup R
  <2>1. Elems(st[h]) = {} /\ Elems(st'[h]) = R BY <1>6, <1>7, <1>8, NothingIn
  <2>2. Stacked' = Stacked \cup R
    <3>1. \A g \in Heaps \ {h} : Elems(st'[g]) = Elems(st[g]) BY <1>8
    <3>2. Stacked' = UNION {Elems(st'[g]) : g \in Heaps} BY DEF Stacked
    <3> QED BY <2>1, <3>1, <3>2 DEF Stacked
  <2>3. InHand' = InHand BY <1>2 DEF InHand
  <2> QED BY <2>2, <2>3 DEF Pending
<1>20. OnlyReachable'
  <2>1. R \subseteq Reachable BY <1>1, ReachableClosed DEF R, GatherRoots, Heaps, NoHeap
  <2> QED BY <1>1, <1>2, <1>18, <1>19, <2>1, NvmKept DEF OnlyReachable
<1>21. Covered'
  <2>1. PICK D \in SUBSET Objects : Visited(D) BY <1>1 DEF Covered
  <2>2. \A r \in roots : owner[r] \in built' => r \in D \cup Pending'
    BY <1>2, <1>19, <2>1 DEF Visited, R, GatherRoots
  <2>3. Visited(D)' BY <1>2, <1>3, <1>18, <1>19, <2>1, <2>2 DEF Visited
  <2> QED BY <2>3 DEF Covered
<1>22. OwnersOK' BY <1>1, <1>2, NvmKept
<1> QED BY <1>1, <1>2, <1>13, <1>14, <1>15, <1>16, <1>17, <1>20, <1>21, <1>22 DEF IInv, Alive

LEMMA PopEntryKeeps ==
    ASSUME IInv, NEW h \in Heaps, PopEntry(h)
    PROVE  IInv'
<1>1. TypeOK /\ OwnersOK /\ OnlyReachable /\ Covered
      /\ main.pc # "crashed" /\ Counts /\ Phases /\ Together /\ Swept
  BY DEF IInv, Gone, Alive, PopEntry, StartClean, Step
<1> DEFINE o == Head(st[h])
<1>2. /\ pc[h] = "search" /\ st[h] # <<>>
      /\ entry' = [entry EXCEPT ![h] = o] /\ st' = [st EXCEPT ![h] = Tail(@)]
      /\ UNCHANGED <<nvm, main, latches, searchingThreadNum, built, m_channels, m_curChannel,
                     allocated, refused>>
  BY DEF PopEntry, StartClean, Step
<1>3. UNCHANGED <<ptrs, owner, roots, needRecover, canStart, canFinish>>
  BY <1>2 DEF nvm, latches
<1>4. PICK q \in {"visit", "cleanInSearch"} : pc' = [pc EXCEPT ![h] = q]
  BY DEF PopEntry, StartClean, Step
<1>5. pc \in [Heaps -> PCs] /\ \A g \in Heaps : pc'[g] = IF g = h THEN q ELSE pc[g]
  BY <1>1, <1>4 DEF TypeOK
<1>6. m_mallocCount' \in [Heaps -> 0 .. CHANNEL_CLEAN_CIRCLE - 1]
  <2>1. m_mallocCount \in [Heaps -> 0 .. CHANNEL_CLEAN_CIRCLE - 1]
        /\ CHANNEL_CLEAN_CIRCLE \in Nat \ {0}
    BY <1>1, RecoverAssumption DEF TypeOK
  <2>2. CASE m_mallocCount[h] + 1 = CHANNEL_CLEAN_CIRCLE
    <3>1. m_mallocCount' = [m_mallocCount EXCEPT ![h] = 0] BY <2>2 DEF PopEntry
    <3> QED BY <2>1, <3>1
  <2>3. CASE m_mallocCount[h] + 1 # CHANNEL_CLEAN_CIRCLE
    <3>1. m_mallocCount' = [m_mallocCount EXCEPT ![h] = @ + 1] BY <2>3 DEF PopEntry
    <3> QED BY <2>1, <2>3, <3>1
  <2> QED BY <2>2, <2>3
<1>7. startChannel' \in [Heaps -> Channels]
      /\ \A g \in Heaps \ {h} : startChannel'[g] = startChannel[g]
  <2>1. \/ startChannel' = [startChannel EXCEPT ![h] = m_curChannel[h]]
        \/ startChannel' = startChannel
    BY DEF PopEntry, StartClean
  <2>2. m_curChannel \in [Heaps -> Channels] /\ startChannel \in [Heaps -> Channels]
    BY <1>1 DEF TypeOK
  <2> QED BY <2>1, <2>2
<1>8. /\ o \in Objects /\ Tail(st[h]) \in Seq(Objects)
      /\ Elems(st[h]) = {o} \cup Elems(Tail(st[h]))
  <2>1. st[h] \in Seq(Objects) BY <1>1 DEF TypeOK
  <2> QED BY <1>2, <2>1, HeadAndTail
<1> HIDE DEF o
<1>9. /\ st' \in [Heaps -> Seq(Objects)] /\ st'[h] = Tail(st[h])
      /\ \A g \in Heaps \ {h} : st'[g] = st[g]
      /\ entry' \in [Heaps -> Objects \cup {NULL}] /\ entry'[h] = o
      /\ \A g \in Heaps \ {h} : entry'[g] = entry[g]
  BY <1>1, <1>2, <1>8 DEF TypeOK
<1>10. entry[h] = NULL /\ o # NULL
  BY <1>1, <1>2, <1>8 DEF Phases, Objects, NULL
<1>11. TypeOK' BY <1>1, <1>2, <1>3, <1>4, <1>5, <1>6, <1>7, <1>9 DEF TypeOK, PCs, CleanPCs
<1>12. Counts' BY <1>1, <1>2, <1>3, <1>4, CountsKept DEF SearchPCs
<1>13. Phases' BY <1>1, <1>2, <1>3, <1>5, <1>9, <1>10 DEF Phases, SearchPCs
<1>14. Together' BY <1>1, <1>2, <1>4, TogetherKept DEF Past, Freeing
<1>15. Swept'
  <2>1. \A g \in Heaps \ {h}, i \in Channels : Behind(g, i)' <=> Behind(g, i)
    BY <1>2, <1>7 DEF Behind
  <2> QED BY <1>1, <1>2, <1>5, <2>1 DEF Swept, Freeing
<1>16. Pending' = Pending
  <2>1. \A g \in Heaps : Elems(st[g]) = Elems(st'[g]) \cup (IF g = h THEN {o} ELSE {})
    BY <1>8, <1>9
  <2>2. Stacked' = UNION {Elems(st'[g]) : g \in Heaps} BY DEF Stacked
  <2>3. Stacked = Stacked' \cup {o} BY <2>1, <2>2 DEF Stacked
  <2>4. InHand' = InHand \cup {o} BY <1>9, <1>10 DEF InHand
  <2> QED BY <2>3, <2>4 DEF Pending
<1>17. UNCHANGED <<m_channels, allocated, refused, built>> BY <1>2
<1>18. \A g : Mail(g)' = Mail(g) BY <1>17 DEF Mail
<1>19. OnlyReachable' BY <1>1, <1>2, <1>16, <1>18, NvmKept DEF OnlyReachable
<1>20. Covered'
  <2>1. PICK D \in SUBSET Objects : Visited(D) BY <1>1 DEF Covered
  <2>2. Visited(D)' BY <1>3, <1>16, <1>17, <1>18, <2>1 DEF Visited
  <2> QED BY <2>2 DEF Covered
<1>21. OwnersOK' BY <1>1, <1>2, NvmKept
<1> QED BY <1>1, <1>2, <1>11, <1>12, <1>13, <1>14, <1>15, <1>19, <1>20, <1>21 DEF IInv, Alive

\* What all ways to visit an object have in common.
LEMMA ChildrenPushed ==
    ASSUME TypeOK, NEW h \in Heaps, entry[h] # NULL, PushChildren(h)
    PROVE  /\ entry[h] \in Objects /\ entry[h] \in Pending
           /\ st' \in [Heaps -> Seq(Objects)] /\ entry' \in [Heaps -> Objects \cup {NULL}]
           /\ entry'[h] = NULL
           /\ \A g \in Heaps \ {h} : st'[g] = st[g] /\ entry'[g] = entry[g]
           /\ Pending' \subseteq Pending \cup ptrs[entry[h]]
           /\ Pending \cup ptrs[entry[h]] \subseteq Pending' \cup {entry[h]}
<1> DEFINE e == entry[h]
           C == ptrs[e]
<1>1. e \in Objects /\ C \in SUBSET Objects /\ st[h] \in Seq(Objects) BY DEF TypeOK
<1>2. PICK order \in Orders(C) : st' = [st EXCEPT ![h] = order \o @] BY DEF PushChildren
<1>3. order \in Seq(Objects) /\ Elems(order) = C BY <1>1, Ordered
<1>4. order \o st[h] \in Seq(Objects) /\ Elems(order \o st[h]) = C \cup Elems(st[h])
  BY <1>1, <1>3, Joined
<1> HIDE DEF e, C
<1>5. /\ st' \in [Heaps -> Seq(Objects)] /\ st'[h] = order \o st[h]
      /\ \A g \in Heaps \ {h} : st'[g] = st[g]
  BY <1>2, <1>4 DEF TypeOK
<1>6. /\ entry' \in [Heaps -> Objects \cup {NULL}] /\ entry'[h] = NULL
      /\ \A g \in Heaps \ {h} : entry'[g] = entry[g]
  BY DEF TypeOK, PushChildren
<1>7. \A g \in Heaps : Elems(st'[g]) = Elems(st[g]) \cup (IF g = h THEN C ELSE {})
  BY <1>4, <1>5
<1>8. Stacked' = UNION {Elems(st'[g]) : g \in Heaps} BY DEF Stacked
<1>9. Stacked' = Stacked \cup C BY <1>7, <1>8 DEF Stacked
<1>10. InHand' \subseteq InHand /\ InHand \subseteq InHand' \cup {e} /\ e \in InHand
  BY <1>6 DEF InHand, e
<1> QED BY <1>1, <1>5, <1>6, <1>9, <1>10 DEF Pending, e, C

\* An object was visited: its owner has marked it, or will be told, or could not be.
LEMMA ObjectVisited ==
    ASSUME TypeOK, OnlyReachable, Covered, UNCHANGED nvm, built' = built,
           NEW e \in Objects, e \in Pending,
           Pending' \subseteq Pending \cup ptrs[e],
           Pending \cup ptrs[e] \subseteq Pending' \cup {e},
           refused \subseteq refused',
           \A g \in Heaps :
              /\ Mail(g) \cup allocated[g] \subseteq Mail(g)' \cup allocated'[g]
              /\ \A o \in Mail(g)' \cup allocated'[g] :
                    o \in Mail(g) \cup allocated[g] \/ (o = e /\ owner[e] = g)
              /\ owner[e] = g => e \in Mail(g)' \cup allocated'[g] \cup refused'
    PROVE  OnlyReachable' /\ Covered'
<1>1. e \in Reachable /\ ptrs[e] \subseteq Reachable BY ReachableClosed DEF OnlyReachable
<1>2. OnlyReachable'
  <2>1. Pending' \subseteq Reachable BY <1>1 DEF OnlyReachable
  <2>2. \A g \in Heaps : Mail(g)' \cup allocated'[g] \subseteq Owned(g)
    BY <1>1 DEF OnlyReachable, Owned
  <2>3. Pending' \subseteq Reachable' BY <2>1, NvmKept
  <2>4. \A g \in Heaps : Mail(g)' \cup allocated'[g] \subseteq Owned(g)' BY <2>2, NvmKept
  <2> QED BY <2>3, <2>4 DEF OnlyReachable
<1>3. PICK D \in SUBSET Objects : Visited(D) BY DEF Covered
<1> DEFINE E == D \cup {e}
<1>4. UNCHANGED <<ptrs, owner, roots>> BY NvmKept
<1>5. /\ \A r \in roots : owner[r] \in built => r \in E \cup Pending'
      /\ \A d \in E : ptrs[d] \subseteq E \cup Pending'
  BY <1>3 DEF Visited
<1>6. \A d \in E, g \in Heaps :
         owner[d] = g => d \in allocated'[g] \cup Mail(g)' \cup refused'
  BY <1>3 DEF Visited
<1>7. Visited(E)' BY <1>4, <1>5, <1>6 DEF Visited
<1> QED BY <1>2, <1>3, <1>7 DEF Covered

\* Where a visit leaves its heap and the others.
LEMMA VisitedAlive ==
    ASSUME TypeOK, main.pc # "crashed", Counts, Phases, Together, NEW h \in Heaps,
           PushChildren(h), entry[h] # NULL
    PROVE  /\ main'.pc # "crashed" /\ Counts' /\ Phases' /\ Together'
           /\ h \in built /\ pc' \in [Heaps -> PCs]
           /\ \A g \in Heaps : pc'[g] = IF g = h THEN "search" ELSE pc[g]
           /\ UNCHANGED <<nvm, main, latches, searchingThreadNum, m_mallocCount, built,
                          m_curChannel, startChannel>>
<1>1. /\ pc[h] = "visit" /\ pc' = [pc EXCEPT ![h] = "search"]
      /\ UNCHANGED <<nvm, main, latches, searchingThreadNum, m_mallocCount, built,
                     m_curChannel, startChannel>>
  BY DEF PushChildren, Step
<1>2. UNCHANGED <<ptrs, owner, roots, needRecover, canStart, canFinish>>
  BY <1>1 DEF nvm, latches
<1>3. pc \in [Heaps -> PCs] BY DEF TypeOK
<1>4. pc' \in [Heaps -> PCs] /\ \A g \in Heaps : pc'[g] = IF g = h THEN "search" ELSE pc[g]
  BY <1>1, <1>3 DEF PCs
<1>5. Counts' BY <1>1, <1>2, CountsKept DEF SearchPCs
<1>6. Phases'
  <2>1. entry'[h] = NULL /\ \A g \in Heaps \ {h} : st'[g] = st[g] /\ entry'[g] = entry[g]
    BY ChildrenPushed
  <2> QED BY <1>1, <1>2, <1>4, <2>1 DEF Phases, SearchPCs
<1>7. Together' BY <1>1, TogetherKept DEF Past, Freeing
<1>8. h \in built BY <1>1 DEF Phases
<1> QED BY <1>1, <1>4, <1>5, <1>6, <1>7, <1>8

LEMMA VisitOwnKeeps ==
    ASSUME IInv, NEW h \in Heaps, VisitOwn(h) \/ VisitNobodys(h)
    PROVE  IInv'
<1>1. TypeOK /\ OwnersOK /\ OnlyReachable /\ Covered
      /\ main.pc # "crashed" /\ Counts /\ Phases /\ Together /\ Swept
  BY DEF IInv, Gone, Alive, VisitOwn, VisitNobodys, PushChildren, Step
<1> DEFINE e == entry[h]
<1>2. /\ e # NULL /\ PushChildren(h) /\ UNCHANGED <<m_channels, refused>>
      /\ \/ owner[e] = h /\ allocated' = [allocated EXCEPT ![h] = @ \cup {e}]
         \/ owner[e] = NoHeap /\ allocated' = allocated
  BY DEF VisitOwn, VisitNobodys
<1>3. /\ main'.pc # "crashed" /\ Counts' /\ Phases' /\ Together'
      /\ h \in built /\ pc' \in [Heaps -> PCs]
      /\ \A g \in Heaps : pc'[g] = IF g = h THEN "search" ELSE pc[g]
      /\ UNCHANGED <<nvm, main, latches, searchingThreadNum, m_mallocCount, built,
                     m_curChannel, startChannel>>
  BY <1>1, <1>2, VisitedAlive
<1>4. /\ e \in Objects /\ e \in Pending
      /\ st' \in [Heaps -> Seq(Objects)] /\ entry' \in [Heaps -> Objects \cup {NULL}]
      /\ Pending' \subseteq Pending \cup ptrs[e]
      /\ Pending \cup ptrs[e] \subseteq Pending' \cup {e}
  BY <1>1, <1>2, ChildrenPushed
<1> HIDE DEF e
<1>5. UNCHANGED <<ptrs, owner, roots, needRecover, canStart, canFinish>>
  BY <1>3 DEF nvm, latches
<1>6. /\ allocated' \in [Heaps -> SUBSET Objects]
      /\ \A g \in Heaps : allocated'[g] = allocated[g] \cup (IF owner[e] = g THEN {e} ELSE {})
  <2>1. allocated \in [Heaps -> SUBSET Objects] BY <1>1 DEF TypeOK
  <2>2. CASE owner[e] = h /\ allocated' = [allocated EXCEPT ![h] = @ \cup {e}]
    <3>1. allocated' \in [Heaps -> SUBSET Objects] BY <1>4, <2>1, <2>2
    <3>2. allocated'[h] = allocated[h] \cup {e} BY <2>1, <2>2
    <3>3. \A g \in Heaps \ {h} : allocated'[g] = allocated[g] /\ owner[e] # g BY <2>1, <2>2
    <3> QED BY <2>2, <3>1, <3>2, <3>3
  <2>3. CASE owner[e] = NoHeap /\ allocated' = allocated
    <3>1. \A g \in Heaps : owner[e] # g BY <2>3 DEF Heaps, NoHeap
    <3> QED BY <2>1, <2>3, <3>1
  <2> QED BY <1>2, <2>2, <2>3
<1>7. TypeOK' BY <1>1, <1>2, <1>3, <1>4, <1>5, <1>6 DEF TypeOK
<1>8. Swept' BY <1>1, <1>2, <1>3 DEF Swept, Behind, Freeing
<1>9. \A g \in Heaps : Mail(g)' = Mail(g) BY <1>2 DEF Mail
<1>10. OnlyReachable' /\ Covered'
  <2>1. \A g \in Heaps :
           /\ Mail(g) \cup allocated[g] \subseteq Mail(g)' \cup allocated'[g]
           /\ \A o \in Mail(g)' \cup allocated'[g] :
                 o \in Mail(g) \cup allocated[g] \/ (o = e /\ owner[e] = g)
           /\ owner[e] = g => e \in Mail(g)' \cup allocated'[g] \cup refused'
    BY <1>6, <1>9
  <2>2. refused \subseteq refused' /\ UNCHANGED nvm /\ built' = built BY <1>2, <1>3
  <2> QED BY <1>1, <1>4, <2>1, <2>2, ObjectVisited
<1>11. OwnersOK' BY <1>1, <1>3, NvmKept
<1> QED BY <1>3, <1>7, <1>8, <1>10, <1>11 DEF IInv, Alive

LEMMA VisitOthersKeeps ==
    ASSUME IInv, NEW h \in Heaps, VisitOthers(h)
    PROVE  IInv'
<1>1. TypeOK /\ OwnersOK /\ OnlyReachable /\ Covered
      /\ main.pc # "crashed" /\ Counts /\ Phases /\ Together /\ Swept
  BY DEF IInv, Gone, Alive, VisitOthers, PushChildren, Step
<1>e. PICK e : e = entry[h] OBVIOUS
<1>f. PICK f : f = owner[e] OBVIOUS
<1> DEFINE i == ChannelOf(f, h)
<1>2. /\ e # NULL /\ PushChildren(h) /\ allocated' = allocated
      /\ f \in built \ {h}
      /\ \/ m_channels' = [m_channels EXCEPT ![f][i] = Append(@, e)] /\ refused' = refused
         \/ refused' = refused \cup {e} /\ m_channels' = m_channels
  BY <1>e, <1>f DEF VisitOthers
<1>3. /\ main'.pc # "crashed" /\ Counts' /\ Phases' /\ Together'
      /\ h \in built /\ pc' \in [Heaps -> PCs]
      /\ \A g \in Heaps : pc'[g] = IF g = h THEN "search" ELSE pc[g]
      /\ UNCHANGED <<nvm, main, latches, searchingThreadNum, m_mallocCount, built,
                     m_curChannel, startChannel>>
  BY <1>1, <1>2, <1>e, VisitedAlive
<1>4. /\ e \in Objects /\ e \in Pending
      /\ st' \in [Heaps -> Seq(Objects)] /\ entry' \in [Heaps -> Objects \cup {NULL}]
      /\ Pending' \subseteq Pending \cup ptrs[e]
      /\ Pending \cup ptrs[e] \subseteq Pending' \cup {e}
  BY <1>1, <1>2, <1>e, ChildrenPushed
<1>5. UNCHANGED <<ptrs, owner, roots, needRecover, canStart, canFinish>>
  BY <1>3 DEF nvm, latches
<1>6. f \in Heaps /\ f # h BY <1>1, <1>2 DEF TypeOK
<1>7. i \in Channels BY <1>6, RecoverAssumption DEF ChannelOf, Channels, Heaps
<1> HIDE DEF i
<1>8. /\ m_channels' \in [Heaps -> [Channels -> Seq(Objects)]]
      /\ \A g \in Heaps \ {f} : m_channels'[g] = m_channels[g]
      /\ \/ Mail(f)' = Mail(f) \cup {e} /\ refused' = refused
         \/ Mail(f)' = Mail(f) /\ refused' = refused \cup {e}
      /\ \A g \in Heaps \ {f} : Mail(g)' = Mail(g)
  <2>1. CASE m_channels' = [m_channels EXCEPT ![f][i] = Append(@, e)] /\ refused' = refused
    BY <1>1, <1>4, <1>6, <1>7, <2>1, MailPushed
  <2>2. CASE refused' = refused \cup {e} /\ m_channels' = m_channels
    BY <1>1, <2>2 DEF Mail, TypeOK
  <2> QED BY <1>2, <2>1, <2>2
<1>9. refused \subseteq refused' /\ refused' \subseteq Objects BY <1>1, <1>4, <1>8 DEF TypeOK
<1>10. TypeOK' BY <1>1, <1>2, <1>3, <1>4, <1>5, <1>8, <1>9 DEF TypeOK
\* While h still searches, nobody sweeps for the last time.
<1>11. Swept'
  <2>1. h \in needRecover /\ pc[h] \notin Past
    BY <1>1, <1>2 DEF Phases, PushChildren, Step, Past, Freeing
  <2>2. pc[f] \notin Freeing \cup {"cleanLast"} BY <1>1, <1>6, <2>1 DEF Together
  <2>3. \A g \in Heaps, j \in Channels : Behind(g, j)' <=> Behind(g, j) BY <1>3 DEF Behind
  <2>4. f \in built BY <1>2
  <2>5. ASSUME NEW g \in Heaps, NEW j \in Channels, g # f
        PROVE  /\ pc'[g] = "cleanLast" /\ Behind(g, j)' => m_channels'[g][j] = <<>>
               /\ pc'[g] \in Freeing => m_channels'[g][j] = <<>>
               /\ g \notin built' => m_channels'[g][j] = <<>>
    <3>1. /\ pc[g] = "cleanLast" /\ Behind(g, j) => m_channels[g][j] = <<>>
          /\ pc[g] \in Freeing => m_channels[g][j] = <<>>
          /\ g \notin built => m_channels[g][j] = <<>>
      BY <1>1 DEF Swept
    <3>2. m_channels'[g] = m_channels[g] /\ built' = built BY <1>3, <1>8, <2>5
    <3>3. pc'[g] \in Freeing \cup {"cleanLast"} => pc'[g] = pc[g] BY <1>3 DEF Freeing
    <3> QED BY <2>3, <3>1, <3>2, <3>3
  <2>6. pc'[f] \notin Freeing \cup {"cleanLast"} /\ f \in built'
    BY <1>3, <1>6, <2>2, <2>4
  <2> QED BY <2>5, <2>6 DEF Swept
<1>12. OnlyReachable' /\ Covered'
  <2>1. \A g \in Heaps :
           /\ Mail(g) \cup allocated[g] \subseteq Mail(g)' \cup allocated'[g]
           /\ \A o \in Mail(g)' \cup allocated'[g] :
                 o \in Mail(g) \cup allocated[g] \/ (o = e /\ owner[e] = g)
           /\ owner[e] = g => e \in Mail(g)' \cup allocated'[g] \cup refused'
    BY <1>2, <1>8, <1>f
  <2>2. UNCHANGED nvm /\ built' = built BY <1>3
  <2> QED BY <1>1, <1>4, <1>9, <2>1, <2>2, ObjectVisited
<1>13. OwnersOK' BY <1>1, <1>3, NvmKept
<1> QED BY <1>3, <1>10, <1>11, <1>12, <1>13 DEF IInv, Alive

-----------------------------------------------------------------------------
(* The theorems. *)

LEMMA StepKeeps ==
    ASSUME IInv, [Next]_vars
    PROVE  IInv'
<1>1. CASE DoRecover
  BY <1>1, CreateKeeps, IncrementKeeps, CountDownStartKeeps, AwaitFinishKeeps DEF DoRecover
<1>2. ASSUME NEW h \in Heaps, DoSearchAndRecover(h)
      PROVE  IInv'
  <2>1. CASE Visit(h)
    BY <2>1, VisitOwnKeeps, VisitOthersKeeps, VisitTooEarlyKeeps DEF Visit
  <2> QED BY <1>2, <2>1, AwaitStartKeeps, ConstructKeeps, PopEntryKeeps, SearchDoneKeeps,
             PopMessageKeeps, PopNothingKeeps, BarrierKeeps, EndRecoverKeeps,
             CountDownFinishKeeps DEF DoSearchAndRecover
<1>3. CASE UNCHANGED vars
  <2>1. UNCHANGED <<nvm, main, latches, searchingThreadNum, pc, st, entry, m_mallocCount, built,
                    mailbox, refused>>
    BY <1>3 DEF vars
  <2>2. UNCHANGED <<ptrs, owner, roots, needRecover, canStart, canFinish, m_channels,
                    m_curChannel, startChannel, allocated>>
    BY <2>1 DEF nvm, latches, mailbox
  <2>3. TypeOK' /\ OwnersOK' BY <2>1, <2>2 DEF IInv, TypeOK, OwnersOK
  <2>4. OnlyReachable' /\ Covered' BY <2>1, <2>2, HistoryKept DEF IInv
  <2>5. Gone' <=> Gone BY <2>1 DEF Gone
  <2>6. Counts' <=> Counts BY <2>1, <2>2 DEF Counts, ToStart, Searchers, ToFinish
  <2>7. Phases' <=> Phases BY <2>1, <2>2 DEF Phases
  <2>8. Together' <=> Together BY <2>1, <2>2 DEF Together
  <2>9. Swept' <=> Swept BY <2>1, <2>2 DEF Swept, Behind
  <2> QED BY <2>1, <2>3, <2>4, <2>5, <2>6, <2>7, <2>8, <2>9 DEF IInv, Alive
<1> QED BY <1>1, <1>2, <1>3 DEF Next

LEMMA Invariance == Spec => []IInv
<1>1. Init => IInv BY InitHolds
<1>2. IInv /\ [Next]_vars => IInv' BY StepKeeps
<1> QED BY <1>1, <1>2, PTL DEF Spec

\* Once a heap frees what it has not marked, every search is over and no message
\* to it is left: doSearchAndRecover's barrier and the last look at the channels.
THEOREM NobodyIsLate == Spec => []NobodyLate
<1>1. IInv => NobodyLate
  <2> SUFFICES ASSUME IInv
               PROVE  NobodyLate
    OBVIOUS
  <2>1. CASE Gone BY <2>1 DEF IInv, NobodyLate, Gone, Freeing
  <2>2. CASE Alive BY <2>2 DEF IInv, NobodyLate, Alive, Together, Swept, Past
  <2> QED BY <2>1, <2>2 DEF IInv
<1> QED BY <1>1, Invariance, PTL

\* A heap marks nothing that no root leads to, and when it frees it has marked
\* every object of its own that one does, but for messages that were refused.
THEOREM RecoveryIsExact == Spec => []RecoversExactly
<1>1. IInv => RecoversExactly
  <2> SUFFICES ASSUME IInv, NEW h \in Heaps
               PROVE  /\ allocated[h] \subseteq Owned(h)
                      /\ pc[h] \in Freeing => Owned(h) \subseteq allocated[h] \cup refused
    BY DEF RecoversExactly
  <2>1. allocated[h] \subseteq Owned(h) BY DEF IInv, OnlyReachable
  <2>2. ASSUME pc[h] \in Freeing
        PROVE  Owned(h) \subseteq allocated[h] \cup refused
    <3>1. TypeOK /\ OwnersOK /\ Phases /\ Together /\ Swept
      BY <2>2 DEF IInv, Gone, Alive, Freeing
    <3>2. \A g \in Heaps : pc[g] \in Past \cup {"off"}
      BY <2>2, <3>1 DEF Together, Phases, TypeOK
    <3>3. \A g \in Heaps : st[g] = <<>> /\ entry[g] = NULL
      BY <3>1, <3>2 DEF Phases, SearchPCs, Past, Freeing
    <3>4. Pending = {} BY <3>3, NothingIn DEF Pending, Stacked, InHand
    <3>5. \A g \in needRecover : g \in built
      BY <2>2, <3>1 DEF Together, Phases, TypeOK, Past, Freeing
    <3>6. Mail(h) = {} BY <2>2, <3>1, NothingIn DEF Swept, Mail
    <3>7. PICK D \in SUBSET Objects : Visited(D) BY DEF IInv, Covered
    <3>8. {r \in roots : owner[r] # NoHeap} \subseteq D
      BY <3>1, <3>4, <3>5, <3>7 DEF Visited, OwnersOK, TypeOK
    <3>9. \A d \in D : ptrs[d] \subseteq D BY <3>4, <3>7 DEF Visited
    <3>10. Reachable \subseteq D BY <3>7, <3>8, <3>9 DEF Reachable
    <3> QED BY <3>6, <3>7, <3>10 DEF Owned, Visited
  <2> QED BY <2>1, <2>2
<1> QED BY <1>1, Invariance, PTL

-----------------------------------------------------------------------------
(* The class of a size: CLPoliciesManager.  The provers compute powers of    *)
(* numbers, so what they know of them is kept in a table.                    *)

Power(b) == 2^b

LEMMA Powers ==
    /\ Power(0) = 1 /\ Power(0 + 1) = 2
    /\ Power(1) = 2 /\ Power(1 + 1) = 4
    /\ Power(2) = 4 /\ Power(2 + 1) = 8
    /\ Power(3) = 8 /\ Power(3 + 1) = 16
    /\ Power(4) = 16 /\ Power(4 + 1) = 32
    /\ Power(5) = 32 /\ Power(5 + 1) = 64
    /\ Power(6) = 64 /\ Power(6 + 1) = 128
    /\ Power(7) = 128 /\ Power(7 + 1) = 256
    /\ Power(8) = 256 /\ Power(8 + 1) = 512
    /\ Power(9) = 512 /\ Power(9 + 1) = 1024
    /\ Power(10) = 1024 /\ Power(10 + 1) = 2048
    /\ Power(11) = 2048 /\ Power(11 + 1) = 4096
    /\ Power(12) = 4096 /\ Power(12 + 1) = 8192
    /\ Power(13) = 8192 /\ Power(13 + 1) = 16384
    /\ Power(14) = 16384 /\ Power(14 + 1) = 32768
    /\ Power(15) = 32768 /\ Power(15 + 1) = 65536
BY DEF Power

\* _bsr_int64 finds the power of two a size lies above.
LEMMA FirstBit ==
    ASSUME NEW n \in Nat, NEW b \in 0 .. 15, NEW lo \in Nat, NEW hi \in Nat,
           lo = Power(b), hi = Power(b + 1), lo <= n, n < hi
    PROVE  FirstTrueBit(n) = b
<1> USE DEF Power
<1>1. \A c \in 0 .. 30 : 2^c <= n /\ n < 2^(c + 1) => c = b
  <2> SUFFICES ASSUME NEW c \in 0 .. 30, 2^c <= n, n < 2^(c + 1) PROVE c = b
    OBVIOUS
  <2> DEFINE p(x) == 2^x
  <2>1. /\ p(0) = 1 /\ p(1) = 2 /\ p(2) = 4 /\ p(3) = 8 /\ p(4) = 16 /\ p(5) = 32
        /\ p(6) = 64 /\ p(7) = 128 /\ p(8) = 256 /\ p(9) = 512 /\ p(10) = 1024
        /\ p(11) = 2048 /\ p(12) = 4096 /\ p(13) = 8192 /\ p(14) = 16384 /\ p(15) = 32768
        /\ p(16) = 65536 /\ p(17) = 131072 /\ p(18) = 262144 /\ p(19) = 524288
        /\ p(20) = 1048576 /\ p(21) = 2097152 /\ p(22) = 4194304 /\ p(23) = 8388608
        /\ p(24) = 16777216 /\ p(25) = 33554432 /\ p(26) = 67108864 /\ p(27) = 134217728
        /\ p(28) = 268435456 /\ p(29) = 536870912 /\ p(30) = 1073741824
        /\ p(31) = 2147483648
    OBVIOUS
  <2>2. p(c) <= n /\ n < p(c + 1) /\ p(b) <= n /\ n < p(b + 1)
    OBVIOUS
  <2> HIDE DEF p
  <2>3. \A x, y \in 0 .. 30 : x < y => p(x + 1) <= p(y)
    BY <2>1
  <2>4. \A x \in 0 .. 31 : p(x) \in Nat
    BY <2>1
  <2> QED
    BY <2>2, <2>3, <2>4
<1>2. b \in 0 .. 30
  OBVIOUS
<1> DEFINE S(c) == 2^c <= n /\ n < 2^(c + 1)
<1>3. S(b) /\ \A c \in 0 .. 30 : S(c) => c = b
  BY <1>1
<1>4. FirstTrueBit(n) = CHOOSE c \in 0 .. 30 : S(c)
  BY DEF FirstTrueBit
<1> HIDE DEF S
<1>5. (CHOOSE c \in 0 .. 30 : S(c)) = b
  BY <1>2, <1>3
<1> QED
  BY <1>4, <1>5

\* The classes from 512 on lie in the four quarters of each power of two.
LEMMA TableOfSizes ==
    /\ \A i \in 0 .. 7 : SizeOf(i) = 64 * (i + 1)
    /\ \A i \in 0 .. 3 : /\ SizeOf(8 + i)  = 128 * (i + 5)  /\ SizeOf(12 + i) = 256 * (i + 5)
                         /\ SizeOf(16 + i) = 512 * (i + 5)  /\ SizeOf(20 + i) = 1024 * (i + 5)
                         /\ SizeOf(24 + i) = 2048 * (i + 5) /\ SizeOf(28 + i) = 4096 * (i + 5)
<1>1. \A i \in 0 .. 7 : SizeOf(i) = 64 * (i + 1)
  BY DEF SizeOf, TYPE_TO_SIZE_MAP
<1>2. \A i \in 0 .. 3 : SizeOf(8 + i) = 128 * (i + 5) /\ SizeOf(12 + i) = 256 * (i + 5)
  BY DEF SizeOf, TYPE_TO_SIZE_MAP
<1>3. \A i \in 0 .. 3 : SizeOf(16 + i) = 512 * (i + 5) /\ SizeOf(20 + i) = 1024 * (i + 5)
  BY DEF SizeOf, TYPE_TO_SIZE_MAP
<1>4. \A i \in 0 .. 3 : SizeOf(24 + i) = 2048 * (i + 5) /\ SizeOf(28 + i) = 4096 * (i + 5)
  BY DEF SizeOf, TYPE_TO_SIZE_MAP
<1> QED
  BY <1>1, <1>2, <1>3, <1>4

\* One power of two from 512 on, of size 4 * q: b is its bit, t its first class.
LEMMA QuartersFit ==
    ASSUME NEW b \in 9 .. 14, NEW q \in Nat, q = Power(b - 2), Power(b) = 4 * q,
           NEW n \in Nat, 4 * q <= n, n < 8 * q,
           NEW t \in 8 .. 28, t = 8 + 4 * (b - 9),
           \A i \in 0 .. 3 : SizeOf(t + i) = q * (i + 5), SizeOf(t - 1) = 4 * q,
           FirstTrueBit(n) = b
    PROVE  FitsItsClass(n)
<1> DEFINE offset == n - 4 * q
           k == offset \div q
<1>1. q > 0
  OBVIOUS
<1>2. offset \in Nat /\ offset < 4 * q
  OBVIOUS
<1>3. k \in 0 .. 3 /\ k * q <= offset /\ offset < (k + 1) * q
  <2> HIDE DEF offset
  <2>1. offset < q \/ (q <= offset /\ offset < 2 * q) \/ (2 * q <= offset /\ offset < 3 * q) \/ 3 * q <= offset
    BY <1>2
  <2> QED
    BY <1>1, <1>2, <2>1
<1>4. getTypeIndexBySize(n) = IF offset = 0 THEN t - 1 ELSE t + k
  BY DEF getTypeIndexBySize, Quarter, Power
<1>5. n = 4 * q + offset /\ (n # 2^FirstTrueBit(n) <=> offset # 0)
  BY DEF Power
<1> HIDE DEF k, offset
<1>6. CASE offset = 0
  <2>1. getTypeIndexBySize(n) = t - 1 /\ n = 4 * q /\ t - 1 \in 7 .. 27
    BY <1>4, <1>5, <1>6
  <2>2. SizeOf(t - 2) < 4 * q
    BY TableOfSizes
  <2> QED
    BY <2>1, <2>2 DEF FitsItsClass, SMALL_OBJ_CATEORY_NUM
<1>7. CASE offset # 0
  <2>1. getTypeIndexBySize(n) = t + k /\ t + k \in 8 .. 31 /\ n # 2^FirstTrueBit(n)
    BY <1>3, <1>4, <1>5, <1>7
  <2>2. SizeOf(t + k) = q * (k + 5) /\ SizeOf(t + k - 1) = q * (k + 4)
    <3>1. SizeOf(t) = q * 5 /\ SizeOf(t + 1) = q * 6 /\ SizeOf(t + 2) = q * 7 /\ SizeOf(t + 3) = q * 8
      OBVIOUS
    <3> QED
      BY <1>3, <3>1
  <2>3. n <= q * (k + 5) /\ q * (k + 4) <= n /\ (n = q * (k + 4) => k > 0)
    BY <1>1, <1>2, <1>3, <1>5, <1>7
  <2> QED
    BY <2>1, <2>2, <2>3, <1>3 DEF FitsItsClass, SMALL_OBJ_CATEORY_NUM
<1> QED
  BY <1>6, <1>7
\* Classes of 64 bytes each, up to 512.
LEMMA SmallBit == ASSUME NEW n \in Nat, 0 < n, n < 512 PROVE FirstTrueBit(n) \in 0 .. 8
<1>1. CASE 1 <= n /\ n < 2
  <2>1. 1 = Power(0) /\ 2 = Power(0 + 1)
    BY Powers
  <2>2. FirstTrueBit(n) = 0
    BY <1>1, <2>1, FirstBit
  <2> QED
    BY <2>2
<1>2. CASE 2 <= n /\ n < 4
  <2>1. 2 = Power(1) /\ 4 = Power(1 + 1)
    BY Powers
  <2>2. FirstTrueBit(n) = 1
    BY <1>2, <2>1, FirstBit
  <2> QED
    BY <2>2
<1>3. CASE 4 <= n /\ n < 8
  <2>1. 4 = Power(2) /\ 8 = Power(2 + 1)
    BY Powers
  <2>2. FirstTrueBit(n) = 2
    BY <1>3, <2>1, FirstBit
  <2> QED
    BY <2>2
<1>4. CASE 8 <= n /\ n < 16
  <2>1. 8 = Power(3) /\ 16 = Power(3 + 1)
    BY Powers
  <2>2. FirstTrueBit(n) = 3
    BY <1>4, <2>1, FirstBit
  <2> QED
    BY <2>2
<1>5. CASE 16 <= n /\ n < 32
  <2>1. 16 = Power(4) /\ 32 = Power(4 + 1)
    BY Powers
  <2>2. FirstTrueBit(n) = 4
    BY <1>5, <2>1, FirstBit
  <2> QED
    BY <2>2
<1>6. CASE 32 <= n /\ n < 64
  <2>1. 32 = Power(5) /\ 64 = Power(5 + 1)
    BY Powers
  <2>2. FirstTrueBit(n) = 5
    BY <1>6, <2>1, FirstBit
  <2> QED
    BY <2>2
<1>7. CASE 64 <= n /\ n < 128
  <2>1. 64 = Power(6) /\ 128 = Power(6 + 1)
    BY Powers
  <2>2. FirstTrueBit(n) = 6
    BY <1>7, <2>1, FirstBit
  <2> QED
    BY <2>2
<1>8. CASE 128 <= n /\ n < 256
  <2>1. 128 = Power(7) /\ 256 = Power(7 + 1)
    BY Powers
  <2>2. FirstTrueBit(n) = 7
    BY <1>8, <2>1, FirstBit
  <2> QED
    BY <2>2
<1>9. CASE 256 <= n /\ n < 512
  <2>1. 256 = Power(8) /\ 512 = Power(8 + 1)
    BY Powers
  <2>2. FirstTrueBit(n) = 8
    BY <1>9, <2>1, FirstBit
  <2> QED
    BY <2>2
<1> QED
  BY <1>1, <1>2, <1>3, <1>4, <1>5, <1>6, <1>7, <1>8, <1>9

LEMMA SmallSizeFits == ASSUME NEW n \in Nat, 0 < n, n < 512 PROVE FitsItsClass(n)
<1> DEFINE i == Lines(n)
<1>1. i \in 0 .. 7 /\ 64 * i < n /\ n <= 64 * (i + 1)
  BY DEF Lines
<1>2. FirstTrueBit(n) \in 0 .. 8
  BY SmallBit
<1>3. getTypeIndexBySize(n) = i
  <2> DEFINE bit == FirstTrueBit(n)
  <2>1. bit < 9 /\ ~ (bit >= 9)
    BY <1>2
  <2> HIDE DEF i
  <2>2. getTypeIndexBySize(n) = CASE bit < 9 -> Lines(n)
                                  [] bit >= 9 /\ n - 2^bit = 0 -> 7 + 4 * (bit - 9)
                                  [] bit >= 9 /\ n - 2^bit # 0 -> Quarter(bit, n - 2^bit) + 4 * (bit - 9)
    BY DEF getTypeIndexBySize
  <2> QED
    BY <2>1, <2>2 DEF i
<1> HIDE DEF i
<1>4. SizeOf(i) = 64 * (i + 1) /\ (i # 0 => SizeOf(i - 1) = 64 * i)
  BY <1>1, TableOfSizes
<1> QED
  BY <1>1, <1>3, <1>4 DEF FitsItsClass, SMALL_OBJ_CATEORY_NUM

\* Quarters from there on, and the largest size by itself.
LEMMA LargeSizeFits == ASSUME NEW n \in Nat, 512 <= n, n < 32768 PROVE FitsItsClass(n)
<1>1. CASE 512 <= n /\ n < 1024
  <2>1. 128 = Power(9 - 2) /\ Power(9) = 4 * 128 /\ 512 = Power(9) /\ 1024 = Power(9 + 1)
    BY Powers
  <2>2. FirstTrueBit(n) = 9
    BY <1>1, <2>1, FirstBit
  <2>3. (\A i \in 0 .. 3 : SizeOf(8 + i) = 128 * (i + 5)) /\ SizeOf(8 - 1) = 4 * 128
    BY TableOfSizes
  <2>4. 4 * 128 <= n /\ n < 8 * 128
    BY <1>1
  <2> QED
    BY <2>1, <2>2, <2>3, <2>4, QuartersFit
<1>2. CASE 1024 <= n /\ n < 2048
  <2>1. 256 = Power(10 - 2) /\ Power(10) = 4 * 256 /\ 1024 = Power(10) /\ 2048 = Power(10 + 1)
    BY Powers
  <2>2. FirstTrueBit(n) = 10
    BY <1>2, <2>1, FirstBit
  <2>3. (\A i \in 0 .. 3 : SizeOf(12 + i) = 256 * (i + 5)) /\ SizeOf(12 - 1) = 4 * 256
    BY TableOfSizes
  <2>4. 4 * 256 <= n /\ n < 8 * 256
    BY <1>2
  <2> QED
    BY <2>1, <2>2, <2>3, <2>4, QuartersFit
<1>3. CASE 2048 <= n /\ n < 4096
  <2>1. 512 = Power(11 - 2) /\ Power(11) = 4 * 512 /\ 2048 = Power(11) /\ 4096 = Power(11 + 1)
    BY Powers
  <2>2. FirstTrueBit(n) = 11
    BY <1>3, <2>1, FirstBit
  <2>3. (\A i \in 0 .. 3 : SizeOf(16 + i) = 512 * (i + 5)) /\ SizeOf(16 - 1) = 4 * 512
    BY TableOfSizes
  <2>4. 4 * 512 <= n /\ n < 8 * 512
    BY <1>3
  <2> QED
    BY <2>1, <2>2, <2>3, <2>4, QuartersFit
<1>4. CASE 4096 <= n /\ n < 8192
  <2>1. 1024 = Power(12 - 2) /\ Power(12) = 4 * 1024 /\ 4096 = Power(12) /\ 8192 = Power(12 + 1)
    BY Powers
  <2>2. FirstTrueBit(n) = 12
    BY <1>4, <2>1, FirstBit
  <2>3. (\A i \in 0 .. 3 : SizeOf(20 + i) = 1024 * (i + 5)) /\ SizeOf(20 - 1) = 4 * 1024
    BY TableOfSizes
  <2>4. 4 * 1024 <= n /\ n < 8 * 1024
    BY <1>4
  <2> QED
    BY <2>1, <2>2, <2>3, <2>4, QuartersFit
<1>5. CASE 8192 <= n /\ n < 16384
  <2>1. 2048 = Power(13 - 2) /\ Power(13) = 4 * 2048 /\ 8192 = Power(13) /\ 16384 = Power(13 + 1)
    BY Powers
  <2>2. FirstTrueBit(n) = 13
    BY <1>5, <2>1, FirstBit
  <2>3. (\A i \in 0 .. 3 : SizeOf(24 + i) = 2048 * (i + 5)) /\ SizeOf(24 - 1) = 4 * 2048
    BY TableOfSizes
  <2>4. 4 * 2048 <= n /\ n < 8 * 2048
    BY <1>5
  <2> QED
    BY <2>1, <2>2, <2>3, <2>4, QuartersFit
<1>6. CASE 16384 <= n /\ n < 32768
  <2>1. 4096 = Power(14 - 2) /\ Power(14) = 4 * 4096 /\ 16384 = Power(14) /\ 32768 = Power(14 + 1)
    BY Powers
  <2>2. FirstTrueBit(n) = 14
    BY <1>6, <2>1, FirstBit
  <2>3. (\A i \in 0 .. 3 : SizeOf(28 + i) = 4096 * (i + 5)) /\ SizeOf(28 - 1) = 4 * 4096
    BY TableOfSizes
  <2>4. 4 * 4096 <= n /\ n < 8 * 4096
    BY <1>6
  <2> QED
    BY <2>1, <2>2, <2>3, <2>4, QuartersFit
<1> QED
  BY <1>1, <1>2, <1>3, <1>4, <1>5, <1>6

LEMMA SizesFit == ASSUME NEW n \in Nat, 0 < n, n <= MAX_SMALL_OBJ_SIZE PROVE FitsItsClass(n)
<1>1. MAX_SMALL_OBJ_SIZE = 32768
  BY DEF MAX_SMALL_OBJ_SIZE
<1>2. CASE n = 32768
  <2>1. 32768 = Power(15) /\ 65536 = Power(15 + 1)
    BY Powers
  <2>2. FirstTrueBit(n) = 15
    BY <1>2, <2>1, FirstBit
  <2>3. n - 2^15 = 0
    BY <1>2
  <2>4. getTypeIndexBySize(n) = 31
    BY <2>2, <2>3 DEF getTypeIndexBySize
  <2>5. SizeOf(31) = 32768 /\ SizeOf(30) = 28672
    BY TableOfSizes
  <2> QED
    BY <1>2, <2>4, <2>5 DEF FitsItsClass, SMALL_OBJ_CATEORY_NUM
<1> QED
  BY <1>1, <1>2, SmallSizeFits, LargeSizeFits

-----------------------------------------------------------------------------
(* Recursive functions up to a number. *)

\* Numbers have a least one among them, and induction goes on from it.
LEMMA LeastNumber ==
    ASSUME NEW S, S # {}, \A n \in S : n \in Nat
    PROVE  \E k \in S : \A n \in S : k <= n
<1> DEFINE R == StrictSubsetOrdering(Nat)
           upTo(n) == 0 .. n
           T == {upTo(n) : n \in S}
<1>1. IsWellFoundedOn(R, FiniteSubsetsOf(Nat)) BY FS_StrictSubsetOrderingWellFounded
<1>2. T \subseteq FiniteSubsetsOf(Nat)
  <2>1. \A n \in S : upTo(n) \subseteq Nat /\ IsFiniteSet(upTo(n)) BY FS_Interval
  <2> QED BY <2>1 DEF FiniteSubsetsOf
<1>3. PICK x \in T : \A y \in T : ~(<<y, x>> \in R)
  <2> HIDE DEF R, T
  <2>1. T # {} BY DEF T
  <2> QED BY <1>1, <1>2, <2>1, WFMin
<1> PICK k \in S : x = upTo(k) OBVIOUS
<1>4. \A n \in S : k <= n
  <2> SUFFICES ASSUME NEW n \in S, n < k PROVE FALSE OBVIOUS
  <2>1. upTo(n) \subseteq upTo(k) /\ k \in upTo(k) /\ k \notin upTo(n) OBVIOUS
  <2>2. upTo(n) \in SUBSET Nat /\ upTo(k) \in SUBSET Nat OBVIOUS
  <2> HIDE DEF upTo
  <2>3. <<upTo(n), upTo(k)>> \in R BY <2>1, <2>2 DEF StrictSubsetOrdering
  <2> QED BY <1>3, <2>3
<1> QED BY <1>4

LEMMA Forwards ==
    ASSUME NEW a \in Nat, NEW N \in Nat, a <= N, NEW S, a \in S,
           \A j \in a .. N : j < N /\ j \in S => j + 1 \in S
    PROVE  a .. N \subseteq S
<1> DEFINE Bad == (a .. N) \ S
<1> SUFFICES ASSUME Bad # {} PROVE FALSE
  OBVIOUS
<1>1. PICK m \in Bad : \A k \in Bad : m <= k
  <2>1. \A m \in Bad : m \in Nat
    OBVIOUS
  <2> HIDE DEF Bad
  <2> QED
    BY <2>1, LeastNumber
<1>2. m - 1 \in a .. N /\ m - 1 \in S /\ m - 1 < N
  BY <1>1
<1> QED
  BY <1>1, <1>2

\* The sums of numbers exist.
LEMMA SumsExist ==
    ASSUME NEW N \in Nat, NEW w \in [1 .. N -> Nat]
    PROVE  \E g \in [0 .. N -> Nat] :
               g = [j \in 0 .. N |-> IF j = 0 THEN 0 ELSE g[j - 1] + w[j]]
<1> DEFINE Known == {k \in 0 .. N : \E g \in [0 .. N -> Nat] :
                        g[0] = 0 /\ \A j \in 1 .. k : g[j] = g[j - 1] + w[j]}
<1>1. 0 \in Known
  <2> DEFINE g == [j \in 0 .. N |-> 0]
  <2>1. g \in [0 .. N -> Nat] /\ g[0] = 0 /\ \A j \in 1 .. 0 : g[j] = g[j - 1] + w[j]
    OBVIOUS
  <2> HIDE DEF g
  <2> QED
    BY <2>1
<1>2. \A k \in 0 .. N : k < N /\ k \in Known => k + 1 \in Known
  <2> SUFFICES ASSUME NEW k \in 0 .. N, k < N, k \in Known PROVE k + 1 \in Known
    OBVIOUS
  <2>1. PICK g \in [0 .. N -> Nat] : g[0] = 0 /\ \A j \in 1 .. k : g[j] = g[j - 1] + w[j]
    OBVIOUS
  <2> DEFINE h == [g EXCEPT ![k + 1] = g[k] + w[k + 1]]
  <2>2. h \in [0 .. N -> Nat] /\ h[k + 1] = g[k] + w[k + 1] /\ \A j \in 0 .. k : h[j] = g[j]
    <3>1. k \in 0 .. N /\ k + 1 \in 0 .. N /\ k + 1 \in 1 .. N
      OBVIOUS
    <3>2. g[k] + w[k + 1] \in Nat
      <4> DEFINE a == g[k]
                 b == w[k + 1]
      <4>1. a \in Nat /\ b \in Nat
        BY <3>1
      <4> HIDE DEF a, b, Known
      <4>2. a + b \in Nat
        BY <4>1
      <4> QED
        BY <4>2 DEF a, b
    <3>3. \A j \in 0 .. k : j \in 0 .. N /\ j # k + 1
      OBVIOUS
    <3> QED
      BY <3>1, <3>2, <3>3
  <2> HIDE DEF h
  <2>3. \A j \in 1 .. k + 1 : h[j] = h[j - 1] + w[j]
    <3> SUFFICES ASSUME NEW j \in 1 .. k + 1 PROVE h[j] = h[j - 1] + w[j]
      OBVIOUS
    <3>1. CASE j = k + 1
      <4>1. h[k] = g[k]
        BY <2>2
      <4> QED
        BY <3>1, <4>1, <2>2
    <3>2. CASE j # k + 1
      <4>1. j \in 1 .. k /\ j - 1 \in 0 .. k
        BY <3>2
      <4> QED
        BY <4>1, <2>1, <2>2
    <3> QED
      BY <3>1, <3>2
  <2>4. h[0] = 0 /\ k + 1 \in 0 .. N
    BY <2>1, <2>2
  <2> QED
    BY <2>2, <2>3, <2>4
<1>3. N \in Known
  <2> HIDE DEF Known
  <2>1. 0 \in Nat /\ 0 <= N
    OBVIOUS
  <2>2. 0 .. N \subseteq Known
    BY <1>1, <1>2, <2>1, Forwards, Zenon
  <2> QED
    BY <2>2
<1>4. PICK g \in [0 .. N -> Nat] : g[0] = 0 /\ \A j \in 1 .. N : g[j] = g[j - 1] + w[j]
  BY <1>3
<1>5. \A j \in 0 .. N : g[j] = IF j = 0 THEN 0 ELSE g[j - 1] + w[j]
  BY <1>4
<1> QED
  BY <1>4, <1>5

\* And so do the concatenations of sequences.
Concatenates(N, s, g) == g = [j \in 1 .. N |-> IF j = 1 THEN s[j] ELSE g[j - 1] \o s[j]]

LEMMA ConcatenationsExist ==
    ASSUME NEW T, NEW N \in Nat, N > 0, NEW s, s \in [1 .. N -> Seq(T)]
    PROVE  \E g : Concatenates(N, s, g)
<1> DEFINE Known == {k \in 1 .. N : \E g \in [1 .. N -> Seq(T)] :
                        g[1] = s[1] /\ \A j \in 2 .. k : g[j] = g[j - 1] \o s[j]}
<1>1. 1 \in Known
  <2>1. \E g \in [1 .. N -> Seq(T)] : g[1] = s[1] /\ \A j \in 2 .. 1 : g[j] = g[j - 1] \o s[j]
    <3>1. \A j \in 2 .. 1 : FALSE
      OBVIOUS
    <3> WITNESS s \in [1 .. N -> Seq(T)]
    <3> QED
      BY <3>1
  <2>2. 1 \in 1 .. N
    OBVIOUS
  <2> QED
    BY <2>1, <2>2
<1>2. \A k \in 1 .. N : k < N /\ k \in Known => k + 1 \in Known
  <2> SUFFICES ASSUME NEW k \in 1 .. N, k < N, k \in Known PROVE k + 1 \in Known
    OBVIOUS
  <2>1. PICK g \in [1 .. N -> Seq(T)] : g[1] = s[1] /\ \A j \in 2 .. k : g[j] = g[j - 1] \o s[j]
    OBVIOUS
  <2> DEFINE h == [g EXCEPT ![k + 1] = g[k] \o s[k + 1]]
  <2>2. g[k] \o s[k + 1] \in Seq(T)
    BY <2>1, ConcatProperties
  <2>3. h \in [1 .. N -> Seq(T)] /\ h[k + 1] = g[k] \o s[k + 1] /\ \A j \in 1 .. k : h[j] = g[j]
    BY <2>1, <2>2
  <2> HIDE DEF h
  <2>4. h[1] = s[1]
    BY <2>1, <2>3
  <2>5. \A j \in 2 .. k + 1 : h[j] = h[j - 1] \o s[j]
    <3> SUFFICES ASSUME NEW j \in 2 .. k + 1 PROVE h[j] = h[j - 1] \o s[j]
      OBVIOUS
    <3>1. CASE j = k + 1
      <4>1. h[k] = g[k]
        BY <2>3
      <4> QED
        <5>1. j - 1 = k
          BY <3>1
        <5> QED
          BY <3>1, <4>1, <5>1, <2>3
    <3>2. CASE j # k + 1
      <4>1. j \in 2 .. k /\ j \in 1 .. k /\ j - 1 \in 1 .. k
        BY <3>2
      <4> QED
        BY <4>1, <2>1, <2>3
    <3> QED
      BY <3>1, <3>2
  <2>6. k + 1 \in 1 .. N
    OBVIOUS
  <2> QED
    BY <2>3, <2>4, <2>5, <2>6
<1>3. N \in Known
  <2> HIDE DEF Known
  <2>1. 1 \in Nat /\ 1 <= N
    OBVIOUS
  <2>2. 1 .. N \subseteq Known
    BY <1>1, <1>2, <2>1, Forwards, Zenon
  <2> QED
    BY <2>2
<1>4. PICK g \in [1 .. N -> Seq(T)] : g[1] = s[1] /\ \A j \in 2 .. N : g[j] = g[j - 1] \o s[j]
  BY <1>3
<1> HIDE DEF Known
<1>5. \A j \in 1 .. N : g[j] = IF j = 1 THEN s[j] ELSE g[j - 1] \o s[j]
  <2>1. \A j \in 1 .. N : j = 1 \/ j \in 2 .. N
    OBVIOUS
  <2> QED
    BY <1>4, <2>1
<1>6. g = [j \in 1 .. N |-> IF j = 1 THEN s[j] ELSE g[j - 1] \o s[j]]
  BY <1>4, <1>5
<1> QED
  BY <1>6 DEF Concatenates

-----------------------------------------------------------------------------
(* What the two passes leave, for an array of entries that both accept. *)

Accepted(f) == f \in Seq(Entries) /\ AllFit(f) /\ Resolved(f, TypeIDs(f))

\* Where the words of entry j + 1 start.
StartOf(f, j) == SpaceNeed(f)[j] \div Word

\* What an accepted entry consists of.
LEMMA EntryTypes ==
    ASSUME NEW f, Accepted(f), NEW j \in 1 .. Len(f)
    PROVE  /\ f[j].name \in Names
           /\ f[j].ptrs \in Seq(Names \cup {NONE}) /\ Len(f[j].ptrs) \in Nat
           /\ f[j].size \in Nat
<1>1. f[j] \in Entries /\ j \in DOMAIN f
  BY ElementOfSeq, LenProperties DEF Accepted
<1>2. f[j].ptrs # NONE /\ f[j].name # NONE /\ f[j].size # NONE
  BY <1>1 DEF Accepted, AllFit, Resolved
<1>3. f[j].ptrs \in Seq(Names \cup {NONE})
  BY <1>1, <1>2 DEF Entries
<1> QED
  BY <1>1, <1>2, <1>3, LenProperties DEF Entries

\* The first pass adds up the sizes of the entries, in whole words below the limit.
LEMMA SpaceNeedIsDefined ==
    ASSUME NEW f, Accepted(f)
    PROVE  /\ SpaceNeed(f) \in [0 .. Len(f) -> Nat]
           /\ SpaceNeed(f)[0] = 0
           /\ \A j \in 1 .. Len(f) :
                 SpaceNeed(f)[j] = SpaceNeed(f)[j - 1] + rootInfoSize(f[j])
<1> DEFINE N == Len(f)
           w == [j \in 1 .. N |-> rootInfoSize(f[j])]
           Solves(g) == g = [j \in 0 .. N |-> IF j = 0 THEN 0 ELSE g[j - 1] + rootInfoSize(f[j])]
<1>1. N \in Nat
  BY LenProperties DEF Accepted
<1>2. w \in [1 .. N -> Nat]
  <2>1. \A j \in 1 .. N : rootInfoSize(f[j]) \in Nat
    BY EntryTypes DEF rootInfoSize, Word
  <2> QED
    BY <2>1
<1>3. PICK g \in [0 .. N -> Nat] : g = [j \in 0 .. N |-> IF j = 0 THEN 0 ELSE g[j - 1] + w[j]]
  <2> HIDE DEF w, N
  <2> QED
    BY <1>1, <1>2, SumsExist
<1>4. Solves(g)
  <2>1. \A j \in 0 .. N : (IF j = 0 THEN 0 ELSE g[j - 1] + w[j])
                          = IF j = 0 THEN 0 ELSE g[j - 1] + rootInfoSize(f[j])
    BY <1>1
  <2> HIDE DEF w
  <2>2. [j \in 0 .. N |-> IF j = 0 THEN 0 ELSE g[j - 1] + w[j]]
        = [j \in 0 .. N |-> IF j = 0 THEN 0 ELSE g[j - 1] + rootInfoSize(f[j])]
    BY <2>1
  <2> QED
    BY <1>3, <2>2
<1>5. Solves(CHOOSE h : Solves(h))
  BY <1>4, Zenon
<1>6. SpaceNeed(f) = CHOOSE h : Solves(h)
  BY Zenon DEF SpaceNeed
<1>7. Solves(SpaceNeed(f))
  BY <1>5, <1>6, Zenon
<1> DEFINE S == SpaceNeed(f)
<1>8. /\ S = [j \in 0 .. N |-> S[j]]
      /\ \A j \in 0 .. N : S[j] = IF j = 0 THEN 0 ELSE S[j - 1] + rootInfoSize(f[j])
  <2>1. S = [j \in 0 .. N |-> IF j = 0 THEN 0 ELSE S[j - 1] + rootInfoSize(f[j])]
    BY <1>7
  <2> HIDE DEF S, N
  <2> QED
    BY <2>1
<1> HIDE DEF S
<1>9. S[0] = 0 /\ \A j \in 1 .. N : S[j] = S[j - 1] + rootInfoSize(f[j])
  <2>1. 0 \in 0 .. N /\ \A j \in 1 .. N : j \in 0 .. N /\ j # 0
    BY <1>1
  <2> QED
    BY <1>8, <2>1, Zenon
<1> DEFINE K == {j \in 0 .. N : S[j] \in Nat}
<1>10. 0 .. N \subseteq K
  <2>1. 0 \in K
    BY <1>1, <1>9
  <2>2. \A j \in 0 .. N : j < N /\ j \in K => j + 1 \in K
    <3> SUFFICES ASSUME NEW j \in 0 .. N, j < N, S[j] \in Nat PROVE j + 1 \in K
      OBVIOUS
    <3>1. j + 1 \in 1 .. N
      BY <1>1
    <3>2. S[j + 1] = S[j] + rootInfoSize(f[j + 1]) /\ rootInfoSize(f[j + 1]) \in Nat
      BY <1>2, <1>9, <3>1
    <3> HIDE DEF N
    <3> QED
      BY <3>1, <3>2
  <2>3. 0 \in Nat /\ 0 <= N
    BY <1>1
  <2> HIDE DEF K
  <2> QED
    BY <1>1, <2>1, <2>2, <2>3, Forwards, Zenon
<1> QED
  BY <1>8, <1>9, <1>10 DEF S

LEMMA StartsOfEntries ==
    ASSUME TypeInfoAssumption, NEW f, Accepted(f)
    PROVE  /\ \A j \in 0 .. Len(f) : StartOf(f, j) \in Nat /\ SpaceNeed(f)[j] = 8 * StartOf(f, j)
           /\ StartOf(f, 0) = 0
           /\ \A j \in 1 .. Len(f) :
                 /\ StartOf(f, j) = StartOf(f, j - 1) + Len(f[j].ptrs) + 1
                 /\ 8 * StartOf(f, j) <= INVALID_TYPE_ID
<1> DEFINE N == Len(f)
           S == SpaceNeed(f)
           K == {j \in 0 .. N : StartOf(f, j) \in Nat /\ S[j] = 8 * StartOf(f, j)}
<1>1. N \in Nat
  BY LenProperties DEF Accepted
<1>2. /\ S \in [0 .. N -> Nat] /\ S[0] = 0
      /\ \A j \in 1 .. N : S[j] = S[j - 1] + 8 * (Len(f[j].ptrs) + 1) /\ Len(f[j].ptrs) \in Nat
  <2>1. \A j \in 1 .. N : Len(f[j].ptrs) \in Nat
    BY EntryTypes
  <2> QED
    BY <2>1, SpaceNeedIsDefined DEF rootInfoSize, Word
<1>3. \A j \in 0 .. N : StartOf(f, j) = S[j] \div 8
  BY DEF StartOf, Word
<1> HIDE DEF S, N
<1>4. 0 \in K
  BY <1>1, <1>2, <1>3
<1>5. \A j \in 0 .. N : j < N /\ j \in K => j + 1 \in K
  <2> SUFFICES ASSUME NEW j \in 0 .. N, j < N, j \in K PROVE j + 1 \in K
    OBVIOUS
  <2>1. j + 1 \in 1 .. N /\ j + 1 \in 0 .. N
    BY <1>1
  <2>2. PICK l \in Nat : S[j + 1] = S[j] + 8 * (l + 1)
    <3>1. \A i \in 1 .. N : \E l \in Nat : S[i] = S[i - 1] + 8 * (l + 1)
      BY <1>2
    <3>2. \E l \in Nat : S[j + 1] = S[(j + 1) - 1] + 8 * (l + 1)
      BY <2>1, <3>1
    <3>3. (j + 1) - 1 = j
      BY <1>1
    <3> QED
      BY <3>2, <3>3
  <2>3. S[j + 1] = 8 * (StartOf(f, j) + l + 1) /\ StartOf(f, j) \in Nat
    BY <2>2
  <2>4. StartOf(f, j + 1) = S[j + 1] \div 8
    BY <1>3, <2>1
  <2> QED
    BY <2>1, <2>3, <2>4
<1>6. 0 .. N \subseteq K
  <2>1. 0 \in Nat /\ 0 <= N
    BY <1>1
  <2> HIDE DEF K
  <2> QED
    BY <1>1, <1>4, <1>5, <2>1, Forwards, Zenon
<1>7. \A j \in 1 .. N : StartOf(f, j) = StartOf(f, j - 1) + Len(f[j].ptrs) + 1
  <2> SUFFICES ASSUME NEW j \in 1 .. N
               PROVE  StartOf(f, j) = StartOf(f, j - 1) + Len(f[j].ptrs) + 1
    OBVIOUS
  <2>1. j \in K /\ j - 1 \in K
    BY <1>1, <1>6
  <2> DEFINE l == Len(f[j].ptrs)
             x == StartOf(f, j)
             y == StartOf(f, j - 1)
  <2>2. x \in Nat /\ y \in Nat /\ S[j] = 8 * x /\ S[j - 1] = 8 * y
    BY <2>1
  <2>3. S[j] = S[j - 1] + 8 * (l + 1) /\ l \in Nat
    BY <1>2
  <2> HIDE DEF l, x, y
  <2>4. 8 * x = 8 * y + 8 * (l + 1)
    BY <2>2, <2>3
  <2>5. x = y + l + 1
    BY <2>2, <2>3, <2>4
  <2> QED
    BY <2>5 DEF l, x, y
<1>8. \A j \in 1 .. N : 8 * StartOf(f, j) <= INVALID_TYPE_ID
  <2> SUFFICES ASSUME NEW j \in 1 .. N PROVE 8 * StartOf(f, j) <= INVALID_TYPE_ID
    OBVIOUS
  <2>1. S[j - 1] + rootInfoSize(f[j]) <= INVALID_TYPE_ID
    BY LenProperties DEF Accepted, AllFit, Fits, S, N
  <2>2. rootInfoSize(f[j]) = 8 * (Len(f[j].ptrs) + 1)
    BY DEF rootInfoSize, Word
  <2>3. j \in K
    BY <1>1, <1>6
  <2> QED
    BY <1>2, <2>1, <2>2, <2>3
<1>9. 0 \in K
  BY <1>4
<1> QED
  BY <1>2, <1>3, <1>6, <1>7, <1>8, <1>9 DEF S, N

\* Entries start one behind the other.
LEMMA StartsGrow ==
    ASSUME TypeInfoAssumption, NEW f, Accepted(f), NEW i \in 1 .. Len(f), NEW j \in 1 .. Len(f), i < j
    PROVE  StartOf(f, i) <= StartOf(f, j - 1)
<1> DEFINE N == Len(f)
           K == {k \in i .. N : StartOf(f, i) <= StartOf(f, k)}
<1>1. N \in Nat
  BY LenProperties DEF Accepted
<1>2. \A k \in 0 .. N : StartOf(f, k) \in Nat
  BY StartsOfEntries
<1>3. \A k \in 1 .. N : StartOf(f, k - 1) <= StartOf(f, k)
  <2> SUFFICES ASSUME NEW k \in 1 .. N PROVE StartOf(f, k - 1) <= StartOf(f, k)
    OBVIOUS
  <2>1. Len(f[k].ptrs) \in Nat
    BY EntryTypes
  <2>2. StartOf(f, k) = StartOf(f, k - 1) + Len(f[k].ptrs) + 1
    BY StartsOfEntries
  <2>3. k - 1 \in 0 .. N
    BY <1>1
  <2>4. StartOf(f, k - 1) \in Nat
    BY <1>2, <2>3
  <2> QED
    BY <2>1, <2>2, <2>4
<1> HIDE DEF N
<1>4. i \in Nat /\ i \in 1 .. N /\ j \in 1 .. N
  BY DEF N
<1>5. i \in K
  BY <1>1, <1>2, <1>4
<1>6. \A k \in i .. N : k < N /\ k \in K => k + 1 \in K
  <2> SUFFICES ASSUME NEW k \in i .. N, k < N, k \in K PROVE k + 1 \in K
    OBVIOUS
  <2>1. k + 1 \in 1 .. N /\ k + 1 \in 0 .. N /\ k \in 0 .. N /\ k + 1 \in i .. N /\ (k + 1) - 1 = k
    BY <1>1, <1>4
  <2>2. StartOf(f, k) <= StartOf(f, k + 1)
    BY <1>3, <2>1
  <2>3. StartOf(f, i) <= StartOf(f, k) /\ i \in 0 .. N
    BY <1>1, <1>4
  <2> QED
    BY <1>2, <2>1, <2>2, <2>3
<1>7. i .. N \subseteq K
  <2>1. i <= N
    BY <1>1, <1>4
  <2> HIDE DEF K
  <2> QED
    BY <1>1, <1>4, <1>5, <1>6, <2>1, Forwards, Zenon
<1>8. j - 1 \in i .. N
  BY <1>1, <1>4
<1> QED
  BY <1>7, <1>8

\* The first entry of a name, and the ID the name gets from it.
LEMMA FirstOfIs ==
    ASSUME NEW f, Accepted(f), NEW n, NEW k \in 1 .. Len(f), f[k].name = n
    PROVE  /\ FirstOf(f, n) \in 1 .. Len(f)
           /\ f[FirstOf(f, n)].name = n
<1> DEFINE D == {j \in 1 .. Len(f) : f[j].name = n}
           Least(x) == \A y \in D : x <= y
<1>1. DOMAIN f = 1 .. Len(f) /\ Len(f) \in Nat
  BY LenProperties DEF Accepted
<1>2. FirstOf(f, n) = CHOOSE x \in D : Least(x)
  BY <1>1 DEF FirstOf, Min
<1>3. PICK x \in D : Least(x)
  <2>1. D # {} /\ \A y \in D : y \in Nat
    BY <1>1
  <2> HIDE DEF D
  <2> QED
    BY <2>1, LeastNumber
<1> HIDE DEF Least
<1>4. (CHOOSE y \in D : Least(y)) \in D
  BY <1>3
<1> QED
  BY <1>2, <1>4

LEMMA IDsAre ==
    ASSUME TypeInfoAssumption, NEW f, Accepted(f)
    PROVE  /\ TypeIDs(f) \in [Names -> Nat]
           /\ \A n \in Names : (\A j \in 1 .. Len(f) : f[j].name # n) => TypeIDs(f)[n] = INVALID_TYPE_ID
           /\ \A n \in Names : \A k \in 1 .. Len(f) : f[k].name = n =>
                 /\ TypeIDs(f)[n] = StartOf(f, FirstOf(f, n) - 1)
                 /\ TypeIDs(f)[n] < INVALID_TYPE_ID
<1>1. DOMAIN f = 1 .. Len(f) /\ Len(f) \in Nat
  BY LenProperties DEF Accepted
<1>2. INVALID_TYPE_ID \in Nat /\ INVALID_TYPE_ID = TypeIDNum - 1 /\ TypeIDNum \in Nat
  BY DEF TypeInfoAssumption, INVALID_TYPE_ID
<1>3. \A n \in Names : \A k \in 1 .. Len(f) : f[k].name = n =>
         /\ TypeIDs(f)[n] = StartOf(f, FirstOf(f, n) - 1)
         /\ TypeIDs(f)[n] < INVALID_TYPE_ID
         /\ TypeIDs(f)[n] \in Nat
  <2> SUFFICES ASSUME NEW n \in Names, NEW k \in 1 .. Len(f), f[k].name = n
               PROVE  /\ TypeIDs(f)[n] = StartOf(f, FirstOf(f, n) - 1)
                      /\ TypeIDs(f)[n] < INVALID_TYPE_ID
                      /\ TypeIDs(f)[n] \in Nat
    OBVIOUS
  <2> DEFINE j == FirstOf(f, n)
  <2>1. j \in 1 .. Len(f)
    BY FirstOfIs
  <2>2. TypeIDs(f)[n] = (SpaceNeed(f)[j - 1] % TypeIDNum) \div 8
    BY <1>1 DEF TypeIDs, Word
  <2> HIDE DEF j
  <2> DEFINE x == StartOf(f, j - 1)
  <2>3. x \in Nat /\ SpaceNeed(f)[j - 1] = 8 * x
    <3>1. j - 1 \in 0 .. Len(f)
      BY <1>1, <2>1
    <3> QED
      BY <3>1, StartsOfEntries
  <2>4. 8 * x + 8 <= INVALID_TYPE_ID
    <3>1. Len(f[j].ptrs) \in Nat
      BY <2>1, EntryTypes
    <3>2. StartOf(f, j) = x + Len(f[j].ptrs) + 1 /\ 8 * StartOf(f, j) <= INVALID_TYPE_ID
      BY <2>1, StartsOfEntries
    <3> HIDE DEF x
    <3> QED
      BY <1>2, <2>3, <3>1, <3>2
  <2> HIDE DEF x
  <2>5. (8 * x) % TypeIDNum = 8 * x
    BY <1>2, <2>3, <2>4
  <2>6. TypeIDs(f)[n] = x
    BY <2>2, <2>3, <2>5
  <2>7. x < INVALID_TYPE_ID
    BY <1>2, <2>3, <2>4
  <2> QED
    BY <2>3, <2>6, <2>7 DEF x, j
<1>4. \A n \in Names : (\A j \in 1 .. Len(f) : f[j].name # n) => TypeIDs(f)[n] = INVALID_TYPE_ID
  BY <1>1 DEF TypeIDs
<1>5. \A n \in Names : TypeIDs(f)[n] \in Nat
  BY <1>2, <1>3, <1>4
<1>6. TypeIDs(f) = [n \in Names |-> TypeIDs(f)[n]]
  BY DEF TypeIDs
<1> QED
  BY <1>3, <1>4, <1>5, <1>6

\* Different names have different IDs.
LEMMA IDsDiffer ==
    ASSUME TypeInfoAssumption, NEW f, Accepted(f),
           NEW n \in Names, NEW k \in 1 .. Len(f), f[k].name = n,
           NEW m \in Names, NEW l \in 1 .. Len(f), f[l].name = m, m # n
    PROVE  TypeIDs(f)[m] # TypeIDs(f)[n]
<1> DEFINE i == FirstOf(f, n)
           j == FirstOf(f, m)
<1>1. i \in 1 .. Len(f) /\ j \in 1 .. Len(f) /\ i # j
  BY FirstOfIs
<1>2. TypeIDs(f)[n] = StartOf(f, i - 1) /\ TypeIDs(f)[m] = StartOf(f, j - 1)
  BY IDsAre
<1> HIDE DEF i, j
<1>3. \A x \in 1 .. Len(f) :
         StartOf(f, x - 1) \in Nat /\ StartOf(f, x) \in Nat /\ StartOf(f, x - 1) < StartOf(f, x)
  <2> SUFFICES ASSUME NEW x \in 1 .. Len(f)
               PROVE  StartOf(f, x - 1) \in Nat /\ StartOf(f, x) \in Nat /\ StartOf(f, x - 1) < StartOf(f, x)
    OBVIOUS
  <2>1. x - 1 \in 0 .. Len(f) /\ x \in 0 .. Len(f)
    BY LenProperties DEF Accepted
  <2>2. StartOf(f, x - 1) \in Nat /\ StartOf(f, x) \in Nat
    BY <2>1, StartsOfEntries
  <2>3. StartOf(f, x) = StartOf(f, x - 1) + Len(f[x].ptrs) + 1 /\ Len(f[x].ptrs) \in Nat
    BY EntryTypes, StartsOfEntries
  <2> QED
    BY <2>2, <2>3
<1>4. CASE i < j
  <2>1. StartOf(f, i) <= StartOf(f, j - 1)
    BY <1>1, <1>4, StartsGrow
  <2> DEFINE x == StartOf(f, i - 1)
             y == StartOf(f, i)
             z == StartOf(f, j - 1)
  <2>2. x \in Nat /\ y \in Nat /\ z \in Nat /\ x < y
    BY <1>1, <1>3
  <2>3. y <= z
    BY <2>1
  <2> HIDE DEF x, y, z
  <2>4. x # z
    BY <2>2, <2>3
  <2> QED
    BY <1>2, <2>4 DEF x, z
<1>5. CASE j < i
  <2>1. StartOf(f, j) <= StartOf(f, i - 1)
    BY <1>1, <1>5, StartsGrow
  <2> DEFINE x == StartOf(f, j - 1)
             y == StartOf(f, j)
             z == StartOf(f, i - 1)
  <2>2. x \in Nat /\ y \in Nat /\ z \in Nat /\ x < y
    BY <1>1, <1>3
  <2>3. y <= z
    BY <2>1
  <2> HIDE DEF x, y, z
  <2>4. x # z
    BY <2>2, <2>3
  <2> QED
    BY <1>2, <2>4 DEF x, z
<1> QED
  BY <1>1, <1>4, <1>5

\* A concatenation of sequences holds each of them, where it starts.
LaidOut(T, s, start) ==
    /\ s \in Seq(Seq(T)) /\ s # <<>>
    /\ start \in [0 .. Len(s) -> Nat] /\ start[0] = 0
    /\ \A j \in 1 .. Len(s) : start[j] = start[j - 1] + Len(s[j])

LEMMA FlattenedWords ==
    ASSUME NEW T, NEW s, NEW start, LaidOut(T, s, start)
    PROVE  /\ FlattenSeq(s) \in Seq(T)
           /\ Len(FlattenSeq(s)) = start[Len(s)]
           /\ \A j \in 1 .. Len(s) : \A i \in 1 .. Len(s[j]) : FlattenSeq(s)[start[j - 1] + i] = s[j][i]
<1>0. /\ s \in Seq(Seq(T)) /\ s # <<>>
      /\ start \in [0 .. Len(s) -> Nat] /\ start[0] = 0
      /\ \A j \in 1 .. Len(s) : start[j] = start[j - 1] + Len(s[j])
  BY DEF LaidOut
<1> DEFINE N == Len(s)
           Solves(g) == g = [j \in 1 .. N |-> IF j = 1 THEN s[j] ELSE g[j - 1] \o s[j]]
           flat == CHOOSE g : Solves(g)
<1>1. N \in Nat /\ N > 0 /\ s \in [1 .. N -> Seq(T)]
  BY <1>0, LenProperties, EmptySeq
<1>2. \E g : Solves(g)
  <2> HIDE DEF N
  <2>1. \E g : Concatenates(N, s, g)
    BY <1>1, ConcatenationsExist
  <2> QED
    BY <2>1, Zenon DEF Concatenates
<1>3. Solves(flat)
  BY <1>2, Zenon
<1>4. FlattenSeq(s) = flat[N]
  <2>1. ~ (Len(s) = 0)
    BY <1>1
  <2> QED
    BY <2>1, Zenon DEF FlattenSeq
<1> HIDE DEF flat
<1>5. flat[1] = s[1] /\ \A j \in 2 .. N : flat[j] = flat[j - 1] \o s[j]
  <2>1. flat = [j \in 1 .. N |-> IF j = 1 THEN s[j] ELSE flat[j - 1] \o s[j]]
    BY <1>3
  <2> HIDE DEF Solves, N
  <2>2. \A j \in 1 .. N : flat[j] = IF j = 1 THEN s[j] ELSE flat[j - 1] \o s[j]
    BY <2>1
  <2>3. 1 \in 1 .. N /\ \A j \in 2 .. N : j \in 1 .. N /\ j # 1
    BY <1>1
  <2> QED
    BY <2>2, <2>3, Zenon
<1> HIDE DEF N
<1> DEFINE Holds(k) == /\ flat[k] \in Seq(T)
                       /\ Len(flat[k]) = start[k]
                       /\ \A j \in 1 .. k : \A i \in 1 .. Len(s[j]) :
                             start[j - 1] + i <= start[k] /\ flat[k][start[j - 1] + i] = s[j][i]
           K == {k \in 1 .. N : Holds(k)}
<1>6. \A j \in 1 .. N : /\ s[j] \in Seq(T) /\ Len(s[j]) \in Nat
                        /\ start[j] = start[j - 1] + Len(s[j])
                        /\ start[j] \in Nat /\ start[j - 1] \in Nat
  <2> SUFFICES ASSUME NEW j \in 1 .. N
               PROVE  /\ s[j] \in Seq(T) /\ Len(s[j]) \in Nat
                      /\ start[j] = start[j - 1] + Len(s[j])
                      /\ start[j] \in Nat /\ start[j - 1] \in Nat
    OBVIOUS
  <2>1. s[j] \in Seq(T)
    BY <1>1
  <2>2. Len(s[j]) \in Nat
    BY <2>1, LenProperties
  <2>3. j \in 0 .. Len(s) /\ j - 1 \in 0 .. Len(s) /\ j \in 1 .. Len(s)
    BY <1>1 DEF N
  <2> QED
    BY <1>0, <2>1, <2>2, <2>3
<1>7. 1 \in K
  <2>1. 1 \in 1 .. N /\ start[1 - 1] = 0
    BY <1>0, <1>1
  <2>2. start[1] = Len(s[1])
    BY <1>6, <2>1
  <2>3. \A i \in 1 .. Len(s[1]) : start[1 - 1] + i <= start[1] /\ flat[1][start[1 - 1] + i] = s[1][i]
    BY <1>5, <1>6, <2>1, <2>2
  <2>4. \A j \in 1 .. 1 : j = 1
    OBVIOUS
  <2> QED
    BY <1>5, <1>6, <2>1, <2>2, <2>3, <2>4
<1>8. \A k \in 1 .. N : k < N /\ k \in K => k + 1 \in K
  <2> SUFFICES ASSUME NEW k \in 1 .. N, k < N, Holds(k) PROVE k + 1 \in 1 .. N /\ Holds(k + 1)
    OBVIOUS
  <2>1. k + 1 \in 1 .. N /\ k + 1 \in 2 .. N /\ (k + 1) - 1 = k
    BY <1>1
  <2> DEFINE a == flat[k]
             b == s[k + 1]
             c == flat[k + 1]
             x == start[k]
  <2>2. c = a \o b /\ a \in Seq(T) /\ b \in Seq(T)
    <3>1. flat[k + 1] = flat[(k + 1) - 1] \o s[k + 1]
      BY <1>5, <2>1
    <3> QED
      BY <1>6, <2>1, <3>1
  <2>3. Len(a) = x /\ x \in Nat /\ Len(b) \in Nat /\ start[k + 1] = x + Len(b)
    BY <1>6, <2>1
  <2>4. \A j \in 1 .. k : \A i \in 1 .. Len(s[j]) : start[j - 1] + i <= x /\ a[start[j - 1] + i] = s[j][i]
    OBVIOUS
  <2> HIDE DEF a, b, c, x
  <2>5. /\ c \in Seq(T) /\ Len(c) = x + Len(b)
        /\ \A i \in 1 .. x + Len(b) : c[i] = IF i <= x THEN a[i] ELSE b[i - x]
    <3>1. /\ a \o b \in Seq(T)
          /\ Len(a \o b) = Len(a) + Len(b)
          /\ \A i \in 1 .. Len(a) + Len(b) : (a \o b)[i] = IF i <= Len(a) THEN a[i] ELSE b[i - Len(a)]
      BY <2>2, ConcatProperties
    <3> QED
      BY <2>2, <2>3, <3>1
  <2>6. \A j \in 1 .. k + 1 : \A i \in 1 .. Len(s[j]) :
           start[j - 1] + i <= x + Len(b) /\ c[start[j - 1] + i] = s[j][i]
    <3> SUFFICES ASSUME NEW j \in 1 .. k + 1, NEW i \in 1 .. Len(s[j])
                 PROVE  start[j - 1] + i <= x + Len(b) /\ c[start[j - 1] + i] = s[j][i]
      OBVIOUS
    <3>1. CASE j = k + 1
      <4>1. start[j - 1] = x /\ s[j] = b
        BY <2>1, <3>1 DEF x, b
      <4>2. x + i \in 1 .. x + Len(b) /\ ~ (x + i <= x) /\ (x + i) - x = i
        BY <2>3, <4>1
      <4>3. c[x + i] = b[(x + i) - x]
        BY <2>5, <4>2
      <4> QED
        BY <4>1, <4>2, <4>3
    <3>2. CASE j # k + 1
      <4>1. j \in 1 .. k /\ j \in 1 .. N
        BY <1>1, <3>2
      <4>2. start[j - 1] \in Nat /\ i \in Nat /\ i > 0
        BY <1>6, <4>1
      <4> DEFINE y == start[j - 1] + i
      <4>3. y <= x /\ a[y] = s[j][i]
        BY <2>4, <4>1, Zenon
      <4>4. y \in Nat /\ y > 0
        BY <4>2
      <4> HIDE DEF y
      <4>5. y \in 1 .. x + Len(b) /\ y <= x + Len(b)
        BY <2>3, <4>3, <4>4
      <4>6. c[y] = a[y]
        BY <2>5, <4>3, <4>5, Zenon
      <4> QED
        BY <4>3, <4>5, <4>6 DEF y
    <3> QED
      BY <3>1, <3>2
  <2> QED
    BY <2>1, <2>3, <2>5, <2>6 DEF c
<1>9. N \in K
  <2>1. 1 \in Nat /\ 1 <= N
    BY <1>1
  <2> HIDE DEF K
  <2>2. 1 .. N \subseteq K
    BY <1>1, <1>7, <1>8, <2>1, Forwards, Zenon
  <2> QED
    BY <1>1, <2>2
<1> QED
  BY <1>4, <1>9 DEF N

\* What the field of the size keeps of the size of an entry.
LEMMA ObjectSizeIs ==
    ASSUME TypeInfoAssumption, NEW e, e.size \in Nat
    PROVE  objectSize(e) \in Nat
  BY DEF objectSize, TypeInfoAssumption

\* The words of the buffer that the ID of a name leads to.
BufferWords == [objectSize : Nat, ptrsNum : Nat] \cup [ptrTypeID : Nat]

\* The second pass writes the words of an entry where the first one counted it.
LEMMA BufferHolds ==
    ASSUME TypeInfoAssumption, NEW f, Accepted(f), NEW j \in 1 .. Len(f)
    PROVE  LET buf == Buffer(f, TypeIDs(f))
               x   == StartOf(f, j - 1)
           IN /\ Len(buf) \in Nat
              /\ x + Len(f[j].ptrs) < Len(buf)
              /\ buf[x + 1] = [objectSize |-> objectSize(f[j]), ptrsNum |-> Len(f[j].ptrs)]
              /\ \A p \in DOMAIN f[j].ptrs :
                    buf[x + 1 + p] = [ptrTypeID |-> TypeIDs(f)[f[j].ptrs[p]]]
<1> DEFINE N == Len(f)
           ids == TypeIDs(f)
           s == [k \in 1 .. N |-> Words(f[k], ids)]
           start == [k \in 0 .. N |-> StartOf(f, k)]
           x == StartOf(f, j - 1)
           buf == FlattenSeq(s)
<1>1. N \in Nat /\ N > 0 /\ DOMAIN f = 1 .. N /\ Buffer(f, ids) = buf
  <2>1. N \in Nat /\ DOMAIN f = 1 .. N
    BY LenProperties DEF Accepted
  <2> QED
    BY <2>1 DEF Buffer
<1>2. \A k \in 1 .. N :
         LET e == f[k] w == Words(e, ids) IN
         /\ w \in Seq(BufferWords)
         /\ Len(w) = Len(e.ptrs) + 1
         /\ w[1] = [objectSize |-> objectSize(e), ptrsNum |-> Len(e.ptrs)]
         /\ \A p \in DOMAIN e.ptrs : w[1 + p] = [ptrTypeID |-> ids[e.ptrs[p]]]
  <2> TAKE k \in 1 .. N
  <2> DEFINE e == f[k]
             l == Len(e.ptrs)
             a == <<[objectSize |-> objectSize(e), ptrsNum |-> l]>>
             b == [p \in 1 .. l |-> [ptrTypeID |-> ids[e.ptrs[p]]]]
             w == Words(e, ids)
  <2>1. e.ptrs \in Seq(Names \cup {NONE}) /\ l \in Nat /\ objectSize(e) \in Nat
    BY EntryTypes, ObjectSizeIs
  <2>2. DOMAIN e.ptrs = 1 .. l
    BY <2>1, LenProperties
  <2>3. \A p \in 1 .. l : e.ptrs[p] \in Names
    <3>1. \A p \in 1 .. l : e.ptrs[p] \in Names \cup {NONE}
      BY <2>1, ElementOfSeq
    <3>2. \A p \in ToSet(e.ptrs) : p # NONE
      BY <1>1 DEF Accepted, Resolved
    <3>3. \A p \in 1 .. l : e.ptrs[p] \in ToSet(e.ptrs)
      BY <2>2 DEF ToSet
    <3> QED
      BY <3>1, <3>2, <3>3
  <2>4. ids \in [Names -> Nat]
    BY IDsAre
  <2>5. w = a \o b
    BY <2>2 DEF Words
  <2> HIDE DEF ids, e, w
  <2>6. a \in Seq(BufferWords) /\ Len(a) = 1 /\ a[1] = [objectSize |-> objectSize(e), ptrsNum |-> l]
    BY <2>1 DEF BufferWords
  <2>7. b \in Seq(BufferWords) /\ Len(b) = l /\ \A p \in 1 .. l : b[p] = [ptrTypeID |-> ids[e.ptrs[p]]]
    <3>1. \A p \in 1 .. l : [ptrTypeID |-> ids[e.ptrs[p]]] \in BufferWords
      BY <2>3, <2>4 DEF BufferWords
    <3> QED
      BY <2>1, <3>1
  <2> HIDE DEF a, b
  <2>8. /\ w \in Seq(BufferWords) /\ Len(w) = Len(a) + Len(b)
        /\ \A i \in 1 .. Len(a) + Len(b) : w[i] = IF i <= Len(a) THEN a[i] ELSE b[i - Len(a)]
    <3>1. a \in Seq(BufferWords) /\ b \in Seq(BufferWords)
      BY <2>6, <2>7
    <3>2. /\ a \o b \in Seq(BufferWords) /\ Len(a \o b) = Len(a) + Len(b)
          /\ \A i \in 1 .. Len(a) + Len(b) : (a \o b)[i] = IF i <= Len(a) THEN a[i] ELSE b[i - Len(a)]
      BY <3>1, ConcatProperties
    <3> QED
      BY <2>5, <3>2
  <2> HIDE DEF l
  <2>9. \A p \in 1 .. l : w[1 + p] = b[p]
    <3> TAKE p \in 1 .. l
    <3>1. 1 + p \in 1 .. 1 + l /\ ~ (1 + p <= 1) /\ (1 + p) - 1 = p
      BY <2>1
    <3> QED
      BY <2>6, <2>7, <2>8, <3>1
  <2>10. w[1] = a[1] /\ Len(w) = l + 1
    BY <2>1, <2>6, <2>7, <2>8
  <2> QED
    BY <2>2, <2>6, <2>7, <2>8, <2>9, <2>10 DEF e, l, w
<1>3. s \in Seq(Seq(BufferWords)) /\ Len(s) = N /\ s # <<>> /\ \A k \in 1 .. N : s[k] = Words(f[k], ids)
  <2>1. \A k \in 1 .. N : Words(f[k], ids) \in Seq(BufferWords)
    BY <1>2
  <2>2. N \in Nat /\ N > 0
    BY <1>1
  <2> HIDE DEF N, ids
  <2>3. s \in Seq(Seq(BufferWords)) /\ Len(s) = N
    BY <2>1, <2>2
  <2>4. \A k \in 1 .. N : s[k] = Words(f[k], ids)
    OBVIOUS
  <2>5. s # <<>>
    BY <2>2, <2>3
  <2> QED
    BY <2>3, <2>4, <2>5
<1>4. start \in [0 .. N -> Nat] /\ start[0] = 0 /\ \A k \in 0 .. N : start[k] = StartOf(f, k)
  <2>1. \A k \in 0 .. N : StartOf(f, k) \in Nat
    BY StartsOfEntries
  <2>2. 0 \in 0 .. N /\ StartOf(f, 0) = 0
    BY <1>1, StartsOfEntries
  <2> QED
    BY <2>1, <2>2
<1> HIDE DEF s, start, ids
<1>5. \A k \in 1 .. N : start[k] = start[k - 1] + Len(s[k])
  <2> TAKE k \in 1 .. N
  <2>1. k \in 0 .. N /\ k - 1 \in 0 .. N
    BY <1>1
  <2>2. Len(s[k]) = Len(f[k].ptrs) + 1
    BY <1>2, <1>3
  <2> DEFINE a == StartOf(f, k - 1)
             b == Len(f[k].ptrs)
  <2>3. StartOf(f, k) = a + b + 1 /\ b \in Nat
    BY StartsOfEntries, EntryTypes
  <2>4. a \in Nat
    BY <2>1, StartsOfEntries
  <2>5. start[k] = StartOf(f, k) /\ start[k - 1] = a
    BY <1>4, <2>1, Zenon
  <2> HIDE DEF a
  <2>6. Len(s[k]) = b + 1
    BY <2>2
  <2> HIDE DEF b
  <2>7. start[k] = a + (b + 1)
    BY <2>3, <2>4, <2>5
  <2> QED
    BY <2>5, <2>6, <2>7
<1>6. /\ buf \in Seq(BufferWords)
      /\ Len(buf) = start[N]
      /\ \A k \in 1 .. N : \A i \in 1 .. Len(s[k]) : buf[start[k - 1] + i] = s[k][i]
  <2>1. LaidOut(BufferWords, s, start)
    BY <1>3, <1>4, <1>5 DEF LaidOut
  <2>2. /\ FlattenSeq(s) \in Seq(BufferWords)
        /\ Len(FlattenSeq(s)) = start[Len(s)]
        /\ \A k \in 1 .. Len(s) : \A i \in 1 .. Len(s[k]) :
              FlattenSeq(s)[start[k - 1] + i] = s[k][i]
    BY <2>1, FlattenedWords
  <2> QED
    BY <1>3, <2>2, Zenon
<1> DEFINE l == Len(f[j].ptrs)
<1>7. l \in Nat /\ DOMAIN f[j].ptrs = 1 .. l
  BY EntryTypes, LenProperties
<1>8. j \in 0 .. N /\ j - 1 \in 0 .. N /\ start[j - 1] = x /\ x \in Nat
  <2>1. j \in 0 .. N /\ j - 1 \in 0 .. N
    BY <1>1
  <2> QED
    BY <1>4, <2>1
<1>9. Len(s[j]) = l + 1 /\ s[j] = Words(f[j], ids)
  BY <1>2, <1>3
<1>10. x + l < Len(buf)
  <2>1. start[j] = x + l + 1
    <3>1. start[j] = start[j - 1] + Len(s[j])
      BY <1>5
    <3> HIDE DEF x, l
    <3>2. start[j] = x + (l + 1)
      BY <1>8, <1>9, <3>1
    <3> QED
      BY <1>7, <1>8, <3>2
  <2>2. start[j] <= start[N]
    <3>1. CASE j = N
      BY <3>1, <1>4, <1>8
    <3>2. CASE j < N
      <4>1. N \in 1 .. Len(f) /\ N - 1 \in 0 .. N /\ N \in 0 .. N
        BY <1>1
      <4>2. StartOf(f, j) <= StartOf(f, N - 1)
        BY <3>2, <4>1, StartsGrow
      <4>3. start[N] = start[N - 1] + Len(s[N]) /\ Len(s[N]) = Len(f[N].ptrs) + 1
        BY <1>2, <1>3, <1>5, <4>1
      <4>4. Len(f[N].ptrs) \in Nat
        BY <4>1, EntryTypes
      <4>5. start[N - 1] \in Nat /\ start[j] <= start[N - 1]
        BY <1>4, <1>8, <4>1, <4>2
      <4>6. Len(s[N]) \in Nat
        BY <4>3, <4>4
      <4>7. start[j] \in Nat
        BY <1>4, <1>8
      <4> QED
        BY <4>3, <4>5, <4>6, <4>7
    <3>3. j = N \/ j < N
      <4>1. N \in Nat /\ j \in 1 .. N
        BY <1>1
      <4> HIDE DEF N
      <4> QED
        BY <4>1
    <3> QED
      BY <3>1, <3>2, <3>3
  <2> QED
    BY <1>4, <1>6, <1>7, <1>8, <2>1, <2>2
<1> HIDE DEF x
<1>11. buf[x + 1] = [objectSize |-> objectSize(f[j]), ptrsNum |-> l]
  <2>1. 1 \in 1 .. Len(s[j])
    BY <1>7, <1>9
  <2>2. buf[x + 1] = s[j][1]
    BY <1>6, <1>8, <2>1
  <2> QED
    BY <1>2, <1>9, <2>2
<1>12. \A p \in 1 .. l : buf[x + 1 + p] = [ptrTypeID |-> ids[f[j].ptrs[p]]]
  <2> TAKE p \in 1 .. l
  <2>1. 1 + p \in 1 .. Len(s[j]) /\ x + 1 + p = x + (1 + p)
    BY <1>7, <1>8, <1>9
  <2>2. buf[x + (1 + p)] = s[j][1 + p]
    BY <1>6, <1>8, <2>1
  <2>3. s[j][1 + p] = [ptrTypeID |-> ids[f[j].ptrs[p]]]
    BY <1>2, <1>7, <1>9
  <2> QED
    BY <2>1, <2>2, <2>3
<1>13. Len(buf) \in Nat
  BY <1>6, LenProperties
<1> QED
  BY <1>1, <1>7, <1>10, <1>11, <1>12, <1>13 DEF ids, x

\* What init leaves: nothing, or the two passes of an array both accept.
ReaderIInv ==
    /\ m_instance \in {"none", "ready", "dangling"}
    /\ m_instance # "ready" => file = <<>>
    /\ m_instance = "ready" =>
        /\ Accepted(file)
        /\ m_typeInfos = TypeIDs(file)
        /\ m_typeInfoBuffer = Buffer(file, TypeIDs(file))

LEMMA ReaderInvariant ==
    ASSUME TypeInfoAssumption
    PROVE  ReaderSpec => []ReaderIInv
<1>1. ReaderInit => ReaderIInv
  BY DEF ReaderInit, ReaderIInv
<1>2. ReaderIInv /\ [ReaderNext]_readerVars => ReaderIInv'
  <2> SUFFICES ASSUME ReaderIInv, [ReaderNext]_readerVars
               PROVE  ReaderIInv'
    OBVIOUS
  <2>1. CASE InitFails
    BY <2>1 DEF InitFails, ReaderIInv
  <2>2. CASE InitReads
    <3> PICK f \in Files : /\ AllFit(f) /\ Resolved(f, TypeIDs(f)) /\ file' = f
                           /\ m_typeInfos' = TypeIDs(f) /\ m_typeInfoBuffer' = Buffer(f, TypeIDs(f))
      BY <2>2 DEF InitReads
    <3>1. Accepted(f)
      BY DEF Accepted, TypeInfoAssumption
    <3>2. m_instance' = "ready"
      BY <2>2 DEF InitReads
    <3> QED
      BY <3>1, <3>2 DEF ReaderIInv
  <2>3. CASE InitAgain
    BY <2>3 DEF InitAgain, ReaderIInv
  <2>4. CASE UNCHANGED readerVars
    BY <2>4 DEF readerVars, ReaderIInv
  <2> QED
    BY <2>1, <2>2, <2>3, <2>4 DEF ReaderNext
<1> QED
  BY <1>1, <1>2, PTL DEF ReaderSpec

\* Only a reader that is ready has declared names.
LEMMA DeclaredAt ==
    ASSUME ReaderIInv, NEW n \in Declared
    PROVE  /\ m_instance = "ready" /\ n \in Names
           /\ \E k \in 1 .. Len(file) : file[k].name = n
<1>1. PICK k \in DOMAIN file : file[k].name = n /\ n \in Names
  BY DEF Declared
<1>2. file # <<>>
  BY <1>1
<1>3. m_instance = "ready" /\ Accepted(file)
  BY <1>2 DEF ReaderIInv
<1>4. DOMAIN file = 1 .. Len(file)
  BY <1>3, LenProperties DEF Accepted
<1> QED
  BY <1>1, <1>3, <1>4

\* Once a reader is there every declared name has an ID, no two the same, that
\* leads to the first entry of that name and its pointers' types, for any number
\* of types and of values an ID may have.
THEOREM IDsLeadToEntries ==
    ASSUME TypeInfoAssumption
    PROVE  ReaderSpec => []IdsNameEntries
<1>1. ReaderIInv => IdsNameEntries
  <2> SUFFICES ASSUME ReaderIInv, m_instance = "ready", NEW n \in Declared
               PROVE  LET e  == file[FirstOf(file, n)]
                          id == convertNameToID(n)
                      IN /\ id < INVALID_TYPE_ID
                         /\ id + Len(e.ptrs) < Len(m_typeInfoBuffer)
                         /\ getTypeInfoByName(n) = [objectSize |-> objectSize(e), ptrsNum |-> Len(e.ptrs)]
                         /\ \A p \in DOMAIN e.ptrs :
                                /\ e.ptrs[p] \in Declared
                                /\ m_typeInfoBuffer[id + 1 + p] = [ptrTypeID |-> convertNameToID(e.ptrs[p])]
                         /\ \A m \in Declared \ {n} : convertNameToID(m) # id
    BY DEF ReaderIInv, IdsNameEntries
  <2> DEFINE j == FirstOf(file, n)
             e == file[j]
             ids == TypeIDs(file)
             id == ids[n]
  <2>1. /\ Accepted(file) /\ m_typeInfos = ids /\ m_typeInfoBuffer = Buffer(file, ids)
    BY DEF ReaderIInv
  <2>2. PICK k \in 1 .. Len(file) : file[k].name = n /\ n \in Names
    BY DeclaredAt
  <2>3. j \in 1 .. Len(file) /\ id = StartOf(file, j - 1) /\ id < INVALID_TYPE_ID
    BY <2>1, <2>2, FirstOfIs, IDsAre
  <2>4. /\ id + Len(e.ptrs) < Len(m_typeInfoBuffer)
        /\ m_typeInfoBuffer[id + 1] = [objectSize |-> objectSize(e), ptrsNum |-> Len(e.ptrs)]
        /\ \A p \in DOMAIN e.ptrs : m_typeInfoBuffer[id + 1 + p] = [ptrTypeID |-> ids[e.ptrs[p]]]
    <3> HIDE DEF j
    <3> DEFINE x == StartOf(file, j - 1)
               buf == Buffer(file, ids)
    <3>1. /\ x + Len(file[j].ptrs) < Len(buf)
          /\ buf[x + 1] = [objectSize |-> objectSize(file[j]), ptrsNum |-> Len(file[j].ptrs)]
          /\ \A p \in DOMAIN file[j].ptrs : buf[x + 1 + p] = [ptrTypeID |-> ids[file[j].ptrs[p]]]
      BY <2>1, <2>3, BufferHolds
    <3>2. m_typeInfoBuffer = buf /\ id = x
      BY <2>1, <2>3
    <3> HIDE DEF x, buf, ids
    <3> QED
      BY <3>1, <3>2
  <2>5. \A p \in DOMAIN e.ptrs : e.ptrs[p] \in Declared
    <3> TAKE p \in DOMAIN e.ptrs
    <3>1. e.ptrs \in Seq(Names \cup {NONE})
      BY <2>1, <2>3, EntryTypes
    <3>2. e.ptrs[p] \in Names \cup {NONE} /\ e.ptrs[p] \in ToSet(e.ptrs)
      BY <3>1, ElementOfSeq, LenProperties DEF ToSet
    <3>3. DOMAIN file = 1 .. Len(file)
      BY <2>1, LenProperties DEF Accepted
    <3>4. e.ptrs[p] # NONE /\ ids[e.ptrs[p]] # INVALID_TYPE_ID
      BY <2>1, <2>3, <3>2, <3>3 DEF Accepted, Resolved
    <3>5. \E i \in 1 .. Len(file) : file[i].name = e.ptrs[p]
      BY <2>1, <3>2, <3>4, IDsAre
    <3> QED
      BY <3>2, <3>3, <3>4, <3>5 DEF Declared
  <2>6. \A m \in Declared \ {n} : ids[m] # id
    <3> TAKE m \in Declared \ {n}
    <3>1. PICK l \in 1 .. Len(file) : file[l].name = m /\ m \in Names /\ m # n
      BY DeclaredAt
    <3> QED
      BY <2>1, <2>2, <3>1, IDsDiffer
  <2> HIDE DEF j, ids
  <2> QED
    BY <2>1, <2>3, <2>4, <2>5, <2>6 DEF convertNameToID, getTypeInfoByName, Word0, j
<1> QED
  BY <1>1, ReaderInvariant, PTL

\* Every declared type up to MAX_SMALL_OBJ_SIZE is recovered into the smallest
\* class it fits into, for any file of types, whatever their sizes.
THEOREM RecoveredClassFits ==
    ASSUME TypeInfoAssumption
    PROVE  ReaderSpec => []SmallestClassThatFits
<1>1. ReaderIInv => SmallestClassThatFits
  <2> SUFFICES ASSUME ReaderIInv, NEW n \in Declared,
                      getTypeInfoByName(n).objectSize \in 1 .. MAX_SMALL_OBJ_SIZE
               PROVE  FitsItsClass(getTypeInfoByName(n).objectSize)
    BY DEF SmallestClassThatFits
  <2> DEFINE j == FirstOf(file, n)
             size == objectSize(file[j])
  <2>1. /\ m_instance = "ready" /\ n \in Names
    BY DeclaredAt
  <2>2. /\ Accepted(file) /\ m_typeInfos = TypeIDs(file)
        /\ m_typeInfoBuffer = Buffer(file, TypeIDs(file))
    BY <2>1 DEF ReaderIInv
  <2>3. PICK k \in 1 .. Len(file) : file[k].name = n
    BY DeclaredAt
  <2>4. j \in 1 .. Len(file) /\ m_typeInfos[n] = StartOf(file, j - 1)
    BY <2>1, <2>2, <2>3, FirstOfIs, IDsAre
  <2>5. m_typeInfoBuffer[m_typeInfos[n] + 1] = [objectSize |-> size, ptrsNum |-> Len(file[j].ptrs)]
    BY <2>2, <2>4, BufferHolds
  <2>6. getTypeInfoByName(n).objectSize = size
    BY <2>5 DEF getTypeInfoByName, Word0, convertNameToID
  <2>7. size \in Nat
    BY <2>2, <2>4, EntryTypes, ObjectSizeIs
  <2> HIDE DEF size
  <2> QED
    BY <2>6, <2>7, SizesFit
<1> QED
  BY <1>1, ReaderInvariant, PTL
=============================================================================
