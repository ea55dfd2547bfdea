------------------------ MODULE CLCentralHeapProofs ------------------------
(***************************************************************************)
(* Proofs about the life of a segment, for any number of segments, heaps   *)
(* and crashes.  The inductive invariant says of every segment where it is *)
(* and what the header, volatile and durable, knows about it; the lemmas   *)
(* that follow it take the actions one at a time.                          *)
(***************************************************************************)
EXTENDS CLCentralHeap, TLAPS

\* The control points at which a heap has a segment in its hands.
RecoverHand == {"recoverFlush", "recoverDestroy", "recoverPush"}
RunHand     == {"init", "insert", "mark", "flush", "carve", "destroy", "push"}

\* Which control points go with which state of the system.
Phases ==
    /\ system = "down" =>
          /\ m_freeSegments = {}
          /\ \A h \in Heaps : managed[h] = {} /\ pc[h] = "off"
    /\ system = "recover" => \A h \in Heaps : pc[h] \in RecoverPCs \cup {"off"}
    /\ system = "up" => \A h \in Heaps : pc[h] \in RunPCs \cup {"off", "recovered"}

\* The metadata segment stays with the first heap, on both copies of the header.
Meta ==
    /\ owner[META_SEGMENT] = FIRST_THREADHEAP
    /\ durable[META_SEGMENT] = FIRST_THREADHEAP
    /\ object[META_SEGMENT] = "reachable"

\* A segment with objects: owned, on record, off the list and known to free().
ObjectOK(s) ==
    object[s] # "none" =>
        /\ owner[s] = durable[s]
        /\ durable[s] # SEGMENT_FREE
        /\ s \notin m_freeSegments
        /\ system # "down" => s \in m_extentFinder /\ m_threadHeapID[s] = durable[s]
        /\ system # "up" => object[s] = "reachable"

\* What the header says of a segment, and where a segment without an owner is.
HeaderOK(s) ==
    /\ system = "down" => owner[s] = durable[s]
    /\ system = "recover" => owner[s] \in {m_threadHeapID[s], SEGMENT_FREE}
    /\ system = "recover" /\ s \in m_freeSegments => owner[s] = SEGMENT_FREE
    /\ \/ system = "down"
       \/ s \in m_freeSegments
       \/ \E h \in Heaps : InHand(h, s)
       \/ owner[s] = durable[s] /\ durable[s] # SEGMENT_FREE

\* What h has free space in, h owns by every record.
ManagedOK(h, s) ==
    s \in managed[h] =>
        /\ s \notin m_freeSegments
        /\ s \in m_extentFinder
        /\ m_threadHeapID[s] = h
        /\ owner[s] = h
        /\ durable[s] = h

\* A segment in hand, and how far the operation has come with it.
HandOK(h, s) ==
    InHand(h, s) =>
        /\ object[s] = "none"
        /\ s \notin m_freeSegments
        /\ \A g \in Heaps : s \notin managed[g] /\ (InHand(g, s) => g = h)
        /\ pc[h] \in {"insert", "mark", "flush", "carve"} =>
              s \in m_extentFinder /\ m_threadHeapID[s] = h
        /\ pc[h] \in {"flush", "carve"} => owner[s] = h
        /\ pc[h] = "carve" => durable[s] = h
        /\ pc[h] \in RecoverHand => owner[s] = SEGMENT_FREE

\* A hand that works holds a segment; a search done has found all there is.
FoundOK(h) ==
    /\ pc[h] \in RunHand \cup RecoverHand => seg[h] \in Segments
    /\ system = "recover" /\ pc[h] \notin {"search", "off"} =>
          \A s \in Segments : m_threadHeapID[s] = h /\ object[s] # "none" => s \in managed[h]

IInv ==
    /\ TypeOK
    /\ Phases
    /\ Meta
    /\ \A s \in Segments : ObjectOK(s) /\ HeaderOK(s)
    /\ \A h \in Heaps, s \in Segments : ManagedOK(h, s) /\ HandOK(h, s)
    /\ \A h \in Heaps : FoundOK(h)

-----------------------------------------------------------------------------
(* One lemma per action: the step preserves every conjunct of IInv. *)

USE DEF SEGMENT_FREE, FIRST_THREADHEAP, META_SEGMENT, NoSegment, Segments, Heaps, Owners,
        Contents, RunPCs, RecoverPCs, RunHand, RecoverHand, Step, nvm, heap

LEMMA PopSegmentStep ==
    ASSUME IInv, NEW h \in Heaps, PopSegment(h)
    PROVE  IInv'
  <1>1. TypeOK'
    BY CentralHeapAssumption DEF IInv, TypeOK, PopSegment
  <1>2. Phases'
    BY DEF IInv, TypeOK, Phases, PopSegment
  <1>3. Meta'
    BY DEF IInv, TypeOK, Meta, PopSegment
  <1>4. ASSUME NEW x \in Segments PROVE ObjectOK(x)'
    BY <1>4 DEF IInv, TypeOK, ObjectOK, PopSegment
  <1>5. ASSUME NEW x \in Segments PROVE HeaderOK(x)'
    BY <1>5 DEF IInv, TypeOK, HeaderOK, PopSegment, InHand
  <1>6. ASSUME NEW g \in Heaps, NEW x \in Segments PROVE ManagedOK(g, x)'
    BY <1>6 DEF IInv, TypeOK, ManagedOK, PopSegment
  <1>7. ASSUME NEW g \in Heaps, NEW x \in Segments PROVE HandOK(g, x)'
    BY <1>7 DEF IInv, TypeOK, HandOK, PopSegment, InHand, Phases, FoundOK, ObjectOK, ManagedOK, Meta
  <1>8. ASSUME NEW g \in Heaps PROVE FoundOK(g)'
    BY <1>8 DEF IInv, TypeOK, FoundOK, PopSegment
  <1> QED  BY <1>1, <1>2, <1>3, <1>4, <1>5, <1>6, <1>7, <1>8 DEF IInv

LEMMA InitSegmentStep ==
    ASSUME IInv, NEW h \in Heaps, InitSegment(h)
    PROVE  IInv'
  <1>1. TypeOK'
    <2>1. seg[h] \in Segments
      BY DEF IInv, FoundOK, InitSegment
    <2>2. m_extentFinder' \in SUBSET Segments
      BY <2>1 DEF IInv, TypeOK, InitSegment
    <2>3. m_threadHeapID' \in [Segments -> Owners]
      BY <2>1 DEF IInv, TypeOK, InitSegment
    <2> QED  BY <2>2, <2>3, CentralHeapAssumption DEF IInv, TypeOK, InitSegment
  <1>2. Phases'
    BY DEF IInv, TypeOK, Phases, InitSegment
  <1>3. Meta'
    BY DEF IInv, TypeOK, Meta, InitSegment
  <1>4. ASSUME NEW x \in Segments PROVE ObjectOK(x)'
    BY <1>4 DEF IInv, TypeOK, ObjectOK, InitSegment, Phases, InHand, FoundOK, HandOK
  <1>5. ASSUME NEW x \in Segments PROVE HeaderOK(x)'
    BY <1>5 DEF IInv, TypeOK, HeaderOK, InitSegment, InHand, Phases
  <1>6. ASSUME NEW g \in Heaps, NEW x \in Segments PROVE ManagedOK(g, x)'
    BY <1>6 DEF IInv, TypeOK, ManagedOK, InitSegment, Phases, InHand, FoundOK, HandOK
  <1>7. ASSUME NEW g \in Heaps, NEW x \in Segments PROVE HandOK(g, x)'
    BY <1>7 DEF IInv, TypeOK, HandOK, InitSegment, InHand
  <1>8. ASSUME NEW g \in Heaps PROVE FoundOK(g)'
    BY <1>8 DEF IInv, TypeOK, FoundOK, InitSegment, Phases, InHand
  <1> QED  BY <1>1, <1>2, <1>3, <1>4, <1>5, <1>6, <1>7, <1>8 DEF IInv

LEMMA InitSegmentFailsStep ==
    ASSUME IInv, NEW h \in Heaps, InitSegmentFails(h)
    PROVE  IInv'
  <1>1. TypeOK'
    <2>1. seg[h] \in Segments
      BY DEF IInv, FoundOK, InitSegmentFails
    <2>2. m_freeSegments' \in SUBSET Segments
      BY <2>1 DEF IInv, TypeOK, InitSegmentFails
    <2> QED  BY <2>2, CentralHeapAssumption DEF IInv, TypeOK, InitSegmentFails
  <1>2. Phases'
    BY DEF IInv, TypeOK, Phases, InitSegmentFails
  <1>3. Meta'
    BY DEF IInv, TypeOK, Meta, InitSegmentFails
  <1>4. ASSUME NEW x \in Segments PROVE ObjectOK(x)'
    BY <1>4 DEF IInv, TypeOK, ObjectOK, InitSegmentFails, Phases, InHand, FoundOK, HandOK
  <1>5. ASSUME NEW x \in Segments PROVE HeaderOK(x)'
    BY <1>5 DEF IInv, TypeOK, HeaderOK, InitSegmentFails, InHand, Phases
  <1>6. ASSUME NEW g \in Heaps, NEW x \in Segments PROVE ManagedOK(g, x)'
    BY <1>6 DEF IInv, TypeOK, ManagedOK, InitSegmentFails, Phases, InHand, FoundOK, HandOK
  <1>7. ASSUME NEW g \in Heaps, NEW x \in Segments PROVE HandOK(g, x)'
    BY <1>7 DEF IInv, TypeOK, HandOK, InitSegmentFails, InHand
  <1>8. ASSUME NEW g \in Heaps PROVE FoundOK(g)'
    BY <1>8 DEF IInv, TypeOK, FoundOK, InitSegmentFails
  <1> QED  BY <1>1, <1>2, <1>3, <1>4, <1>5, <1>6, <1>7, <1>8 DEF IInv

LEMMA InsertFreeExtentStep ==
    ASSUME IInv, NEW h \in Heaps, InsertFreeExtent(h)
    PROVE  IInv'
  <1>1. TypeOK'
    BY CentralHeapAssumption DEF IInv, TypeOK, InsertFreeExtent
  <1>2. Phases'
    BY DEF IInv, TypeOK, Phases, InsertFreeExtent
  <1>3. Meta'
    BY DEF IInv, TypeOK, Meta, InsertFreeExtent
  <1>4. ASSUME NEW x \in Segments PROVE ObjectOK(x)'
    BY <1>4 DEF IInv, TypeOK, ObjectOK, InsertFreeExtent
  <1>5. ASSUME NEW x \in Segments PROVE HeaderOK(x)'
    BY <1>5 DEF IInv, TypeOK, HeaderOK, InsertFreeExtent, InHand
  <1>6. ASSUME NEW g \in Heaps, NEW x \in Segments PROVE ManagedOK(g, x)'
    BY <1>6 DEF IInv, TypeOK, ManagedOK, InsertFreeExtent
  <1>7. ASSUME NEW g \in Heaps, NEW x \in Segments PROVE HandOK(g, x)'
    <2>1. CASE Step(h, "insert", "mark")
      <3>1. CASE g = h
        BY <1>7, <2>1, <3>1 DEF IInv, TypeOK, HandOK, InsertFreeExtent, InHand
      <3>2. CASE g # h
        BY <1>7, <2>1, <3>2 DEF IInv, TypeOK, HandOK, InsertFreeExtent, InHand
      <3> QED  BY <3>1, <3>2
    <2>2. CASE Step(h, "insert", "destroy")
      BY <1>7, <2>2 DEF IInv, TypeOK, HandOK, InsertFreeExtent, InHand
    <2> QED  BY <2>1, <2>2 DEF InsertFreeExtent
  <1>8. ASSUME NEW g \in Heaps PROVE FoundOK(g)'
    <2>1. /\ FoundOK(g)
          /\ pc \in [Heaps -> RunPCs \cup RecoverPCs \cup {"off"}]
          /\ seg \in [Heaps -> Segments \cup {NoSegment, SegmentNum}]
      BY <1>8 DEF IInv, TypeOK
    <2> QED  BY <1>8, <2>1 DEF FoundOK, InsertFreeExtent
  <1> QED  BY <1>1, <1>2, <1>3, <1>4, <1>5, <1>6, <1>7, <1>8 DEF IInv

LEMMA MarkAllocatedStep ==
    ASSUME IInv, NEW h \in Heaps, MarkAllocated(h)
    PROVE  IInv'
  <1>1. TypeOK'
    BY CentralHeapAssumption DEF IInv, TypeOK, MarkAllocated, Store
  <1>2. Phases'
    BY DEF IInv, TypeOK, Phases, MarkAllocated, Store
  <1>3. Meta'
    BY DEF IInv, TypeOK, Meta, MarkAllocated, Store, Phases, InHand, FoundOK, HandOK
  <1>4. ASSUME NEW x \in Segments PROVE ObjectOK(x)'
    BY <1>4 DEF IInv, TypeOK, ObjectOK, MarkAllocated, Store, Phases, InHand, FoundOK, HandOK
  <1>5. ASSUME NEW x \in Segments PROVE HeaderOK(x)'
    BY <1>5 DEF IInv, TypeOK, HeaderOK, MarkAllocated, Store, InHand, Phases
  <1>6. ASSUME NEW g \in Heaps, NEW x \in Segments PROVE ManagedOK(g, x)'
    BY <1>6 DEF IInv, TypeOK, ManagedOK, MarkAllocated, Store, Phases, InHand, FoundOK, HandOK
  <1>7. ASSUME NEW g \in Heaps, NEW x \in Segments PROVE HandOK(g, x)'
    BY <1>7 DEF IInv, TypeOK, HandOK, MarkAllocated, Store, InHand
  <1>8. ASSUME NEW g \in Heaps PROVE FoundOK(g)'
    BY <1>8 DEF IInv, TypeOK, FoundOK, MarkAllocated, Store
  <1> QED  BY <1>1, <1>2, <1>3, <1>4, <1>5, <1>6, <1>7, <1>8 DEF IInv

LEMMA FlushAllocatedStep ==
    ASSUME IInv, NEW h \in Heaps, FlushAllocated(h)
    PROVE  IInv'
  <1>1. TypeOK'
    BY CentralHeapAssumption DEF IInv, TypeOK, FlushAllocated, Flush
  <1>2. Phases'
    BY DEF IInv, TypeOK, Phases, FlushAllocated, Flush
  <1>3. Meta'
    BY DEF IInv, TypeOK, Meta, FlushAllocated, Flush
  <1>4. ASSUME NEW x \in Segments PROVE ObjectOK(x)'
    BY <1>4 DEF IInv, TypeOK, ObjectOK, FlushAllocated, Flush
  <1>5. ASSUME NEW x \in Segments PROVE HeaderOK(x)'
    BY <1>5 DEF IInv, TypeOK, HeaderOK, FlushAllocated, Flush, InHand
  <1>6. ASSUME NEW g \in Heaps, NEW x \in Segments PROVE ManagedOK(g, x)'
    BY <1>6 DEF IInv, TypeOK, ManagedOK, FlushAllocated, Flush
  <1>7. ASSUME NEW g \in Heaps, NEW x \in Segments PROVE HandOK(g, x)'
    BY <1>7 DEF IInv, TypeOK, HandOK, FlushAllocated, Flush, InHand
  <1>8. ASSUME NEW g \in Heaps PROVE FoundOK(g)'
    BY <1>8 DEF IInv, TypeOK, FoundOK, FlushAllocated, Flush
  <1> QED  BY <1>1, <1>2, <1>3, <1>4, <1>5, <1>6, <1>7, <1>8 DEF IInv

LEMMA CarveStep ==
    ASSUME IInv, NEW h \in Heaps, Carve(h)
    PROVE  IInv'
  <1>1. TypeOK'
    BY CentralHeapAssumption DEF IInv, TypeOK, Carve, Phases, InHand, FoundOK, HandOK
  <1>2. Phases'
    BY DEF IInv, TypeOK, Phases, Carve
  <1>3. Meta'
    BY DEF IInv, TypeOK, Meta, Carve, Phases, InHand, FoundOK, HandOK
  <1>4. ASSUME NEW x \in Segments PROVE ObjectOK(x)'
    BY <1>4 DEF IInv, TypeOK, ObjectOK, Carve, Phases, InHand, FoundOK, HandOK
  <1>5. ASSUME NEW x \in Segments PROVE HeaderOK(x)'
    BY <1>5 DEF IInv, TypeOK, HeaderOK, Carve, InHand, Phases, FoundOK, HandOK
  <1>6. ASSUME NEW g \in Heaps, NEW x \in Segments PROVE ManagedOK(g, x)'
    BY <1>6 DEF IInv, TypeOK, ManagedOK, Carve, Phases, InHand, FoundOK, HandOK
  <1>7. ASSUME NEW g \in Heaps, NEW x \in Segments PROVE HandOK(g, x)'
    BY <1>7 DEF IInv, TypeOK, HandOK, Carve, InHand
  <1>8. ASSUME NEW g \in Heaps PROVE FoundOK(g)'
    BY <1>8 DEF IInv, TypeOK, FoundOK, Carve, Phases, InHand
  <1> QED  BY <1>1, <1>2, <1>3, <1>4, <1>5, <1>6, <1>7, <1>8 DEF IInv

LEMMA CarveFailsStep ==
    ASSUME IInv, NEW h \in Heaps, CarveFails(h)
    PROVE  IInv'
  <1>1. TypeOK'
    BY CentralHeapAssumption DEF IInv, TypeOK, CarveFails
  <1>2. Phases'
    BY DEF IInv, TypeOK, Phases, CarveFails
  <1>3. Meta'
    BY DEF IInv, TypeOK, Meta, CarveFails
  <1>4. ASSUME NEW x \in Segments PROVE ObjectOK(x)'
    BY <1>4 DEF IInv, TypeOK, ObjectOK, CarveFails
  <1>5. ASSUME NEW x \in Segments PROVE HeaderOK(x)'
    BY <1>5 DEF IInv, TypeOK, HeaderOK, CarveFails, InHand
  <1>6. ASSUME NEW g \in Heaps, NEW x \in Segments PROVE ManagedOK(g, x)'
    BY <1>6 DEF IInv, TypeOK, ManagedOK, CarveFails
  <1>7. ASSUME NEW g \in Heaps, NEW x \in Segments PROVE HandOK(g, x)'
    BY <1>7 DEF IInv, TypeOK, HandOK, CarveFails, InHand
  <1>8. ASSUME NEW g \in Heaps PROVE FoundOK(g)'
    BY <1>8 DEF IInv, TypeOK, FoundOK, CarveFails
  <1> QED  BY <1>1, <1>2, <1>3, <1>4, <1>5, <1>6, <1>7, <1>8 DEF IInv

LEMMA DestroyExtentsStep ==
    ASSUME IInv, NEW h \in Heaps, DestroyExtents(h)
    PROVE  IInv'
  <1>1. TypeOK'
    BY CentralHeapAssumption DEF IInv, TypeOK, DestroyExtents
  <1>2. Phases'
    BY DEF IInv, TypeOK, Phases, DestroyExtents
  <1>3. Meta'
    BY DEF IInv, TypeOK, Meta, DestroyExtents
  <1>4. ASSUME NEW x \in Segments PROVE ObjectOK(x)'
    <2>1. CASE Step(h, "destroy", "push")
      BY <1>4, <2>1 DEF IInv, TypeOK, ObjectOK, DestroyExtents, Phases, InHand, FoundOK, HandOK
    <2>2. CASE Step(h, "recoverDestroy", "recoverPush")
      BY <1>4, <2>2 DEF IInv, TypeOK, ObjectOK, DestroyExtents, Phases, InHand, FoundOK, HandOK
    <2> QED  BY <2>1, <2>2 DEF DestroyExtents
  <1>5. ASSUME NEW x \in Segments PROVE HeaderOK(x)'
    BY <1>5 DEF IInv, TypeOK, HeaderOK, DestroyExtents, InHand
  <1>6. ASSUME NEW g \in Heaps, NEW x \in Segments PROVE ManagedOK(g, x)'
    <2>1. CASE Step(h, "destroy", "push")
      BY <1>6, <2>1 DEF IInv, TypeOK, ManagedOK, DestroyExtents, Phases, InHand, FoundOK, HandOK
    <2>2. CASE Step(h, "recoverDestroy", "recoverPush")
      BY <1>6, <2>2 DEF IInv, TypeOK, ManagedOK, DestroyExtents, Phases, InHand, FoundOK, HandOK
    <2> QED  BY <2>1, <2>2 DEF DestroyExtents
  <1>7. ASSUME NEW g \in Heaps, NEW x \in Segments PROVE HandOK(g, x)'
    <2>1. CASE Step(h, "destroy", "push")
      BY <1>7, <2>1 DEF IInv, TypeOK, HandOK, DestroyExtents, InHand
    <2>2. CASE Step(h, "recoverDestroy", "recoverPush")
      BY <1>7, <2>2 DEF IInv, TypeOK, HandOK, DestroyExtents, InHand
    <2> QED  BY <2>1, <2>2 DEF DestroyExtents
  <1>8. ASSUME NEW g \in Heaps PROVE FoundOK(g)'
    <2>1. /\ FoundOK(g)
          /\ pc \in [Heaps -> RunPCs \cup RecoverPCs \cup {"off"}]
          /\ seg \in [Heaps -> Segments \cup {NoSegment, SegmentNum}]
      BY <1>8 DEF IInv, TypeOK
    <2> QED  BY <1>8, <2>1 DEF FoundOK, DestroyExtents
  <1> QED  BY <1>1, <1>2, <1>3, <1>4, <1>5, <1>6, <1>7, <1>8 DEF IInv

LEMMA PushSegmentStep ==
    ASSUME IInv, NEW h \in Heaps, PushSegment(h)
    PROVE  IInv'
  <1>1. TypeOK'
    <2>1. seg[h] \in Segments
      BY DEF IInv, FoundOK, PushSegment
    <2>2. m_freeSegments' \in SUBSET Segments
      BY <2>1 DEF IInv, TypeOK, PushSegment
    <2>3. seg' \in [Heaps -> Segments \cup {NoSegment, SegmentNum}]
      BY <2>1, CentralHeapAssumption DEF IInv, TypeOK, PushSegment
    <2>4. pc' \in [Heaps -> RunPCs \cup RecoverPCs \cup {"off"}]
      BY DEF IInv, TypeOK, PushSegment
    <2> QED  BY <2>2, <2>3, <2>4 DEF IInv, TypeOK, PushSegment
  <1>2. Phases'
    BY DEF IInv, TypeOK, Phases, PushSegment
  <1>3. Meta'
    BY DEF IInv, TypeOK, Meta, PushSegment
  <1>4. ASSUME NEW x \in Segments PROVE ObjectOK(x)'
    <2>1. CASE Step(h, "push", "run") /\ seg' = [seg EXCEPT ![h] = NoSegment]
      BY <1>4, <2>1 DEF IInv, TypeOK, ObjectOK, PushSegment, Phases, InHand, FoundOK, HandOK
    <2>2. CASE Step(h, "recoverPush", "end") /\ seg' = [seg EXCEPT ![h] = @ + 1]
      BY <1>4, <2>2 DEF IInv, TypeOK, ObjectOK, PushSegment, Phases, InHand, FoundOK, HandOK
    <2> QED  BY <2>1, <2>2 DEF PushSegment
  <1>5. ASSUME NEW x \in Segments PROVE HeaderOK(x)'
    <2>1. CASE Step(h, "push", "run") /\ seg' = [seg EXCEPT ![h] = NoSegment]
      BY <1>5, <2>1 DEF IInv, TypeOK, HeaderOK, PushSegment, InHand, Phases, FoundOK, HandOK
    <2>2. CASE Step(h, "recoverPush", "end") /\ seg' = [seg EXCEPT ![h] = @ + 1]
      BY <1>5, <2>2 DEF IInv, TypeOK, HeaderOK, PushSegment, InHand, Phases, FoundOK, HandOK
    <2> QED  BY <2>1, <2>2 DEF PushSegment
  <1>6. ASSUME NEW g \in Heaps, NEW x \in Segments PROVE ManagedOK(g, x)'
    <2>1. CASE Step(h, "push", "run") /\ seg' = [seg EXCEPT ![h] = NoSegment]
      BY <1>6, <2>1 DEF IInv, TypeOK, ManagedOK, PushSegment, Phases, InHand, FoundOK, HandOK
    <2>2. CASE Step(h, "recoverPush", "end") /\ seg' = [seg EXCEPT ![h] = @ + 1]
      BY <1>6, <2>2 DEF IInv, TypeOK, ManagedOK, PushSegment, Phases, InHand, FoundOK, HandOK
    <2> QED  BY <2>1, <2>2 DEF PushSegment
  <1>7. ASSUME NEW g \in Heaps, NEW x \in Segments PROVE HandOK(g, x)'
    <2>1. CASE Step(h, "push", "run") /\ seg' = [seg EXCEPT ![h] = NoSegment]
      BY <1>7, <2>1 DEF IInv, TypeOK, HandOK, PushSegment, InHand
    <2>2. CASE Step(h, "recoverPush", "end") /\ seg' = [seg EXCEPT ![h] = @ + 1]
      <3>1. CASE g = h
        BY <1>7, <2>2, <3>1 DEF IInv, TypeOK, HandOK, PushSegment, InHand
      <3>2. CASE g # h
        BY <1>7, <2>2, <3>2 DEF IInv, TypeOK, HandOK, PushSegment, InHand
      <3> QED  BY <3>1, <3>2
    <2> QED  BY <2>1, <2>2 DEF PushSegment
  <1>8. ASSUME NEW g \in Heaps PROVE FoundOK(g)'
    <2>1. /\ FoundOK(g)
          /\ pc \in [Heaps -> RunPCs \cup RecoverPCs \cup {"off"}]
          /\ seg \in [Heaps -> Segments \cup {NoSegment, SegmentNum}]
      BY <1>8 DEF IInv, TypeOK
    <2> QED  BY <1>8, <2>1 DEF FoundOK, PushSegment
  <1> QED  BY <1>1, <1>2, <1>3, <1>4, <1>5, <1>6, <1>7, <1>8 DEF IInv

LEMMA SearchStep ==
    ASSUME IInv, NEW h \in Heaps, Search(h)
    PROVE  IInv'
  <1>1. TypeOK'
    BY CentralHeapAssumption DEF IInv, TypeOK, Search, Recoverable
  <1>2. Phases'
    BY DEF IInv, TypeOK, Phases, Search, Recoverable
  <1>3. Meta'
    BY DEF IInv, TypeOK, Meta, Search, Recoverable
  <1>4. ASSUME NEW x \in Segments PROVE ObjectOK(x)'
    BY <1>4 DEF IInv, TypeOK, ObjectOK, Search, Recoverable
  <1>5. ASSUME NEW x \in Segments PROVE HeaderOK(x)'
    BY <1>5 DEF IInv, TypeOK, HeaderOK, Search, Recoverable, InHand
  <1>6. ASSUME NEW g \in Heaps, NEW x \in Segments PROVE ManagedOK(g, x)'
    BY <1>6 DEF IInv, TypeOK, ManagedOK, Search, Recoverable, Phases, InHand, FoundOK, HandOK,
                ObjectOK, Meta
  <1>7. ASSUME NEW g \in Heaps, NEW x \in Segments PROVE HandOK(g, x)'
    BY <1>7 DEF IInv, TypeOK, HandOK, Search, Recoverable, InHand
  <1>8. ASSUME NEW g \in Heaps PROVE FoundOK(g)'
    BY <1>8 DEF IInv, TypeOK, FoundOK, Search, Recoverable, Phases, InHand, HandOK, ObjectOK,
                ManagedOK, Meta
  <1> QED  BY <1>1, <1>2, <1>3, <1>4, <1>5, <1>6, <1>7, <1>8 DEF IInv

LEMMA SearchDoneStep ==
    ASSUME IInv, NEW h \in Heaps, SearchDone(h)
    PROVE  IInv'
  <1>1. TypeOK'
    BY CentralHeapAssumption DEF IInv, TypeOK, SearchDone
  <1>2. Phases'
    BY DEF IInv, TypeOK, Phases, SearchDone
  <1>3. Meta'
    BY DEF IInv, TypeOK, Meta, SearchDone
  <1>4. ASSUME NEW x \in Segments PROVE ObjectOK(x)'
    BY <1>4 DEF IInv, TypeOK, ObjectOK, SearchDone
  <1>5. ASSUME NEW x \in Segments PROVE HeaderOK(x)'
    BY <1>5 DEF IInv, TypeOK, HeaderOK, SearchDone, InHand
  <1>6. ASSUME NEW g \in Heaps, NEW x \in Segments PROVE ManagedOK(g, x)'
    BY <1>6 DEF IInv, TypeOK, ManagedOK, SearchDone
  <1>7. ASSUME NEW g \in Heaps, NEW x \in Segments PROVE HandOK(g, x)'
    BY <1>7 DEF IInv, TypeOK, HandOK, SearchDone, InHand
  <1>8. ASSUME NEW g \in Heaps PROVE FoundOK(g)'
    BY <1>8 DEF IInv, TypeOK, FoundOK, SearchDone
  <1> QED  BY <1>1, <1>2, <1>3, <1>4, <1>5, <1>6, <1>7, <1>8 DEF IInv

LEMMA KeepSegmentStep ==
    ASSUME IInv, NEW h \in Heaps, KeepSegment(h)
    PROVE  IInv'
  <1>1. TypeOK'
    BY CentralHeapAssumption DEF IInv, TypeOK, KeepSegment, Unused
  <1>2. Phases'
    BY DEF IInv, TypeOK, Phases, KeepSegment, Unused
  <1>3. Meta'
    BY DEF IInv, TypeOK, Meta, KeepSegment, Unused
  <1>4. ASSUME NEW x \in Segments PROVE ObjectOK(x)'
    BY <1>4 DEF IInv, TypeOK, ObjectOK, KeepSegment, Unused
  <1>5. ASSUME NEW x \in Segments PROVE HeaderOK(x)'
    BY <1>5 DEF IInv, TypeOK, HeaderOK, KeepSegment, Unused, InHand
  <1>6. ASSUME NEW g \in Heaps, NEW x \in Segments PROVE ManagedOK(g, x)'
    BY <1>6 DEF IInv, TypeOK, ManagedOK, KeepSegment, Unused
  <1>7. ASSUME NEW g \in Heaps, NEW x \in Segments PROVE HandOK(g, x)'
    BY <1>7 DEF IInv, TypeOK, HandOK, KeepSegment, Unused, InHand
  <1>8. ASSUME NEW g \in Heaps PROVE FoundOK(g)'
    BY <1>8 DEF IInv, TypeOK, FoundOK, KeepSegment, Unused
  <1> QED  BY <1>1, <1>2, <1>3, <1>4, <1>5, <1>6, <1>7, <1>8 DEF IInv

LEMMA MarkFreeStep ==
    ASSUME IInv, NEW h \in Heaps, MarkFree(h)
    PROVE  IInv'
  <1>1. TypeOK'
    BY CentralHeapAssumption DEF IInv, TypeOK, MarkFree, Store, Unused
  <1>2. Phases'
    BY DEF IInv, TypeOK, Phases, MarkFree, Store, Unused
  <1>3. Meta'
    BY DEF IInv, TypeOK, Meta, MarkFree, Store, Unused, Phases, InHand, FoundOK, HandOK,
           ObjectOK, ManagedOK
  <1>4. ASSUME NEW x \in Segments PROVE ObjectOK(x)'
    BY <1>4 DEF IInv, TypeOK, ObjectOK, MarkFree, Store, Unused, Phases, InHand, FoundOK, HandOK
  <1>5. ASSUME NEW x \in Segments PROVE HeaderOK(x)'
    BY <1>5 DEF IInv, TypeOK, HeaderOK, MarkFree, Store, Unused, InHand, Phases
  <1>6. ASSUME NEW g \in Heaps, NEW x \in Segments PROVE ManagedOK(g, x)'
    BY <1>6 DEF IInv, TypeOK, ManagedOK, MarkFree, Store, Unused
  <1>7. ASSUME NEW g \in Heaps, NEW x \in Segments PROVE HandOK(g, x)'
    BY <1>7 DEF IInv, TypeOK, HandOK, MarkFree, Store, Unused, InHand, Phases, FoundOK, ObjectOK,
                ManagedOK, Meta, HeaderOK
  <1>8. ASSUME NEW g \in Heaps PROVE FoundOK(g)'
    BY <1>8 DEF IInv, TypeOK, FoundOK, MarkFree, Store, Unused
  <1> QED  BY <1>1, <1>2, <1>3, <1>4, <1>5, <1>6, <1>7, <1>8 DEF IInv

LEMMA FlushFreeStep ==
    ASSUME IInv, NEW h \in Heaps, FlushFree(h)
    PROVE  IInv'
  <1>1. TypeOK'
    BY CentralHeapAssumption DEF IInv, TypeOK, FlushFree, Flush
  <1>2. Phases'
    BY DEF IInv, TypeOK, Phases, FlushFree, Flush
  <1>3. Meta'
    BY DEF IInv, TypeOK, Meta, FlushFree, Flush
  <1>4. ASSUME NEW x \in Segments PROVE ObjectOK(x)'
    BY <1>4 DEF IInv, TypeOK, ObjectOK, FlushFree, Flush
  <1>5. ASSUME NEW x \in Segments PROVE HeaderOK(x)'
    BY <1>5 DEF IInv, TypeOK, HeaderOK, FlushFree, Flush, InHand
  <1>6. ASSUME NEW g \in Heaps, NEW x \in Segments PROVE ManagedOK(g, x)'
    BY <1>6 DEF IInv, TypeOK, ManagedOK, FlushFree, Flush
  <1>7. ASSUME NEW g \in Heaps, NEW x \in Segments PROVE HandOK(g, x)'
    BY <1>7 DEF IInv, TypeOK, HandOK, FlushFree, Flush, InHand
  <1>8. ASSUME NEW g \in Heaps PROVE FoundOK(g)'
    BY <1>8 DEF IInv, TypeOK, FoundOK, FlushFree, Flush
  <1> QED  BY <1>1, <1>2, <1>3, <1>4, <1>5, <1>6, <1>7, <1>8 DEF IInv

LEMMA EndRecoverStep ==
    ASSUME IInv, NEW h \in Heaps, EndRecover(h)
    PROVE  IInv'
  <1>1. TypeOK'
    BY CentralHeapAssumption DEF IInv, TypeOK, EndRecover
  <1>2. Phases'
    BY DEF IInv, TypeOK, Phases, EndRecover
  <1>3. Meta'
    BY DEF IInv, TypeOK, Meta, EndRecover
  <1>4. ASSUME NEW x \in Segments PROVE ObjectOK(x)'
    BY <1>4 DEF IInv, TypeOK, ObjectOK, EndRecover
  <1>5. ASSUME NEW x \in Segments PROVE HeaderOK(x)'
    BY <1>5 DEF IInv, TypeOK, HeaderOK, EndRecover, InHand
  <1>6. ASSUME NEW g \in Heaps, NEW x \in Segments PROVE ManagedOK(g, x)'
    BY <1>6 DEF IInv, TypeOK, ManagedOK, EndRecover
  <1>7. ASSUME NEW g \in Heaps, NEW x \in Segments PROVE HandOK(g, x)'
    BY <1>7 DEF IInv, TypeOK, HandOK, EndRecover, InHand
  <1>8. ASSUME NEW g \in Heaps PROVE FoundOK(g)'
    BY <1>8 DEF IInv, TypeOK, FoundOK, EndRecover
  <1> QED  BY <1>1, <1>2, <1>3, <1>4, <1>5, <1>6, <1>7, <1>8 DEF IInv

LEMMA TakeHeapStep ==
    ASSUME IInv, NEW h \in Heaps, TakeHeap(h)
    PROVE  IInv'
  <1>1. TypeOK'
    BY CentralHeapAssumption DEF IInv, TypeOK, TakeHeap
  <1>2. Phases'
    BY DEF IInv, TypeOK, Phases, TakeHeap
  <1>3. Meta'
    BY DEF IInv, TypeOK, Meta, TakeHeap
  <1>4. ASSUME NEW x \in Segments PROVE ObjectOK(x)'
    BY <1>4 DEF IInv, TypeOK, ObjectOK, TakeHeap
  <1>5. ASSUME NEW x \in Segments PROVE HeaderOK(x)'
    BY <1>5 DEF IInv, TypeOK, HeaderOK, TakeHeap, InHand
  <1>6. ASSUME NEW g \in Heaps, NEW x \in Segments PROVE ManagedOK(g, x)'
    BY <1>6 DEF IInv, TypeOK, ManagedOK, TakeHeap
  <1>7. ASSUME NEW g \in Heaps, NEW x \in Segments PROVE HandOK(g, x)'
    <2>1. CASE managed' = managed
      BY <1>7, <2>1 DEF IInv, TypeOK, HandOK, TakeHeap, InHand
    <2>2. CASE managed' = [managed EXCEPT ![h] = {}]
      BY <1>7, <2>2 DEF IInv, TypeOK, HandOK, TakeHeap, InHand
    <2> QED  BY <2>1, <2>2 DEF TakeHeap
  <1>8. ASSUME NEW g \in Heaps PROVE FoundOK(g)'
    BY <1>8 DEF IInv, TypeOK, FoundOK, TakeHeap
  <1> QED  BY <1>1, <1>2, <1>3, <1>4, <1>5, <1>6, <1>7, <1>8 DEF IInv

LEMMA AllocObjectStep ==
    ASSUME IInv, NEW h \in Heaps, NEW s \in Segments, AllocObject(h, s)
    PROVE  IInv'
  <1>1. TypeOK'
    BY CentralHeapAssumption DEF IInv, TypeOK, AllocObject
  <1>2. Phases'
    BY DEF IInv, TypeOK, Phases, AllocObject
  <1>3. Meta'
    BY DEF IInv, TypeOK, Meta, AllocObject
  <1>4. ASSUME NEW x \in Segments PROVE ObjectOK(x)'
    BY <1>4 DEF IInv, TypeOK, ObjectOK, AllocObject, Phases, InHand, FoundOK, HandOK, ManagedOK,
                Meta
  <1>5. ASSUME NEW x \in Segments PROVE HeaderOK(x)'
    BY <1>5 DEF IInv, TypeOK, HeaderOK, AllocObject, InHand
  <1>6. ASSUME NEW g \in Heaps, NEW x \in Segments PROVE ManagedOK(g, x)'
    BY <1>6 DEF IInv, TypeOK, ManagedOK, AllocObject
  <1>7. ASSUME NEW g \in Heaps, NEW x \in Segments PROVE HandOK(g, x)'
    BY <1>7 DEF IInv, TypeOK, HandOK, AllocObject, InHand
  <1>8. ASSUME NEW g \in Heaps PROVE FoundOK(g)'
    BY <1>8 DEF IInv, TypeOK, FoundOK, AllocObject, Phases, InHand
  <1> QED  BY <1>1, <1>2, <1>3, <1>4, <1>5, <1>6, <1>7, <1>8 DEF IInv

LEMMA FreeObjectStep ==
    ASSUME IInv, NEW h \in Heaps, NEW s \in Segments, FreeObject(h, s)
    PROVE  IInv'
  <1>1. TypeOK'
    BY CentralHeapAssumption DEF IInv, TypeOK, FreeObject
  <1>2. Phases'
    BY DEF IInv, TypeOK, Phases, FreeObject
  <1>3. Meta'
    BY DEF IInv, TypeOK, Meta, FreeObject
  <1>4. ASSUME NEW x \in Segments PROVE ObjectOK(x)'
    BY <1>4 DEF IInv, TypeOK, ObjectOK, FreeObject
  <1>5. ASSUME NEW x \in Segments PROVE HeaderOK(x)'
    BY <1>5 DEF IInv, TypeOK, HeaderOK, FreeObject, InHand
  <1>6. ASSUME NEW g \in Heaps, NEW x \in Segments PROVE ManagedOK(g, x)'
    <2>1. CASE managed' = managed
      BY <1>6, <2>1 DEF IInv, TypeOK, ManagedOK, FreeObject, Phases, InHand, FoundOK, HandOK,
                        ObjectOK, Meta
    <2>2. CASE managed' = [managed EXCEPT ![h] = @ \cup {s}]
      BY <1>6, <2>2 DEF IInv, TypeOK, ManagedOK, FreeObject, Phases, InHand, FoundOK, HandOK,
                        ObjectOK, Meta
    <2> QED  BY <2>1, <2>2 DEF FreeObject
  <1>7. ASSUME NEW g \in Heaps, NEW x \in Segments PROVE HandOK(g, x)'
    <2>1. CASE managed' = managed
      BY <1>7, <2>1 DEF IInv, TypeOK, HandOK, FreeObject, InHand
    <2>2. CASE managed' = [managed EXCEPT ![h] = @ \cup {s}]
      BY <1>7, <2>2 DEF IInv, TypeOK, HandOK, FreeObject, InHand
    <2> QED  BY <2>1, <2>2 DEF FreeObject
  <1>8. ASSUME NEW g \in Heaps PROVE FoundOK(g)'
    <2>1. CASE managed' = managed
      BY <1>8, <2>1 DEF IInv, TypeOK, FoundOK, FreeObject
    <2>2. CASE managed' = [managed EXCEPT ![h] = @ \cup {s}]
      BY <1>8, <2>2 DEF IInv, TypeOK, FoundOK, FreeObject
    <2> QED  BY <2>1, <2>2 DEF FreeObject
  <1> QED  BY <1>1, <1>2, <1>3, <1>4, <1>5, <1>6, <1>7, <1>8 DEF IInv

LEMMA FreeLastObjectStep ==
    ASSUME IInv, NEW h \in Heaps, NEW s \in Segments, FreeLastObject(h, s)
    PROVE  IInv'
  <1>1. TypeOK'
    BY CentralHeapAssumption DEF IInv, TypeOK, FreeLastObject
  <1>2. Phases'
    BY DEF IInv, TypeOK, Phases, FreeLastObject
  <1>3. Meta'
    BY DEF IInv, TypeOK, Meta, FreeLastObject
  <1>4. ASSUME NEW x \in Segments PROVE ObjectOK(x)'
    BY <1>4 DEF IInv, TypeOK, ObjectOK, FreeLastObject
  <1>5. ASSUME NEW x \in Segments PROVE HeaderOK(x)'
    BY <1>5 DEF IInv, TypeOK, HeaderOK, FreeLastObject, InHand
  <1>6. ASSUME NEW g \in Heaps, NEW x \in Segments PROVE ManagedOK(g, x)'
    BY <1>6 DEF IInv, TypeOK, ManagedOK, FreeLastObject
  <1>7. ASSUME NEW g \in Heaps, NEW x \in Segments PROVE HandOK(g, x)'
    BY <1>7 DEF IInv, TypeOK, HandOK, FreeLastObject, InHand, Phases, FoundOK, ObjectOK,
                ManagedOK, Meta
  <1>8. ASSUME NEW g \in Heaps PROVE FoundOK(g)'
    BY <1>8 DEF IInv, TypeOK, FoundOK, FreeLastObject
  <1> QED  BY <1>1, <1>2, <1>3, <1>4, <1>5, <1>6, <1>7, <1>8 DEF IInv

LEMMA EvictStep ==
    ASSUME IInv, NEW s \in Segments, Evict(s)
    PROVE  IInv'
  <1>1. TypeOK'
    BY CentralHeapAssumption DEF IInv, TypeOK, Evict, Flush
  <1>2. Phases'
    BY DEF IInv, TypeOK, Phases, Evict, Flush
  <1>3. Meta'
    BY DEF IInv, TypeOK, Meta, Evict, Flush
  <1>4. ASSUME NEW x \in Segments PROVE ObjectOK(x)'
    BY <1>4 DEF IInv, TypeOK, ObjectOK, Evict, Flush
  <1>5. ASSUME NEW x \in Segments PROVE HeaderOK(x)'
    BY <1>5 DEF IInv, TypeOK, HeaderOK, Evict, Flush, InHand
  <1>6. ASSUME NEW g \in Heaps, NEW x \in Segments PROVE ManagedOK(g, x)'
    BY <1>6 DEF IInv, TypeOK, ManagedOK, Evict, Flush
  <1>7. ASSUME NEW g \in Heaps, NEW x \in Segments PROVE HandOK(g, x)'
    BY <1>7 DEF IInv, TypeOK, HandOK, Evict, Flush, InHand
  <1>8. ASSUME NEW g \in Heaps PROVE FoundOK(g)'
    BY <1>8 DEF IInv, TypeOK, FoundOK, Evict, Flush
  <1> QED  BY <1>1, <1>2, <1>3, <1>4, <1>5, <1>6, <1>7, <1>8 DEF IInv

LEMMA LinkStep ==
    ASSUME IInv, NEW s \in Segments, Link(s)
    PROVE  IInv'
  <1>1. TypeOK'
    BY CentralHeapAssumption DEF IInv, TypeOK, Link
  <1>2. Phases'
    BY DEF IInv, TypeOK, Phases, Link
  <1>3. Meta'
    <2>1. CASE object' = [object EXCEPT ![s] = "reachable"]
      BY <2>1 DEF IInv, TypeOK, Meta, Link
    <2>2. CASE object' = [object EXCEPT ![s] = "held"]
      BY <2>2 DEF IInv, TypeOK, Meta, Link
    <2> QED  BY <2>1, <2>2 DEF Link
  <1>4. ASSUME NEW x \in Segments PROVE ObjectOK(x)'
    BY <1>4 DEF IInv, TypeOK, ObjectOK, Link
  <1>5. ASSUME NEW x \in Segments PROVE HeaderOK(x)'
    BY <1>5 DEF IInv, TypeOK, HeaderOK, Link, InHand
  <1>6. ASSUME NEW g \in Heaps, NEW x \in Segments PROVE ManagedOK(g, x)'
    BY <1>6 DEF IInv, TypeOK, ManagedOK, Link
  <1>7. ASSUME NEW g \in Heaps, NEW x \in Segments PROVE HandOK(g, x)'
    <2>1. CASE object' = [object EXCEPT ![s] = "reachable"]
      BY <1>7, <2>1 DEF IInv, TypeOK, HandOK, Link, InHand
    <2>2. CASE object' = [object EXCEPT ![s] = "held"]
      BY <1>7, <2>2 DEF IInv, TypeOK, HandOK, Link, InHand
    <2> QED  BY <2>1, <2>2 DEF Link
  <1>8. ASSUME NEW g \in Heaps PROVE FoundOK(g)'
    BY <1>8 DEF IInv, TypeOK, FoundOK, Link
  <1> QED  BY <1>1, <1>2, <1>3, <1>4, <1>5, <1>6, <1>7, <1>8 DEF IInv

LEMMA CrashStep ==
    ASSUME IInv, Crash
    PROVE  IInv'
  <1>1. TypeOK'
    BY CentralHeapAssumption DEF IInv, TypeOK, Crash
  <1>2. Phases'
    BY DEF IInv, TypeOK, Phases, Crash
  <1>3. Meta'
    BY CentralHeapAssumption DEF IInv, TypeOK, Meta, Crash
  <1>4. ASSUME NEW x \in Segments PROVE ObjectOK(x)'
    BY <1>4 DEF IInv, TypeOK, ObjectOK, Crash
  <1>5. ASSUME NEW x \in Segments PROVE HeaderOK(x)'
    BY <1>5 DEF IInv, TypeOK, HeaderOK, Crash, InHand
  <1>6. ASSUME NEW g \in Heaps, NEW x \in Segments PROVE ManagedOK(g, x)'
    BY <1>6 DEF IInv, TypeOK, ManagedOK, Crash
  <1>7. ASSUME NEW g \in Heaps, NEW x \in Segments PROVE HandOK(g, x)'
    BY <1>7 DEF IInv, TypeOK, HandOK, Crash, InHand
  <1>8. ASSUME NEW g \in Heaps PROVE FoundOK(g)'
    BY <1>8 DEF IInv, TypeOK, FoundOK, Crash
  <1> QED  BY <1>1, <1>2, <1>3, <1>4, <1>5, <1>6, <1>7, <1>8 DEF IInv

LEMMA RestartStep ==
    ASSUME IInv, Restart
    PROVE  IInv'
  <1>1. TypeOK'
    BY CentralHeapAssumption DEF IInv, TypeOK, Restart
  <1>2. Phases'
    BY DEF IInv, TypeOK, Phases, Restart
  <1>3. Meta'
    BY DEF IInv, TypeOK, Meta, Restart
  <1>4. ASSUME NEW x \in Segments PROVE ObjectOK(x)'
    BY <1>4 DEF IInv, TypeOK, ObjectOK, Restart
  <1>5. ASSUME NEW x \in Segments PROVE HeaderOK(x)'
    BY <1>5 DEF IInv, TypeOK, HeaderOK, Restart, InHand
  <1>6. ASSUME NEW g \in Heaps, NEW x \in Segments PROVE ManagedOK(g, x)'
    BY <1>6 DEF IInv, TypeOK, ManagedOK, Restart
  <1>7. ASSUME NEW g \in Heaps, NEW x \in Segments PROVE HandOK(g, x)'
    BY <1>7 DEF IInv, TypeOK, HandOK, Restart, InHand
  <1>8. ASSUME NEW g \in Heaps PROVE FoundOK(g)'
    BY <1>8 DEF IInv, TypeOK, FoundOK, Restart
  <1> QED  BY <1>1, <1>2, <1>3, <1>4, <1>5, <1>6, <1>7, <1>8 DEF IInv

LEMMA StartUpStep ==
    ASSUME IInv, StartUp
    PROVE  IInv'
  <1>1. TypeOK'
    BY CentralHeapAssumption DEF IInv, TypeOK, StartUp
  <1>2. Phases'
    BY DEF IInv, TypeOK, Phases, StartUp
  <1>3. Meta'
    BY DEF IInv, TypeOK, Meta, StartUp
  <1>4. ASSUME NEW x \in Segments PROVE ObjectOK(x)'
    BY <1>4 DEF IInv, TypeOK, ObjectOK, StartUp
  <1>5. ASSUME NEW x \in Segments PROVE HeaderOK(x)'
    BY <1>5 DEF IInv, TypeOK, HeaderOK, StartUp, InHand
  <1>6. ASSUME NEW g \in Heaps, NEW x \in Segments PROVE ManagedOK(g, x)'
    BY <1>6 DEF IInv, TypeOK, ManagedOK, StartUp
  <1>7. ASSUME NEW g \in Heaps, NEW x \in Segments PROVE HandOK(g, x)'
    BY <1>7 DEF IInv, TypeOK, HandOK, StartUp, InHand
  <1>8. ASSUME NEW g \in Heaps PROVE FoundOK(g)'
    BY <1>8 DEF IInv, TypeOK, FoundOK, StartUp
  <1> QED  BY <1>1, <1>2, <1>3, <1>4, <1>5, <1>6, <1>7, <1>8 DEF IInv

-----------------------------------------------------------------------------
LEMMA InitIInv == Init => IInv
  <1> SUFFICES ASSUME Init PROVE IInv
    OBVIOUS
  <1>1. TypeOK /\ Phases /\ Meta
    BY CentralHeapAssumption DEF Init, TypeOK, Phases, Meta
  <1>2. \A s \in Segments : ObjectOK(s) /\ HeaderOK(s)
    BY DEF Init, ObjectOK, HeaderOK
  <1>3. \A h \in Heaps, s \in Segments : ManagedOK(h, s) /\ HandOK(h, s)
    BY DEF Init, ManagedOK, HandOK, InHand
  <1>4. \A h \in Heaps : FoundOK(h)
    BY DEF Init, FoundOK
  <1> QED  BY <1>1, <1>2, <1>3, <1>4 DEF IInv

LEMMA NextIInv == IInv /\ [Next]_vars => IInv'
  <1> SUFFICES ASSUME IInv, [Next]_vars PROVE IInv'
    OBVIOUS
  <1>1. ASSUME NEW h \in Heaps, Allocate(h) PROVE IInv'
    BY <1>1, PopSegmentStep, InitSegmentStep, InitSegmentFailsStep, InsertFreeExtentStep,
       MarkAllocatedStep, FlushAllocatedStep, CarveStep, CarveFailsStep DEF Allocate
  <1>2. ASSUME NEW h \in Heaps, Free(h) PROVE IInv'
    BY <1>2, DestroyExtentsStep, PushSegmentStep DEF Free
  <1>3. ASSUME NEW h \in Heaps, Recover(h) PROVE IInv'
    BY <1>3, SearchStep, SearchDoneStep, KeepSegmentStep, MarkFreeStep, FlushFreeStep,
       EndRecoverStep DEF Recover
  <1>4. ASSUME NEW h \in Heaps, Use(h) PROVE IInv'
    BY <1>4, TakeHeapStep, AllocObjectStep, FreeObjectStep, FreeLastObjectStep DEF Use
  <1>5. CASE UNCHANGED vars
    BY <1>5 DEF vars, IInv, TypeOK, Phases, Meta, ObjectOK, HeaderOK, ManagedOK, HandOK,
                FoundOK, InHand
  <1> QED
    BY <1>1, <1>2, <1>3, <1>4, <1>5, EvictStep, LinkStep, CrashStep, RestartStep, StartUpStep
    DEF Next

LEMMA Invariance == Spec => []IInv
  BY InitIInv, NextIInv, PTL DEF Spec

\* Owners stay IDs of heaps, lists and cursors stay within the segments.
THEOREM TypeCorrect == Spec => []TypeOK
  <1>1. IInv => TypeOK
    BY DEF IInv
  <1> QED  BY <1>1, Invariance, PTL

\* No segment is ever in two hands, whatever heaps acquire, return and recover
\* it at the same time and wherever the machine crashes.
THEOREM SegmentsStayApart == Spec => []SegmentsApart
  <1>1. IInv => SegmentsApart
    <2> SUFFICES ASSUME IInv PROVE SegmentsApart
      OBVIOUS
    <2>1. \A s \in m_freeSegments : object[s] = "none"
      BY DEF IInv, TypeOK, ObjectOK
    <2>2. ASSUME NEW h \in Heaps, NEW s \in Segments, s \in managed[h] \/ InHand(h, s)
          PROVE  /\ s \notin m_freeSegments
                 /\ \A g \in Heaps \ {h} : s \notin managed[g] /\ ~InHand(g, s)
                 /\ InHand(h, s) => s \notin managed[h] /\ object[s] = "none"
      BY <2>2 DEF IInv, ManagedOK, HandOK
    <2> QED  BY <2>1, <2>2 DEF SegmentsApart
  <1> QED  BY <1>1, Invariance, PTL

\* free() always reaches the heap that manages the segment of its object.
THEOREM FreeRouted == Spec => []FreeFindsItsHeap
  <1>1. IInv => FreeFindsItsHeap
    <2> SUFFICES ASSUME IInv, system = "up" PROVE FreeFindsItsHeap
      BY DEF FreeFindsItsHeap
    <2>1. ASSUME NEW s \in Segments, object[s] # "none"
          PROVE  s \in m_extentFinder /\ m_threadHeapID[s] # SEGMENT_FREE
      BY <2>1 DEF IInv, ObjectOK
    <2>2. ASSUME NEW h \in Heaps, NEW s \in managed[h]
          PROVE  s \in m_extentFinder /\ m_threadHeapID[s] = h
      BY <2>2 DEF IInv, TypeOK, ManagedOK
    <2> QED  BY <2>1, <2>2 DEF FreeFindsItsHeap
  <1> QED  BY <1>1, Invariance, PTL

\* At every instant NVM alone is enough to find the owner of every segment
\* that holds objects.
THEOREM OwnersAreDurable == Spec => []OwnerDurable
  <1>1. IInv => OwnerDurable
    BY DEF IInv, OwnerDurable, ObjectOK
  <1> QED  BY <1>1, Invariance, PTL

\* No failure of an allocation and no crash drops a segment for good.
THEOREM NoSegmentIsLost == Spec => []NoSegmentLost
  <1>1. IInv => NoSegmentLost
    BY DEF IInv, NoSegmentLost, HeaderOK
  <1> QED  BY <1>1, Invariance, PTL

\* No step of any heap, and no crash, moves the owner on record of a segment
\* that keeps a reachable object.
THEOREM OwnerIsKept == Spec => ReachableKeepsOwner
  <1>1. ASSUME IInv, [Next]_vars, NEW s \in Segments,
               object[s] = "reachable", object'[s] = "reachable"
        PROVE  durable'[s] = durable[s]
    <2>1. owner[s] = durable[s] /\ durable \in [Segments -> Owners]
      BY <1>1 DEF IInv, TypeOK, ObjectOK
    <2>2. ASSUME NEW x \in Segments, Flush(x) PROVE durable'[s] = durable[s]
      BY <2>1, <2>2 DEF Flush
    <2>3. ASSUME NEW h \in Heaps, Allocate(h) \/ Free(h) \/ Recover(h) \/ Use(h),
                 ~FlushAllocated(h), ~FlushFree(h)
          PROVE  durable' = durable
      BY <2>3 DEF Allocate, Free, Recover, Use, PopSegment, InitSegment, InitSegmentFails,
                  InsertFreeExtent, MarkAllocated, Carve, CarveFails, DestroyExtents,
                  PushSegment, Search, SearchDone, KeepSegment, MarkFree, EndRecover,
                  TakeHeap, AllocObject, FreeObject, FreeLastObject
    <2>4. ASSUME NEW h \in Heaps, FlushAllocated(h) \/ FlushFree(h)
          PROVE  durable'[s] = durable[s]
      BY <1>1, <2>2, <2>4 DEF FlushAllocated, FlushFree, IInv, FoundOK
    <2>5. CASE \/ UNCHANGED vars \/ Crash \/ Restart \/ StartUp
               \/ \E x \in Segments : Link(x)
      BY <2>5 DEF vars, Crash, Restart, StartUp, Link
    <2>6. ASSUME NEW x \in Segments, Evict(x) PROVE durable'[s] = durable[s]
      BY <2>2, <2>6 DEF Evict
    <2> QED  BY <1>1, <2>3, <2>4, <2>5, <2>6 DEF Next
  <1>2. IInv /\ [Next]_vars =>
            [\A s \in Segments :
                object[s] = "reachable" /\ object'[s] = "reachable"
                    => durable'[s] = durable[s]]_vars
    BY <1>1
  <1> QED  BY <1>2, Invariance, PTL DEF Spec, ReachableKeepsOwner
=============================================================================
