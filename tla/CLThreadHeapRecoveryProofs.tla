---------------------- MODULE CLThreadHeapRecoveryProofs ----------------------
(***************************************************************************)
(* The recovery of a heap's pages frees nothing that can be reached, and   *)
(* accounts for every page, each free interval being in the tree at its    *)
(* address, for segments and runs of any size and any number of objects    *)
(* found.                                                                  *)
(*                                                                         *)
(* The argument follows the sweep over the spaces that were traced: what   *)
(* lies below prevEnd in a segment with a reachable object is in exactly   *)
(* one place, and what lies above has not been touched.                    *)
(***************************************************************************)
EXTENDS CLThreadHeapRecovery, Sequences, FiniteSetTheorems, WellFoundedInduction, TLAPS

-----------------------------------------------------------------------------
(* The inductive invariant. *)

\* The space of what was found, and the intervals freed, entered or lost.
SpaceOf(b) == Space(b.start, b.len)
Freed      == PagesAt(m_intervalTree) \cup lost

\* The segments with something that can be reached.
InUse == {SegmentOf(b.start) : b \in live}

Covered(p) ==
    \/ \E b \in live : p \in PagesOf(b)
    \/ \E i \in Freed : p \in PagesOf(i)

LiveOK ==
    \A b, c \in live : b = c \/ PagesOf(b) \cap PagesOf(c) = {}

\* The tracer has what was found; when the search is over, that is everything.
Traced(b) == pc = "done" \/ SpaceOf(b) \in m_tracer

TracerOK ==
    /\ \A i \in m_tracer : \E b \in live : i = SpaceOf(b)
    /\ pc \notin {"search", "misplaced"} => \A b \in live : Traced(b)

\* A freed interval lies in one segment, together with something reachable, and
\* reaches up to the end of the segment or to the next object.
FreedOK ==
    /\ PagesAt(m_intervalTree) \cap lost = {}
    /\ pc \in {"search", "misplaced", "begin"} => Freed = {}
    /\ \A i \in Freed : SegmentOf(i.start) = SegmentOf(End(i) - 1)
    /\ \A i \in Freed : SegmentOf(i.start) \in InUse
    /\ \A i \in Freed : \/ End(i) = SegmentEndOf(i.start)
                        \/ \E b \in live : b.start = End(i)
    /\ \A i, j \in Freed : i = j \/ PagesOf(i) \cap PagesOf(j) = {}
    /\ \A i \in Freed, b \in live : PagesOf(i) \cap PagesOf(b) = {}

\* The extents know what was traced and what was freed, and nothing else.
ExtentOf(b) == [kind |-> IF b.kind = "run" THEN "run" ELSE "large", len |-> b.len]
FreeExtent(i) == [kind |-> "free", len |-> i.len]
Marked(b) == IF b.kind = "run" THEN PagesOf(b) ELSE Heap!Ends(b)

ExtentsOK ==
    /\ \A b \in live : \A p \in PagesOf(b) :
          m_extents[p] = IF Traced(b) /\ p \in Marked(b) THEN ExtentOf(b) ELSE Heap!NoExtent
    /\ \A i \in Freed : \A p \in PagesOf(i) :
          m_extents[p] = IF p \in Heap!Ends(i) THEN FreeExtent(i) ELSE Heap!NoExtent
    /\ \A p \in Pages : ~Covered(p) => m_extents[p] = Heap!NoExtent

\* Below prevEnd every page of a segment in use is covered, above it nothing is
\* freed.  prevEnd is the end of the space visited last, or, before the first,
\* the start of its segment.
SweepOK ==
    pc \in {"spaces", "overrun"} =>
        /\ \A t \in todo : prevEnd <= t.start
        /\ \A i \in m_tracer \ todo : End(i) <= prevEnd
        /\ \/ \E i \in m_tracer \ todo : prevEnd = End(i)
           \/ /\ m_tracer = todo
              /\ \E t \in todo : prevEnd = SegmentStartOf(t.start)
        /\ \A i \in Freed : End(i) <= prevEnd
        /\ \A p \in Pages : p < prevEnd /\ SegmentOf(p) \in InUse => Covered(p)

SweptOK ==
    /\ pc \notin {"spaces", "overrun"} => todo = {}
    /\ pc \in {"segments", "done"} => \A p \in Pages : SegmentOf(p) \in InUse => Covered(p)

SegmentsOK ==
    /\ InUse \subseteq owned
    /\ owned \cap m_freeSegments = {}
    /\ pc \notin {"segments", "done"} => index = 0
    /\ \A s \in owned : s < index => s \in InUse
    /\ pc = "done" => index = SegmentNum

IInv ==
    /\ TypeOK /\ LiveOK /\ TracerOK /\ FreedOK /\ ExtentsOK
    /\ SweepOK /\ SweptOK /\ SegmentsOK

-----------------------------------------------------------------------------
(* Pages and segments. *)

LEMMA Multiples ==
    ASSUME NEW P \in Nat \ {0}, NEW a \in Int, NEW b \in Int
    PROVE  /\ a * P \in Int
           /\ a < b => a * P + P <= b * P
<1>1. (a + 1) * P = a * P + P OBVIOUS
<1>2. ASSUME a < b PROVE (a + 1) * P <= b * P
  <2> DEFINE d == b - (a + 1)
  <2>1. d \in Nat BY <1>2
  <2>2. d * P >= 0 BY <2>1
  <2>3. b * P = (a + 1) * P + d * P OBVIOUS
  <2> QED BY <2>2, <2>3
<1> QED BY <1>1, <1>2

LEMMA Division ==
    ASSUME NEW P \in Nat \ {0}, NEW p \in Int
    PROVE  p \div P \in Int /\ (p \div P) * P <= p /\ p < (p \div P) * P + P
OBVIOUS

LEMMA Numbers ==
    /\ SegmentNum \in Nat \ {0} /\ SegmentPages \in Nat \ {0} /\ RunPages \in Nat \ {0}
    /\ RunPages < SegmentPages
    /\ MetaPages \in Nat /\ 1 <= MetaPages /\ MetaPages < SegmentPages
    /\ AddrSpaceStart \in Nat /\ MaxBlocks \in Nat
    /\ SegmentNum * SegmentPages \in Nat
    /\ Pages = 0 .. SegmentNum * SegmentPages - 1
    /\ Segments = 0 .. SegmentNum - 1
    /\ \A p : SegmentOf(p) = p \div SegmentPages
    /\ \A s : Heap!SegmentStart(s) = s * SegmentPages
<1>1. /\ SegmentNum \in Nat \ {0} /\ SegmentPages \in Nat \ {0} /\ RunPages \in Nat \ {0}
      /\ RunPages < SegmentPages
      /\ MetaPages \in 1 .. SegmentPages - 1
      /\ AddrSpaceStart \in Nat /\ MaxBlocks \in Nat
  BY RecoveryAssumption
<1>2. SegmentNum * SegmentPages \in Nat BY <1>1
<1> QED BY <1>1, <1>2 DEF Pages, Segments, SegmentOf, Heap!Pages, Heap!Segments,
                          Heap!SegmentOf, Heap!SegmentStart

\* Segments are disjoint, and follow each other.
LEMMA Segmentation ==
    /\ \A p \in Pages : p \in Nat
    /\ \A p, q \in Pages, r \in Int : p <= r /\ r <= q => r \in Pages
    /\ \A s \in Segments : /\ Heap!SegmentStart(s) \in Pages
                           /\ SegmentOf(Heap!SegmentStart(s)) = s
    /\ \A p \in Pages :
          /\ SegmentOf(p) \in Segments
          /\ SegmentStartOf(p) \in Nat /\ SegmentEndOf(p) \in Nat
          /\ SegmentEndOf(p) = SegmentStartOf(p) + SegmentPages
          /\ SegmentStartOf(p) <= p /\ p < SegmentEndOf(p)
          /\ SegmentEndOf(p) <= SegmentNum * SegmentPages
    /\ \A p \in Pages, q \in Int :
          SegmentStartOf(p) <= q /\ q < SegmentEndOf(p) => q \in Pages /\ SegmentOf(q) = SegmentOf(p)
    /\ \A p, q \in Pages :
          p <= q /\ SegmentOf(p) # SegmentOf(q) => SegmentEndOf(p) <= SegmentStartOf(q)
<1> DEFINE P == SegmentPages
           N == SegmentNum
<1>1. /\ P \in Nat \ {0} /\ N \in Nat \ {0} /\ N * P \in Nat
      /\ Pages = 0 .. N * P - 1 /\ Segments = 0 .. N - 1
      /\ \A p : SegmentOf(p) = p \div P
      /\ \A s : Heap!SegmentStart(s) = s * P
      /\ \A p : SegmentStartOf(p) = (p \div P) * P
      /\ \A p : SegmentEndOf(p) = (p \div P) * P + P
  BY Numbers DEF SegmentStartOf, SegmentEndOf
<1> HIDE DEF P, N
<1>2. ASSUME NEW s \in Segments
      PROVE  /\ s \in Int /\ s * P \in Int /\ 0 <= s * P
             /\ s * P + P <= N * P
  <2>1. s \in Int /\ 0 <= s /\ s < N BY <1>1
  <2>2. s * P \in Int /\ s * P + P <= N * P BY <1>1, <2>1, Multiples
  <2>3. 0 <= s * P BY <1>1, <2>1
  <2> QED BY <2>1, <2>2, <2>3
<1>3. ASSUME NEW p \in Pages
      PROVE  /\ p \in Nat /\ p \div P \in Segments
             /\ (p \div P) * P <= p /\ p < (p \div P) * P + P
  <2> DEFINE s == p \div P
  <2>1. p \in Nat /\ p < N * P BY <1>1
  <2>2. s \in Int /\ s * P <= p /\ p < s * P + P BY <1>1, <2>1, Division
  <2> HIDE DEF s
  <2>3. s * P \in Int BY <1>1, <2>2, Multiples
  <2>4. ~(s < 0)
    <3>1. s < 0 => s * P + P <= 0 * P BY <1>1, <2>2, Multiples
    <3>2. 0 * P = 0 BY <1>1
    <3> QED BY <1>1, <2>1, <2>2, <2>3, <3>1, <3>2
  <2>5. ~(N < s) /\ N # s
    <3>1. N < s => N * P + P <= s * P BY <1>1, <2>2, Multiples
    <3>2. N = s => N * P = s * P OBVIOUS
    <3>3. s * P < N * P BY <1>1, <2>1, <2>2, <2>3
    <3> QED BY <1>1, <2>3, <3>1, <3>2, <3>3
  <2> QED BY <1>1, <2>1, <2>2, <2>4, <2>5 DEF s
<1>4. ASSUME NEW s \in Segments, NEW p \in Int, s * P <= p, p < s * P + P
      PROVE  p \in Pages /\ p \div P = s
  <2>1. s * P \in Int /\ 0 <= s * P /\ s * P + P <= N * P /\ s \in Int BY <1>2
  <2>2. p \in Pages BY <1>1, <1>4, <2>1
  <2> DEFINE t == p \div P
  <2>3. t \in Int /\ t * P <= p /\ p < t * P + P BY <1>1, Division
  <2> HIDE DEF t
  <2>4. /\ t * P \in Int
        /\ t < s => t * P + P <= s * P
        /\ s < t => s * P + P <= t * P
    BY <1>1, <2>1, <2>3, Multiples
  <2>5. t = s BY <1>1, <1>4, <2>1, <2>3, <2>4
  <2> QED BY <2>2, <2>5 DEF t
<1>5. (\A p \in Pages : p \in Nat) /\ \A p, q \in Pages, r \in Int : p <= r /\ r <= q => r \in Pages
  BY <1>1
<1>6. \A s \in Segments : Heap!SegmentStart(s) \in Pages /\ SegmentOf(Heap!SegmentStart(s)) = s
  <2> SUFFICES ASSUME NEW s \in Segments
               PROVE  s * P \in Pages /\ (s * P) \div P = s
    BY <1>1
  <2>1. s * P \in Int /\ s * P < s * P + P BY <1>1, <1>2
  <2> QED BY <1>4, <2>1
<1>7. \A p \in Pages :
         /\ SegmentOf(p) \in Segments
         /\ SegmentStartOf(p) \in Nat /\ SegmentEndOf(p) \in Nat
         /\ SegmentEndOf(p) = SegmentStartOf(p) + P
         /\ SegmentStartOf(p) <= p /\ p < SegmentEndOf(p)
         /\ SegmentEndOf(p) <= N * P
  <2> SUFFICES ASSUME NEW p \in Pages, NEW s, s = p \div P
               PROVE  /\ s \in Segments /\ s * P \in Nat /\ s * P + P \in Nat
                      /\ s * P <= p /\ p < s * P + P /\ s * P + P <= N * P
    BY <1>1
  <2>1. s \in Segments /\ s * P <= p /\ p < s * P + P BY <1>3
  <2>2. s * P \in Int /\ 0 <= s * P /\ s * P + P <= N * P BY <1>2, <2>1
  <2> QED BY <1>1, <2>1, <2>2
<1>8. \A p \in Pages, q \in Int :
         SegmentStartOf(p) <= q /\ q < SegmentEndOf(p) => q \in Pages /\ SegmentOf(q) = SegmentOf(p)
  BY <1>1, <1>3, <1>4
<1>9. \A p, q \in Pages :
         p <= q /\ SegmentOf(p) # SegmentOf(q) => SegmentEndOf(p) <= SegmentStartOf(q)
  <2> SUFFICES ASSUME NEW p \in Pages, NEW q \in Pages, p <= q, p \div P # q \div P,
                      NEW s, s = p \div P, NEW t, t = q \div P
               PROVE  s * P + P <= t * P
    BY <1>1
  <2>1. /\ s \in Int /\ t \in Int /\ s * P \in Int /\ t * P \in Int /\ p \in Nat /\ q \in Nat
        /\ s * P <= p /\ q < t * P + P
    BY <1>2, <1>3
  <2>2. t < s => t * P + P <= s * P BY <1>1, <2>1, Multiples
  <2>3. ~(t < s) BY <1>1, <2>1, <2>2
  <2>4. s < t BY <2>1, <2>3
  <2> QED BY <1>1, <2>1, <2>4, Multiples
<1> QED BY <1>5, <1>6, <1>7, <1>8, <1>9 DEF P, N

\* What lies in one segment.
Within(i) ==
    /\ i.start \in Pages /\ i.len \in 1 .. SegmentPages - 1
    /\ SegmentOf(i.start) = SegmentOf(End(i) - 1)

LEMMA WithinFacts ==
    ASSUME NEW i, Within(i)
    PROVE  /\ i.start \in Pages /\ i.start \in Nat /\ i.len \in Nat /\ 1 <= i.len
           /\ End(i) \in Nat /\ End(i) = i.start + i.len
           /\ End(i) <= SegmentEndOf(i.start)
           /\ PagesOf(i) = i.start .. End(i) - 1
           /\ \A p \in PagesOf(i) : p \in Pages /\ SegmentOf(p) = SegmentOf(i.start)
           /\ i.start \in PagesOf(i) /\ End(i) - 1 \in PagesOf(i) /\ End(i) - 1 \in Pages
           /\ Heap!Ends(i) = {i.start, End(i) - 1} /\ Heap!Ends(i) \subseteq PagesOf(i)
<1> DEFINE e == End(i) - 1
<1>1. /\ i.start \in Pages /\ i.start \in Nat /\ i.len \in Nat /\ 1 <= i.len
      /\ i.len < SegmentPages /\ End(i) = i.start + i.len /\ e \in Nat /\ i.start <= e
      /\ SegmentPages \in Nat \ {0}
  <2>1. SegmentPages \in Nat \ {0} BY Numbers
  <2>2. i.start \in Pages /\ i.len \in 1 .. SegmentPages - 1 BY DEF Within
  <2>3. i.start \in Nat BY <2>2, Segmentation
  <2> QED BY <2>1, <2>2, <2>3 DEF End
<1>2. /\ SegmentStartOf(i.start) \in Nat /\ SegmentStartOf(i.start) <= i.start
      /\ SegmentEndOf(i.start) = SegmentStartOf(i.start) + SegmentPages
      /\ i.start < SegmentEndOf(i.start) /\ SegmentEndOf(i.start) \in Nat
  BY <1>1, Segmentation
<1>3. e < SegmentEndOf(i.start)
  <2>1. SegmentOf(i.start) = SegmentOf(e) BY DEF Within
  <2> HIDE DEF e
  <2>2. e < (e \div SegmentPages) * SegmentPages + SegmentPages
    BY <1>1, Division
  <2>3. SegmentEndOf(i.start) = (e \div SegmentPages) * SegmentPages + SegmentPages
    BY <2>1, Numbers DEF SegmentEndOf, SegmentStartOf
  <2> QED BY <2>2, <2>3
<1>4. ASSUME NEW p \in Int, i.start <= p, p <= e
      PROVE  p \in Pages /\ SegmentOf(p) = SegmentOf(i.start)
  <2>1. SegmentStartOf(i.start) <= p /\ p < SegmentEndOf(i.start) BY <1>1, <1>2, <1>3, <1>4
  <2> QED BY <1>1, <2>1, Segmentation
<1>5. PagesOf(i) = i.start .. e BY <1>1 DEF PagesOf, Heap!PagesOf
<1>6. Heap!Ends(i) = {i.start, e} BY <1>1 DEF Heap!Ends
<1> QED BY <1>1, <1>2, <1>3, <1>4, <1>5, <1>6

-----------------------------------------------------------------------------
(* What the invariant says of blocks and intervals. *)

LEMMA BlockFacts ==
    ASSUME NEW b \in Blocks \cup {Meta}
    PROVE  /\ Within(b) /\ b.kind \in {"large", "run", "meta"}
           /\ b.kind = "run" => b.len = RunPages
<1>1. SegmentPages \in Nat \ {0} /\ RunPages \in 1 .. SegmentPages - 1
      /\ MetaPages \in 1 .. SegmentPages - 1
  BY Numbers
<1>2. CASE b = Meta
  <2>1. b.start = 0 /\ b.len = MetaPages /\ b.kind = "meta" BY <1>2 DEF Meta
  <2>2. 0 \in Pages
    <3>1. 0 \in Segments /\ Heap!SegmentStart(0) = 0 * SegmentPages BY Numbers
    <3>2. 0 * SegmentPages = 0 BY <1>1
    <3> QED BY <3>1, <3>2, Segmentation
  <2>3. SegmentStartOf(0) = 0 /\ SegmentEndOf(0) = SegmentPages
    <3>1. /\ SegmentStartOf(0) \in Nat /\ SegmentStartOf(0) <= 0
          /\ SegmentEndOf(0) = SegmentStartOf(0) + SegmentPages
      BY <2>2, Segmentation
    <3> QED BY <1>1, <3>1
  <2>4. MetaPages - 1 \in Int /\ 0 <= MetaPages - 1 /\ MetaPages - 1 < SegmentPages BY <1>1
  <2>5. SegmentOf(MetaPages - 1) = SegmentOf(0) BY <2>2, <2>3, <2>4, Segmentation
  <2>6. End(b) - 1 = MetaPages - 1 BY <1>1, <2>1 DEF End
  <2> QED BY <1>1, <2>1, <2>2, <2>5, <2>6 DEF Within
<1>3. CASE b \in Blocks
  <2>1. SegmentOf(b.start) = SegmentOf(End(b) - 1) BY <1>3 DEF Blocks
  <2>2. \/ b \in [kind : {"large"}, start : Pages, len : 1 .. SegmentPages - 1]
        \/ \E p \in Pages : b = [kind |-> "run", start |-> p, len |-> RunPages]
    BY <1>3 DEF Blocks
  <2>3. CASE b \in [kind : {"large"}, start : Pages, len : 1 .. SegmentPages - 1]
    BY <2>1, <2>3 DEF Within
  <2>4. ASSUME NEW p \in Pages, b = [kind |-> "run", start |-> p, len |-> RunPages]
        PROVE  Within(b) /\ b.kind = "run" /\ b.len = RunPages
    <3>1. b.start = p /\ b.len = RunPages /\ b.kind = "run" BY <2>4
    <3> QED BY <1>1, <2>1, <3>1 DEF Within
  <2> QED BY <2>2, <2>3, <2>4
<1> QED BY <1>2, <1>3

LEMMA SpaceFacts ==
    ASSUME NEW b, Within(b)
    PROVE  /\ SpaceOf(b).start = b.start /\ SpaceOf(b).len = b.len
           /\ PagesOf(SpaceOf(b)) = PagesOf(b) /\ End(SpaceOf(b)) = End(b)
           /\ SpaceOf(b) \in Heap!Intervals
           /\ Marked(b) \subseteq PagesOf(b) /\ b.start \in Marked(b)
<1>1. SpaceOf(b) = [start |-> b.start, len |-> b.len] BY DEF SpaceOf, Space, Heap!Interval
<1>2. SpaceOf(b).start = b.start /\ SpaceOf(b).len = b.len BY <1>1
<1>3. SpaceOf(b) \in Heap!Intervals
  BY <1>1 DEF Within, Heap!Intervals, Pages
<1>4. PagesOf(SpaceOf(b)) = PagesOf(b) /\ End(SpaceOf(b)) = End(b)
  BY <1>2 DEF PagesOf, Heap!PagesOf, End
<1>5. Marked(b) \subseteq PagesOf(b) /\ b.start \in Marked(b)
  BY WithinFacts DEF Marked
<1> QED BY <1>2, <1>3, <1>4, <1>5

LEMMA LiveFacts ==
    ASSUME TypeOK, LiveOK
    PROVE  /\ \A b \in live :
                 /\ Within(b) /\ b.kind \in {"large", "run", "meta"}
                 /\ b.kind = "run" => b.len = RunPages
           /\ \A b, c \in live : \A p : p \in PagesOf(b) /\ p \in PagesOf(c) => b = c
           /\ \A b, c \in live : SpaceOf(b) = SpaceOf(c) => b = c
<1>1. \A b \in live : /\ Within(b) /\ b.kind \in {"large", "run", "meta"}
                      /\ b.kind = "run" => b.len = RunPages
  BY BlockFacts DEF TypeOK
<1>2. \A b, c \in live : \A p : p \in PagesOf(b) /\ p \in PagesOf(c) => b = c
  BY DEF LiveOK
<1>3. \A b \in live : /\ PagesOf(SpaceOf(b)) = PagesOf(b)
                      /\ b.start \in PagesOf(b)
  BY <1>1, SpaceFacts, WithinFacts
<1>4. \A b, c \in live : SpaceOf(b) = SpaceOf(c) => b = c
  <2> SUFFICES ASSUME NEW b \in live, NEW c \in live, SpaceOf(b) = SpaceOf(c) PROVE b = c
    OBVIOUS
  <2>1. PagesOf(b) = PagesOf(c) BY <1>3
  <2> QED BY <1>2, <1>3, <2>1
<1> QED BY <1>1, <1>2, <1>4

LEMMA FreedFacts ==
    ASSUME TypeOK, FreedOK
    PROVE  /\ \A i \in Freed : Within(i)
           /\ \A i, j \in Freed : \A p : p \in PagesOf(i) /\ p \in PagesOf(j) => i = j
           /\ \A i \in Freed, b \in live : \A p : ~(p \in PagesOf(i) /\ p \in PagesOf(b))
<1>1. \A i \in Freed : i \in Heap!Intervals BY DEF TypeOK, Freed
<1>2. \A i \in Freed : i.start \in Pages /\ i.len \in 1 .. SegmentPages - 1
  BY <1>1 DEF Heap!Intervals, Pages
<1>3. \A i \in Freed : Within(i) BY <1>2 DEF Within, FreedOK
<1>4. \A i, j \in Freed : \A p : p \in PagesOf(i) /\ p \in PagesOf(j) => i = j
  BY DEF FreedOK
<1>5. \A i \in Freed, b \in live : \A p : ~(p \in PagesOf(i) /\ p \in PagesOf(b))
  BY DEF FreedOK
<1> QED BY <1>3, <1>4, <1>5

LEMMA Least ==
    ASSUME NEW S, S # {}, \A n \in S : n \in Nat
    PROVE  \E k \in S : \A n \in S : k <= n
<1> DEFINE R == StrictSubsetOrdering(Nat)
           upTo(n) == 0 .. n
           T == {upTo(n) : n \in S}
<1>1. IsWellFoundedOn(R, FiniteSubsetsOf(Nat)) BY FS_StrictSubsetOrderingWellFounded
<1>2. T \subseteq FiniteSubsetsOf(Nat)
  <2>1. \A n \in S : upTo(n) \subseteq Nat /\ IsFiniteSet(upTo(n)) BY FS_Interval
  <2> QED BY <2>1 DEF FiniteSubsetsOf
<1>3. PICK x \in T : \A y \in T : ~(<<y, x>> \in R)
  <2> HIDE DEF R, T
  <2>1. T # {} BY DEF T
  <2> QED BY <1>1, <1>2, <2>1, WFMin
<1> PICK k \in S : x = upTo(k) OBVIOUS
<1>4. \A n \in S : k <= n
  <2> SUFFICES ASSUME NEW n \in S, n < k PROVE FALSE OBVIOUS
  <2>1. upTo(n) \subseteq upTo(k) /\ k \in upTo(k) /\ k \notin upTo(n) OBVIOUS
  <2>2. upTo(n) \in SUBSET Nat /\ upTo(k) \in SUBSET Nat OBVIOUS
  <2> HIDE DEF upTo
  <2>3. <<upTo(n), upTo(k)>> \in R BY <2>1, <2>2 DEF StrictSubsetOrdering
  <2> QED BY <1>3, <2>3
<1> QED BY <1>4

LEMMA FirstIs ==
    ASSUME NEW S, S # {}, \A i \in S : i.start \in Nat
    PROVE  First(S) \in S /\ \A j \in S : First(S).start <= j.start
<1> DEFINE N == {i.start : i \in S}
<1>1. \E k \in N : \A n \in N : k <= n
  <2>1. N # {} /\ \A n \in N : n \in Nat OBVIOUS
  <2> HIDE DEF N
  <2> QED BY <2>1, Least
<1>2. \E i \in S : \A j \in S : i.start <= j.start BY <1>1
<1> QED BY <1>2 DEF First

\* The tracer holds spaces of blocks only.
LEMMA TracerFacts ==
    ASSUME TypeOK, LiveOK, TracerOK
    PROVE  /\ \A i \in m_tracer : /\ Within(i) /\ i.start \in Nat /\ End(i) \in Nat
                                  /\ i.start < End(i)
                                  /\ SegmentOf(i.start) \in InUse
                                  /\ \E b \in live : /\ i = SpaceOf(b) /\ i.start = b.start
                                                     /\ End(i) = End(b)
                                                     /\ PagesOf(i) = PagesOf(b)
           /\ \A i, j \in m_tracer : i = j \/ End(i) <= j.start \/ End(j) <= i.start
<1>1. ASSUME NEW i \in m_tracer
      PROVE  /\ Within(i) /\ i.start \in Nat /\ End(i) \in Nat
             /\ i.start < End(i)
             /\ SegmentOf(i.start) \in InUse
             /\ \E b \in live : /\ i = SpaceOf(b) /\ i.start = b.start
                                /\ End(i) = End(b)
                                /\ PagesOf(i) = PagesOf(b)
  <2>1. PICK b \in live : i = SpaceOf(b) BY DEF TracerOK
  <2>2. Within(b) BY LiveFacts
  <2>3. i.start = b.start /\ i.len = b.len /\ PagesOf(i) = PagesOf(b) /\ End(i) = End(b)
    BY <2>1, <2>2, SpaceFacts
  <2>4. Within(i) BY <2>2, <2>3 DEF Within
  <2>5. i.start \in Nat /\ End(i) \in Nat /\ i.start < End(i) BY <2>4, WithinFacts
  <2>6. SegmentOf(i.start) \in InUse BY <2>3 DEF InUse
  <2> QED BY <2>1, <2>3, <2>4, <2>5, <2>6
<1>2. ASSUME NEW i \in m_tracer, NEW j \in m_tracer, i # j
      PROVE  End(i) <= j.start \/ End(j) <= i.start
  <2>1. PICK b \in live : i = SpaceOf(b) /\ PagesOf(i) = PagesOf(b) BY <1>1
  <2>2. PICK c \in live : j = SpaceOf(c) /\ PagesOf(j) = PagesOf(c) BY <1>1
  <2>3. \A p : ~(p \in PagesOf(i) /\ p \in PagesOf(j))
    BY <1>2, <2>1, <2>2, LiveFacts
  <2>4. /\ PagesOf(i) = i.start .. End(i) - 1 /\ PagesOf(j) = j.start .. End(j) - 1
        /\ i.start \in Nat /\ j.start \in Nat /\ End(i) \in Nat /\ End(j) \in Nat
        /\ i.start < End(i) /\ j.start < End(j)
    BY <1>1, WithinFacts
  <2>5. ~(i.start \in PagesOf(j)) /\ ~(j.start \in PagesOf(i))
    BY <2>3, <2>4
  <2> QED BY <2>4, <2>5
<1> QED BY <1>1, <1>2

-----------------------------------------------------------------------------
(* The search. *)

Kinds == {"none", "free", "large", "run"}

LEMMA ExtentTypes ==
    ASSUME NEW k \in Kinds, NEW n \in 0 .. SegmentPages
    PROVE  [kind |-> k, len |-> n] \in [kind : Kinds, len : 0 .. SegmentPages]
OBVIOUS

LEMMA ExtentOfType ==
    ASSUME NEW b, Within(b)
    PROVE  ExtentOf(b) \in [kind : Kinds, len : 0 .. SegmentPages]
<1>1. b.len \in 0 .. SegmentPages BY Numbers DEF Within
<1>2. (IF b.kind = "run" THEN "run" ELSE "large") \in Kinds BY DEF Kinds
<1> QED BY <1>1, <1>2 DEF ExtentOf

LEMMA InitHolds == Init => IInv
<1> SUFFICES ASSUME Init PROVE IInv OBVIOUS
<1>1. PICK n \in 0 .. MaxBlocks :
         \E found \in [1 .. n -> {b \in Blocks : SegmentOf(b.start) \in owned}] :
            live = Range(found) \cup {m \in {Meta} : 0 \in owned}
  BY DEF Init
<1>2. PICK found \in [1 .. n -> {b \in Blocks : SegmentOf(b.start) \in owned}] :
         live = Range(found) \cup {m \in {Meta} : 0 \in owned}
  BY <1>1
<1>3. live \subseteq Blocks \cup {Meta} /\ \A b \in live : SegmentOf(b.start) \in owned
  <2>1. Range(found) \subseteq {b \in Blocks : SegmentOf(b.start) \in owned} BY DEF Range
  <2>2. \A b \in live : b \in Range(found) \/ (b = Meta /\ 0 \in owned) BY <1>2
  <2>3. SegmentOf(Meta.start) = 0
    <3>1. 0 \in Segments /\ Heap!SegmentStart(0) = 0 * SegmentPages /\ SegmentPages \in Nat
      BY Numbers
    <3>2. SegmentOf(0) = 0
      <4>1. 0 * SegmentPages = 0 BY <3>1
      <4> QED BY <3>1, <4>1, Segmentation
    <3> QED BY <3>2 DEF Meta
  <2> QED BY <2>1, <2>2, <2>3
<1>4. /\ owned \subseteq Segments /\ m_freeSegments = {}
      /\ m_extents = [p \in Pages |-> Heap!NoExtent]
      /\ m_intervalTree = {} /\ m_tracer = {} /\ pc = "search"
      /\ todo = {} /\ prevEnd = 0 /\ index = 0 /\ lost = {}
      /\ \A b, c \in live : b = c \/ PagesOf(b) \cap PagesOf(c) = {}
  BY DEF Init
<1>5. PagesAt(m_intervalTree) = {} /\ Freed = {} BY <1>4 DEF PagesAt, Freed
<1>6. TypeOK
  <2>1. Heap!NoExtent \in [kind : {"none", "free", "large", "run"}, len : 0 .. SegmentPages]
    <3>1. 0 \in 0 .. SegmentPages BY Numbers
    <3> QED BY <3>1 DEF Heap!NoExtent
  <2>2. prevEnd \in 0 .. SegmentNum * SegmentPages /\ index \in 0 .. SegmentNum
    <3>1. SegmentNum * SegmentPages \in Nat /\ SegmentNum \in Nat BY Numbers
    <3> DEFINE e == SegmentNum * SegmentPages
    <3> HIDE DEF e
    <3>2. 0 \in 0 .. e BY <3>1 DEF e
    <3> QED BY <1>4, <3>1, <3>2 DEF e
  <2> QED BY <1>3, <1>4, <1>5, <2>1, <2>2 DEF TypeOK
<1>7. LiveOK BY <1>4 DEF LiveOK
<1>8. TracerOK BY <1>4 DEF TracerOK
<1>9. FreedOK BY <1>4, <1>5 DEF FreedOK
<1>10. ExtentsOK
  <2>1. \A b \in live : ~Traced(b) BY <1>4 DEF Traced
  <2>2. \A b \in live : \A p \in PagesOf(b) : p \in Pages
    BY <1>3, BlockFacts, WithinFacts
  <2> QED BY <1>4, <1>5, <2>1, <2>2 DEF ExtentsOK
<1>11. SweepOK /\ SweptOK BY <1>4 DEF SweepOK, SweptOK
<1>12. SegmentsOK BY <1>3, <1>4, Numbers DEF SegmentsOK, InUse, Segments
<1> QED BY <1>6, <1>7, <1>8, <1>9, <1>10, <1>11, <1>12 DEF IInv

\* A block that the search comes upon is traced and marked, and nothing else.
LEMMA TraceKeeps ==
    ASSUME IInv, pc = "search", NEW b \in live,
           m_tracer' = m_tracer \cup {SpaceOf(b)},
           m_extents' = [p \in Pages |-> IF p \in Marked(b) THEN ExtentOf(b) ELSE m_extents[p]],
           pc' = "search" \/ (pc' = "begin" /\ \A c \in live : c = b \/ Traced(c)),
           UNCHANGED <<live, owned, m_freeSegments, m_intervalTree, todo, prevEnd, index, lost>>
    PROVE  IInv'
<1>1. /\ TypeOK /\ LiveOK /\ TracerOK /\ FreedOK /\ ExtentsOK /\ SweepOK /\ SweptOK /\ SegmentsOK
  BY DEF IInv
<1>2. Freed = {} BY <1>1 DEF FreedOK
<1>3. Freed' = Freed /\ PagesAt(m_intervalTree)' = PagesAt(m_intervalTree) /\ InUse' = InUse
  BY DEF Freed, PagesAt, InUse
<1>4. /\ Within(b) /\ SpaceOf(b) \in Heap!Intervals
      /\ Marked(b) \subseteq PagesOf(b) /\ \A p \in PagesOf(b) : p \in Pages
  BY <1>1, LiveFacts, SpaceFacts, WithinFacts
<1>5. TypeOK'
  <2>1. m_extents \in [Pages -> [kind : Kinds, len : 0 .. SegmentPages]]
    BY <1>1 DEF TypeOK, Kinds
  <2>2. m_extents' \in [Pages -> [kind : Kinds, len : 0 .. SegmentPages]]
    BY <1>4, <2>1, ExtentOfType
  <2>3. (PagesAt(m_intervalTree) \cup m_tracer \cup lost)' \subseteq Heap!Intervals
    BY <1>1, <1>3, <1>4 DEF TypeOK
  <2>4. todo' \subseteq m_tracer' BY <1>1 DEF TypeOK
  <2> QED BY <1>1, <2>2, <2>3, <2>4 DEF TypeOK, Kinds
<1>6. LiveOK' BY <1>1 DEF LiveOK
<1>7. \A c \in live : Traced(c)' <=> (Traced(c) \/ c = b)
  <2>1. pc' # "done" /\ pc # "done" OBVIOUS
  <2>2. \A c \in live : Traced(c) <=> SpaceOf(c) \in m_tracer BY <2>1 DEF Traced
  <2>3. \A c \in live : Traced(c)' <=> SpaceOf(c) \in m_tracer' BY <2>1 DEF Traced, SpaceOf
  <2>4. \A c \in live : SpaceOf(c) = SpaceOf(b) => c = b BY <1>1, LiveFacts
  <2> QED BY <2>2, <2>3, <2>4
<1>8. TracerOK'
  <2>1. \A i \in m_tracer' : \E c \in live' : i = SpaceOf(c)
    BY <1>1 DEF TracerOK
  <2>2. pc' \notin {"search", "misplaced"} => \A c \in live' : Traced(c)' BY <1>7
  <2> QED BY <2>1, <2>2 DEF TracerOK, SpaceOf
<1>9. FreedOK' BY <1>2, <1>3 DEF FreedOK, Freed
<1>10. ExtentsOK'
  <2>1. ASSUME NEW c \in live, NEW p \in PagesOf(c)
        PROVE  m_extents'[p] = IF Traced(c)' /\ p \in Marked(c) THEN ExtentOf(c) ELSE Heap!NoExtent
    <3>1. p \in Pages BY <1>1, LiveFacts, WithinFacts
    <3>2. m_extents[p] = IF Traced(c) /\ p \in Marked(c) THEN ExtentOf(c) ELSE Heap!NoExtent
      BY <1>1 DEF ExtentsOK
    <3>3. CASE c = b BY <1>7, <3>1, <3>2, <3>3
    <3>4. CASE c # b
      <4>1. p \notin Marked(b) BY <1>1, <1>4, <3>4, LiveFacts
      <4> QED BY <1>7, <3>1, <3>2, <3>4, <4>1
    <3> QED BY <3>3, <3>4
  <2>2. ASSUME NEW p \in Pages, ~Covered(p)' PROVE m_extents'[p] = Heap!NoExtent
    <3>1. ~Covered(p) BY <1>3, <2>2 DEF Covered
    <3>2. p \notin Marked(b) BY <1>4, <3>1 DEF Covered
    <3> QED BY <1>1, <3>1, <3>2 DEF ExtentsOK
  <2> QED BY <1>2, <1>3, <2>1, <2>2 DEF ExtentsOK, Marked, ExtentOf
<1>11. SweepOK' /\ SweptOK' BY <1>1 DEF SweepOK, SweptOK
<1>12. SegmentsOK' BY <1>1, <1>3 DEF SegmentsOK
<1> QED BY <1>5, <1>6, <1>8, <1>9, <1>10, <1>11, <1>12 DEF IInv

LEMMA HeadTail ==
    ASSUME TypeOK, NEW b \in live, b.kind # "run", Within(b)
    PROVE  Heap!InsertHeadTail(m_extents, SpaceOf(b), "large")
              = [p \in Pages |-> IF p \in Marked(b) THEN ExtentOf(b) ELSE m_extents[p]]
<1> DEFINE i == SpaceOf(b)
           e == [kind |-> "large", len |-> b.len]
<1>1. i.start = b.start /\ i.len = b.len BY SpaceFacts
<1> HIDE DEF i
<1>2. ExtentOf(b) = e /\ Marked(b) = {b.start, b.start + b.len - 1}
  BY DEF ExtentOf, Marked, Heap!Ends
<1>3. Heap!InsertHeadTail(m_extents, i, "large")
         = [m_extents EXCEPT ![b.start] = e, ![b.start + b.len - 1] = e]
  BY <1>1 DEF Heap!InsertHeadTail, Heap!SetHeadTail
<1>4. DOMAIN m_extents = Pages /\ m_extents = [p \in Pages |-> m_extents[p]] BY DEF TypeOK
<1> HIDE DEF e
<1>5. [m_extents EXCEPT ![b.start] = e, ![b.start + b.len - 1] = e]
         = [p \in Pages |-> IF p \in {b.start, b.start + b.len - 1} THEN e ELSE m_extents[p]]
  BY <1>4
<1> QED BY <1>2, <1>3, <1>5 DEF i

LEMMA RecoverLargeObjKeeps ==
    ASSUME IInv, NEW b \in live, RecoverLargeObj(b)
    PROVE  IInv'
<1>1. /\ pc = "search" /\ b.kind = "large" /\ pc' = pc
      /\ Trace({SpaceOf(b)}, Heap!InsertHeadTail(m_extents, SpaceOf(b), "large"))
  BY DEF RecoverLargeObj, SpaceOf
<1>2. TypeOK /\ LiveOK BY DEF IInv
<1>3. Within(b) BY <1>2, LiveFacts
<1>4. Heap!InsertHeadTail(m_extents, SpaceOf(b), "large")
         = [p \in Pages |-> IF p \in Marked(b) THEN ExtentOf(b) ELSE m_extents[p]]
  BY <1>1, <1>2, <1>3, HeadTail
<1>5. /\ m_tracer' = m_tracer \cup {SpaceOf(b)}
      /\ m_extents' = [p \in Pages |-> IF p \in Marked(b) THEN ExtentOf(b) ELSE m_extents[p]]
      /\ UNCHANGED <<live, owned, m_freeSegments, m_intervalTree, todo, prevEnd, index, lost>>
  BY <1>1, <1>4 DEF Trace
<1> QED BY <1>1, <1>5, TraceKeeps

LEMMA RecoverRunKeeps ==
    ASSUME IInv, NEW b \in live, RecoverRun(b)
    PROVE  IInv'
<1>1. pc = "search" /\ b.kind = "run" /\ pc' = pc BY DEF RecoverRun
<1>2. PICK p \in PagesOf(b) :
         /\ RunOf(p) = b.start
         /\ Trace({Space(RunOf(p), RunPages)}, Heap!InsertExtentOfRun(m_extents, RunOf(p)))
  BY DEF RecoverRun
<1>3. TypeOK /\ LiveOK BY DEF IInv
<1>4. Within(b) /\ b.len = RunPages BY <1>1, <1>3, LiveFacts
<1>5. Space(RunOf(p), RunPages) = SpaceOf(b) BY <1>2, <1>4 DEF SpaceOf
<1>6. Heap!InsertExtentOfRun(m_extents, RunOf(p))
         = [q \in Pages |-> IF q \in Marked(b) THEN ExtentOf(b) ELSE m_extents[q]]
  <2>1. /\ ExtentOf(b) = [kind |-> "run", len |-> RunPages]
        /\ Marked(b) = b.start .. b.start + RunPages - 1
    BY <1>1, <1>4 DEF ExtentOf, Marked, PagesOf, Heap!PagesOf
  <2> QED BY <1>2, <2>1 DEF Heap!InsertExtentOfRun, Heap!SetRun, Pages
<1>7. /\ m_tracer' = m_tracer \cup {SpaceOf(b)}
      /\ m_extents' = [q \in Pages |-> IF q \in Marked(b) THEN ExtentOf(b) ELSE m_extents[q]]
      /\ UNCHANGED <<live, owned, m_freeSegments, m_intervalTree, todo, prevEnd, index, lost>>
  BY <1>2, <1>5, <1>6 DEF Trace
<1> QED BY <1>1, <1>7, TraceKeeps

\* Only pc changes, to a state that promises no more than the one before.
LEMMA PcOnly ==
    ASSUME IInv,
           (pc = "search" /\ pc' = "misplaced") \/ (pc = "spaces" /\ pc' = "overrun"),
           UNCHANGED <<live, owned, m_freeSegments, m_extents, m_intervalTree, m_tracer, todo,
                       prevEnd, index, lost>>
    PROVE  IInv'
<1>1. /\ Freed' = Freed /\ PagesAt(m_intervalTree)' = PagesAt(m_intervalTree)
      /\ InUse' = InUse
  BY DEF Freed, PagesAt, InUse
<1>2. \A b : Traced(b)' <=> Traced(b) BY DEF Traced, SpaceOf
<1>3. \A p : Covered(p)' <=> Covered(p) BY <1>1 DEF Covered
<1>4. TypeOK' /\ LiveOK' BY <1>1 DEF IInv, TypeOK, LiveOK
<1>5. TracerOK' BY <1>2 DEF IInv, TracerOK, SpaceOf
<1>6. FreedOK' BY <1>1 DEF IInv, FreedOK
<1>7. ExtentsOK' BY <1>1, <1>2, <1>3 DEF IInv, ExtentsOK, Marked, ExtentOf
<1>8. SweepOK' /\ SweptOK' BY <1>1, <1>3 DEF IInv, SweepOK, SweptOK
<1>9. SegmentsOK' BY <1>1 DEF IInv, SegmentsOK
<1> QED BY <1>4, <1>5, <1>6, <1>7, <1>8, <1>9 DEF IInv

LEMMA TraceMetaKeeps ==
    ASSUME IInv, TraceMeta
    PROVE  IInv'
<1>1. pc = "search" /\ pc' = "begin" /\ FoundAll BY DEF TraceMeta
<1>2. TypeOK /\ LiveOK /\ ExtentsOK BY DEF IInv
<1>3. ASSUME NEW c \in live, c # Meta
      PROVE  Traced(c)
  <2>1. ~Unknown(c.start) BY <1>1, <1>3 DEF FoundAll
  <2>2. c.start \in PagesOf(c) BY <1>2, LiveFacts, WithinFacts
  <2> QED BY <1>2, <2>1, <2>2 DEF ExtentsOK, Unknown
<1>4. CASE Meta \in live
  <2>1. Trace({SpaceOf(Meta)}, Heap!InsertHeadTail(m_extents, SpaceOf(Meta), "large"))
    <3>1. Meta.start = 0 /\ Meta.len = MetaPages BY DEF Meta
    <3> QED BY <1>4, <3>1 DEF TraceMeta, SpaceOf
  <2>2. Within(Meta) /\ Meta.kind # "run" BY <1>2, <1>4, LiveFacts DEF Meta
  <2>3. Heap!InsertHeadTail(m_extents, SpaceOf(Meta), "large")
         = [p \in Pages |-> IF p \in Marked(Meta) THEN ExtentOf(Meta) ELSE m_extents[p]]
    BY <1>2, <1>4, <2>2, HeadTail
  <2>4. /\ m_tracer' = m_tracer \cup {SpaceOf(Meta)}
        /\ m_extents' = [p \in Pages |->
                            IF p \in Marked(Meta) THEN ExtentOf(Meta) ELSE m_extents[p]]
        /\ UNCHANGED <<live, owned, m_freeSegments, m_intervalTree, todo, prevEnd, index, lost>>
    BY <2>1, <2>3 DEF Trace
  <2> QED BY <1>1, <1>3, <1>4, <2>4, TraceKeeps
<1>5. CASE Meta \notin live
  <2>1. /\ m_tracer' = m_tracer /\ m_extents' = m_extents
        /\ UNCHANGED <<live, owned, m_freeSegments, m_intervalTree, todo, prevEnd, index, lost>>
    BY <1>5 DEF TraceMeta, Trace
  <2>2. /\ Freed' = Freed /\ PagesAt(m_intervalTree)' = PagesAt(m_intervalTree)
        /\ InUse' = InUse
    BY <2>1 DEF Freed, PagesAt, InUse
  <2>3. \A b : Traced(b)' <=> Traced(b) BY <1>1, <2>1 DEF Traced, SpaceOf
  <2>4. \A p : Covered(p)' <=> Covered(p) BY <2>1, <2>2 DEF Covered
  <2>5. TypeOK' /\ LiveOK' BY <1>1, <2>1, <2>2 DEF IInv, TypeOK, LiveOK
  <2>6. TracerOK'
    <3>1. \A b \in live : Traced(b)' BY <1>3, <1>5, <2>3
    <3> QED BY <2>1, <3>1 DEF IInv, TracerOK, SpaceOf
  <2>7. FreedOK' BY <1>1, <2>1, <2>2 DEF IInv, FreedOK
  <2>8. ExtentsOK' BY <2>1, <2>2, <2>3, <2>4 DEF IInv, ExtentsOK, Marked, ExtentOf
  <2>9. SweepOK' /\ SweptOK' BY <1>1, <2>1 DEF IInv, SweepOK, SweptOK
  <2>10. SegmentsOK' BY <1>1, <2>1, <2>2 DEF IInv, SegmentsOK
  <2> QED BY <2>5, <2>6, <2>7, <2>8, <2>9, <2>10 DEF IInv
<1> QED BY <1>4, <1>5

-----------------------------------------------------------------------------
(* The sweep. *)

LEMMA BeginKeeps ==
    ASSUME IInv, Begin
    PROVE  IInv'
<1>1. /\ pc = "begin" /\ pc' \in {"segments", "spaces"}
      /\ UNCHANGED <<live, owned, m_freeSegments, m_extents, m_intervalTree, m_tracer, index,
                     lost>>
  BY DEF Begin
<1>2. /\ TypeOK /\ LiveOK /\ TracerOK /\ FreedOK /\ ExtentsOK /\ SweepOK /\ SweptOK /\ SegmentsOK
  BY DEF IInv
<1>3. /\ Freed' = Freed /\ PagesAt(m_intervalTree)' = PagesAt(m_intervalTree)
      /\ InUse' = InUse
  BY <1>1 DEF Freed, PagesAt, InUse
<1>4. \A b : Traced(b)' <=> Traced(b) BY <1>1 DEF Traced, SpaceOf
<1>5. \A p : Covered(p)' <=> Covered(p) BY <1>1, <1>3 DEF Covered
<1>6. LiveOK' BY <1>1, <1>2 DEF LiveOK
<1>7. TracerOK' BY <1>1, <1>2, <1>4 DEF TracerOK, SpaceOf
<1>8. Freed = {} BY <1>1, <1>2 DEF FreedOK
<1>9. FreedOK' BY <1>1, <1>2, <1>3, <1>8 DEF FreedOK, Freed
<1>10. ExtentsOK' BY <1>1, <1>2, <1>3, <1>4, <1>5 DEF ExtentsOK, Marked, ExtentOf
<1>11. index = 0 /\ todo = {} BY <1>1, <1>2 DEF SegmentsOK, SweptOK
<1>12. SegmentsOK'
  <2>1. \A s \in owned : ~(s < 0)
    <3>1. \A s \in owned : s \in 0 .. SegmentNum - 1 BY <1>2, Numbers DEF TypeOK
    <3>2. SegmentNum \in Nat BY Numbers
    <3> QED BY <3>1, <3>2
  <2> QED BY <1>1, <1>2, <1>3, <1>11, <2>1 DEF SegmentsOK
<1>13. CASE m_tracer = {}
  <2>1. pc' = "segments" /\ todo' = todo /\ prevEnd' = prevEnd BY <1>13 DEF Begin
  <2>2. live = {}
    <3>1. \A b \in live : Traced(b) BY <1>1, <1>2 DEF TracerOK
    <3> QED BY <1>1, <1>13, <3>1 DEF Traced
  <2>3. SweepOK' /\ SweptOK' BY <1>3, <1>11, <2>1, <2>2 DEF SweepOK, SweptOK, InUse
  <2>4. TypeOK' BY <1>1, <1>2, <1>3, <2>1 DEF TypeOK
  <2> QED BY <1>6, <1>7, <1>9, <1>10, <1>12, <2>3, <2>4 DEF IInv
<1>14. CASE m_tracer # {}
  <2> DEFINE f == First(m_tracer)
  <2>1. pc' = "spaces" /\ todo' = m_tracer /\ prevEnd' = SegmentStartOf(f.start)
    BY <1>14 DEF Begin
  <2>2. /\ f \in m_tracer /\ \A j \in m_tracer : f.start <= j.start
        /\ \A j \in m_tracer : j.start \in Nat /\ j.start \in Pages
    <3>1. \A j \in m_tracer : Within(j) /\ j.start \in Nat BY <1>2, TracerFacts
    <3> QED BY <1>14, <3>1, FirstIs DEF Within
  <2> HIDE DEF f
  <2>3. /\ SegmentStartOf(f.start) \in Nat /\ SegmentStartOf(f.start) <= f.start
        /\ SegmentStartOf(f.start) <= SegmentNum * SegmentPages
    <3>1. /\ SegmentStartOf(f.start) \in Nat /\ SegmentStartOf(f.start) <= f.start
          /\ f.start < SegmentEndOf(f.start) /\ SegmentEndOf(f.start) <= SegmentNum * SegmentPages
          /\ SegmentEndOf(f.start) \in Nat
      BY <2>2, Segmentation
    <3>2. SegmentNum * SegmentPages \in Nat BY Numbers
    <3> DEFINE e == SegmentNum * SegmentPages
    <3> HIDE DEF e
    <3>3. SegmentStartOf(f.start) <= e BY <2>2, <3>1, <3>2 DEF e
    <3> QED BY <3>1, <3>3 DEF e
  <2>4. ASSUME NEW p \in Pages, p < prevEnd', SegmentOf(p) \in InUse
        PROVE  FALSE
    <3>1. PICK b \in live : SegmentOf(b.start) = SegmentOf(p) BY <2>4 DEF InUse
    <3>2. b.start \in Pages /\ b.start \in Nat /\ f.start <= b.start
      <4>1. SpaceOf(b) \in m_tracer BY <1>1, <1>2 DEF TracerOK, Traced
      <4>2. Within(b) BY <1>2, LiveFacts
      <4>3. SpaceOf(b).start = b.start BY <4>2, SpaceFacts
      <4> QED BY <2>2, <4>1, <4>2, <4>3 DEF Within
    <3>3. p \in Nat /\ p < SegmentStartOf(f.start) BY <2>1, <2>4, Segmentation
    <3>4. SegmentOf(p) # SegmentOf(f.start)
      <4>1. SegmentStartOf(p) <= p /\ SegmentStartOf(p) \in Nat BY Segmentation
      <4>2. SegmentOf(p) = SegmentOf(f.start) => SegmentStartOf(p) = SegmentStartOf(f.start)
        BY DEF SegmentStartOf
      <4> QED BY <2>3, <3>3, <4>1, <4>2
    <3>5. SegmentEndOf(p) <= SegmentStartOf(f.start)
      BY <2>2, <2>3, <3>3, <3>4, Segmentation
    <3>6. SegmentEndOf(b.start) = SegmentEndOf(p) BY <3>1 DEF SegmentEndOf, SegmentStartOf
    <3>7. b.start < SegmentEndOf(b.start) /\ SegmentEndOf(b.start) \in Nat BY <3>2, Segmentation
    <3> QED BY <2>2, <2>3, <3>2, <3>5, <3>6, <3>7
  <2>5. SweepOK'
    <3>1. \A t \in todo' : prevEnd' <= t.start BY <2>1, <2>2, <2>3
    <3>2. m_tracer' = todo' BY <1>1, <2>1
    <3>3. \E t \in todo' : prevEnd' = SegmentStartOf(t.start) BY <2>1, <2>2
    <3>4. Freed' = {} BY <1>3, <1>8
    <3>5. \A p \in Pages : ~(p < prevEnd' /\ SegmentOf(p) \in InUse') BY <1>3, <2>4
    <3> QED BY <3>1, <3>2, <3>3, <3>4, <3>5 DEF SweepOK
  <2>6. SweptOK' BY <2>1 DEF SweptOK
  <2>7. TypeOK'
    <3>1. prevEnd' \in 0 .. SegmentNum * SegmentPages
      <4>1. SegmentNum * SegmentPages \in Nat BY Numbers
      <4> DEFINE e == SegmentNum * SegmentPages
      <4> HIDE DEF e
      <4>2. prevEnd' \in Nat /\ prevEnd' <= e /\ e \in Nat BY <2>1, <2>3, <4>1 DEF e
      <4>3. prevEnd' \in 0 .. e BY <4>2
      <4> QED BY <4>3 DEF e
    <3> QED BY <1>1, <1>2, <1>3, <2>1, <3>1 DEF TypeOK
  <2> QED BY <1>6, <1>7, <1>9, <1>10, <1>12, <2>5, <2>6, <2>7 DEF IInv
<1> QED BY <1>13, <1>14

LEMMA Moved ==
    ASSUME NEW x \in Int, NEW y, NEW a \in Int
    PROVE  [[start |-> x, len |-> y] EXCEPT !.start = @ - a] = [start |-> x - a, len |-> y]
<1> DEFINE r == [start |-> x, len |-> y]
<1>1. r.start = x OBVIOUS
<1>2. [r EXCEPT !.start = @ - a] = [r EXCEPT !.start = r.start - a] OBVIOUS
<1>3. \A z : [r EXCEPT !.start = z] = [start |-> z, len |-> y] OBVIOUS
<1> HIDE DEF r
<1> QED BY <1>1, <1>2, <1>3 DEF r

\* Intervals that nothing else covers may be freed.
Gap(g) ==
    /\ Within(g) /\ g = Space(g.start, g.len)
    /\ SegmentOf(g.start) \in InUse
    /\ End(g) = SegmentEndOf(g.start) \/ \E b \in live : b.start = End(g)
    /\ \A p \in PagesOf(g) : ~Covered(p)

LEMMA GapsEntered ==
    ASSUME IInv, pc = "spaces", pc' \in {"spaces", "segments"},
           NEW G, FreeGaps(G), \A g \in G : Gap(g),
           \A g, h \in G : \A p : p \in PagesOf(g) /\ p \in PagesOf(h) => g = h
    PROVE  /\ Freed' = Freed \cup G /\ InUse' = InUse
           /\ m_extents' \in [Pages -> [kind : Kinds, len : 0 .. SegmentPages]]
           /\ (PagesAt(m_intervalTree) \cup m_tracer \cup lost)' \subseteq Heap!Intervals
           /\ LiveOK' /\ TracerOK' /\ FreedOK' /\ ExtentsOK' /\ SegmentsOK'
<1>1. /\ TypeOK /\ LiveOK /\ TracerOK /\ FreedOK /\ ExtentsOK /\ SegmentsOK
  BY DEF IInv
<1> DEFINE A == AddrSpaceStart
           gapAt(p) == \E g \in G : p \in {g.start, End(g) - 1}
<1>2. /\ UNCHANGED <<live, owned, m_freeSegments, m_tracer, index>>
      /\ m_extents' = [p \in Pages |->
            IF gapAt(p)
            THEN [kind |-> "free", len |-> (CHOOSE g \in G : p \in {g.start, End(g) - 1}).len]
            ELSE m_extents[p]]
  BY DEF FreeGaps
<1>3. PICK refused \in SUBSET G :
         /\ lost' = lost \cup refused
         /\ m_intervalTree' = m_intervalTree \cup {Space(A + g.start, g.len) : g \in G \ refused}
  BY DEF FreeGaps
<1>4. PagesAt(m_intervalTree') = PagesAt(m_intervalTree) \cup (G \ refused)
  <2> DEFINE rel(i) == [i EXCEPT !.start = @ - A]
  <2>1. ASSUME NEW x \in Int, NEW n PROVE rel(Space(x, n)) = Space(x - A, n)
    <3>1. A \in Int BY Numbers
    <3> HIDE DEF A
    <3>2. [[start |-> x, len |-> n] EXCEPT !.start = @ - A] = [start |-> x - A, len |-> n]
      BY <3>1, Moved
    <3>3. Space(x, n) = [start |-> x, len |-> n] /\ Space(x - A, n) = [start |-> x - A, len |-> n]
      BY DEF Space, Heap!Interval
    <3> QED BY <3>2, <3>3
  <2>2. PagesAt(m_intervalTree') = {rel(i) : i \in m_intervalTree'}
        /\ PagesAt(m_intervalTree) = {rel(i) : i \in m_intervalTree}
    BY DEF PagesAt
  <2> HIDE DEF rel
  <2>3. \A g \in G : rel(Space(A + g.start, g.len)) = g
    <3> SUFFICES ASSUME NEW g \in G PROVE rel(Space(A + g.start, g.len)) = g
      OBVIOUS
    <3>1. g = Space(g.start, g.len) /\ g.start \in Nat /\ A \in Nat
      BY WithinFacts, Numbers DEF Gap
    <3>2. A + g.start \in Int /\ A + g.start - A = g.start BY <3>1
    <3> QED BY <2>1, <3>1, <3>2
  <2> QED BY <1>3, <2>2, <2>3
<1>5. /\ PagesAt(m_intervalTree)' = PagesAt(m_intervalTree) \cup (G \ refused)
      /\ Freed' = Freed \cup G
  BY <1>3, <1>4 DEF PagesAt, Freed
<1>6. InUse' = InUse /\ \A b : Traced(b)' <=> Traced(b)
  BY <1>2 DEF InUse, Traced, SpaceOf
<1>7. ASSUME NEW g \in G
      PROVE  /\ g.start \in Pages /\ End(g) - 1 \in Pages
             /\ g.start \in PagesOf(g) /\ End(g) - 1 \in PagesOf(g)
             /\ Heap!Ends(g) = {g.start, End(g) - 1}
             /\ g.len \in 0 .. SegmentPages /\ g \in Heap!Intervals
             /\ SegmentOf(g.start) = SegmentOf(End(g) - 1)
             /\ \A p \in PagesOf(g) : p \in Pages /\ ~Covered(p)
             /\ g \notin Freed
  <2>1. Within(g) BY DEF Gap
  <2>2. g.len \in 0 .. SegmentPages BY <2>1, Numbers DEF Within
  <2>3. SpaceOf(g) = g BY DEF Gap, SpaceOf
  <2>4. g \in Heap!Intervals BY <2>1, <2>3, SpaceFacts
  <2>5. g.start \in PagesOf(g) BY <2>1, WithinFacts
  <2>6. \A p \in PagesOf(g) : ~Covered(p) BY DEF Gap
  <2>7. g \notin Freed BY <2>5, <2>6 DEF Covered
  <2> QED BY <2>1, <2>2, <2>4, <2>6, <2>7, WithinFacts DEF Within
<1>8. m_extents' \in [Pages -> [kind : Kinds, len : 0 .. SegmentPages]]
  <2>1. m_extents \in [Pages -> [kind : Kinds, len : 0 .. SegmentPages]]
    BY <1>1 DEF TypeOK, Kinds
  <2>2. \A p \in Pages : gapAt(p) =>
           [kind |-> "free", len |-> (CHOOSE g \in G : p \in {g.start, End(g) - 1}).len]
              \in [kind : Kinds, len : 0 .. SegmentPages]
    <3>1. \A p \in Pages : gapAt(p) => (CHOOSE g \in G : p \in {g.start, End(g) - 1}) \in G
      OBVIOUS
    <3>2. \A p \in Pages : gapAt(p) =>
             (CHOOSE g \in G : p \in {g.start, End(g) - 1}).len \in 0 .. SegmentPages
      BY <1>7, <3>1
    <3>3. "free" \in Kinds BY DEF Kinds
    <3> QED BY <3>2, <3>3
  <2> HIDE DEF gapAt
  <2> QED BY <1>2, <2>1, <2>2
<1>9. (PagesAt(m_intervalTree) \cup m_tracer \cup lost)' \subseteq Heap!Intervals
  <2>1. PagesAt(m_intervalTree) \cup m_tracer \cup lost \subseteq Heap!Intervals
    BY <1>1 DEF TypeOK
  <2> QED BY <1>2, <1>3, <1>5, <1>7, <2>1
<1>10. LiveOK' /\ TracerOK' /\ SegmentsOK'
  <2>1. LiveOK' BY <1>1, <1>2 DEF LiveOK
  <2>2. TracerOK' BY <1>1, <1>2, <1>6 DEF TracerOK, SpaceOf
  <2>3. SegmentsOK'
    <3>1. index = 0 BY <1>1 DEF SegmentsOK
    <3>2. pc' # "done" OBVIOUS
    <3> QED BY <1>1, <1>2, <1>6, <3>1, <3>2 DEF SegmentsOK
  <2> QED BY <2>1, <2>2, <2>3
<1>11. FreedOK'
  <2>1. (PagesAt(m_intervalTree) \cap lost)' = {}
    BY <1>1, <1>3, <1>5, <1>7 DEF FreedOK, Freed
  <2>2. pc' \notin {"search", "misplaced", "begin"} OBVIOUS
  <2>3. \A i \in Freed' : SegmentOf(i.start) = SegmentOf(End(i) - 1)
    BY <1>1, <1>5, <1>7 DEF FreedOK
  <2>4. \A i \in Freed' : SegmentOf(i.start) \in InUse' BY <1>1, <1>5, <1>6 DEF FreedOK, Gap
  <2>5. \A i \in Freed' : End(i) = SegmentEndOf(i.start) \/ \E b \in live' : b.start = End(i)
    BY <1>1, <1>2, <1>5 DEF FreedOK, Gap
  <2>6. \A i, j \in Freed' : i = j \/ PagesOf(i) \cap PagesOf(j) = {}
    <3>1. \A i, j \in Freed : i = j \/ PagesOf(i) \cap PagesOf(j) = {} BY <1>1 DEF FreedOK
    <3>2. \A i \in Freed, g \in G : PagesOf(i) \cap PagesOf(g) = {} BY <1>7 DEF Covered
    <3>3. \A g, h \in G : g = h \/ PagesOf(g) \cap PagesOf(h) = {} OBVIOUS
    <3> QED BY <1>5, <3>1, <3>2, <3>3
  <2>7. \A i \in Freed', b \in live' : PagesOf(i) \cap PagesOf(b) = {}
    <3>1. \A i \in Freed, b \in live : PagesOf(i) \cap PagesOf(b) = {} BY <1>1 DEF FreedOK
    <3>2. \A g \in G, b \in live : PagesOf(g) \cap PagesOf(b) = {} BY <1>7 DEF Covered
    <3> QED BY <1>2, <1>5, <3>1, <3>2
  <2> QED BY <2>1, <2>2, <2>3, <2>4, <2>5, <2>6, <2>7 DEF FreedOK
<1>12. ExtentsOK'
  <2>1. ASSUME NEW p \in Pages, Covered(p) PROVE m_extents'[p] = m_extents[p]
    <3>1. ~gapAt(p) BY <1>7, <2>1
    <3> QED BY <1>2, <3>1
  <2>2. ASSUME NEW g \in G, NEW p \in PagesOf(g)
        PROVE  m_extents'[p] = IF p \in Heap!Ends(g) THEN FreeExtent(g) ELSE Heap!NoExtent
    <3>1. p \in Pages /\ ~Covered(p) BY <1>7
    <3>2. \A h \in G : p \in {h.start, End(h) - 1} => h = g BY <1>7
    <3>3. CASE p \in {g.start, End(g) - 1}
      <4>1. gapAt(p) BY <3>3
      <4>2. (CHOOSE h \in G : p \in {h.start, End(h) - 1}) = g BY <3>2, <3>3
      <4> QED BY <1>2, <1>7, <3>1, <3>3, <4>1, <4>2 DEF FreeExtent
    <3>4. CASE p \notin {g.start, End(g) - 1}
      <4>1. ~gapAt(p) BY <3>2, <3>4
      <4>2. m_extents[p] = Heap!NoExtent BY <1>1, <3>1 DEF ExtentsOK
      <4> QED BY <1>2, <1>7, <3>1, <3>4, <4>1, <4>2
    <3> QED BY <3>3, <3>4
  <2> HIDE DEF gapAt
  <2>3. \A b \in live' : \A p \in PagesOf(b) :
          m_extents'[p] = IF Traced(b)' /\ p \in Marked(b) THEN ExtentOf(b) ELSE Heap!NoExtent
    <3> SUFFICES ASSUME NEW b \in live, NEW p \in PagesOf(b)
                 PROVE  m_extents'[p] = IF Traced(b) /\ p \in Marked(b)
                                        THEN ExtentOf(b) ELSE Heap!NoExtent
      BY <1>2, <1>6
    <3>1. p \in Pages /\ Covered(p) BY <1>1, LiveFacts, WithinFacts DEF Covered
    <3> QED BY <1>1, <2>1, <3>1 DEF ExtentsOK
  <2>4. \A i \in Freed' : \A p \in PagesOf(i) :
          m_extents'[p] = IF p \in Heap!Ends(i) THEN FreeExtent(i) ELSE Heap!NoExtent
    <3>1. ASSUME NEW i \in Freed, NEW p \in PagesOf(i)
          PROVE  m_extents'[p] = IF p \in Heap!Ends(i) THEN FreeExtent(i) ELSE Heap!NoExtent
      <4>1. p \in Pages /\ Covered(p) BY <1>1, FreedFacts, WithinFacts DEF Covered
      <4> QED BY <1>1, <2>1, <4>1 DEF ExtentsOK
    <3> QED BY <1>5, <2>2, <3>1
  <2>5. \A p \in Pages : ~Covered(p)' => m_extents'[p] = Heap!NoExtent
    <3> SUFFICES ASSUME NEW p \in Pages, ~Covered(p)' PROVE m_extents'[p] = Heap!NoExtent
      OBVIOUS
    <3>1. ~Covered(p) BY <1>2, <1>5 DEF Covered
    <3>2. \A g \in G : p \notin PagesOf(g) BY <1>5 DEF Covered
    <3>3. ~gapAt(p) BY <1>7, <3>2 DEF gapAt
    <3> QED BY <1>1, <1>2, <3>1, <3>3 DEF ExtentsOK
  <2> QED BY <2>3, <2>4, <2>5 DEF ExtentsOK, Marked, ExtentOf, FreeExtent
<1> QED BY <1>5, <1>6, <1>8, <1>9, <1>10, <1>11, <1>12

\* During the sweep every block is either behind prevEnd or still to come.
LEMMA SweepFacts ==
    ASSUME IInv, pc = "spaces"
    PROVE  /\ prevEnd \in Nat
           /\ \A b \in live :
                 /\ b.start \in Pages /\ b.start \in Nat /\ End(b) \in Nat /\ b.start < End(b)
                 /\ PagesOf(b) = b.start .. End(b) - 1
                 /\ SpaceOf(b) \in m_tracer /\ SpaceOf(b).start = b.start /\ End(SpaceOf(b)) = End(b)
                 /\ \/ End(b) <= prevEnd
                    \/ SpaceOf(b) \in todo /\ prevEnd <= b.start
<1>1. /\ TypeOK /\ LiveOK /\ TracerOK /\ SweepOK BY DEF IInv
<1>2. prevEnd \in Nat
  <2>1. SegmentNum * SegmentPages \in Nat BY Numbers
  <2> DEFINE e == SegmentNum * SegmentPages
  <2> HIDE DEF e
  <2>2. prevEnd \in 0 .. e /\ e \in Nat BY <1>1, <2>1 DEF TypeOK, e
  <2> QED BY <2>2
<1>3. ASSUME NEW b \in live
      PROVE  /\ b.start \in Pages /\ b.start \in Nat /\ End(b) \in Nat /\ b.start < End(b)
             /\ PagesOf(b) = b.start .. End(b) - 1
             /\ SpaceOf(b) \in m_tracer /\ SpaceOf(b).start = b.start /\ End(SpaceOf(b)) = End(b)
             /\ \/ End(b) <= prevEnd
                \/ SpaceOf(b) \in todo /\ prevEnd <= b.start
  <2>1. Within(b) BY <1>1, LiveFacts
  <2>2. b.start \in Pages /\ b.start \in Nat /\ b.len \in Nat /\ 1 <= b.len /\ End(b) \in Nat
        /\ End(b) = b.start + b.len /\ PagesOf(b) = b.start .. End(b) - 1
    BY <2>1, WithinFacts
  <2>3. b.start < End(b) BY <2>2
  <2>4. SpaceOf(b) \in m_tracer BY <1>1 DEF TracerOK, Traced
  <2>5. SpaceOf(b).start = b.start /\ End(SpaceOf(b)) = End(b) BY <2>1, SpaceFacts
  <2>6. CASE SpaceOf(b) \in todo BY <1>1, <2>2, <2>3, <2>4, <2>5, <2>6 DEF SweepOK
  <2>7. CASE SpaceOf(b) \notin todo BY <1>1, <2>2, <2>3, <2>4, <2>5, <2>7 DEF SweepOK
  <2> QED BY <2>2, <2>3, <2>4, <2>5, <2>6, <2>7
<1> QED BY <1>2, <1>3

LEMMA NextSpace ==
    ASSUME IInv, pc = "spaces", todo # {}, NEW n, n = First(todo)
    PROVE  /\ n \in todo /\ n \in m_tracer /\ \A t \in todo : n.start <= t.start
           /\ n.start \in Pages /\ n.start \in Nat /\ End(n) \in Nat /\ n.start < End(n)
           /\ PagesOf(n) = n.start .. End(n) - 1
           /\ prevEnd \in Nat /\ prevEnd <= n.start /\ prevEnd \in Pages
           /\ SegmentOf(n.start) \in InUse
           /\ \E b \in live : b.start = n.start /\ PagesOf(b) = PagesOf(n)
           /\ End(n) - 1 \in Pages
<1>1. /\ TypeOK /\ LiveOK /\ TracerOK /\ SweepOK BY DEF IInv
<1>2. todo \subseteq m_tracer BY <1>1 DEF TypeOK
<1>3. \A t \in todo : t.start \in Nat BY <1>1, <1>2, TracerFacts
<1>4. n \in todo /\ \A t \in todo : n.start <= t.start BY <1>3, FirstIs
<1>5. /\ n \in m_tracer /\ Within(n) /\ n.start \in Nat /\ End(n) \in Nat /\ n.start < End(n)
      /\ SegmentOf(n.start) \in InUse
      /\ \E b \in live : b.start = n.start /\ PagesOf(b) = PagesOf(n)
  BY <1>1, <1>2, <1>4, TracerFacts
<1>6. n.start \in Pages /\ PagesOf(n) = n.start .. End(n) - 1 /\ End(n) - 1 \in Pages
  BY <1>5, WithinFacts
<1>7. prevEnd \in Nat /\ prevEnd <= n.start BY <1>1, <1>4, SweepFacts DEF SweepOK
<1>8. prevEnd \in Pages
  <2>1. SegmentStartOf(n.start) \in Nat /\ 0 \in Pages
    <3>1. 0 \in Segments /\ Heap!SegmentStart(0) = 0 * SegmentPages /\ SegmentPages \in Nat
      BY Numbers
    <3>2. 0 * SegmentPages = 0 BY <3>1
    <3> QED BY <1>6, <3>1, <3>2, Segmentation
  <2>2. prevEnd \in Int /\ 0 <= prevEnd /\ prevEnd <= n.start BY <1>7
  <2>3. \A p, q \in Pages, r \in Int : p <= r /\ r <= q => r \in Pages BY Segmentation
  <2> QED BY <1>6, <2>1, <2>2, <2>3
<1> QED BY <1>4, <1>5, <1>6, <1>7, <1>8

\* A segment in use that the sweep passes over is that of prevEnd or of the next
\* space.
LEMMA Between ==
    ASSUME IInv, pc = "spaces", todo # {}, NEW n, n = First(todo),
           NEW p \in Pages, prevEnd <= p, p < n.start, SegmentOf(p) \in InUse
    PROVE  SegmentOf(p) = SegmentOf(prevEnd) \/ SegmentOf(p) = SegmentOf(n.start)
<1> SUFFICES ASSUME SegmentOf(p) # SegmentOf(prevEnd), SegmentOf(p) # SegmentOf(n.start)
             PROVE  FALSE
  OBVIOUS
<1>1. PICK b \in live : SegmentOf(b.start) = SegmentOf(p) BY DEF InUse
<1>2. /\ n.start \in Pages /\ n.start \in Nat /\ prevEnd \in Nat /\ prevEnd \in Pages
      /\ \A t \in todo : n.start <= t.start
  BY NextSpace
<1>3. /\ b.start \in Pages /\ b.start \in Nat /\ End(b) \in Nat /\ b.start < End(b)
      /\ SpaceOf(b).start = b.start
      /\ End(b) <= prevEnd \/ SpaceOf(b) \in todo
  BY SweepFacts
<1>4. /\ p \in Nat /\ p < SegmentEndOf(p)
      /\ SegmentEndOf(b.start) = SegmentEndOf(p) /\ b.start < SegmentEndOf(p)
      /\ SegmentEndOf(p) \in Nat
  <2>1. SegmentEndOf(b.start) = SegmentEndOf(p) BY <1>1 DEF SegmentEndOf, SegmentStartOf
  <2> QED BY <1>3, <2>1, Segmentation
<1>5. CASE SpaceOf(b) \in todo
  <2>1. n.start <= b.start BY <1>2, <1>3, <1>5
  <2>2. SegmentEndOf(p) <= SegmentStartOf(n.start) BY <1>2, <1>4, Segmentation
  <2>3. SegmentStartOf(n.start) <= n.start /\ SegmentStartOf(n.start) \in Nat
    BY <1>2, Segmentation
  <2> QED BY <1>2, <1>3, <1>4, <2>1, <2>2, <2>3
<1>6. CASE End(b) <= prevEnd
  <2>1. b.start <= prevEnd BY <1>2, <1>3, <1>6
  <2>2. SegmentOf(b.start) # SegmentOf(prevEnd) BY <1>1
  <2>3. SegmentEndOf(b.start) <= SegmentStartOf(prevEnd)
    BY <1>2, <1>3, <2>1, <2>2, Segmentation
  <2>4. SegmentStartOf(prevEnd) <= prevEnd /\ SegmentStartOf(prevEnd) \in Nat
    BY <1>2, Segmentation
  <2> QED BY <1>2, <1>4, <2>3, <2>4
<1> QED BY <1>3, <1>5, <1>6

LEMMA Advance ==
    ASSUME IInv, pc = "spaces", todo # {}, NEW n, n = First(todo),
           prevEnd' = End(n), todo' = todo \ {n}, pc' = pc,
           m_tracer' = m_tracer, live' = live, InUse' = InUse,
           \A i \in Freed : i \in Freed',
           \A i \in Freed' : i \in Freed \/ End(i) <= n.start,
           \A i \in Freed' : End(i) \in Nat,
           \A p \in Pages :
              prevEnd <= p /\ p < n.start /\ SegmentOf(p) \in InUse => Covered(p)'
    PROVE  /\ SweepOK' /\ SweptOK'
           /\ prevEnd' \in 0 .. SegmentNum * SegmentPages
<1>1. TypeOK /\ LiveOK /\ TracerOK /\ SweepOK BY DEF IInv
<1>2. /\ n \in todo /\ n \in m_tracer /\ \A t \in todo : n.start <= t.start
      /\ n.start \in Nat /\ End(n) \in Nat /\ n.start < End(n)
      /\ PagesOf(n) = n.start .. End(n) - 1
      /\ prevEnd \in Nat /\ prevEnd <= n.start
      /\ \E b \in live : PagesOf(b) = PagesOf(n)
      /\ End(n) - 1 \in Pages
  BY NextSpace
<1>3. todo \subseteq m_tracer /\ \A t \in m_tracer : t.start \in Nat /\ End(t) \in Nat /\ t.start < End(t)
  BY <1>1, TracerFacts DEF TypeOK
<1>4. \A t \in todo' : End(n) <= t.start
  <2> SUFFICES ASSUME NEW t \in todo, t # n PROVE End(n) <= t.start OBVIOUS
  <2>1. n.start <= t.start BY <1>2
  <2>2. End(n) <= t.start \/ End(t) <= n.start BY <1>1, <1>2, <1>3, TracerFacts
  <2> QED BY <1>2, <1>3, <2>1, <2>2
<1>5. \A i \in m_tracer' \ todo' : End(i) <= End(n)
  <2> SUFFICES ASSUME NEW i \in m_tracer, i # n, i \notin todo PROVE End(i) <= End(n)
    BY <1>2
  <2>1. End(i) <= prevEnd BY <1>1 DEF SweepOK
  <2> QED BY <1>2, <1>3, <2>1
<1>6. \A i \in Freed' : End(i) <= End(n)
  <2> SUFFICES ASSUME NEW i \in Freed' PROVE End(i) <= End(n) OBVIOUS
  <2>1. i \in Freed => End(i) <= prevEnd BY <1>1 DEF SweepOK
  <2> QED BY <1>2, <2>1
<1>7. \A p \in Pages : p < End(n) /\ SegmentOf(p) \in InUse => Covered(p)'
  <2> SUFFICES ASSUME NEW p \in Pages, p < End(n), SegmentOf(p) \in InUse PROVE Covered(p)'
    OBVIOUS
  <2>1. p \in Nat BY Segmentation
  <2>2. CASE p < prevEnd
    <3>1. Covered(p) BY <1>1, <2>2 DEF SweepOK
    <3> QED BY <3>1 DEF Covered
  <2>3. CASE prevEnd <= p /\ p < n.start BY <2>3
  <2>4. CASE n.start <= p
    <3>1. p \in PagesOf(n) BY <1>2, <2>1, <2>4
    <3> QED BY <1>2, <3>1 DEF Covered
  <2> QED BY <1>2, <2>1, <2>2, <2>3, <2>4
<1>8. SweepOK'
  <2>1. \E i \in m_tracer' \ todo' : prevEnd' = End(i) BY <1>2
  <2> QED BY <1>4, <1>5, <1>6, <1>7, <2>1 DEF SweepOK
<1>9. SweptOK' BY DEF SweptOK
<1>10. prevEnd' \in 0 .. SegmentNum * SegmentPages
  <2>1. SegmentNum * SegmentPages \in Nat /\ Pages = 0 .. SegmentNum * SegmentPages - 1
    BY Numbers
  <2> DEFINE e == SegmentNum * SegmentPages
  <2> HIDE DEF e
  <2>2. End(n) - 1 \in 0 .. e - 1 /\ e \in Nat BY <1>2, <2>1 DEF e
  <2>3. End(n) \in 0 .. e BY <1>2, <2>2
  <2> QED BY <2>3 DEF e
<1> QED BY <1>8, <1>9, <1>10

LEMMA SkipSpaceKeeps ==
    ASSUME IInv, SkipSpace
    PROVE  IInv'
<1> DEFINE n == First(todo)
<1>1. /\ pc = "spaces" /\ todo # {} /\ prevEnd = n.start /\ prevEnd' = End(n)
      /\ todo' = todo \ {n} /\ pc' = pc
      /\ UNCHANGED <<live, owned, m_freeSegments, m_extents, m_intervalTree, m_tracer, index, lost>>
  BY DEF SkipSpace
<1> HIDE DEF n
<1>2. /\ TypeOK /\ LiveOK /\ TracerOK /\ FreedOK /\ ExtentsOK /\ SweepOK /\ SweptOK /\ SegmentsOK
  BY DEF IInv
<1>3. /\ Freed' = Freed /\ PagesAt(m_intervalTree)' = PagesAt(m_intervalTree)
      /\ InUse' = InUse
  BY <1>1 DEF Freed, PagesAt, InUse
<1>4. \A b : Traced(b)' <=> Traced(b) BY <1>1 DEF Traced, SpaceOf
<1>5. \A p : Covered(p)' <=> Covered(p) BY <1>1, <1>3 DEF Covered
<1>6. \A i \in Freed' : End(i) \in Nat BY <1>2, <1>3, FreedFacts, WithinFacts
<1>7. \A p \in Pages : ~(prevEnd <= p /\ p < n.start)
  <2>1. n.start \in Nat BY <1>1, NextSpace DEF n
  <2> QED BY <1>1, <2>1, Segmentation
<1>8. SweepOK' /\ SweptOK' /\ prevEnd' \in 0 .. SegmentNum * SegmentPages
  <2>1. n = First(todo) BY DEF n
  <2> QED BY <1>1, <1>3, <1>6, <1>7, <2>1, Advance
<1>9. TypeOK' BY <1>1, <1>2, <1>3, <1>8 DEF TypeOK
<1>10. LiveOK' BY <1>1, <1>2 DEF LiveOK
<1>11. TracerOK' BY <1>1, <1>2, <1>4 DEF TracerOK, SpaceOf
<1>12. FreedOK' BY <1>1, <1>2, <1>3 DEF FreedOK
<1>13. ExtentsOK' BY <1>1, <1>2, <1>3, <1>4, <1>5 DEF ExtentsOK, Marked, ExtentOf
<1>14. SegmentsOK' BY <1>1, <1>2, <1>3 DEF SegmentsOK
<1> QED BY <1>8, <1>9, <1>10, <1>11, <1>12, <1>13, <1>14 DEF IInv

\* What lies between the last space and the next one, or the end of a segment.
LEMMA GapIs ==
    ASSUME IInv, pc = "spaces", NEW from \in Pages, NEW to \in Nat,
           prevEnd <= from, from < to, to <= SegmentEndOf(from), to - from < SegmentPages,
           SegmentOf(from) \in InUse,
           to = SegmentEndOf(from) \/ \E b \in live : b.start = to,
           \A b \in live : End(b) <= prevEnd \/ to <= b.start,
           NEW g, g = Space(from, to - from)
    PROVE  Gap(g) /\ g.start = from /\ End(g) = to /\ PagesOf(g) = from .. to - 1
<1>1. TypeOK /\ LiveOK /\ FreedOK /\ SweepOK BY DEF IInv
<1>2. g.start = from /\ g.len = to - from BY DEF Space, Heap!Interval
<1>3. /\ from \in Nat /\ prevEnd \in Nat /\ SegmentPages \in Nat
      /\ SegmentStartOf(from) \in Nat /\ SegmentStartOf(from) <= from
      /\ SegmentEndOf(from) \in Nat
  BY SweepFacts, Segmentation, Numbers
<1>4. End(g) = to /\ g.len \in 1 .. SegmentPages - 1 BY <1>2, <1>3 DEF End
<1>5. SegmentOf(to - 1) = SegmentOf(from)
  <2>1. to - 1 \in Int /\ SegmentStartOf(from) <= to - 1 /\ to - 1 < SegmentEndOf(from)
    BY <1>3
  <2> QED BY <2>1, Segmentation
<1>6. Within(g) BY <1>2, <1>4, <1>5 DEF Within
<1>7. PagesOf(g) = from .. to - 1 BY <1>2, <1>4, <1>6, WithinFacts
<1>8. ASSUME NEW p \in PagesOf(g) PROVE ~Covered(p)
  <2>1. p \in Int /\ from <= p /\ p < to BY <1>3, <1>7
  <2>2. ASSUME NEW b \in live PROVE p \notin PagesOf(b)
    <3>1. b.start \in Nat /\ End(b) \in Nat /\ PagesOf(b) = b.start .. End(b) - 1
      BY SweepFacts
    <3>2. End(b) <= prevEnd \/ to <= b.start OBVIOUS
    <3> QED BY <1>3, <2>1, <3>1, <3>2
  <2>3. ASSUME NEW i \in Freed PROVE p \notin PagesOf(i)
    <3>1. i.start \in Nat /\ End(i) \in Nat /\ PagesOf(i) = i.start .. End(i) - 1
      BY <1>1, FreedFacts, WithinFacts
    <3>2. End(i) <= prevEnd BY <1>1 DEF SweepOK
    <3> QED BY <1>3, <2>1, <3>1, <3>2
  <2> QED BY <2>2, <2>3 DEF Covered
<1> QED BY <1>2, <1>4, <1>6, <1>7, <1>8 DEF Gap

\* The gaps up to the next space cover what is not covered of segments in use.
LEMMA GapsBetween ==
    ASSUME IInv, pc = "spaces", todo # {}, NEW n, n = First(todo),
           prevEnd # n.start, ~Overruns(n), NEW G, G = Gaps(prevEnd, n.start)
    PROVE  /\ \A g \in G : Gap(g) /\ End(g) <= n.start /\ End(g) \in Nat
           /\ \A g, h \in G : \A p : p \in PagesOf(g) /\ p \in PagesOf(h) => g = h
           /\ \A p \in Pages : prevEnd <= p /\ p < n.start /\ SegmentOf(p) \in InUse
                                  => \E g \in G : p \in PagesOf(g)
<1> DEFINE q == prevEnd
<1>1. /\ n.start \in Pages /\ n.start \in Nat /\ q \in Pages /\ q \in Nat /\ q < n.start
      /\ \A t \in todo : n.start <= t.start
      /\ SegmentOf(n.start) \in InUse /\ \E b \in live : b.start = n.start
  BY NextSpace
<1>2. \A b \in live : End(b) <= prevEnd \/ n.start <= b.start
  <2> SUFFICES ASSUME NEW b \in live, ~(End(b) <= prevEnd) PROVE n.start <= b.start OBVIOUS
  <2>1. SpaceOf(b) \in todo /\ SpaceOf(b).start = b.start BY SweepFacts
  <2> QED BY <1>1, <2>1
<1>3. /\ SegmentStartOf(q) \in Nat /\ SegmentEndOf(q) \in Nat
      /\ SegmentEndOf(q) = SegmentStartOf(q) + SegmentPages
      /\ SegmentStartOf(q) <= q /\ q < SegmentEndOf(q)
      /\ SegmentStartOf(n.start) \in Nat /\ SegmentEndOf(n.start) \in Nat
      /\ SegmentEndOf(n.start) = SegmentStartOf(n.start) + SegmentPages
      /\ SegmentStartOf(n.start) <= n.start /\ n.start < SegmentEndOf(n.start)
      /\ SegmentPages \in Nat
  BY <1>1, Segmentation, Numbers
<1>4. CASE SegmentOf(q) = SegmentOf(n.start)
  <2> DEFINE g == Space(q, n.start - q)
  <2>1. G = {g} BY <1>4 DEF Gaps
  <2>2. SegmentStartOf(q) = SegmentStartOf(n.start) /\ SegmentEndOf(q) = SegmentEndOf(n.start)
    BY <1>4 DEF SegmentStartOf, SegmentEndOf
  <2>3. q <= q /\ n.start <= SegmentEndOf(q) /\ n.start - q < SegmentPages
    BY <1>1, <1>3, <2>2
  <2>4. g = Space(q, n.start - q) OBVIOUS
  <2> HIDE DEF g
  <2>5. Gap(g) /\ g.start = q /\ End(g) = n.start /\ PagesOf(g) = q .. n.start - 1
    BY <1>1, <1>2, <1>4, <2>3, <2>4, GapIs
  <2>6. \A p \in Pages : q <= p /\ p < n.start => p \in PagesOf(g) BY <1>1, <2>5, Segmentation
  <2> QED BY <1>1, <2>1, <2>5, <2>6
<1>5. CASE SegmentOf(q) # SegmentOf(n.start)
  <2> DEFINE g == Space(q, SegmentEndOf(q) - q)
             f == SegmentStartOf(n.start)
             h == Space(f, n.start - f)
  <2>1. SegmentEndOf(q) <= f BY <1>1, <1>5, Segmentation
  <2>2. q # SegmentStartOf(q) BY <1>5 DEF Overruns
  <2>3. SegmentOf(q) \in InUse
    <3>1. TypeOK /\ LiveOK /\ TracerOK /\ SweepOK BY DEF IInv
    <3>2. ~\E t \in todo : q = SegmentStartOf(t.start)
      <4> SUFFICES ASSUME NEW t \in todo, q = SegmentStartOf(t.start) PROVE FALSE OBVIOUS
      <4>1. t.start \in Pages BY <3>1, TracerFacts DEF TypeOK, Within
      <4>2. SegmentOf(t.start) \in Segments BY <4>1, Segmentation
      <4>3. SegmentOf(q) = SegmentOf(t.start) BY <4>2, Segmentation DEF SegmentStartOf
      <4> QED BY <2>2, <4>3 DEF SegmentStartOf
    <3>3. PICK i \in m_tracer : q = End(i) BY <3>1, <3>2 DEF SweepOK
    <3>4. Within(i) /\ SegmentOf(i.start) \in InUse BY <3>1, TracerFacts
    <3>5. SegmentOf(i.start) = SegmentOf(q - 1) BY <3>3, <3>4 DEF Within
    <3>6. SegmentStartOf(q) <= q - 1 /\ q - 1 < SegmentEndOf(q) /\ q - 1 \in Int
      BY <1>1, <1>3, <2>2
    <3>7. SegmentOf(q - 1) = SegmentOf(q) BY <1>1, <3>6, Segmentation
    <3> QED BY <3>4, <3>5, <3>7
  <2>4. Gap(g) /\ g.start = q /\ End(g) = SegmentEndOf(q) /\ PagesOf(g) = q .. SegmentEndOf(q) - 1
    <3>1. g = Space(q, SegmentEndOf(q) - q) OBVIOUS
    <3>2. q <= q /\ SegmentEndOf(q) <= SegmentEndOf(q) /\ SegmentEndOf(q) - q < SegmentPages
      BY <1>1, <1>3, <2>2
    <3>3. \A b \in live : End(b) <= prevEnd \/ SegmentEndOf(q) <= b.start
      <4> SUFFICES ASSUME NEW b \in live, ~(End(b) <= prevEnd) PROVE SegmentEndOf(q) <= b.start
        OBVIOUS
      <4>1. n.start <= b.start /\ b.start \in Nat BY <1>2, SweepFacts
      <4> HIDE DEF q
      <4> QED BY <1>1, <1>3, <2>1, <4>1
    <3> HIDE DEF g
    <3> QED BY <1>1, <1>3, <2>3, <3>1, <3>2, <3>3, GapIs
  <2>5. f \in Pages /\ SegmentOf(f) = SegmentOf(n.start)
        /\ SegmentStartOf(f) = f /\ SegmentEndOf(f) = SegmentEndOf(n.start)
    <3>1. SegmentOf(n.start) \in Segments BY <1>1, Segmentation
    <3>2. f \in Pages /\ SegmentOf(f) = SegmentOf(n.start)
      BY <3>1, Segmentation DEF SegmentStartOf
    <3> QED BY <3>2 DEF SegmentStartOf, SegmentEndOf
  <2>6. ASSUME f < n.start
        PROVE  Gap(h) /\ h.start = f /\ End(h) = n.start /\ PagesOf(h) = f .. n.start - 1
    <3>1. h = Space(f, n.start - f) OBVIOUS
    <3>2. prevEnd <= f /\ n.start <= SegmentEndOf(f) /\ n.start - f < SegmentPages
      BY <1>1, <1>3, <2>1, <2>5
    <3>3. SegmentOf(f) \in InUse BY <1>1, <2>5
    <3> HIDE DEF h, f
    <3> QED BY <1>1, <1>2, <2>5, <2>6, <3>1, <3>2, <3>3, GapIs
  <2>7. G = {g} \cup {i \in {h} : i.len > 0} BY <1>5 DEF Gaps
  <2>8. h.len = n.start - f BY DEF Space, Heap!Interval
  <2>9. G = IF f < n.start THEN {g, h} ELSE {g}
    <3>1. h.len > 0 <=> f < n.start BY <1>1, <1>3, <2>8
    <3> HIDE DEF g, h, f
    <3> QED BY <2>7, <3>1
  <2> HIDE DEF g, h, f
  <2>10. \A i \in G : Gap(i) /\ End(i) <= n.start /\ End(i) \in Nat
    <3>1. f <= n.start /\ SegmentEndOf(q) <= n.start BY <1>1, <1>3, <2>1 DEF f
    <3> QED BY <1>1, <1>3, <2>4, <2>6, <2>9, <3>1
  <2>11. \A p : f < n.start => ~(p \in PagesOf(g) /\ p \in PagesOf(h))
    <3> SUFFICES ASSUME NEW p, f < n.start, p \in PagesOf(g), p \in PagesOf(h) PROVE FALSE
      OBVIOUS
    <3>1. f \in Nat BY <1>3 DEF f
    <3> QED BY <1>1, <1>3, <2>1, <2>4, <2>6, <3>1
  <2>12. \A i, j \in G : \A p : p \in PagesOf(i) /\ p \in PagesOf(j) => i = j
    BY <2>9, <2>11
  <2>13. ASSUME NEW p \in Pages, q <= p, p < n.start, SegmentOf(p) \in InUse
         PROVE  \E i \in G : p \in PagesOf(i)
    <3>1. SegmentOf(p) = SegmentOf(q) \/ SegmentOf(p) = SegmentOf(n.start) BY <2>13, Between
    <3>2. p \in Nat /\ SegmentStartOf(p) <= p /\ p < SegmentEndOf(p) BY Segmentation
    <3>3. CASE SegmentOf(p) = SegmentOf(q)
      <4>1. SegmentEndOf(p) = SegmentEndOf(q) BY <3>3 DEF SegmentEndOf, SegmentStartOf
      <4>2. p \in PagesOf(g) BY <1>1, <1>3, <2>4, <2>13, <3>2, <4>1
      <4> QED BY <2>9, <4>2
    <3>4. CASE SegmentOf(p) = SegmentOf(n.start)
      <4>1. SegmentStartOf(p) = f BY <3>4 DEF f, SegmentStartOf
      <4>2. f <= p /\ f < n.start /\ f \in Nat BY <1>1, <1>3, <2>13, <3>2, <4>1 DEF f
      <4>3. p \in PagesOf(h) BY <1>1, <2>6, <2>13, <3>2, <4>2
      <4> QED BY <2>9, <4>2, <4>3
    <3> QED BY <3>1, <3>3, <3>4
  <2> QED BY <2>10, <2>12, <2>13 DEF q
<1> QED BY <1>4, <1>5

LEMMA FreeBetweenKeeps ==
    ASSUME IInv, FreeBetween
    PROVE  IInv'
<1> DEFINE n == First(todo)
           G == Gaps(prevEnd, n.start)
<1>1. /\ pc = "spaces" /\ todo # {} /\ prevEnd # n.start /\ ~Overruns(n)
      /\ prevEnd' = End(n) /\ todo' = todo \ {n} /\ pc' = pc
      /\ FreeGaps(G)
  BY DEF FreeBetween
<1>2. UNCHANGED <<live, owned, m_freeSegments, m_tracer, index>> BY <1>1 DEF FreeGaps
<1>3. n = First(todo) /\ G = Gaps(prevEnd, n.start) OBVIOUS
<1> HIDE DEF n, G
<1>4. /\ \A g \in G : Gap(g) /\ End(g) <= n.start /\ End(g) \in Nat
      /\ \A g, h \in G : \A p : p \in PagesOf(g) /\ p \in PagesOf(h) => g = h
      /\ \A p \in Pages : prevEnd <= p /\ p < n.start /\ SegmentOf(p) \in InUse
                             => \E g \in G : p \in PagesOf(g)
  BY <1>1, <1>3, GapsBetween
<1>5. /\ Freed' = Freed \cup G /\ InUse' = InUse
      /\ m_extents' \in [Pages -> [kind : Kinds, len : 0 .. SegmentPages]]
      /\ (PagesAt(m_intervalTree) \cup m_tracer \cup lost)' \subseteq Heap!Intervals
      /\ LiveOK' /\ TracerOK' /\ FreedOK' /\ ExtentsOK' /\ SegmentsOK'
  <2>1. pc' \in {"spaces", "segments"} BY <1>1
  <2> QED BY <1>1, <1>4, <2>1, GapsEntered
<1>6. TypeOK /\ FreedOK BY DEF IInv
<1>7. SweepOK' /\ SweptOK' /\ prevEnd' \in 0 .. SegmentNum * SegmentPages
  <2>1. \A i \in Freed : End(i) \in Nat BY <1>6, FreedFacts, WithinFacts
  <2>2. \A i \in Freed' : End(i) \in Nat BY <1>4, <1>5, <2>1
  <2>3. \A i \in Freed' : i \in Freed \/ End(i) <= n.start BY <1>4, <1>5
  <2>4. \A p \in Pages :
           prevEnd <= p /\ p < n.start /\ SegmentOf(p) \in InUse => Covered(p)'
    BY <1>4, <1>5 DEF Covered
  <2>5. \A i \in Freed : i \in Freed' BY <1>5
  <2> QED BY <1>1, <1>2, <1>3, <1>5, <2>2, <2>3, <2>4, <2>5, Advance
<1>8. TypeOK'
  <2>1. todo' \subseteq m_tracer' BY <1>1, <1>2, <1>6 DEF TypeOK
  <2> QED BY <1>1, <1>2, <1>5, <1>6, <1>7, <2>1 DEF TypeOK, Kinds
<1> QED BY <1>5, <1>7, <1>8 DEF IInv

LEMMA FreeRestKeeps ==
    ASSUME IInv, FreeRest
    PROVE  IInv'
<1> DEFINE q == prevEnd
           m == MaxAddr
           g == Space(q, m - q)
           G == {i \in {g} : i.len > 0}
<1>1. /\ pc = "spaces" /\ todo = {} /\ pc' = "segments" /\ todo' = todo /\ prevEnd' = prevEnd
      /\ FreeGaps(G)
  BY DEF FreeRest
<1>2. UNCHANGED <<live, owned, m_freeSegments, m_tracer, index>> BY <1>1 DEF FreeGaps
<1>3. TypeOK /\ LiveOK /\ TracerOK /\ FreedOK /\ SweepOK BY DEF IInv
<1>4. PICK i \in m_tracer : q = End(i) BY <1>1, <1>3 DEF SweepOK
<1>5. /\ q \in Nat /\ q - 1 \in Pages /\ q - 1 \in Int
      /\ SegmentOf(q - 1) = SegmentOf(i.start) /\ SegmentOf(q - 1) \in InUse
  BY <1>1, <1>3, <1>4, TracerFacts, WithinFacts, SweepFacts DEF Within
<1>6. \A b \in live : b.start \in Pages /\ b.start \in Nat /\ End(b) <= q /\ b.start < q
  <2> SUFFICES ASSUME NEW b \in live
               PROVE  b.start \in Pages /\ b.start \in Nat /\ End(b) <= q /\ b.start < q
    OBVIOUS
  <2>1. /\ b.start \in Pages /\ b.start \in Nat /\ End(b) \in Nat /\ b.start < End(b)
        /\ End(b) <= prevEnd
    BY <1>1, SweepFacts
  <2> QED BY <1>5, <2>1
<1>7. /\ m = SegmentEndOf(q - 1) /\ m \in Nat /\ q <= m
      /\ SegmentStartOf(q - 1) \in Nat /\ SegmentStartOf(q - 1) <= q - 1
      /\ m = SegmentStartOf(q - 1) + SegmentPages /\ SegmentPages \in Nat
      /\ m - q < SegmentPages
  <2>1. m = SegmentEndOf(q - 1) BY DEF MaxAddr
  <2>2. /\ SegmentEndOf(q - 1) \in Nat /\ q - 1 < SegmentEndOf(q - 1)
        /\ SegmentStartOf(q - 1) \in Nat /\ SegmentStartOf(q - 1) <= q - 1
        /\ SegmentEndOf(q - 1) = SegmentStartOf(q - 1) + SegmentPages /\ SegmentPages \in Nat
    BY <1>5, Segmentation, Numbers
  <2> HIDE DEF m, q
  <2> QED BY <1>5, <2>1, <2>2
<1>8. g.len = m - q /\ g = Space(q, m - q) BY DEF Space, Heap!Interval
<1>9. G = IF q < m THEN {g} ELSE {}
  <2> HIDE DEF m, q, g
  <2>1. g.len > 0 <=> q < m BY <1>5, <1>7, <1>8
  <2> QED BY <2>1
<1>10. ASSUME q < m
       PROVE  Gap(g) /\ PagesOf(g) = q .. m - 1
  <2>1. q \in Pages /\ SegmentOf(q) = SegmentOf(q - 1)
    <3> HIDE DEF m, q
    <3>1. SegmentStartOf(q - 1) <= q /\ q < SegmentEndOf(q - 1) /\ q \in Int
      BY <1>5, <1>7, <1>10
    <3> QED BY <1>5, <3>1, Segmentation
  <2>2. m = SegmentEndOf(q) BY <1>7, <2>1 DEF SegmentEndOf, SegmentStartOf
  <2>3. SegmentOf(q) \in InUse BY <1>5, <2>1
  <2>4. q <= q /\ m <= SegmentEndOf(q) BY <1>5, <1>7, <2>2
  <2> HIDE DEF m, g
  <2> QED BY <1>1, <1>6, <1>7, <1>8, <1>10, <2>1, <2>2, <2>3, <2>4, GapIs
<1> HIDE DEF m, g, G
<1>11. \A i1 \in G : Gap(i1) BY <1>9, <1>10
<1>12. \A i1, i2 \in G : \A p : p \in PagesOf(i1) /\ p \in PagesOf(i2) => i1 = i2 BY <1>9
<1>13. /\ Freed' = Freed \cup G /\ InUse' = InUse
       /\ m_extents' \in [Pages -> [kind : Kinds, len : 0 .. SegmentPages]]
       /\ (PagesAt(m_intervalTree) \cup m_tracer \cup lost)' \subseteq Heap!Intervals
       /\ LiveOK' /\ TracerOK' /\ FreedOK' /\ ExtentsOK' /\ SegmentsOK'
  BY <1>1, <1>11, <1>12, GapsEntered
<1>14. ASSUME NEW p \in Pages, SegmentOf(p) \in InUse
       PROVE  Covered(p)'
  <2>1. p \in Nat BY Segmentation
  <2>2. CASE p < q
    <3>1. Covered(p) BY <1>1, <1>3, <1>14, <2>2 DEF SweepOK
    <3> QED BY <1>2, <1>13, <3>1 DEF Covered
  <2>3. CASE q <= p /\ p < m
    <3>1. q < m BY <1>5, <1>7, <2>1, <2>3
    <3>2. p \in PagesOf(g) /\ g \in G BY <1>5, <1>7, <1>9, <1>10, <2>1, <2>3, <3>1
    <3> QED BY <1>13, <3>2 DEF Covered
  <2>4. CASE m <= p
    <3>1. PICK b \in live : SegmentOf(b.start) = SegmentOf(p) BY <1>14 DEF InUse
    <3>2. SegmentEndOf(b.start) = SegmentEndOf(p) BY <3>1 DEF SegmentEndOf, SegmentStartOf
    <3>3. p < SegmentEndOf(p) /\ SegmentEndOf(p) \in Nat BY Segmentation
    <3>4. b.start \in Pages /\ b.start \in Nat /\ b.start <= q - 1 BY <1>5, <1>6
    <3>5. SegmentOf(b.start) # SegmentOf(q - 1)
      <4>1. SegmentOf(b.start) = SegmentOf(q - 1) => SegmentEndOf(b.start) = m
        BY <1>7 DEF SegmentEndOf, SegmentStartOf
      <4> QED BY <1>7, <2>1, <2>4, <3>2, <3>3, <4>1
    <3>6. SegmentEndOf(b.start) <= SegmentStartOf(q - 1)
      BY <1>5, <3>4, <3>5, Segmentation
    <3> HIDE DEF q
    <3> QED BY <1>5, <1>7, <2>1, <2>4, <3>2, <3>3, <3>6
  <2> QED BY <1>5, <1>7, <2>1, <2>2, <2>3, <2>4
<1>15. SweepOK' BY <1>1 DEF SweepOK
<1>16. SweptOK' BY <1>1, <1>13, <1>14 DEF SweptOK
<1>17. TypeOK' BY <1>1, <1>2, <1>3, <1>13 DEF TypeOK, Kinds
<1> QED BY <1>13, <1>15, <1>16, <1>17 DEF IInv

\* The extent at the start of a segment tells whether anything was found there.
LEMMA SegmentMarked ==
    ASSUME IInv, pc = "segments", NEW s \in Segments
    PROVE  Unknown(Heap!SegmentStart(s)) <=> s \notin InUse
<1> DEFINE p == Heap!SegmentStart(s)
<1>1. /\ TypeOK /\ LiveOK /\ TracerOK /\ FreedOK /\ ExtentsOK /\ SweptOK BY DEF IInv
<1>2. p \in Pages /\ SegmentOf(p) = s /\ p \in Nat BY Segmentation
<1>3. ASSUME s \in InUse PROVE ~Unknown(p)
  <2>1. Covered(p) BY <1>1, <1>2, <1>3 DEF SweptOK
  <2>2. ASSUME NEW i, Within(i), p \in PagesOf(i) PROVE p = i.start
    <3>1. SegmentOf(i.start) = s /\ i.start \in Pages /\ i.start \in Nat /\ i.start <= p
      BY <1>2, <2>2, WithinFacts
    <3>2. SegmentStartOf(i.start) = p BY <3>1 DEF SegmentStartOf
    <3> QED BY <1>2, <3>1, <3>2, Segmentation
  <2> HIDE DEF p
  <2>3. CASE \E b \in live : p \in PagesOf(b)
    <3>1. PICK b \in live : p \in PagesOf(b) BY <2>3
    <3>2. Within(b) /\ Traced(b) BY <1>1, LiveFacts DEF TracerOK
    <3>3. p \in Marked(b) BY <2>2, <3>1, <3>2, SpaceFacts
    <3>4. m_extents[p] = ExtentOf(b) BY <1>1, <3>1, <3>2, <3>3 DEF ExtentsOK
    <3>5. ExtentOf(b).kind # Heap!NoExtent.kind BY DEF ExtentOf, Heap!NoExtent
    <3> QED BY <3>4, <3>5 DEF Unknown
  <2>4. CASE \E i \in Freed : p \in PagesOf(i)
    <3>1. PICK i \in Freed : p \in PagesOf(i) BY <2>4
    <3>2. Within(i) BY <1>1, FreedFacts
    <3>3. p \in Heap!Ends(i) BY <2>2, <3>1, <3>2, WithinFacts
    <3>4. m_extents[p] = FreeExtent(i) BY <1>1, <3>1, <3>3 DEF ExtentsOK
    <3>5. FreeExtent(i).kind # Heap!NoExtent.kind BY DEF FreeExtent, Heap!NoExtent
    <3> QED BY <3>4, <3>5 DEF Unknown
  <2> QED BY <2>1, <2>3, <2>4 DEF Covered
<1>4. ASSUME s \notin InUse PROVE Unknown(p)
  <2>1. \A b \in live : p \notin PagesOf(b)
    <3>1. \A b \in live : \A r \in PagesOf(b) : SegmentOf(r) = SegmentOf(b.start)
      BY <1>1, LiveFacts, WithinFacts
    <3> QED BY <1>2, <1>4, <3>1 DEF InUse
  <2>2. \A i \in Freed : p \notin PagesOf(i)
    <3>1. \A i \in Freed : \A r \in PagesOf(i) : SegmentOf(r) = SegmentOf(i.start)
      BY <1>1, FreedFacts, WithinFacts
    <3> QED BY <1>1, <1>2, <1>4, <3>1 DEF FreedOK
  <2>3. ~Covered(p) BY <2>1, <2>2 DEF Covered
  <2> QED BY <1>1, <1>2, <2>3 DEF ExtentsOK, Unknown
<1> QED BY <1>3, <1>4

LEMMA VisitSegmentKeeps ==
    ASSUME IInv, VisitSegment
    PROVE  IInv'
<1>1. /\ pc = "segments" /\ index \in Segments /\ index' = index + 1 /\ pc' = pc
      /\ UNCHANGED <<live, m_extents, m_intervalTree, m_tracer, todo, prevEnd, lost>>
  BY DEF VisitSegment
<1>2. /\ TypeOK /\ LiveOK /\ TracerOK /\ FreedOK /\ ExtentsOK /\ SweepOK /\ SweptOK /\ SegmentsOK
  BY DEF IInv
<1>3. /\ Freed' = Freed /\ PagesAt(m_intervalTree)' = PagesAt(m_intervalTree)
      /\ InUse' = InUse
  BY <1>1 DEF Freed, PagesAt, InUse
<1>4. \A b : Traced(b)' <=> Traced(b) BY <1>1 DEF Traced, SpaceOf
<1>5. \A p : Covered(p)' <=> Covered(p) BY <1>1, <1>3 DEF Covered
<1>6. NothingFound(index) <=> index \in owned /\ index \notin InUse
  BY <1>1, SegmentMarked DEF NothingFound
<1>7. \/ /\ owned' = owned \ {index} /\ m_freeSegments' = m_freeSegments \cup {index}
         /\ index \notin InUse
      \/ /\ owned' = owned /\ m_freeSegments' = m_freeSegments
         /\ index \in owned => index \in InUse
  BY <1>6 DEF VisitSegment
<1>8. SegmentsOK'
  <2>1. \A s \in owned : s \in Int BY <1>2, Numbers DEF TypeOK
  <2>2. \A s \in owned' : s < index' => s \in InUse
    <3> SUFFICES ASSUME NEW s \in owned', s < index + 1 PROVE s \in InUse BY <1>1
    <3>1. s \in owned /\ s \in Int /\ index \in Int BY <1>1, <1>7, <2>1, Numbers
    <3>2. s < index \/ s = index BY <3>1
    <3> QED BY <1>2, <1>7, <3>1, <3>2 DEF SegmentsOK
  <2>3. InUse \subseteq owned' /\ owned' \cap m_freeSegments' = {}
    BY <1>2, <1>7 DEF SegmentsOK
  <2> QED BY <1>1, <1>3, <2>2, <2>3 DEF SegmentsOK
<1>9. TypeOK'
  <2>1. index' \in 0 .. SegmentNum
    <3>1. Segments = 0 .. SegmentNum - 1 /\ SegmentNum \in Nat BY Numbers
    <3> QED BY <1>1, <3>1
  <2>2. owned' \subseteq Segments /\ m_freeSegments' \subseteq Segments
    BY <1>1, <1>2, <1>7 DEF TypeOK
  <2> QED BY <1>1, <1>2, <1>3, <2>1, <2>2 DEF TypeOK
<1>10. LiveOK' BY <1>1, <1>2 DEF LiveOK
<1>11. TracerOK' BY <1>1, <1>2, <1>4 DEF TracerOK, SpaceOf
<1>12. FreedOK' BY <1>1, <1>2, <1>3 DEF FreedOK
<1>13. ExtentsOK' BY <1>1, <1>2, <1>3, <1>4, <1>5 DEF ExtentsOK, Marked, ExtentOf
<1>14. SweepOK' /\ SweptOK' BY <1>1, <1>2, <1>3, <1>5 DEF SweepOK, SweptOK
<1> QED BY <1>8, <1>9, <1>10, <1>11, <1>12, <1>13, <1>14 DEF IInv

LEMMA EndRecoverKeeps ==
    ASSUME IInv, EndRecover
    PROVE  IInv'
<1>1. /\ pc = "segments" /\ index = SegmentNum /\ pc' = "done" /\ m_tracer' = {}
      /\ UNCHANGED <<live, owned, m_freeSegments, m_extents, m_intervalTree, todo, prevEnd, index,
                     lost>>
  BY DEF EndRecover
<1>2. /\ TypeOK /\ LiveOK /\ TracerOK /\ FreedOK /\ ExtentsOK /\ SweepOK /\ SweptOK /\ SegmentsOK
  BY DEF IInv
<1>3. /\ Freed' = Freed /\ PagesAt(m_intervalTree)' = PagesAt(m_intervalTree)
      /\ InUse' = InUse
  BY <1>1 DEF Freed, PagesAt, InUse
<1>4. \A b \in live : Traced(b)' /\ Traced(b) BY <1>1, <1>2 DEF Traced, TracerOK
<1>5. \A p : Covered(p)' <=> Covered(p) BY <1>1, <1>3 DEF Covered
<1>6. todo' = {} BY <1>1, <1>2 DEF SweptOK
<1>7. TypeOK' BY <1>1, <1>2, <1>3, <1>6 DEF TypeOK
<1>8. LiveOK' BY <1>1, <1>2 DEF LiveOK
<1>9. TracerOK' BY <1>1, <1>4 DEF TracerOK
<1>10. FreedOK' BY <1>1, <1>2, <1>3 DEF FreedOK
<1>11. ExtentsOK' BY <1>1, <1>2, <1>3, <1>4, <1>5 DEF ExtentsOK, Marked, ExtentOf
<1>12. SweepOK' /\ SweptOK' BY <1>1, <1>2, <1>3, <1>5, <1>6 DEF SweepOK, SweptOK
<1>13. SegmentsOK' BY <1>1, <1>2, <1>3 DEF SegmentsOK
<1> QED BY <1>7, <1>8, <1>9, <1>10, <1>11, <1>12, <1>13 DEF IInv

LEMMA StutterKeeps ==
    ASSUME IInv, UNCHANGED vars
    PROVE  IInv'
<1>1. UNCHANGED <<live, owned, m_freeSegments, m_extents, m_intervalTree, m_tracer, pc, todo,
                  prevEnd, index, lost>>
  BY DEF vars
<1>2. /\ Freed' = Freed /\ PagesAt(m_intervalTree)' = PagesAt(m_intervalTree)
      /\ InUse' = InUse
  BY <1>1 DEF Freed, PagesAt, InUse
<1>3. \A b : Traced(b)' <=> Traced(b) BY <1>1 DEF Traced, SpaceOf
<1>4. \A p : Covered(p)' <=> Covered(p) BY <1>1, <1>2 DEF Covered
<1>5. TypeOK' /\ LiveOK' BY <1>1, <1>2 DEF IInv, TypeOK, LiveOK
<1>6. TracerOK' BY <1>1, <1>3 DEF IInv, TracerOK, SpaceOf
<1>7. FreedOK' BY <1>1, <1>2 DEF IInv, FreedOK
<1>8. ExtentsOK' BY <1>1, <1>2, <1>3, <1>4 DEF IInv, ExtentsOK, Marked, ExtentOf
<1>9. SweepOK' /\ SweptOK' BY <1>1, <1>2, <1>4 DEF IInv, SweepOK, SweptOK
<1>10. SegmentsOK' BY <1>1, <1>2 DEF IInv, SegmentsOK
<1> QED BY <1>5, <1>6, <1>7, <1>8, <1>9, <1>10 DEF IInv

LEMMA MisplaceRunKeeps ==
    ASSUME IInv, NEW b \in live, MisplaceRun(b)
    PROVE  IInv'
<1>1. pc = "search" /\ pc' = "misplaced" BY DEF MisplaceRun
<1>2. UNCHANGED <<live, owned, m_freeSegments, m_extents, m_intervalTree, m_tracer, todo,
                  prevEnd, index, lost>>
  BY DEF MisplaceRun
<1> QED BY <1>1, <1>2, PcOnly

LEMMA FreeForeignSegmentKeeps ==
    ASSUME IInv, FreeForeignSegment
    PROVE  IInv'
<1>1. pc = "spaces" /\ pc' = "overrun" BY DEF FreeForeignSegment
<1>2. UNCHANGED <<live, owned, m_freeSegments, m_extents, m_intervalTree, m_tracer, todo,
                  prevEnd, index, lost>>
  BY DEF FreeForeignSegment
<1> QED BY <1>1, <1>2, PcOnly

LEMMA StepKeeps == IInv /\ [Next]_vars => IInv'
BY RecoverLargeObjKeeps, RecoverRunKeeps, MisplaceRunKeeps, TraceMetaKeeps, BeginKeeps,
   SkipSpaceKeeps, FreeBetweenKeeps, FreeForeignSegmentKeeps, FreeRestKeeps, VisitSegmentKeeps,
   EndRecoverKeeps, StutterKeeps
   DEF Next

LEMMA Invariance == Spec => []IInv
<1>1. Init => IInv BY InitHolds
<1>2. IInv /\ [Next]_vars => IInv' BY StepKeeps
<1> QED BY <1>1, <1>2, PTL DEF Spec

-----------------------------------------------------------------------------
(* What the invariant says when recovery is done. *)

LEMMA NothingLiveIsFree ==
    ASSUME IInv
    PROVE  NothingLiveFreed
<1>1. TypeOK /\ FreedOK /\ SegmentsOK BY DEF IInv
<1>2. \A i \in PagesAt(m_intervalTree) \cup lost, b \in live : PagesOf(i) \cap PagesOf(b) = {}
  BY <1>1 DEF FreedOK, Freed
<1>3. \A b \in live : SegmentOf(b.start) \in owned \ m_freeSegments
  BY <1>1 DEF SegmentsOK, InUse
<1> QED BY <1>1, <1>2, <1>3 DEF NothingLiveFreed

\* The heap's tiles: what was freed, entered or lost, and what was found.
Tree     == PagesAt(m_intervalTree)
Objects  == Spaces("large") \cup Spaces("meta")
Runs     == {SpaceOf(b) : b \in {c \in live : c.kind = "run"}}
RunStart == {i.start : i \in Spaces("run")}
Tiles    == Tree \cup (Objects \cup (Runs \cup lost))

LEMMA TilesAre ==
    ASSUME IInv
    PROVE  /\ Heap!AsRuns(RunStart) = Runs /\ Heap!Cached = {} /\ Heap!Reserved = {}
           /\ Heap!Tiles = Tiles
           /\ Tiles = Freed \cup {SpaceOf(b) : b \in live}
           /\ Objects = {SpaceOf(b) : b \in {c \in live : c.kind # "run"}}
           /\ RunStart \subseteq Pages
<1>1. TypeOK /\ LiveOK BY DEF IInv
<1>2. \A b \in live : Within(b) /\ b.kind \in {"large", "run", "meta"} BY <1>1, LiveFacts
<1>3. \A b \in live : b.kind = "run" => SpaceOf(b) = Heap!Interval(b.start, RunPages)
  BY <1>1, LiveFacts DEF SpaceOf, Space
<1>4. Heap!AsRuns(RunStart) = Runs
  <2>1. Heap!AsRuns(RunStart)
           = {Heap!Interval(b.start, RunPages) : b \in {c \in live : c.kind = "run"}}
    <3> DEFINE S == {c \in live : c.kind = "run"}
    <3>1. RunStart = {b.start : b \in S}
      <4>1. Spaces("run") = {[start |-> b.start, len |-> b.len] : b \in S} BY DEF Spaces
      <4> HIDE DEF S
      <4> DEFINE space(b) == [start |-> b.start, len |-> b.len]
      <4>2. \A b : space(b).start = b.start OBVIOUS
      <4>3. RunStart = {i.start : i \in {space(b) : b \in S}} BY <4>1 DEF RunStart
      <4> HIDE DEF space
      <4>4. \A p : p \in RunStart <=> \E b \in S : p = b.start BY <4>2, <4>3
      <4> QED BY <4>4
    <3> QED BY <3>1 DEF Heap!AsRuns
  <2> QED BY <1>3, <2>1 DEF Runs
<1>5. Heap!Cached = {}
  <2>1. DOMAIN <<>> = {} OBVIOUS
  <2> QED BY <2>1 DEF Heap!Cached
<1>6. Heap!Reserved = {} BY DEF Heap!Reserved, Heap!Nothing
<1>7. Objects = {SpaceOf(b) : b \in {c \in live : c.kind # "run"}}
  <2>1. \A k : Spaces(k) = {SpaceOf(b) : b \in {c \in live : c.kind = k}}
    BY DEF Spaces, SpaceOf, Space, Heap!Interval
  <2>2. \A b \in live : b.kind # "run" <=> b.kind = "large" \/ b.kind = "meta" BY <1>2
  <2> QED BY <2>1, <2>2 DEF Objects
<1>8. Tiles = Freed \cup {SpaceOf(b) : b \in live}
  BY <1>7 DEF Tiles, Tree, Runs, Freed
<1>9. Heap!Tiles = Tiles
  <2>1. Heap!Tiles = Tree \cup Objects \cup Heap!AsRuns(RunStart \cup {}) \cup lost \cup {}
    BY <1>5, <1>6 DEF Heap!Tiles, Tree, Objects, RunStart
  <2>2. RunStart \cup {} = RunStart OBVIOUS
  <2> QED BY <1>4, <2>1, <2>2 DEF Tiles
<1>10. RunStart \subseteq Pages BY <1>2 DEF RunStart, Spaces, Within
<1> QED BY <1>4, <1>5, <1>6, <1>7, <1>8, <1>9, <1>10

LEMMA TilesApart ==
    ASSUME IInv
    PROVE  /\ \A i \in Tiles : Within(i) /\ i.start \in PagesOf(i) /\ SegmentOf(i.start) \in InUse
           /\ \A i, j \in Tiles : \A p : p \in PagesOf(i) /\ p \in PagesOf(j) => i = j
           /\ \A b \in live : SpaceOf(b) \in Tiles /\ SpaceOf(b) \notin Freed
           /\ \A b, c \in live : SpaceOf(b) = SpaceOf(c) => b = c
<1>1. /\ TypeOK /\ LiveOK /\ FreedOK BY DEF IInv
<1>2. Tiles = Freed \cup {SpaceOf(b) : b \in live} BY TilesAre
<1>3. \A b \in live : /\ Within(SpaceOf(b)) /\ SpaceOf(b).start = b.start
                      /\ PagesOf(SpaceOf(b)) = PagesOf(b) /\ SegmentOf(SpaceOf(b).start) \in InUse
  <2> SUFFICES ASSUME NEW b \in live
               PROVE  /\ Within(SpaceOf(b)) /\ SpaceOf(b).start = b.start
                      /\ PagesOf(SpaceOf(b)) = PagesOf(b)
                      /\ SegmentOf(SpaceOf(b).start) \in InUse
    OBVIOUS
  <2>1. Within(b) BY <1>1, LiveFacts
  <2>2. /\ SpaceOf(b).start = b.start /\ SpaceOf(b).len = b.len
        /\ PagesOf(SpaceOf(b)) = PagesOf(b) /\ End(SpaceOf(b)) = End(b)
    BY <2>1, SpaceFacts
  <2> QED BY <2>1, <2>2 DEF Within, InUse
<1>4. \A i \in Tiles : Within(i) /\ SegmentOf(i.start) \in InUse
  BY <1>1, <1>2, <1>3, FreedFacts DEF FreedOK
<1>5. \A i \in Tiles : i.start \in PagesOf(i) BY <1>4, WithinFacts
<1>6. ASSUME NEW i \in Tiles, NEW j \in Tiles, NEW p, p \in PagesOf(i), p \in PagesOf(j)
      PROVE  i = j
  <2>1. CASE i \in Freed /\ j \in Freed BY <1>1, <1>6, <2>1, FreedFacts
  <2>2. ASSUME NEW b \in live, i = SpaceOf(b), j \in Freed PROVE FALSE
    BY <1>1, <1>3, <1>6, <2>2, FreedFacts
  <2>3. ASSUME NEW b \in live, j = SpaceOf(b), i \in Freed PROVE FALSE
    BY <1>1, <1>3, <1>6, <2>3, FreedFacts
  <2>4. ASSUME NEW b \in live, NEW c \in live, i = SpaceOf(b), j = SpaceOf(c) PROVE i = j
    <3>1. p \in PagesOf(b) /\ p \in PagesOf(c) BY <1>3, <1>6, <2>4
    <3>2. b = c BY <1>1, <3>1, LiveFacts
    <3> QED BY <2>4, <3>2
  <2> QED BY <1>2, <2>1, <2>2, <2>3, <2>4
<1>7. \A b \in live : SpaceOf(b) \notin Freed
  <2>1. \A b \in live : b.start \in PagesOf(b) BY <1>1, LiveFacts, WithinFacts
  <2> QED BY <1>1, <1>3, <2>1, FreedFacts
<1>8. \A b, c \in live : SpaceOf(b) = SpaceOf(c) => b = c BY <1>1, LiveFacts
<1> QED BY <1>2, <1>4, <1>5, <1>6, <1>7, <1>8

LEMMA TwoTogether ==
    ASSUME NEW A, NEW B, IsFiniteSet(A), IsFiniteSet(B), A \cap B = {}
    PROVE  IsFiniteSet(A \cup B) /\ Cardinality(A \cup B) = Cardinality(A) + Cardinality(B)
<1>1. /\ IsFiniteSet(A \cup B)
      /\ Cardinality(A \cup B) = Cardinality(A) + Cardinality(B) - Cardinality(A \cap B)
  BY FS_Union
<1>2. Cardinality(A \cap B) = 0 BY FS_EmptySet
<1>3. Cardinality(A) \in Nat /\ Cardinality(B) \in Nat BY FS_CardinalityType
<1> QED BY <1>1, <1>2, <1>3

LEMMA FinitelyMany ==
    ASSUME IInv
    PROVE  IsFiniteSet(Pages) /\ IsFiniteSet(Tiles) /\ IsFiniteSet(RunStart)
<1>1. IsFiniteSet(Pages)
  <2>1. SegmentNum * SegmentPages - 1 \in Int /\ Pages = 0 .. SegmentNum * SegmentPages - 1
    BY Numbers
  <2> QED BY <2>1, FS_Interval
<1> DEFINE f == [i \in Tiles |-> i.start]
<1>2. f \in Injection(Tiles, Pages)
  BY TilesApart DEF Injection, IsInjective, Within
<1> HIDE DEF f
<1>3. IsFiniteSet(Tiles) BY <1>1, <1>2, FS_Injection
<1>4. IsFiniteSet(RunStart)
  <2>1. RunStart \in SUBSET Pages BY TilesAre
  <2> QED BY <1>1, <2>1, FS_Subset
<1> QED BY <1>1, <1>3, <1>4

LEMMA SameCount == \A S : Heap!Cardinality(S) = Cardinality(S)
BY DEF Heap!Cardinality, Cardinality, Heap!IsFiniteSet, IsFiniteSet

LEMMA AsManyRuns ==
    ASSUME NEW S, IsFiniteSet(S)
    PROVE  Cardinality(Heap!AsRuns(S)) = Cardinality(S)
<1> DEFINE f == [r \in S |-> Heap!Interval(r, RunPages)]
<1>1. \A r : Heap!Interval(r, RunPages).start = r BY DEF Heap!Interval
<1>2. f \in [S -> Heap!AsRuns(S)] /\ \A i \in Heap!AsRuns(S) : \E r \in S : f[r] = i
  BY DEF Heap!AsRuns
<1>3. \A q, r \in S : f[q] = f[r] => q = r
  <2> SUFFICES ASSUME NEW q \in S, NEW r \in S, f[q] = f[r] PROVE q = r OBVIOUS
  <2>1. Heap!Interval(q, RunPages) = Heap!Interval(r, RunPages) OBVIOUS
  <2> HIDE DEF f
  <2> QED BY <1>1, <2>1
<1> HIDE DEF f
<1>4. f \in Bijection(S, Heap!AsRuns(S))
  BY <1>2, <1>3 DEF Bijection, Injection, Surjection, IsInjective
<1> QED BY <1>4, FS_Bijection DEF ExistsBijection

LEMMA Counted ==
    ASSUME IInv
    PROVE  Cardinality(Tiles) = Cardinality(Tree) + Cardinality(Objects)
                                + Cardinality(RunStart) + Cardinality(lost)
<1> DEFINE W1 == Runs \cup lost
           W2 == Objects \cup W1
<1>1. IsFiniteSet(Tree) /\ IsFiniteSet(Objects) /\ IsFiniteSet(Runs) /\ IsFiniteSet(lost)
  <2>1. Tree \in SUBSET Tiles /\ Objects \in SUBSET Tiles /\ Runs \in SUBSET Tiles
        /\ lost \in SUBSET Tiles
    BY DEF Tiles
  <2> QED BY <2>1, FinitelyMany, FS_Subset
<1>2. /\ Tree \cap lost = {} /\ Objects \cap Runs = {}
      /\ (Objects \cup Runs) \cap (Tree \cup lost) = {}
  <2>1. Tree \cap lost = {} BY DEF IInv, FreedOK, Tree
  <2>2. Objects = {SpaceOf(b) : b \in {c \in live : c.kind # "run"}} BY TilesAre
  <2>3. \A b \in live : SpaceOf(b) \notin Freed BY TilesApart
  <2>4. \A b, c \in live : SpaceOf(b) = SpaceOf(c) => b = c BY TilesApart
  <2>5. Objects \cap Runs = {} BY <2>2, <2>4 DEF Runs
  <2>6. (Objects \cup Runs) \cap Freed = {} BY <2>2, <2>3 DEF Runs
  <2> QED BY <2>1, <2>5, <2>6 DEF Freed, Tree
<1>3. IsFiniteSet(W1) /\ Cardinality(W1) = Cardinality(Runs) + Cardinality(lost)
  BY <1>1, <1>2, TwoTogether
<1>4. IsFiniteSet(W2) /\ Cardinality(W2) = Cardinality(Objects) + Cardinality(W1)
  <2>1. Objects \cap W1 = {} BY <1>2
  <2> HIDE DEF W1
  <2> QED BY <1>1, <1>3, <2>1, TwoTogether
<1>5. Cardinality(Tree \cup W2) = Cardinality(Tree) + Cardinality(W2)
  <2>1. Tree \cap W2 = {} BY <1>2
  <2> HIDE DEF W2
  <2> QED BY <1>1, <1>4, <2>1, TwoTogether
<1>6. Tiles = Tree \cup W2 BY DEF Tiles
<1>7. Cardinality(Runs) = Cardinality(RunStart)
  <2>1. Heap!AsRuns(RunStart) = Runs BY TilesAre
  <2> QED BY <2>1, AsManyRuns, FinitelyMany
<1>8. /\ Cardinality(Tree) \in Nat /\ Cardinality(Objects) \in Nat
      /\ Cardinality(RunStart) \in Nat /\ Cardinality(lost) \in Nat
  BY <1>1, FinitelyMany, FS_CardinalityType
<1> HIDE DEF W1, W2
<1> QED BY <1>3, <1>4, <1>5, <1>6, <1>7, <1>8

LEMMA OwnedInUse ==
    ASSUME IInv, pc = "done"
    PROVE  owned = InUse
<1>1. TypeOK /\ SegmentsOK BY DEF IInv
<1>2. \A s \in owned : s < index
  <2>1. index = SegmentNum /\ SegmentNum \in Nat BY <1>1, Numbers DEF SegmentsOK
  <2>2. \A s \in owned : s \in 0 .. SegmentNum - 1 BY <1>1, Numbers DEF TypeOK
  <2> QED BY <2>1, <2>2
<1> QED BY <1>1, <1>2 DEF SegmentsOK

LEMMA HeapTiling ==
    ASSUME IInv, pc = "done"
    PROVE  Heap!Tiling
<1>1. TypeOK /\ LiveOK /\ SweptOK /\ SegmentsOK BY DEF IInv
<1>2. owned = InUse BY OwnedInUse
<1>3. Heap!TypeOK
  <2>1. Tiles \subseteq Heap!Intervals
    <3>1. Freed \subseteq Heap!Intervals BY <1>1 DEF TypeOK, Freed
    <3>2. \A b \in live : SpaceOf(b) \in Heap!Intervals BY <1>1, LiveFacts, SpaceFacts
    <3> QED BY <3>1, <3>2, TilesAre
  <2>2. PagesAt(m_intervalTree) \subseteq Heap!Intervals
        /\ Spaces("large") \cup Spaces("meta") \subseteq Heap!Intervals
        /\ lost \subseteq Heap!Intervals
    BY <2>1 DEF Tiles, Tree, Objects
  <2>3. {i.start : i \in Spaces("run")} \subseteq Heap!Pages
    BY TilesAre DEF RunStart, Pages
  <2>4. <<>> \in Seq(Heap!Pages) OBVIOUS
  <2>5. m_extents \in [Heap!Pages -> [kind : {"none", "free", "large", "run"}, len : 0 .. SegmentPages]]
    BY <1>1 DEF TypeOK, Pages
  <2>6. owned \subseteq Heap!Segments /\ m_freeSegments \subseteq Heap!Segments
    BY <1>1 DEF TypeOK, Segments
  <2> QED BY <2>2, <2>3, <2>4, <2>5, <2>6 DEF Heap!TypeOK, Heap!Nothing, RunStart
<1>4. {p \in Pages : SegmentOf(p) \in owned} = UNION {PagesOf(i) : i \in Tiles}
  <2>1. \A p \in Pages : SegmentOf(p) \in owned => \E i \in Tiles : p \in PagesOf(i)
    <3> SUFFICES ASSUME NEW p \in Pages, SegmentOf(p) \in owned
                 PROVE  \E i \in Tiles : p \in PagesOf(i)
      OBVIOUS
    <3>1. Covered(p) BY <1>1, <1>2 DEF SweptOK
    <3>2. ASSUME NEW b \in live, p \in PagesOf(b) PROVE \E i \in Tiles : p \in PagesOf(i)
      <4>1. SpaceOf(b) \in Tiles /\ PagesOf(SpaceOf(b)) = PagesOf(b)
        BY <1>1, TilesApart, LiveFacts, SpaceFacts
      <4> QED BY <3>2, <4>1
    <3>3. Freed \subseteq Tiles BY TilesAre
    <3> QED BY <3>1, <3>2, <3>3 DEF Covered
  <2>2. \A i \in Tiles : \A p \in PagesOf(i) : p \in Pages /\ SegmentOf(p) \in owned
    BY <1>2, TilesApart, WithinFacts
  <2> QED BY <2>1, <2>2
<1>5. \A i, j \in Tiles : i = j \/ PagesOf(i) \cap PagesOf(j) = {} BY TilesApart
<1>6. Cardinality(Tiles) = Cardinality(Tree) + Cardinality(Objects)
                           + Cardinality(RunStart) + Len(<<>>)
                           + Cardinality(lost) + Cardinality(Heap!Reserved)
  <2>1. Len(<<>>) = 0 /\ Cardinality(Heap!Reserved) = 0 BY TilesAre, FS_EmptySet
  <2>2. /\ Cardinality(Tree) \in Nat /\ Cardinality(Objects) \in Nat
        /\ Cardinality(RunStart) \in Nat /\ Cardinality(lost) \in Nat
    <3>1. Tree \in SUBSET Tiles /\ Objects \in SUBSET Tiles /\ lost \in SUBSET Tiles
      BY DEF Tiles
    <3>2. IsFiniteSet(Tree) /\ IsFiniteSet(Objects) /\ IsFiniteSet(lost)
      BY <3>1, FinitelyMany, FS_Subset
    <3> QED BY <3>2, FinitelyMany, FS_CardinalityType
  <2> QED BY <2>1, <2>2, Counted
<1>7. Heap!Tiles = Tiles BY TilesAre
<1>8. {p \in Heap!Pages : Heap!SegmentOf(p) \in owned} = UNION {Heap!PagesOf(i) : i \in Heap!Tiles}
  BY <1>4, <1>7 DEF Pages, SegmentOf, PagesOf
<1>9. \A i, j \in Heap!Tiles : i = j \/ Heap!PagesOf(i) \cap Heap!PagesOf(j) = {}
  BY <1>5, <1>7 DEF PagesOf
<1>10. owned \cap m_freeSegments = {} BY <1>1 DEF SegmentsOK
<1> QED BY <1>3, <1>6, <1>7, <1>8, <1>9, <1>10, SameCount DEF Heap!Tiling, Tree, Objects, RunStart

LEMMA HeapWhole ==
    ASSUME IInv, pc = "done"
    PROVE  Heap!FreeSpaceWhole
<1>1. TypeOK /\ LiveOK /\ FreedOK BY DEF IInv
<1>2. ASSUME NEW i \in Tree, NEW j \in Tree, i.start + i.len = j.start
      PROVE  SegmentOf(i.start) # SegmentOf(j.start)
  <2>1. i \in Freed /\ j \in Freed BY DEF Tree, Freed
  <2>2. Within(i) /\ Within(j) /\ End(i) = j.start BY <1>1, <1>2, <2>1, FreedFacts DEF End
  <2>3. ~\E b \in live : b.start = End(i)
    <3>1. j.start \in PagesOf(j) BY <2>2, WithinFacts
    <3>2. \A b \in live : b.start \in PagesOf(b) BY <1>1, LiveFacts, WithinFacts
    <3> QED BY <1>1, <2>1, <2>2, <3>1, <3>2, FreedFacts
  <2>4. j.start = SegmentEndOf(i.start) BY <1>1, <2>1, <2>2, <2>3 DEF FreedOK
  <2>5. j.start \in Pages /\ j.start \in Nat BY <2>2, WithinFacts
  <2>6. j.start < SegmentEndOf(j.start) /\ SegmentEndOf(j.start) \in Nat BY <2>5, Segmentation
  <2>7. SegmentOf(i.start) = SegmentOf(j.start) => SegmentEndOf(j.start) = SegmentEndOf(i.start)
    BY DEF SegmentEndOf, SegmentStartOf
  <2> QED BY <2>4, <2>5, <2>6, <2>7
<1>3. ASSUME NEW s \in owned
      PROVE  \E i \in Tiles \ Tree : SegmentOf(i.start) = s
  <2>1. PICK b \in live : SegmentOf(b.start) = s BY OwnedInUse DEF InUse
  <2>2. SpaceOf(b) \in Tiles \ Tree BY TilesApart DEF Freed, Tree
  <2>3. SpaceOf(b).start = b.start BY <1>1, LiveFacts, SpaceFacts
  <2> QED BY <2>1, <2>2, <2>3
<1>4. Heap!Tiles = Tiles BY TilesAre
<1> QED BY <1>2, <1>3, <1>4 DEF Heap!FreeSpaceWhole, SegmentOf, Tree

LEMMA HeapExtents ==
    ASSUME IInv, pc = "done", lost = {}
    PROVE  Heap!ExtentsAgree
<1>1. TypeOK /\ LiveOK /\ FreedOK /\ ExtentsOK BY DEF IInv
<1>2. /\ Freed = Tree /\ Objects = {SpaceOf(b) : b \in {c \in live : c.kind # "run"}}
      /\ Heap!AsRuns(RunStart \cup Heap!Cached) = Runs
  <2>1. RunStart \cup {} = RunStart OBVIOUS
  <2> QED BY <2>1, TilesAre DEF Freed, Tree
<1>3. Tree \subseteq Tiles /\ Objects \subseteq Tiles /\ Runs \subseteq Tiles
  BY DEF Tiles
<1>4. \A i \in Tiles : Heap!Ends(i) \subseteq PagesOf(i) BY TilesApart, WithinFacts
<1>5. \A i, j \in Tiles : \A p : p \in PagesOf(i) /\ p \in PagesOf(j) => i = j BY TilesApart
<1>6. /\ \A i \in Tree : i \notin Objects /\ i \notin Runs
      /\ \A i \in Objects : i \notin Runs
  <2>1. \A b \in live : SpaceOf(b) \notin Freed BY TilesApart
  <2>2. \A b, c \in live : SpaceOf(b) = SpaceOf(c) => b = c BY TilesApart
  <2> QED BY <1>2, <2>1, <2>2 DEF Runs
<1>7. \A b \in live : /\ Within(b) /\ Traced(b) /\ SpaceOf(b).len = b.len
                      /\ PagesOf(SpaceOf(b)) = PagesOf(b) /\ Heap!Ends(SpaceOf(b)) = Heap!Ends(b)
                      /\ b.kind = "run" => b.len = RunPages
  <2> SUFFICES ASSUME NEW b \in live
               PROVE  /\ Within(b) /\ Traced(b) /\ SpaceOf(b).len = b.len
                      /\ PagesOf(SpaceOf(b)) = PagesOf(b) /\ Heap!Ends(SpaceOf(b)) = Heap!Ends(b)
                      /\ b.kind = "run" => b.len = RunPages
    OBVIOUS
  <2>1. Within(b) /\ (b.kind = "run" => b.len = RunPages) BY <1>1, LiveFacts
  <2>2. /\ SpaceOf(b).start = b.start /\ SpaceOf(b).len = b.len
        /\ PagesOf(SpaceOf(b)) = PagesOf(b)
    BY <2>1, SpaceFacts
  <2>3. Heap!Ends(SpaceOf(b)) = Heap!Ends(b) BY <2>2 DEF Heap!Ends
  <2> QED BY <2>1, <2>2, <2>3 DEF Traced
<1>8. ASSUME NEW p \in Pages
      PROVE  m_extents[p] =
        CASE \E i \in Tree : p \in Heap!Ends(i) ->
                [kind |-> "free", len |-> (CHOOSE i \in Tree : p \in Heap!Ends(i)).len]
          [] \E i \in Objects : p \in Heap!Ends(i) ->
                [kind |-> "large", len |-> (CHOOSE i \in Objects : p \in Heap!Ends(i)).len]
          [] \E i \in Runs : p \in PagesOf(i) ->
                [kind |-> "run", len |-> RunPages]
          [] OTHER -> Heap!NoExtent
  <2>1. /\ \A i \in Tree, j \in Objects : ~(p \in PagesOf(i) /\ p \in PagesOf(j))
        /\ \A i \in Tree, j \in Runs : ~(p \in PagesOf(i) /\ p \in PagesOf(j))
        /\ \A i \in Objects, j \in Runs : ~(p \in PagesOf(i) /\ p \in PagesOf(j))
    BY <1>3, <1>5, <1>6
  <2>2. \A i \in Tiles : p \in Heap!Ends(i) => p \in PagesOf(i) BY <1>4
  <2>3. CASE \E i \in Tree : p \in Heap!Ends(i)
    <3>1. PICK i \in Tree : p \in Heap!Ends(i) BY <2>3
    <3>2. (CHOOSE j \in Tree : p \in Heap!Ends(j)) = i BY <1>3, <1>5, <2>2, <3>1
    <3>3. m_extents[p] = [kind |-> "free", len |-> i.len]
      BY <1>1, <1>2, <1>3, <2>2, <3>1 DEF ExtentsOK, FreeExtent
    <3>4. ~\E j \in Objects : p \in Heap!Ends(j) BY <1>3, <2>1, <2>2, <3>1
    <3>5. ~\E j \in Runs : p \in PagesOf(j) BY <1>3, <2>1, <2>2, <3>1
    <3> QED BY <2>3, <3>2, <3>3, <3>4, <3>5
  <2>4. CASE \E i \in Objects : p \in Heap!Ends(i)
    <3>1. PICK i \in Objects : p \in Heap!Ends(i) BY <2>4
    <3>2. (CHOOSE j \in Objects : p \in Heap!Ends(j)) = i BY <1>3, <1>5, <2>2, <3>1
    <3>3. m_extents[p] = [kind |-> "large", len |-> i.len]
      <4>1. PICK b \in live : i = SpaceOf(b) /\ b.kind # "run" BY <1>2, <3>1
      <4>2. p \in PagesOf(b) /\ p \in Marked(b) /\ b.len = i.len
        BY <1>3, <1>7, <2>2, <3>1, <4>1 DEF Marked
      <4>3. m_extents[p] = ExtentOf(b) BY <1>1, <1>7, <4>2 DEF ExtentsOK
      <4> QED BY <4>1, <4>2, <4>3 DEF ExtentOf
    <3>4. ~\E j \in Tree : p \in Heap!Ends(j) BY <1>3, <2>1, <2>2, <3>1
    <3>5. ~\E j \in Runs : p \in PagesOf(j) BY <1>3, <2>1, <2>2, <3>1
    <3> QED BY <2>4, <3>2, <3>3, <3>4, <3>5
  <2>5. CASE \E i \in Runs : p \in PagesOf(i)
    <3>1. PICK b \in live : b.kind = "run" /\ p \in PagesOf(SpaceOf(b)) BY <2>5 DEF Runs
    <3>2. SpaceOf(b) \in Runs BY <3>1 DEF Runs
    <3>3. m_extents[p] = [kind |-> "run", len |-> RunPages]
      <4>1. p \in PagesOf(b) /\ p \in Marked(b) /\ b.len = RunPages BY <1>7, <3>1 DEF Marked
      <4>2. m_extents[p] = ExtentOf(b) BY <1>1, <1>7, <4>1 DEF ExtentsOK
      <4> QED BY <3>1, <4>1, <4>2 DEF ExtentOf
    <3>4. ~\E j \in Tree : p \in Heap!Ends(j) BY <1>3, <2>1, <2>2, <3>1, <3>2
    <3>5. ~\E j \in Objects : p \in Heap!Ends(j) BY <1>3, <2>1, <2>2, <3>1, <3>2
    <3> QED BY <2>5, <3>3, <3>4, <3>5
  <2>6. CASE /\ ~\E i \in Tree : p \in Heap!Ends(i)
             /\ ~\E i \in Objects : p \in Heap!Ends(i)
             /\ ~\E i \in Runs : p \in PagesOf(i)
    <3>1. m_extents[p] = Heap!NoExtent
      <4>1. ASSUME NEW b \in live, p \in PagesOf(b) PROVE p \notin Marked(b)
        <5>1. b.kind # "run" BY <1>7, <2>6, <4>1 DEF Runs
        <5>2. SpaceOf(b) \in Objects BY <1>2, <5>1
        <5> QED BY <1>7, <2>6, <5>1, <5>2 DEF Marked
      <4>2. \A b \in live : p \in PagesOf(b) => m_extents[p] = Heap!NoExtent
        BY <1>1, <4>1 DEF ExtentsOK
      <4>3. \A i \in Freed : p \in PagesOf(i) => m_extents[p] = Heap!NoExtent
        BY <1>1, <1>2, <2>6 DEF ExtentsOK
      <4>4. ~Covered(p) => m_extents[p] = Heap!NoExtent BY <1>1 DEF ExtentsOK
      <4> QED BY <4>2, <4>3, <4>4 DEF Covered
    <3> QED BY <2>6, <3>1
  <2> QED BY <2>3, <2>4, <2>5, <2>6
<1> QED BY <1>2, <1>8 DEF Heap!ExtentsAgree, Tree, Objects, RunStart, Pages, PagesOf

\* An address behind the space's length is no offset into the space.
LEMMA NoOffsets ==
    ASSUME IInv, AddrSpaceStart >= SegmentNum * SegmentPages
    PROVE  m_intervalTree \cap Heap!Intervals = {}
<1> DEFINE A == AddrSpaceStart
           N == SegmentNum * SegmentPages
<1>1. A \in Nat /\ N \in Nat BY Numbers, RecoveryAssumption
<1> SUFFICES ASSUME NEW i \in m_intervalTree, i \in Heap!Intervals
             PROVE  FALSE
  OBVIOUS
<1>2. PagesAt(m_intervalTree) \subseteq Heap!Intervals BY DEF IInv, TypeOK
<1>3. [i EXCEPT !.start = @ - A] \in Heap!Intervals BY <1>2 DEF PagesAt
<1>4. Heap!Pages = 0 .. N - 1 BY DEF Heap!Pages
<1> HIDE DEF A, N
<1>5. i.start \in 0 .. N - 1 /\ i.start - A \in 0 .. N - 1
  BY <1>3, <1>4 DEF Heap!Intervals
<1>6. A >= N BY DEF A, N
<1> QED BY <1>1, <1>5, <1>6

LEMMA Accounted ==
    ASSUME IInv
    PROVE  AllPagesAccounted
BY HeapTiling, HeapWhole, HeapExtents, NoOffsets DEF AllPagesAccounted

-----------------------------------------------------------------------------
\* However the search meets the objects, and wherever they lie in the segments,
\* neither the gaps that endRecover enters in the tree, nor those it loses for
\* want of a tree node, nor a segment it returns has a page of an object that
\* can be reached.
THEOREM ReachableIsKept == Spec => []NothingLiveFreed
BY Invariance, NothingLiveIsFree, PTL

\* When endRecover is over, every page of the heap's segments belongs to one
\* object or lies at the address of one interval of the tree, no two intervals
\* touch, no segment without an object was kept, and, if no tree node was refused,
\* extents, tree and objects agree.  The intervals are at addresses, of which none
\* behind the space's length is an offset that alloc could use.
THEOREM PagesAreAccounted == Spec => []AllPagesAccounted
BY Invariance, Accounted, PTL
=============================================================================
