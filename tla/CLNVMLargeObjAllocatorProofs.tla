-------------------- MODULE CLNVMLargeObjAllocatorProofs --------------------
(***************************************************************************)
(* Proofs about the pages of a heap, for segments, runs, caches and        *)
(* requests of any size.  The pages of the heap's segments are tiled by    *)
(* intervals, free or in use; an operation replaces some tiles by others   *)
(* with the same pages.  The extents say of the pages of each tile what    *)
(* its kind says they should, and of all other pages nothing.              *)
(***************************************************************************)
EXTENDS CLNVMLargeObjAllocator, FiniteSetTheorems, TLAPS

Kept == AsRuns(runs \cup Cached)

\* What is in use, or lost.
Used == objects \cup Kept \cup lost \cup Reserved

Fits(i) ==
    /\ i \in [start : Pages, len : 1 .. SegmentPages]
    /\ i.start + i.len <= SegmentStart(SegmentOf(i.start)) + SegmentPages

Touch(i, j) == i.start + i.len = j.start /\ SegmentOf(i.start) = SegmentOf(j.start)

Before(T, i) == {b \in T : Touch(b, i)}
After(T, i)  == {a \in T : Touch(i, a)}

\* The pages of the segments segs are tiled by the free intervals of T and by
\* the others of U, and no two free ones touch.
Tiled(segs, T, U) ==
    /\ \A i \in T \cup U : Fits(i) /\ SegmentOf(i.start) \in segs
    /\ \A i, j \in T \cup U, p \in Pages : p \in PagesOf(i) /\ p \in PagesOf(j) => i = j
    /\ \A p \in Pages : SegmentOf(p) \in segs => \E i \in T \cup U : p \in PagesOf(i)
    /\ T \cap U = {}
    /\ \A i, j \in T : ~Touch(i, j)

\* The extents of the free intervals of T, the objects of O and the runs of R.
Marked(ext, T, O, R) ==
    /\ \A i \in T, p \in Pages : p \in Ends(i) => ext[p] = [kind |-> "free", len |-> i.len]
    /\ \A i \in O, p \in Pages : p \in Ends(i) => ext[p] = [kind |-> "large", len |-> i.len]
    /\ \A i \in R, p \in Pages : p \in PagesOf(i) => ext[p] = [kind |-> "run", len |-> RunPages]
    /\ \A p \in Pages :
          \/ \E i \in T \cup O : p \in Ends(i)
          \/ \E i \in R : p \in PagesOf(i)
          \/ ext[p] = NoExtent

Distinct(q) == \A k, l \in DOMAIN q : q[k] = q[l] => k = l

\* Nothing is used twice.
UsedOnce ==
    /\ objects \cap (Kept \cup lost \cup Reserved) = {}
    /\ Kept \cap (lost \cup Reserved) = {}
    /\ lost \cap Reserved = {}
    /\ runs \cap Cached = {}
    /\ Distinct(m_NVMRunCache)

HandIsRun == hand.kind \in {"run", "misplaced"} => hand.len = RunPages

IInv ==
    /\ TypeOK
    /\ owned \cap m_freeSegments = {}
    /\ Tiled(owned, m_intervalTree, Used)
    /\ Marked(m_extents, m_intervalTree, objects, Kept)
    /\ UsedOnce
    /\ HandIsRun

-----------------------------------------------------------------------------
(* Pages and segments. *)

LEMMA Multiples ==
    ASSUME NEW P \in Nat \ {0}, NEW a \in Int, NEW b \in Int
    PROVE  /\ a * P \in Int
           /\ (a + 1) * P = a * P + P
           /\ a < b => a * P + P <= b * P
<1>1. (a + 1) * P = a * P + P OBVIOUS
<1>2. ASSUME a < b PROVE (a + 1) * P <= b * P
  <2> DEFINE d == b - (a + 1)
  <2>1. d \in Nat BY <1>2
  <2>2. d * P >= 0 BY <2>1
  <2>3. b * P = (a + 1) * P + d * P OBVIOUS
  <2> QED BY <2>2, <2>3
<1> QED BY <1>1, <1>2

LEMMA Division ==
    ASSUME NEW P \in Nat \ {0}, NEW p \in Int
    PROVE  p \div P \in Int /\ (p \div P) * P <= p /\ p < (p \div P) * P + P
OBVIOUS

LEMMA Segmentation ==
    /\ SegmentPages \in Nat \ {0} /\ RunPages \in Nat \ {0} /\ RunPages < SegmentPages
    /\ \A p \in Pages : p \in Nat
    /\ \A p, q \in Pages, r \in Int : p <= r /\ r <= q => r \in Pages
    /\ \A s \in Segments : SegmentStart(s) \in Pages
    /\ \A p \in Pages :
          /\ SegmentOf(p) \in Segments
          /\ SegmentStart(SegmentOf(p)) <= p
          /\ p < SegmentStart(SegmentOf(p)) + SegmentPages
    /\ \A s \in Segments, p \in Int :
          SegmentStart(s) <= p /\ p < SegmentStart(s) + SegmentPages =>
             p \in Pages /\ SegmentOf(p) = s
<1> DEFINE P == SegmentPages
           N == SegmentNum
<1>1. P \in Nat \ {0} /\ N \in Nat \ {0} /\ RunPages \in Nat \ {0} /\ RunPages < P
  BY PagesAssumption
<1> HIDE DEF P, N
<1>2. /\ Pages = 0 .. N * P - 1 /\ Segments = 0 .. N - 1
      /\ \A p : SegmentOf(p) = p \div P
      /\ \A s : SegmentStart(s) = s * P
  BY DEF P, N, Pages, Segments, SegmentOf, SegmentStart
<1>3. N * P \in Int BY <1>1, Multiples
<1>4. ASSUME NEW s \in Segments
      PROVE  /\ s \in Int /\ s * P \in Int /\ 0 <= s * P
             /\ s * P + P <= N * P
  <2>1. s \in Int /\ 0 <= s /\ s < N BY <1>1, <1>2
  <2>2. s * P \in Int /\ s * P + P <= N * P BY <1>1, <2>1, Multiples
  <2>3. 0 <= s * P BY <1>1, <2>1
  <2> QED BY <2>1, <2>2, <2>3
<1>5. ASSUME NEW p \in Pages
      PROVE  /\ p \div P \in Segments
             /\ (p \div P) * P <= p /\ p < (p \div P) * P + P
  <2> DEFINE s == p \div P
  <2>1. p \in Int /\ 0 <= p /\ p < N * P BY <1>2, <1>3
  <2>2. s \in Int /\ s * P <= p /\ p < s * P + P BY <1>1, <2>1, Division
  <2> HIDE DEF s
  <2>3. s * P \in Int BY <1>1, <2>2, Multiples
  <2>4. ~(s < 0)
    <3>1. s < 0 => s * P + P <= 0 * P BY <1>1, <2>2, Multiples
    <3>2. 0 * P = 0 BY <1>1
    <3> QED BY <1>1, <2>1, <2>2, <2>3, <3>1, <3>2
  <2>5. ~(N < s) /\ N # s
    <3>1. N < s => N * P + P <= s * P BY <1>1, <2>2, Multiples
    <3>2. N = s => N * P = s * P OBVIOUS
    <3>3. s * P < N * P BY <1>3, <2>1, <2>2, <2>3
    <3> QED BY <1>1, <1>3, <2>3, <3>1, <3>2, <3>3
  <2> QED BY <1>1, <1>2, <2>2, <2>4, <2>5 DEF s
<1>6. ASSUME NEW s \in Segments, NEW p \in Int, s * P <= p, p < s * P + P
      PROVE  p \in Pages /\ p \div P = s
  <2>1. s * P \in Int /\ 0 <= s * P /\ s * P + P <= N * P /\ s \in Int BY <1>4
  <2>2. p \in Pages BY <1>1, <1>2, <1>3, <1>6, <2>1
  <2> DEFINE t == p \div P
  <2>3. t \in Int /\ t * P <= p /\ p < t * P + P BY <1>1, Division
  <2> HIDE DEF t
  <2>4. /\ t * P \in Int
        /\ t < s => t * P + P <= s * P
        /\ s < t => s * P + P <= t * P
    BY <1>1, <2>1, <2>3, Multiples
  <2>5. t = s BY <1>1, <1>6, <2>1, <2>3, <2>4
  <2> QED BY <2>2, <2>5 DEF t
<1>7. (\A p \in Pages : p \in Nat) /\ \A p, q \in Pages, r \in Int : p <= r /\ r <= q => r \in Pages
  BY <1>2, <1>3
<1>8. \A s \in Segments : SegmentStart(s) \in Pages
  BY <1>1, <1>2, <1>3, <1>4
<1>9. \A p \in Pages :
         /\ SegmentOf(p) \in Segments
         /\ SegmentStart(SegmentOf(p)) <= p
         /\ p < SegmentStart(SegmentOf(p)) + P
  BY <1>2, <1>5
<1>10. \A s \in Segments, p \in Int :
          SegmentStart(s) <= p /\ p < SegmentStart(s) + P => p \in Pages /\ SegmentOf(p) = s
  BY <1>2, <1>6
<1> QED BY <1>1, <1>7, <1>8, <1>9, <1>10 DEF P

LEMMA Fitting ==
    ASSUME NEW i, Fits(i)
    PROVE  /\ i.start \in Pages /\ i.start \in Nat /\ i.len \in Nat
           /\ 1 <= i.len /\ i.len <= SegmentPages
           /\ i = Interval(i.start, i.len)
           /\ SegmentOf(i.start) \in Segments
           /\ SegmentStart(SegmentOf(i.start)) \in Nat
           /\ SegmentStart(SegmentOf(i.start)) <= i.start
           /\ \A p \in PagesOf(i) : p \in Pages /\ SegmentOf(p) = SegmentOf(i.start)
           /\ Ends(i) \subseteq PagesOf(i)
<1>1. i \in [start : Pages, len : 1 .. SegmentPages]
      /\ i.start + i.len <= SegmentStart(SegmentOf(i.start)) + SegmentPages
  BY DEF Fits
<1>2. i = Interval(i.start, i.len) /\ i.start \in Pages /\ i.len \in 1 .. SegmentPages
  BY <1>1 DEF Interval
<1>3. i.start \in Nat /\ i.len \in Nat /\ 1 <= i.len /\ i.len <= SegmentPages
  <2>1. SegmentPages \in Nat /\ \A p \in Pages : p \in Nat BY Segmentation
  <2>2. i.start \in Pages /\ i.len \in 1 .. SegmentPages BY <1>2
  <2> QED BY <2>1, <2>2
<1> DEFINE s == SegmentOf(i.start)
<1>4. s \in Segments /\ SegmentStart(s) \in Nat /\ SegmentStart(s) <= i.start
  BY <1>2, Segmentation
<1> HIDE DEF s
<1>5. ASSUME NEW p \in PagesOf(i)
      PROVE  p \in Pages /\ SegmentOf(p) = s
  <2>1. p \in Int /\ SegmentStart(s) <= p /\ p < SegmentStart(s) + SegmentPages
    BY <1>1, <1>3, <1>4, Segmentation DEF PagesOf, s
  <2> QED BY <1>4, <2>1, Segmentation
<1>6. Ends(i) \subseteq PagesOf(i) BY <1>3 DEF Ends, PagesOf
<1> QED BY <1>2, <1>3, <1>4, <1>5, <1>6 DEF s

-----------------------------------------------------------------------------
(* The neighbours of a tile, as the extents show them. *)

LEMMA FreeMark ==
    ASSUME NEW T, NEW O, NEW R, NEW ext, Marked(ext, T, O, R),
           NEW p \in Pages, ext[p].kind = "free"
    PROVE  \E t \in T : p \in Ends(t) /\ ext[p].len = t.len
<1>1. ASSUME NEW i \in O PROVE p \notin Ends(i)
  <2>1. p \in Ends(i) => ext[p] = [kind |-> "large", len |-> i.len] BY DEF Marked
  <2> QED BY <2>1
<1>2. ASSUME NEW i \in R PROVE p \notin PagesOf(i)
  <2>1. p \in PagesOf(i) => ext[p] = [kind |-> "run", len |-> RunPages] BY DEF Marked
  <2> QED BY <2>1
<1>3. ext[p] # NoExtent BY DEF NoExtent
<1>4. PICK t \in T : p \in Ends(t) BY <1>1, <1>2, <1>3 DEF Marked
<1>5. ext[p] = [kind |-> "free", len |-> t.len] BY <1>4 DEF Marked
<1> QED BY <1>4, <1>5

LEMMA BeforeIs ==
    ASSUME NEW segs, NEW T, NEW U, NEW O, NEW R, NEW ext,
           Tiled(segs, T, U), Marked(ext, T, O, R), NEW i \in U
    PROVE  /\ FreeBefore(ext, i) = Before(T, i)
           /\ \A b, c \in Before(T, i) : b = c
<1> SUFFICES /\ FreeBefore(ext, i) = {b \in T : Touch(b, i)}
             /\ \A b, c \in T : Touch(b, i) /\ Touch(c, i) => b = c
  BY DEF Before
<1> DEFINE s == SegmentOf(i.start)
           p == i.start - 1
<1>1. Fits(i) /\ \A t \in T : Fits(t) BY DEF Tiled
<1>2. /\ i.start \in Nat /\ i.start \in PagesOf(i) /\ i.start \in Pages /\ i.len \in Nat
      /\ s \in Segments /\ SegmentStart(s) \in Nat /\ SegmentStart(s) <= i.start
  <2>1. /\ i.start \in Nat /\ i.len \in Nat /\ 1 <= i.len /\ i.start \in Pages
        /\ s \in Segments /\ SegmentStart(s) \in Nat /\ SegmentStart(s) <= i.start
    BY <1>1, Fitting
  <2> QED BY <2>1 DEF PagesOf
<1>3. ASSUME NEW t \in T
      PROVE  /\ t.start \in Nat /\ t.len \in Nat /\ 1 <= t.len
             /\ t = Interval(t.start, t.len)
             /\ SegmentStart(SegmentOf(t.start)) \in Nat
             /\ SegmentStart(SegmentOf(t.start)) <= t.start
             /\ \A q \in PagesOf(t) : q \in Pages /\ SegmentOf(q) = SegmentOf(t.start)
             /\ Ends(t) \subseteq PagesOf(t)
  BY <1>1, Fitting
<1>4. CASE i.start = SegmentStart(s)
  <2>1. FreeBefore(ext, i) = {} BY <1>4 DEF FreeBefore
  <2>2. \A b \in T : ~Touch(b, i)
    <3> SUFFICES ASSUME NEW b \in T, b.start + b.len = i.start, SegmentOf(b.start) = s
                 PROVE  FALSE
      BY DEF Touch
    <3>1. SegmentStart(s) <= b.start BY <1>3
    <3> QED BY <1>2, <1>3, <1>4, <3>1
  <2> QED BY <2>1, <2>2
<1>5. CASE i.start # SegmentStart(s)
  <2>1. p \in Pages /\ SegmentOf(p) = s
    <3>1. SegmentPages \in Nat /\ i.start < SegmentStart(s) + SegmentPages
      BY <1>2, Segmentation
    <3>2. p \in Int /\ SegmentStart(s) <= p /\ p < SegmentStart(s) + SegmentPages
      BY <1>2, <1>5, <3>1
    <3> QED BY <1>2, <3>2, Segmentation
  <2>2. ASSUME NEW t \in T, p \in PagesOf(t)
        PROVE  Touch(t, i) /\ p = t.start + t.len - 1
    <3>1. t # i BY DEF Tiled
    <3>2. i.start \notin PagesOf(t) BY <1>2, <3>1 DEF Tiled
    <3>3. t.start <= p /\ p <= t.start + t.len - 1 BY <2>2 DEF PagesOf
    <3>4. t.start + t.len = i.start BY <1>2, <1>3, <3>2, <3>3 DEF PagesOf
    <3>5. SegmentOf(t.start) = s BY <1>3, <2>1, <2>2
    <3> QED BY <1>2, <1>3, <3>4, <3>5 DEF Touch
  <2>3. ASSUME NEW b \in T, Touch(b, i)
        PROVE  p \in Ends(b) /\ p \in PagesOf(b)
    BY <1>2, <1>3, <2>3 DEF Touch, Ends
  <2>4. \A b, c \in T : p \in PagesOf(b) /\ p \in PagesOf(c) => b = c BY <2>1 DEF Tiled
  <2>5. CASE ext[p].kind = "free"
    <3>1. PICK t \in T : p \in Ends(t) /\ ext[p].len = t.len BY <2>1, <2>5, FreeMark
    <3>2. Touch(t, i) /\ p = t.start + t.len - 1 BY <1>3, <2>2, <3>1
    <3>3. i.start - t.len = t.start BY <1>2, <1>3, <3>2
    <3>4. FreeBefore(ext, i) = {Interval(i.start - t.len, t.len)}
      BY <1>5, <2>5, <3>1 DEF FreeBefore
    <3>5. FreeBefore(ext, i) = {t} BY <1>3, <3>3, <3>4
    <3> QED BY <2>3, <2>4, <3>2, <3>5
  <2>6. CASE ext[p].kind # "free"
    <3>1. FreeBefore(ext, i) = {} BY <2>6 DEF FreeBefore
    <3>2. ASSUME NEW b \in T PROVE ~Touch(b, i)
      <4>1. p \in Ends(b) => ext[p] = [kind |-> "free", len |-> b.len] BY <2>1 DEF Marked
      <4> QED BY <2>3, <2>6, <4>1
    <3> QED BY <3>1, <3>2
  <2> QED BY <2>5, <2>6
<1> QED BY <1>4, <1>5

LEMMA AfterIs ==
    ASSUME NEW segs, NEW T, NEW U, NEW O, NEW R, NEW ext,
           Tiled(segs, T, U), Marked(ext, T, O, R), NEW i \in U
    PROVE  /\ FreeAfter(ext, i) = After(T, i)
           /\ \A a, c \in After(T, i) : a = c
<1> SUFFICES /\ FreeAfter(ext, i) = {a \in T : Touch(i, a)}
             /\ \A a, c \in T : Touch(i, a) /\ Touch(i, c) => a = c
  BY DEF After
<1> DEFINE s == SegmentOf(i.start)
           n == i.start + i.len
<1>1. Fits(i) /\ \A t \in T : Fits(t) BY DEF Tiled
<1>2. i.start \in Nat /\ i.len \in Nat /\ n - 1 \in PagesOf(i) /\ n - 1 \in Pages
  <2>1. i.start \in Nat /\ i.len \in Nat /\ 1 <= i.len /\ \A q \in PagesOf(i) : q \in Pages
    BY <1>1, Fitting
  <2>2. n - 1 \in PagesOf(i) BY <2>1 DEF PagesOf
  <2> QED BY <2>1, <2>2
<1>3. ASSUME NEW t \in T
      PROVE  /\ t.start \in Nat /\ t.len \in Nat /\ 1 <= t.len /\ t.start \in Pages
             /\ t = Interval(t.start, t.len)
             /\ Ends(t) \subseteq PagesOf(t)
  BY <1>1, Fitting
<1>4. ASSUME NEW t \in T, n \in PagesOf(t)
      PROVE  t.start = n
  <2>1. t # i BY DEF Tiled
  <2>2. n - 1 \notin PagesOf(t) BY <1>2, <2>1 DEF Tiled
  <2> QED BY <1>2, <1>3, <1>4, <2>2 DEF PagesOf
<1>5. \A a \in T : Touch(i, a) => a.start = n /\ n \in Pages /\ SegmentOf(n) = s /\ n \in Ends(a)
  BY <1>3 DEF Touch, Ends
<1>6. \A a, c \in T : Touch(i, a) /\ Touch(i, c) => a = c BY <1>3, <1>5 DEF Tiled
<1>7. CASE n \notin Pages \/ SegmentOf(n) # s
  <2>1. FreeAfter(ext, i) = {} BY <1>7 DEF FreeAfter
  <2> QED BY <1>5, <1>6, <1>7, <2>1
<1>8. CASE n \in Pages /\ SegmentOf(n) = s /\ ext[n].kind = "free"
  <2>1. PICK t \in T : n \in Ends(t) /\ ext[n].len = t.len BY <1>8, FreeMark
  <2>2. t.start = n BY <1>3, <1>4, <2>1
  <2>3. Touch(i, t) BY <1>8, <2>2 DEF Touch
  <2>4. FreeAfter(ext, i) = {Interval(n, t.len)} BY <1>8, <2>1 DEF FreeAfter
  <2>5. FreeAfter(ext, i) = {t} BY <1>3, <2>2, <2>4
  <2> QED BY <1>6, <2>3, <2>5
<1>9. CASE n \in Pages /\ SegmentOf(n) = s /\ ext[n].kind # "free"
  <2>1. FreeAfter(ext, i) = {} BY <1>9 DEF FreeAfter
  <2>2. ASSUME NEW a \in T PROVE ~Touch(i, a)
    <3>1. n \in Ends(a) => ext[n] = [kind |-> "free", len |-> a.len] BY <1>9 DEF Marked
    <3> QED BY <1>5, <1>9, <3>1
  <2> QED BY <1>6, <2>1, <2>2
<1> QED BY <1>7, <1>8, <1>9

\* t is i joined with the free tiles before and after it.
Spans(t, i, B, A) ==
    /\ t = Interval(t.start, t.len) /\ t.start \in Nat /\ t.len \in Nat
    /\ \A p \in Int : p \in PagesOf(t) <=> \E j \in B \cup A \cup {i} : p \in PagesOf(j)
    /\ \E f \in B \cup {i} : t.start = f.start /\ (f = i => B = {})
    /\ \E l \in A \cup {i} : t.start + t.len = l.start + l.len /\ (l = i => A = {})

LEMMA TotalSpans ==
    ASSUME NEW segs, NEW T, NEW U, Tiled(segs, T, U), NEW i \in U,
           \A b, c \in Before(T, i) : b = c, \A a, c \in After(T, i) : a = c
    PROVE  Spans(Total(i, Before(T, i), After(T, i)), i, Before(T, i), After(T, i))
<1> DEFINE B == Before(T, i)
           A == After(T, i)
<1>0. (\A b \in B : b \in T /\ Touch(b, i)) /\ (\A a \in A : a \in T /\ Touch(i, a))
  BY DEF Before, After
<1> HIDE DEF B, A
<1>1. i \notin T BY DEF Tiled
<1>2. PICK f \in B \cup {i} : B = {f} \/ (B = {} /\ f = i) BY DEF B
<1>3. PICK l \in A \cup {i} : A = {l} \/ (A = {} /\ l = i) BY DEF A
<1>4. ASSUME NEW j \in T \cup U
      PROVE  j.start \in Nat /\ j.len \in Nat /\ 1 <= j.len
  <2>1. Fits(j) BY DEF Tiled
  <2> QED BY <2>1, Fitting
<1>5. /\ f.start \in Nat /\ f.len \in Nat /\ 1 <= f.len
      /\ l.start \in Nat /\ l.len \in Nat /\ 1 <= l.len
      /\ i.start \in Nat /\ i.len \in Nat /\ 1 <= i.len
  BY <1>0, <1>4
<1>6. f = i \/ f.start + f.len = i.start BY <1>0 DEF Touch
<1>7. l = i \/ l.start = i.start + i.len BY <1>0 DEF Touch
<1> DEFINE n == l.start + l.len - f.start
           J == B \cup A \cup {i}
<1>8. \A j : j \in J <=> j = f \/ j = l \/ j = i BY <1>2, <1>3
<1>9. ASSUME NEW p \in Int
      PROVE  p \in f.start .. f.start + n - 1 <=> \E j \in J : p \in PagesOf(j)
  <2>1. (\E j \in J : p \in PagesOf(j)) <=> p \in PagesOf(f) \/ p \in PagesOf(l) \/ p \in PagesOf(i)
    BY <1>8
  <2> HIDE DEF J
  <2> QED BY <1>5, <1>6, <1>7, <2>1 DEF PagesOf
<1>10. UNION {PagesOf(j) : j \in J} = f.start .. f.start + n - 1
  <2>1. \A j \in J : PagesOf(j) \subseteq Int BY <1>5, <1>8 DEF PagesOf
  <2>2. f.start .. f.start + n - 1 \subseteq Int BY <1>5
  <2> HIDE DEF J, n
  <2> QED BY <1>9, <2>1, <2>2
<1>11. n \in Nat /\ n > 0 BY <1>5, <1>6, <1>7
<1>12. Cardinality(UNION {PagesOf(j) : j \in J}) = n
  <2>1. f.start \in Int /\ f.start + n - 1 \in Int /\ ~(f.start > f.start + n - 1)
        /\ f.start + n - 1 - f.start + 1 = n
    BY <1>5, <1>11
  <2> DEFINE e == f.start + n - 1
  <2>2. Cardinality(f.start .. e) = IF f.start > e THEN 0 ELSE e - f.start + 1
    BY <2>1, FS_Interval
  <2> HIDE DEF n, J
  <2>3. Cardinality(f.start .. e) = n BY <1>5, <1>11, <2>2
  <2> QED BY <1>10, <2>3
<1>13. (IF B = {} THEN i.start ELSE (CHOOSE j \in B : TRUE).start) = f.start
  <2>1. CASE B = {} BY <1>2, <2>1
  <2>2. CASE B = {f}
    <3>1. (CHOOSE j \in B : TRUE) \in B BY <2>2
    <3> QED BY <2>2, <3>1
  <2> QED BY <1>2, <2>1, <2>2
<1> DEFINE t == Total(i, B, A)
<1>14. t = Interval(f.start, n) BY <1>12, <1>13 DEF Total
<1>15. t.start = f.start /\ t.len = n BY <1>14 DEF Interval
<1>16. \A p \in Int : p \in PagesOf(t) <=> \E j \in J : p \in PagesOf(j)
  <2>1. PagesOf(t) = f.start .. f.start + n - 1 BY <1>15 DEF PagesOf
  <2> HIDE DEF t, n, J
  <2> QED BY <1>9, <2>1
<1>17. (f = i => B = {}) /\ (l = i => A = {}) BY <1>0, <1>1, <1>2, <1>3
<1>18. t.start + t.len = l.start + l.len BY <1>5, <1>15
<1> QED
  <2> HIDE DEF t, n
  <2>1. t = Interval(t.start, t.len) /\ t.start \in Nat /\ t.len \in Nat BY <1>5, <1>11, <1>14, <1>15
  <2>2. \E g \in B \cup {i} : t.start = g.start /\ (g = i => B = {}) BY <1>15, <1>17
  <2>3. \E m \in A \cup {i} : t.start + t.len = m.start + m.len /\ (m = i => A = {})
    BY <1>17, <1>18
  <2>4. Spans(t, i, B, A) BY <1>16, <2>1, <2>2, <2>3 DEF Spans
  <2> QED BY <2>4 DEF t, B, A

-----------------------------------------------------------------------------
(* Tiles replaced by others with the same pages. *)

LEMMA Disjoint ==
    ASSUME NEW segs, NEW T, NEW U, Tiled(segs, T, U), NEW i \in T \cup U, NEW j \in T \cup U,
           NEW p \in PagesOf(i), p \in PagesOf(j)
    PROVE  i = j
<1>1. p \in Pages
  <2>1. Fits(i) BY DEF Tiled
  <2> QED BY <2>1, Fitting
<1> QED BY <1>1 DEF Tiled

\* A tile is joined with its free neighbours.
LEMMA JoinedTiled ==
    ASSUME NEW segs, NEW T, NEW U, Tiled(segs, T, U), NEW i \in U,
           NEW t, Spans(t, i, Before(T, i), After(T, i))
    PROVE  /\ Fits(t) /\ SegmentOf(t.start) = SegmentOf(i.start)
           /\ \A j \in T \cup U : j \in Before(T, i) \cup After(T, i) \cup {i} \/ PagesOf(j) \cap PagesOf(t) = {}
           /\ \A j \in Before(T, i) \cup After(T, i) \cup {i} : PagesOf(j) \subseteq PagesOf(t)
           /\ Tiled(segs, (T \ (Before(T, i) \cup After(T, i))) \cup {t}, U \ {i})
<1> DEFINE s == SegmentOf(i.start)
           B == Before(T, i)
           A == After(T, i)
           J == B \cup A \cup {i}
           T2 == (T \ (B \cup A)) \cup {t}
           U2 == U \ {i}
<1>1. ASSUME NEW j \in T \cup U
      PROVE  /\ Fits(j) /\ j.start \in Pages /\ j.start \in Nat /\ j.len \in Nat /\ 1 <= j.len
             /\ SegmentStart(SegmentOf(j.start)) <= j.start
             /\ j.start + j.len <= SegmentStart(SegmentOf(j.start)) + SegmentPages
             /\ \A p \in PagesOf(j) : p \in Pages /\ SegmentOf(p) = SegmentOf(j.start)
             /\ SegmentOf(j.start) \in segs
  <2>1. Fits(j) /\ SegmentOf(j.start) \in segs BY DEF Tiled
  <2>2. j.start + j.len <= SegmentStart(SegmentOf(j.start)) + SegmentPages BY <2>1 DEF Fits
  <2> QED BY <2>1, <2>2, Fitting
<1>0. /\ \A b : b \in B <=> b \in T /\ Touch(b, i)
      /\ \A a : a \in A <=> a \in T /\ Touch(i, a)
  BY DEF Before, After
<1>2. J \subseteq T \cup U /\ \A j \in J : SegmentOf(j.start) = s BY <1>0 DEF Touch
<1>3. t = Interval(t.start, t.len) /\ t.start \in Nat /\ t.len \in Nat
  BY DEF Spans
<1>4. \A p \in Int : p \in PagesOf(t) <=> \E j \in J : p \in PagesOf(j) BY DEF Spans
<1>5. PICK f \in B \cup {i} : t.start = f.start /\ (f = i => B = {}) BY DEF Spans
<1>6. PICK l \in A \cup {i} : t.start + t.len = l.start + l.len /\ (l = i => A = {}) BY DEF Spans
<1>7. /\ s \in Segments /\ SegmentStart(s) \in Nat /\ SegmentPages \in Nat
      /\ i.start \in Nat /\ i.len \in Nat /\ 1 <= i.len
  BY <1>1, Segmentation
<1> HIDE DEF s, J, B, A
<1>8. t.start \in Pages /\ SegmentOf(t.start) = s /\ SegmentStart(s) <= t.start
  <2>1. f \in J BY DEF J
  <2> QED BY <1>1, <1>2, <1>5, <2>1
<1>9. t.start + t.len <= SegmentStart(s) + SegmentPages
  <2>1. l \in J BY DEF J
  <2> QED BY <1>1, <1>2, <1>6, <2>1
<1>10. \A j \in J : PagesOf(j) \subseteq PagesOf(t)
  <2>1. \A j \in J : PagesOf(j) \subseteq Int BY <1>1, <1>2 DEF PagesOf
  <2> QED BY <1>4, <2>1
<1>11. t.len >= 1
  <2>1. i \in J BY DEF J
  <2>2. i.start \in PagesOf(i) BY <1>7 DEF PagesOf
  <2>3. i.start \in PagesOf(t) BY <1>10, <2>1, <2>2
  <2> QED BY <1>3, <1>7, <2>3 DEF PagesOf
<1>12. Fits(t)
  <2>1. t.len \in 1 .. SegmentPages BY <1>3, <1>7, <1>8, <1>9, <1>11
  <2>2. t \in [start : Pages, len : 1 .. SegmentPages] BY <1>3, <1>8, <2>1 DEF Interval
  <2> QED BY <1>8, <1>9, <2>2 DEF Fits
<1>13. ASSUME NEW j \in T \cup U, j \notin J, NEW p \in PagesOf(j)
       PROVE  p \notin PagesOf(t)
  <2>1. p \in Int BY <1>1 DEF PagesOf
  <2>2. \A k \in J : p \notin PagesOf(k)
    <3> SUFFICES ASSUME NEW k \in J, p \in PagesOf(k)
                 PROVE  FALSE
      OBVIOUS
    <3>1. k \in T \cup U BY <1>2
    <3>2. j = k BY <3>1, Disjoint
    <3> QED BY <1>13, <3>2
  <2> QED BY <1>4, <2>1, <2>2
<1>14. \A j \in T \cup U : j \in J \/ PagesOf(j) \cap PagesOf(t) = {} BY <1>13
<1>15. T \cap U = {} /\ (\A j, k \in T : ~Touch(j, k)) BY DEF Tiled
<1>16. T2 \cup U2 = ((T \cup U) \ J) \cup {t}
  BY <1>0, <1>15 DEF J
<1>17. t \notin U2
  <2>1. PagesOf(t) # {} BY <1>3, <1>11 DEF PagesOf
  <2>2. \A j \in U2 : j \in T \cup U /\ j \notin J BY <1>0, <1>15 DEF J
  <2> QED BY <1>14, <2>1, <2>2
<1> HIDE DEF T2, U2
<1>18. \A j \in T2 \cup U2 : Fits(j) /\ SegmentOf(j.start) \in segs
  BY <1>1, <1>8, <1>12, <1>16 DEF s
<1>19. \A j, k \in T2 \cup U2, p \in Pages : p \in PagesOf(j) /\ p \in PagesOf(k) => j = k
  BY <1>13, <1>16, Disjoint
<1>20. ASSUME NEW p \in Pages, SegmentOf(p) \in segs
       PROVE  \E j \in T2 \cup U2 : p \in PagesOf(j)
  <2>1. PICK j \in T \cup U : p \in PagesOf(j) BY <1>20 DEF Tiled
  <2>2. CASE j \in J BY <1>10, <1>16, <2>1, <2>2
  <2>3. CASE j \notin J BY <1>16, <2>1, <2>3
  <2> QED BY <2>2, <2>3
<1>21. T2 \cap U2 = {} BY <1>15, <1>17 DEF T2, U2
<1>22. ASSUME NEW j \in T2, NEW k \in T2
       PROVE  ~Touch(j, k)
  <2>1. CASE j # t /\ k # t
    <3>1. j \in T /\ k \in T BY <2>1 DEF T2
    <3> QED BY <1>15, <3>1
  <2>2. CASE j = t /\ k = t BY <1>3, <1>11, <2>2 DEF Touch
  <2>3. CASE j # t /\ k = t
    <3>1. j \in T /\ j \notin B BY <2>3 DEF T2
    <3>2. CASE f = i BY <1>0, <1>5, <1>8, <2>3, <3>1, <3>2 DEF Touch, s
    <3>3. CASE f # i
      <4>1. f \in T /\ SegmentOf(f.start) = s BY <1>0, <1>2, <3>3 DEF J
      <4> QED BY <1>5, <1>8, <1>15, <2>3, <3>1, <4>1 DEF Touch
    <3> QED BY <3>2, <3>3
  <2>4. CASE j = t /\ k # t
    <3>1. k \in T /\ k \notin A BY <2>4 DEF T2
    <3>2. CASE l = i BY <1>0, <1>6, <1>8, <2>4, <3>1, <3>2 DEF Touch, s
    <3>3. CASE l # i
      <4>1. l \in T /\ SegmentOf(l.start) = s BY <1>0, <1>2, <3>3 DEF J
      <4> QED BY <1>6, <1>8, <1>15, <2>4, <3>1, <4>1 DEF Touch
    <3> QED BY <3>2, <3>3
  <2> QED BY <2>1, <2>2, <2>3, <2>4
<1>23. Tiled(segs, T2, U2) BY <1>18, <1>19, <1>20, <1>21, <1>22 DEF Tiled
<1> QED BY <1>8, <1>10, <1>12, <1>14, <1>23 DEF s, J, B, A, T2, U2

\* A segment that is one free tile leaves.
LEMMA SegmentLeaves ==
    ASSUME NEW segs, NEW T, NEW U, Tiled(segs, T, U), NEW t \in T, t.len = SegmentPages
    PROVE  /\ \A p \in Pages : SegmentOf(p) = SegmentOf(t.start) <=> p \in PagesOf(t)
           /\ Tiled(segs \ {SegmentOf(t.start)}, T \ {t}, U)
<1> DEFINE s == SegmentOf(t.start)
<1>1. \A j \in T \cup U : Fits(j) /\ SegmentOf(j.start) \in segs BY DEF Tiled
<1>2. /\ t.start \in Nat /\ SegmentStart(s) \in Nat /\ SegmentStart(s) <= t.start
      /\ SegmentPages \in Nat
      /\ \A p \in PagesOf(t) : SegmentOf(p) = s
  BY <1>1, Fitting, Segmentation
<1>3. t.start = SegmentStart(s)
  <2>1. t.start + t.len <= SegmentStart(s) + SegmentPages BY <1>1 DEF Fits
  <2> QED BY <1>2, <2>1
<1>4. ASSUME NEW p \in Pages, SegmentOf(p) = s
      PROVE  p \in PagesOf(t)
  <2>1. p \in Nat /\ SegmentStart(s) <= p /\ p < SegmentStart(s) + SegmentPages
    BY <1>4, Segmentation
  <2> QED BY <1>2, <1>3, <2>1 DEF PagesOf
<1>5. \A p \in Pages : SegmentOf(p) = s <=> p \in PagesOf(t) BY <1>2, <1>4
<1>6. ASSUME NEW j \in (T \ {t}) \cup U
      PROVE  SegmentOf(j.start) # s
  <2>1. Fits(j) /\ j # t BY <1>1 DEF Tiled
  <2>2. j.start \in Pages /\ j.start \in Nat /\ j.len \in Nat /\ 1 <= j.len BY <2>1, Fitting
  <2>3. j.start \in PagesOf(j) BY <2>2 DEF PagesOf
  <2>4. SegmentOf(j.start) = s => j.start \in PagesOf(t) BY <1>4, <2>2
  <2> QED BY <2>1, <2>3, <2>4, Disjoint
<1>7. \A p \in Pages : SegmentOf(p) \in segs \ {s} => \E j \in (T \ {t}) \cup U : p \in PagesOf(j)
  BY <1>5 DEF Tiled
<1>8. Tiled(segs \ {s}, T \ {t}, U) BY <1>1, <1>6, <1>7 DEF Tiled
<1> QED BY <1>5, <1>8

-----------------------------------------------------------------------------
(* Extents that follow the tiles. *)

Extents == [Pages -> [kind : {"none", "free", "large", "run"}, len : 0 .. SegmentPages]]

\* Tiles and extents change on the pages of C only: what does not lie there
\* stays, and what comes has its marks.
Redone(ext, T, O, R, ext2, T2, O2, R2, C) ==
    /\ \A j \in T \cup O \cup T2 \cup O2 : Ends(j) \subseteq PagesOf(j)
    /\ \A p \in Pages \ C : ext2[p] = ext[p]
    /\ \A j \in T2 : \/ j \in T /\ PagesOf(j) \cap C = {}
                     \/ \A p \in Ends(j) : ext2[p] = [kind |-> "free", len |-> j.len]
    /\ \A j \in O2 : \/ j \in O /\ PagesOf(j) \cap C = {}
                     \/ \A p \in Ends(j) : ext2[p] = [kind |-> "large", len |-> j.len]
    /\ \A j \in R2 : \/ j \in R /\ PagesOf(j) \cap C = {}
                     \/ \A p \in PagesOf(j) : ext2[p] = [kind |-> "run", len |-> RunPages]
    /\ \A j \in T : j \in T2 \/ PagesOf(j) \subseteq C
    /\ \A j \in O : j \in O2 \/ PagesOf(j) \subseteq C
    /\ \A j \in R : j \in R2 \/ PagesOf(j) \subseteq C
    /\ \A p \in C : \/ \E j \in T2 \cup O2 : p \in Ends(j)
                    \/ \E j \in R2 : p \in PagesOf(j)
                    \/ ext2[p] = NoExtent

LEMMA Remarked ==
    ASSUME NEW ext, NEW T, NEW O, NEW R, Marked(ext, T, O, R),
           NEW ext2, NEW T2, NEW O2, NEW R2, NEW C,
           Redone(ext, T, O, R, ext2, T2, O2, R2, C)
    PROVE  Marked(ext2, T2, O2, R2)
<1> USE DEF Redone
<1>1. ASSUME NEW j \in T2, NEW p \in Pages, p \in Ends(j)
      PROVE  ext2[p] = [kind |-> "free", len |-> j.len]
  <2>1. CASE j \in T /\ PagesOf(j) \cap C = {}
    <3>1. p \notin C BY <1>1, <2>1
    <3> QED BY <1>1, <2>1, <3>1 DEF Marked
  <2>2. CASE \A q \in Ends(j) : ext2[q] = [kind |-> "free", len |-> j.len] BY <1>1, <2>2
  <2> QED BY <2>1, <2>2
<1>2. ASSUME NEW j \in O2, NEW p \in Pages, p \in Ends(j)
      PROVE  ext2[p] = [kind |-> "large", len |-> j.len]
  <2>1. CASE j \in O /\ PagesOf(j) \cap C = {}
    <3>1. p \notin C BY <1>2, <2>1
    <3> QED BY <1>2, <2>1, <3>1 DEF Marked
  <2>2. CASE \A q \in Ends(j) : ext2[q] = [kind |-> "large", len |-> j.len] BY <1>2, <2>2
  <2> QED BY <2>1, <2>2
<1>3. ASSUME NEW j \in R2, NEW p \in Pages, p \in PagesOf(j)
      PROVE  ext2[p] = [kind |-> "run", len |-> RunPages]
  <2>1. CASE j \in R /\ PagesOf(j) \cap C = {}
    <3>1. p \notin C BY <1>3, <2>1
    <3> QED BY <1>3, <2>1, <3>1 DEF Marked
  <2>2. CASE \A q \in PagesOf(j) : ext2[q] = [kind |-> "run", len |-> RunPages] BY <1>3, <2>2
  <2> QED BY <2>1, <2>2
<1>4. ASSUME NEW p \in Pages
      PROVE  \/ \E j \in T2 \cup O2 : p \in Ends(j)
             \/ \E j \in R2 : p \in PagesOf(j)
             \/ ext2[p] = NoExtent
  <2>1. CASE p \in C BY <2>1
  <2>2. CASE p \notin C
    <3>1. CASE \E j \in T \cup O : p \in Ends(j)
      <4>1. PICK j \in T \cup O : p \in Ends(j) BY <3>1
      <4>2. p \in PagesOf(j) BY <4>1
      <4> QED BY <2>2, <4>1, <4>2
    <3>2. CASE \E j \in R : p \in PagesOf(j) BY <2>2, <3>2
    <3>3. CASE ext[p] = NoExtent BY <2>2, <3>3
    <3> QED BY <3>1, <3>2, <3>3 DEF Marked
  <2> QED BY <2>1, <2>2
<1> QED BY <1>1, <1>2, <1>3, <1>4 DEF Marked

LEMMA EndsWithin ==
    ASSUME NEW segs, NEW T, NEW U, Tiled(segs, T, U)
    PROVE  \A j \in T \cup U : Ends(j) \subseteq PagesOf(j) /\ PagesOf(j) \subseteq Pages
BY Fitting DEF Tiled

\* SetHeadTail and SetRun, page by page.
LEMMA HeadTailSet ==
    ASSUME NEW ext \in Extents, NEW i, Fits(i),
           NEW e \in [kind : {"none", "free", "large", "run"}, len : 0 .. SegmentPages]
    PROVE  /\ SetHeadTail(ext, i, e) \in Extents
           /\ \A p \in Pages : SetHeadTail(ext, i, e)[p] = IF p \in Ends(i) THEN e ELSE ext[p]
<1>1. i.start \in Pages /\ i.start + i.len - 1 \in Pages
  <2>1. Ends(i) \subseteq PagesOf(i) /\ \A p \in PagesOf(i) : p \in Pages BY Fitting
  <2> QED BY <2>1 DEF Ends
<1> DEFINE a == i.start
           b == i.start + i.len - 1
<1>2. Ends(i) = {a, b} BY DEF Ends
<1>3. a \in Pages /\ b \in Pages BY <1>1
<1>4. SetHeadTail(ext, i, e) = [ext EXCEPT ![a] = e, ![b] = e] BY DEF SetHeadTail
<1> HIDE DEF a, b
<1> QED BY <1>2, <1>3, <1>4 DEF Extents

LEMMA RunSet ==
    ASSUME NEW ext \in Extents, NEW r,
           NEW e \in [kind : {"none", "free", "large", "run"}, len : 0 .. SegmentPages]
    PROVE  /\ SetRun(ext, r, e) \in Extents
           /\ \A p \in Pages : SetRun(ext, r, e)[p]
                               = IF p \in PagesOf(Interval(r, RunPages)) THEN e ELSE ext[p]
BY DEF SetRun, Extents, PagesOf, Interval

LEMMA NoExtentIs ==
    NoExtent \in [kind : {"none", "free", "large", "run"}, len : 0 .. SegmentPages]
BY Segmentation DEF NoExtent

-----------------------------------------------------------------------------
(* Pages are freed. *)

LEMMA AllRemoved ==
    ASSUME NEW ext \in Extents, NEW M
    PROVE  /\ RemoveAll(ext, M) \in Extents
           /\ \A p \in Pages : RemoveAll(ext, M)[p] = IF \E j \in M : p \in Ends(j)
                                                      THEN NoExtent ELSE ext[p]
<1> DEFINE ends == UNION {{j.start, j.start + j.len - 1} : j \in M}
<1>1. \A p : p \in ends <=> \E j \in M : p \in Ends(j) BY DEF Ends
<1>2. RemoveAll(ext, M) = [p \in Pages |-> IF p \in ends THEN NoExtent ELSE ext[p]]
  BY DEF RemoveAll
<1> HIDE DEF ends
<1> QED BY <1>1, <1>2, NoExtentIs DEF Extents

LEMMA Merging ==
    ASSUME owned \subseteq Segments, m_freeSegments \subseteq Segments,
           owned \cap m_freeSegments = {}, m_intervalTree \subseteq Intervals,
           NEW U, NEW O, NEW R, NEW ext \in Extents, NEW i \in U,
           Tiled(owned, m_intervalTree, U), Marked(ext, m_intervalTree, O, R),
           O \cup R \subseteq U \ {i},
           MergeAndFree(ext, i)
    PROVE  /\ owned' \subseteq Segments /\ m_freeSegments' \subseteq Segments
           /\ owned' \cap m_freeSegments' = {}
           /\ m_intervalTree' \subseteq Intervals /\ m_extents' \in Extents
           /\ Tiled(owned', m_intervalTree', U \ {i})
           /\ Marked(m_extents', m_intervalTree', O, R)
<1> DEFINE T == m_intervalTree
           B == Before(T, i)
           A == After(T, i)
           M == B \cup A
           t == Total(i, B, A)
           s == SegmentOf(i.start)
           bare == RemoveAll(ext, M)
           T1 == (T \ M) \cup {t}
<1>1. FreeBefore(ext, i) = B /\ FreeAfter(ext, i) = A BY BeforeIs, AfterIs
<1>2. Spans(t, i, B, A)
  <2>1. (\A b, c \in B : b = c) /\ (\A a, c \in A : a = c) BY BeforeIs, AfterIs
  <2> QED BY <2>1, TotalSpans
<1>3. /\ Fits(t) /\ SegmentOf(t.start) = s
      /\ \A j \in T \cup U : j \in M \cup {i} \/ PagesOf(j) \cap PagesOf(t) = {}
      /\ \A j \in M \cup {i} : PagesOf(j) \subseteq PagesOf(t)
      /\ Tiled(owned, T1, U \ {i})
  <2>1. Tiled(owned, T, U) /\ Spans(t, i, Before(T, i), After(T, i)) BY <1>2
  <2> HIDE DEF T, t
  <2> QED BY <2>1, JoinedTiled
<1>20. B \subseteq T /\ A \subseteq T BY DEF Before, After
<1> HIDE DEF B, A
<1>4. \/ /\ t.len = SegmentPages
         /\ m_intervalTree' = T \ M
         /\ m_extents' = [p \in Pages |-> IF SegmentOf(p) = s THEN NoExtent ELSE bare[p]]
         /\ owned' = owned \ {s}
         /\ m_freeSegments' = m_freeSegments \cup {s}
      \/ /\ t.len # SegmentPages
         /\ m_intervalTree' = T1
         /\ m_extents' = SetHeadTail(bare, t, [kind |-> "free", len |-> t.len])
         /\ UNCHANGED <<owned, m_freeSegments>>
  BY <1>1 DEF MergeAndFree, IsWholeSegment, InsertHeadTail
<1>5. /\ bare \in Extents
      /\ \A p \in Pages : bare[p] = IF \E j \in M : p \in Ends(j) THEN NoExtent ELSE ext[p]
  BY AllRemoved
<1>6. /\ t.start \in Pages /\ t.len \in Nat /\ 1 <= t.len /\ t.len <= SegmentPages
      /\ t = Interval(t.start, t.len) /\ s \in Segments
      /\ Ends(t) \subseteq PagesOf(t) /\ PagesOf(t) \subseteq Pages
  BY <1>3, Fitting
<1>7. i \notin T /\ M \subseteq T /\ t \notin T \ M /\ O \cup R \subseteq U
  <2>1. i \notin T BY DEF Tiled
  <2>2. t.start \in PagesOf(t) BY <1>6, Segmentation DEF PagesOf
  <2>3. \A j \in T \ M : j # t
    BY <1>3, <2>1, <2>2
  <2> QED BY <1>20, <2>1, <2>3
<1>8. \A j \in T \cup U : Ends(j) \subseteq PagesOf(j) /\ PagesOf(j) \subseteq Pages BY EndsWithin
<1> HIDE DEF bare, t, s
\* The pages of t hold no marks but those of its parts.
<1>9. ASSUME NEW p \in PagesOf(t)
      PROVE  ext[p] = NoExtent \/ \E j \in M : p \in Ends(j)
  <2>1. p \in Pages BY <1>6
  <2>2. ASSUME NEW j \in T \cup O, p \in Ends(j)
        PROVE  j \in M
    <3>1. p \in PagesOf(j) /\ j \in T \cup U BY <1>7, <1>8, <2>2
    <3>2. j \in M \cup {i} BY <1>3, <3>1
    <3>3. j # i BY <1>7, <2>2
    <3> QED BY <3>2, <3>3
  <2>3. \A j \in R : p \notin PagesOf(j)
    <3> SUFFICES ASSUME NEW j \in R, p \in PagesOf(j)
                 PROVE  FALSE
      OBVIOUS
    <3>1. j \in M \cup {i} BY <1>3, <1>7
    <3>2. j \in U /\ j # i BY <1>7
    <3>3. j \in T BY <1>7, <3>1, <3>2
    <3> QED BY <3>2, <3>3 DEF Tiled
  <2> QED BY <2>1, <2>2, <2>3 DEF Marked
<1>10. \A p \in PagesOf(t) : bare[p] = NoExtent BY <1>5, <1>6, <1>9
<1>11. \A p \in Pages \ PagesOf(t) : bare[p] = ext[p]
  <2>1. \A j \in M : Ends(j) \subseteq PagesOf(t) BY <1>3, <1>7, <1>8
  <2> QED BY <1>5, <2>1
<1>12. \A j \in O \cup R : PagesOf(j) \cap PagesOf(t) = {}
  <2>1. \A j \in O \cup R : j \notin M \cup {i}
    <3>1. T \cap U = {} BY DEF Tiled
    <3> QED BY <1>7, <3>1
  <2> QED BY <1>3, <1>7, <2>1
<1>13. \A j \in T \ M : PagesOf(j) \cap PagesOf(t) = {} BY <1>3, <1>7
<1>14. CASE t.len # SegmentPages
  <2> DEFINE e == [kind |-> "free", len |-> t.len]
  <2>1. m_intervalTree' = T1 /\ m_extents' = SetHeadTail(bare, t, e)
        /\ UNCHANGED <<owned, m_freeSegments>>
    BY <1>4, <1>14
  <2>2. e \in [kind : {"none", "free", "large", "run"}, len : 0 .. SegmentPages]
    BY <1>6, Segmentation
  <2> HIDE DEF e
  <2>3. /\ m_extents' \in Extents
        /\ \A p \in Pages : m_extents'[p] = IF p \in Ends(t) THEN e ELSE bare[p]
    BY <1>3, <1>5, <2>1, <2>2, HeadTailSet
  <2>4. m_intervalTree' \subseteq Intervals
    <3>1. t.len \in 1 .. SegmentPages - 1 BY <1>6, <1>14, Segmentation
    <3>2. t \in Intervals BY <1>6, <3>1 DEF Intervals, Interval
    <3> QED BY <2>1, <3>2
  <2>5. \A p \in Pages \ PagesOf(t) : m_extents'[p] = ext[p] BY <1>6, <1>11, <2>3
  <2>6. \A p \in Ends(t) : m_extents'[p] = e BY <1>6, <2>3
  <2>7. \A p \in PagesOf(t) : p \in Ends(t) \/ m_extents'[p] = NoExtent BY <1>6, <1>10, <2>3
  <2>8. \A j \in T : j \in T1 \/ PagesOf(j) \subseteq PagesOf(t) BY <1>3
  <2>9. \A j \in T1 : \/ j \in T /\ PagesOf(j) \cap PagesOf(t) = {}
                      \/ \A p \in Ends(j) : m_extents'[p] = [kind |-> "free", len |-> j.len]
    <3>1. \A j \in T1 : j = t \/ j \in T \ M OBVIOUS
    <3> QED BY <1>13, <2>6, <3>1 DEF e
  <2>10. t \in T1 OBVIOUS
  <2>11. \A j \in T \cup O \cup T1 : Ends(j) \subseteq PagesOf(j) BY <1>6, <1>7, <1>8
  <2> HIDE DEF T1
  <2>12. Redone(ext, T, O, R, m_extents', T1, O, R, PagesOf(t))
    BY <1>12, <2>5, <2>7, <2>8, <2>9, <2>10, <2>11 DEF Redone
  <2>13. Marked(m_extents', T1, O, R) BY <2>12, Remarked
  <2> QED BY <1>3, <2>1, <2>3, <2>4, <2>13
<1>15. CASE t.len = SegmentPages
  <2>1. /\ m_intervalTree' = T \ M
        /\ m_extents' = [p \in Pages |-> IF SegmentOf(p) = s THEN NoExtent ELSE bare[p]]
        /\ owned' = owned \ {s}
        /\ m_freeSegments' = m_freeSegments \cup {s}
    BY <1>4, <1>15
  <2>2. /\ \A p \in Pages : SegmentOf(p) = s <=> p \in PagesOf(t)
        /\ Tiled(owned \ {s}, T1 \ {t}, U \ {i})
    <3>1. t \in T1 OBVIOUS
    <3> HIDE DEF T1
    <3> QED BY <1>3, <1>15, <3>1, SegmentLeaves
  <2>3. T1 \ {t} = T \ M BY <1>7
  <2>4. m_extents' \in Extents BY <1>5, <2>1, NoExtentIs DEF Extents
  <2>5. \A p \in Pages \ PagesOf(t) : m_extents'[p] = ext[p] BY <1>11, <2>1, <2>2
  <2>6. \A p \in PagesOf(t) : m_extents'[p] = NoExtent BY <1>6, <2>1, <2>2
  <2>7. \A j \in T : j \in T \ M \/ PagesOf(j) \subseteq PagesOf(t) BY <1>3
  <2>8. \A j \in T \cup O : Ends(j) \subseteq PagesOf(j) BY <1>7, <1>8
  <2>9. Marked(m_extents', T \ M, O, R)
    <3> DEFINE T2 == T \ M
    <3>1. /\ \A j \in T2 : j \in T /\ PagesOf(j) \cap PagesOf(t) = {}
          /\ \A j \in T : j \in T2 \/ PagesOf(j) \subseteq PagesOf(t)
          /\ T2 \subseteq T
      BY <1>13, <2>7
    <3> HIDE DEF T2
    <3>2. Redone(ext, T, O, R, m_extents', T2, O, R, PagesOf(t))
      BY <1>12, <2>5, <2>6, <2>8, <3>1 DEF Redone
    <3>3. Marked(m_extents', T2, O, R) BY <3>2, Remarked
    <3> QED BY <3>3 DEF T2
  <2> QED BY <1>6, <2>1, <2>2, <2>3, <2>4, <2>9
<1> QED BY <1>14, <1>15

LEMMA Freed ==
    ASSUME owned \subseteq Segments, m_freeSegments \subseteq Segments,
           owned \cap m_freeSegments = {}, m_intervalTree \subseteq Intervals,
           NEW U, NEW O, NEW R, NEW ext \in Extents, NEW i \in U,
           Tiled(owned, m_intervalTree, U), Marked(ext, m_intervalTree, O, R),
           O \cup R \subseteq U \ {i},
           FreePages(ext, i)
    PROVE  /\ owned' \subseteq Segments /\ m_freeSegments' \subseteq Segments
           /\ owned' \cap m_freeSegments' = {}
           /\ m_intervalTree' \subseteq Intervals /\ m_extents' \in Extents
           /\ Marked(m_extents', m_intervalTree', O, R)
           /\ \/ lost' = lost /\ Tiled(owned', m_intervalTree', U \ {i})
              \/ lost' = lost \cup {i} /\ Tiled(owned', m_intervalTree', U)
<1>1. CASE MergeAndFree(ext, i)
  <2>1. lost' = lost BY <1>1 DEF MergeAndFree
  <2> QED BY <1>1, <2>1, Merging
<1>2. CASE LosePages(ext, i) BY <1>2 DEF LosePages
<1> QED BY <1>1, <1>2 DEF FreePages

-----------------------------------------------------------------------------
(* Pages are reserved: a free tile is split, or a new segment entered. *)

LEMMA Split ==
    ASSUME NEW i, Fits(i), NEW size \in Nat, 1 <= size, size <= i.len
    PROVE  LET h == Interval(i.start, size) IN
           /\ Fits(h) /\ h.start = i.start /\ h.len = size
           /\ PagesOf(h) \subseteq PagesOf(i)
           /\ \A r \in Rest(i, size) :
                 /\ Fits(r) /\ SegmentOf(r.start) = SegmentOf(i.start)
                 /\ r.start = i.start + size /\ r.start + r.len = i.start + i.len
                 /\ PagesOf(r) \subseteq PagesOf(i) /\ PagesOf(r) \cap PagesOf(h) = {}
           /\ \A p \in PagesOf(i) : p \in PagesOf(h) \/ \E r \in Rest(i, size) : p \in PagesOf(r)
           /\ \A r, q \in Rest(i, size) : r = q
<1> DEFINE h == Interval(i.start, size)
           s == SegmentOf(i.start)
<1>1. /\ i.start \in Pages /\ i.start \in Nat /\ i.len \in Nat /\ i.len <= SegmentPages
      /\ i.start + i.len <= SegmentStart(s) + SegmentPages
      /\ \A p \in PagesOf(i) : p \in Pages /\ SegmentOf(p) = s
      /\ SegmentPages \in Nat /\ SegmentStart(s) \in Nat
  <2>1. i.start + i.len <= SegmentStart(s) + SegmentPages BY DEF Fits
  <2> QED BY <2>1, Fitting, Segmentation
<1> HIDE DEF s
<1>2. h.start = i.start /\ h.len = size BY DEF Interval
<1>3. Fits(h)
  <2>1. size \in 1 .. SegmentPages BY <1>1
  <2>2. h \in [start : Pages, len : 1 .. SegmentPages] BY <1>1, <2>1 DEF Interval
  <2>3. h.start + h.len <= SegmentStart(s) + SegmentPages BY <1>1, <1>2
  <2> QED BY <1>2, <2>2, <2>3 DEF Fits, s
<1>4. PagesOf(h) \subseteq PagesOf(i) BY <1>1, <1>2 DEF PagesOf
<1>5. CASE size = i.len
  <2>1. Rest(i, size) = {} BY <1>1, <1>5 DEF Rest
  <2>2. PagesOf(h) = PagesOf(i) BY <1>2, <1>5 DEF PagesOf
  <2> QED BY <1>2, <1>3, <2>1, <2>2
<1>6. CASE size # i.len
  <2> DEFINE r == Interval(i.start + size, i.len - size)
  <2>1. Rest(i, size) = {r} BY <1>1, <1>6 DEF Rest
  <2>2. r.start = i.start + size /\ r.len = i.len - size BY DEF Interval
  <2>3. r.start \in PagesOf(i) BY <1>1, <1>6, <2>2 DEF PagesOf
  <2>4. r.start \in Pages /\ SegmentOf(r.start) = s BY <1>1, <2>3
  <2>5. r \in [start : Pages, len : 1 .. SegmentPages]
    <3>1. i.len - size \in 1 .. SegmentPages BY <1>1, <1>6
    <3> QED BY <2>2, <2>4, <3>1 DEF Interval
  <2> HIDE DEF r, h
  <2>6. r.start + r.len = i.start + i.len BY <1>1, <2>2
  <2>7. Fits(r) BY <1>1, <2>4, <2>5, <2>6 DEF Fits
  <2>8. PagesOf(r) \subseteq PagesOf(i) /\ PagesOf(r) \cap PagesOf(h) = {}
    BY <1>1, <1>2, <2>2 DEF PagesOf
  <2>9. \A p \in PagesOf(i) : p \in PagesOf(h) \/ p \in PagesOf(r)
    BY <1>1, <1>2, <2>2 DEF PagesOf
  <2> QED BY <1>2, <1>3, <1>4, <2>1, <2>2, <2>4, <2>6, <2>7, <2>8, <2>9 DEF h, s
<1> QED BY <1>1, <1>5, <1>6

LEMMA SplitTiled ==
    ASSUME NEW segs, NEW T, NEW U, Tiled(segs, T, U), NEW i \in T,
           NEW size \in Nat, 1 <= size, size <= i.len
    PROVE  LET h == Interval(i.start, size) IN
           /\ h \notin U
           /\ Tiled(segs, (T \ {i}) \cup Rest(i, size), U \cup {h})
<1> DEFINE h == Interval(i.start, size)
           N == Rest(i, size)
           T2 == (T \ {i}) \cup N
           U2 == U \cup {h}
<1>1. ASSUME NEW j \in T \cup U
      PROVE  /\ Fits(j) /\ SegmentOf(j.start) \in segs /\ j.start \in Nat /\ j.len \in Nat
             /\ 1 <= j.len /\ j.start \in PagesOf(j)
             /\ j.start + j.len - 1 \in PagesOf(j)
             /\ PagesOf(j) \subseteq Pages
  <2>1. Fits(j) /\ SegmentOf(j.start) \in segs BY DEF Tiled
  <2>2. j.start \in Nat /\ j.len \in Nat /\ 1 <= j.len /\ PagesOf(j) \subseteq Pages
    BY <2>1, Fitting
  <2> QED BY <2>1, <2>2 DEF PagesOf
<1>2. /\ Fits(h) /\ h.start = i.start /\ h.len = size
      /\ PagesOf(h) \subseteq PagesOf(i)
      /\ \A r \in N :
            /\ Fits(r) /\ SegmentOf(r.start) = SegmentOf(i.start)
            /\ r.start = i.start + size /\ r.start + r.len = i.start + i.len
            /\ PagesOf(r) \subseteq PagesOf(i) /\ PagesOf(r) \cap PagesOf(h) = {}
      /\ \A p \in PagesOf(i) : p \in PagesOf(h) \/ \E r \in N : p \in PagesOf(r)
      /\ \A r, q \in N : r = q
  BY <1>1, Split
<1>3. /\ h.start \in PagesOf(h)
      /\ \A r \in N : r.start \in PagesOf(r) /\ r.start \in Nat /\ r.len \in Nat /\ 1 <= r.len
  <2>1. \A j : Fits(j) => j.start \in Nat /\ j.len \in Nat /\ 1 <= j.len BY Fitting
  <2> QED BY <1>2, <2>1 DEF PagesOf
<1> HIDE DEF h, N
<1>4. \A j \in T \cup U : j = i \/ PagesOf(j) \cap PagesOf(i) = {}
  BY <1>1 DEF Tiled
<1>5. i \notin U BY DEF Tiled
<1>6. h \notin U /\ (h \notin T \/ h = i) BY <1>2, <1>3, <1>4, <1>5
<1>7. \A r \in N : r \notin U /\ r # h /\ r \notin T
  <2> SUFFICES ASSUME NEW r \in N
               PROVE  r \notin U /\ r # h /\ r \notin T
    OBVIOUS
  <2>1. r.start \in PagesOf(r) /\ r.start \in PagesOf(i) /\ r.start \notin PagesOf(h)
    BY <1>2, <1>3
  <2>2. r # i BY <1>1, <1>2
  <2> QED BY <1>4, <1>5, <2>1, <2>2
<1>8. \A j \in T2 \cup U2 : (j \in T \cup U /\ j # i /\ PagesOf(j) \cap PagesOf(i) = {}) \/ j = h \/ j \in N
  BY <1>4, <1>5
<1>9. \A j \in T2 \cup U2 : Fits(j) /\ SegmentOf(j.start) \in segs BY <1>1, <1>2, <1>8
<1>10. ASSUME NEW j \in T2 \cup U2, NEW k \in T2 \cup U2, NEW p \in Pages,
              p \in PagesOf(j), p \in PagesOf(k)
       PROVE  j = k
  <2>1. CASE j \in T \cup U /\ k \in T \cup U BY <1>10, <2>1 DEF Tiled
  <2>2. CASE p \in PagesOf(i)
    <3>1. (j = h \/ j \in N) /\ (k = h \/ k \in N) BY <1>8, <1>10, <2>2
    <3> QED BY <1>2, <1>10, <3>1
  <2>3. CASE p \notin PagesOf(i)
    <3>1. j \in T \cup U /\ k \in T \cup U BY <1>2, <1>8, <1>10, <2>3
    <3> QED BY <2>1, <3>1
  <2> QED BY <2>2, <2>3
<1>11. ASSUME NEW p \in Pages, SegmentOf(p) \in segs
       PROVE  \E j \in T2 \cup U2 : p \in PagesOf(j)
  <2>1. PICK j \in T \cup U : p \in PagesOf(j) BY <1>11 DEF Tiled
  <2>2. CASE j = i BY <1>2, <2>1, <2>2
  <2>3. CASE j # i BY <2>1, <2>3
  <2> QED BY <2>2, <2>3
<1>12. T2 \cap U2 = {}
  <2>1. T \cap U = {} BY DEF Tiled
  <2> QED BY <1>6, <1>7, <2>1
<1>13. ASSUME NEW j \in T2, NEW k \in T2
       PROVE  ~Touch(j, k)
  <2>1. CASE j \in T /\ k \in T BY <2>1 DEF Tiled
  <2>2. CASE j \in N /\ k \in N
    <3>1. j = k /\ j.start \in Nat /\ 1 <= j.len /\ j.len \in Nat BY <1>2, <1>3, <2>2
    <3> QED BY <3>1 DEF Touch
  \* What ends where the rest starts ends within i.
  <2>3. CASE j \in T \ {i} /\ k \in N
    <3>1. j.start + j.len - 1 \notin PagesOf(i) BY <1>1, <1>4, <2>3
    <3>2. k.start = i.start + size BY <1>2, <2>3
    <3> QED BY <1>1, <2>3, <3>1, <3>2 DEF Touch, PagesOf
  \* What starts where the rest ends has touched i.
  <2>4. CASE j \in N /\ k \in T
    <3>1. j.start + j.len = i.start + i.len /\ SegmentOf(j.start) = SegmentOf(i.start)
      BY <1>2, <2>4
    <3>2. ~Touch(i, k) BY <2>4 DEF Tiled
    <3> QED BY <3>1, <3>2 DEF Touch
  <2> QED BY <2>1, <2>2, <2>3, <2>4
<1> HIDE DEF T2, U2
<1>14. Tiled(segs, T2, U2) BY <1>9, <1>10, <1>11, <1>12, <1>13 DEF Tiled
<1> QED BY <1>6, <1>14 DEF T2, U2, N, h

LEMMA SplitMarked ==
    ASSUME NEW segs, NEW T, NEW U, Tiled(segs, T, U), NEW i \in T,
           NEW size \in Nat, 1 <= size, size <= i.len,
           NEW O, NEW R, O \cup R \subseteq U, NEW ext \in Extents, Marked(ext, T, O, R)
    PROVE  LET ext2 == RemoveFreeSpace(ext, Interval(i.start, size)) IN
           /\ ext2 \in Extents
           /\ Marked(ext2, (T \ {i}) \cup Rest(i, size), O, R)
<1> DEFINE h == Interval(i.start, size)
           N == Rest(i, size)
           T2 == (T \ {i}) \cup N
           ext2 == RemoveFreeSpace(ext, h)
<1>1. Fits(i) BY DEF Tiled
<1>2. /\ Fits(h) /\ h.start = i.start /\ h.len = size
      /\ PagesOf(h) \subseteq PagesOf(i)
      /\ \A r \in N :
            /\ Fits(r) /\ r.start = i.start + size /\ r.start + r.len = i.start + i.len
            /\ PagesOf(r) \subseteq PagesOf(i) /\ PagesOf(r) \cap PagesOf(h) = {}
  BY <1>1, Split
<1>3. \A j : Fits(j) => /\ j.start \in Nat /\ j.len \in Nat /\ 1 <= j.len
                        /\ j.len <= SegmentPages
                        /\ Ends(j) \subseteq PagesOf(j) /\ PagesOf(j) \subseteq Pages
  BY Fitting
<1>4. ext[i.start] = [kind |-> "free", len |-> i.len]
  <2>1. i.start \in Ends(i) /\ i.start \in Pages BY <1>1, <1>3 DEF Ends
  <2> QED BY <2>1 DEF Marked
<1>5. \A j \in T \cup U : j = i \/ PagesOf(j) \cap PagesOf(i) = {} BY <1>1, <1>3 DEF Tiled
<1>6. i \notin U BY DEF Tiled
\* The pages of i hold no marks but those of its ends.
<1>7. ASSUME NEW p \in PagesOf(i)
      PROVE  p \in Ends(i) \/ ext[p] = NoExtent
  <2>1. p \in Pages BY <1>1, <1>3
  <2>2. \A j \in T \cup O : p \in Ends(j) => j = i
    <3>1. \A j \in T \cup O : j \in T \cup U /\ Ends(j) \subseteq PagesOf(j) BY <1>3 DEF Tiled
    <3> QED BY <1>5, <3>1
  <2>3. \A j \in R : p \notin PagesOf(j) BY <1>5, <1>6
  <2> QED BY <2>1, <2>2, <2>3 DEF Marked
<1>8. /\ ext2 \in Extents
      /\ \A p \in Pages \ PagesOf(i) : ext2[p] = ext[p]
      /\ \A r \in N : \A p \in Ends(r) : ext2[p] = [kind |-> "free", len |-> r.len]
      /\ \A p \in PagesOf(i) : ext2[p] = NoExtent \/ \E r \in N : p \in Ends(r)
  <2>1. CASE size = i.len
    <3>1. N = {} BY <1>1, <1>3, <2>1 DEF Rest
    <3>2. ext2 = SetHeadTail(ext, h, NoExtent)
      BY <1>2, <1>4, <2>1 DEF RemoveFreeSpace, RemoveHeadTail
    <3>3. /\ ext2 \in Extents
          /\ \A p \in Pages : ext2[p] = IF p \in Ends(h) THEN NoExtent ELSE ext[p]
      <4> HIDE DEF h, ext2
      <4> QED BY <1>2, <3>2, HeadTailSet, NoExtentIs
    <3>4. Ends(h) = Ends(i) BY <1>2, <2>1 DEF Ends
    <3> HIDE DEF ext2, h, N
    <3> QED BY <1>1, <1>3, <1>7, <3>1, <3>3, <3>4
  <2>2. CASE size # i.len
    <3> DEFINE r == Interval(i.start + size, i.len - size)
               e == [kind |-> "free", len |-> r.len]
               bare == SetHeadTail(ext, h, NoExtent)
    <3>1. N = {r} BY <1>1, <1>3, <2>2 DEF Rest
    <3>2. ext2 = SetHeadTail(bare, r, e)
      BY <1>2, <1>4, <2>2 DEF RemoveFreeSpace, RemoveHeadTail, InsertHeadTail
    <3>3. /\ Fits(r) /\ r.start = i.start + size /\ r.start + r.len = i.start + i.len
          /\ PagesOf(r) \subseteq PagesOf(i)
      BY <1>2, <3>1
    <3>4. e \in [kind : {"none", "free", "large", "run"}, len : 0 .. SegmentPages]
      <4>1. r.len \in 0 .. SegmentPages BY <1>3, <3>3, Segmentation
      <4> QED BY <4>1
    <3> HIDE DEF h, ext2, N, r, e
    <3>5. /\ bare \in Extents
          /\ \A p \in Pages : bare[p] = IF p \in Ends(h) THEN NoExtent ELSE ext[p]
      BY <1>2, HeadTailSet, NoExtentIs
    <3> HIDE DEF bare
    <3>6. /\ ext2 \in Extents
          /\ \A p \in Pages : ext2[p] = IF p \in Ends(r) THEN e ELSE bare[p]
      BY <3>2, <3>3, <3>4, <3>5, HeadTailSet
    <3>7. Ends(r) \subseteq PagesOf(i) /\ Ends(h) \subseteq PagesOf(i)
      BY <1>2, <1>3, <3>3
    <3>8. ASSUME NEW p \in Ends(i)
          PROVE  p \in Ends(r) \/ p \in Ends(h)
      <4>1. i.start \in Nat /\ i.len \in Nat /\ h.start = i.start BY <1>1, <1>2, <1>3
      <4>2. r.start = i.start + size /\ r.len = i.len - size BY DEF r, Interval
      <4>3. i.start + i.len - 1 = r.start + r.len - 1 BY <4>1, <4>2
      <4> QED BY <4>1, <4>3 DEF Ends
    <3>9. PagesOf(i) \subseteq Pages BY <1>1, <1>3
    <3> QED BY <1>7, <3>1, <3>5, <3>6, <3>7, <3>8, <3>9 DEF e
  <2> QED BY <2>1, <2>2
<1> HIDE DEF ext2, N
<1>9. Redone(ext, T, O, R, ext2, T2, O, R, PagesOf(i))
  <2>1. \A j \in T \cup O \cup T2 \cup O : Ends(j) \subseteq PagesOf(j)
    <3>1. \A j \in T \cup O \cup T2 : Fits(j) BY <1>2 DEF Tiled
    <3> QED BY <1>3, <3>1
  <2>2. \A j \in T2 : \/ j \in T /\ PagesOf(j) \cap PagesOf(i) = {}
                      \/ \A p \in Ends(j) : ext2[p] = [kind |-> "free", len |-> j.len]
    BY <1>5, <1>8
  <2>3. \A j \in O \cup R : PagesOf(j) \cap PagesOf(i) = {} BY <1>5, <1>6
  <2>4. \A j \in T : j \in T2 \/ PagesOf(j) \subseteq PagesOf(i) OBVIOUS
  <2>5. N \subseteq T2 OBVIOUS
  <2> HIDE DEF T2
  <2> QED BY <1>8, <2>1, <2>2, <2>3, <2>4, <2>5 DEF Redone
<1>10. Marked(ext2, T2, O, R)
  <2> HIDE DEF T2
  <2> QED BY <1>9, Remarked
<1> QED BY <1>8, <1>10 DEF ext2, N

LEMMA SegmentEnters ==
    ASSUME NEW segs, segs \subseteq Segments, NEW s \in Segments \ segs,
           NEW T, NEW U, Tiled(segs, T, U),
           NEW O, NEW R, O \cup R \subseteq U, NEW ext \in Extents, Marked(ext, T, O, R)
    PROVE  LET w    == Interval(SegmentStart(s), SegmentPages)
               ext2 == InsertHeadTail(ext, w, "free")
           IN  /\ Fits(w) /\ w \notin T /\ w.start = SegmentStart(s) /\ w.len = SegmentPages
               /\ Tiled(segs \cup {s}, T \cup {w}, U)
               /\ ext2 \in Extents /\ Marked(ext2, T \cup {w}, O, R)
<1> DEFINE w == Interval(SegmentStart(s), SegmentPages)
           e == [kind |-> "free", len |-> SegmentPages]
           ext2 == InsertHeadTail(ext, w, "free")
<1>1. /\ SegmentPages \in Nat \ {0} /\ SegmentStart(s) \in Pages /\ SegmentStart(s) \in Nat
      /\ SegmentOf(SegmentStart(s)) = s
  <2>1. SegmentPages \in Nat \ {0} /\ SegmentStart(s) \in Pages /\ SegmentStart(s) \in Nat
    BY Segmentation
  <2>2. SegmentStart(s) <= SegmentStart(s) /\ SegmentStart(s) < SegmentStart(s) + SegmentPages
    BY <2>1
  <2> QED BY <2>1, <2>2, Segmentation
<1>2. w.start = SegmentStart(s) /\ w.len = SegmentPages BY DEF Interval
<1>3. Fits(w)
  <2>1. SegmentPages \in 1 .. SegmentPages BY <1>1
  <2>2. w \in [start : Pages, len : 1 .. SegmentPages] BY <1>1, <2>1 DEF Interval
  <2> QED BY <1>1, <1>2, <2>2 DEF Fits
<1>4. ext2 = SetHeadTail(ext, w, e) BY <1>2 DEF InsertHeadTail
<1> HIDE DEF w
<1>5. \A p \in Pages : p \in PagesOf(w) <=> SegmentOf(p) = s
  <2>1. \A p \in PagesOf(w) : SegmentOf(p) = s BY <1>1, <1>2, <1>3, Fitting
  <2>2. ASSUME NEW p \in Pages, SegmentOf(p) = s PROVE p \in PagesOf(w)
    <3>1. p \in Nat /\ SegmentStart(s) <= p /\ p < SegmentStart(s) + SegmentPages
      BY <2>2, Segmentation
    <3> QED BY <1>1, <1>2, <3>1 DEF PagesOf
  <2> QED BY <2>1, <2>2
<1>6. \A j \in T \cup U : /\ Fits(j) /\ SegmentOf(j.start) # s
                          /\ \A p \in PagesOf(j) : p \in Pages /\ SegmentOf(p) = SegmentOf(j.start)
  BY Fitting DEF Tiled
<1>7. \A j \in T \cup U : PagesOf(j) \cap PagesOf(w) = {} BY <1>5, <1>6
<1>8. w \notin T \cup U BY <1>1, <1>2, <1>6
<1>9. Tiled(segs \cup {s}, T \cup {w}, U)
  <2>1. \A j \in (T \cup {w}) \cup U : Fits(j) /\ SegmentOf(j.start) \in segs \cup {s}
    BY <1>1, <1>2, <1>3 DEF Tiled
  <2>2. \A j, k \in (T \cup {w}) \cup U, p \in Pages : p \in PagesOf(j) /\ p \in PagesOf(k) => j = k
    BY <1>7 DEF Tiled
  <2>3. \A p \in Pages : SegmentOf(p) \in segs \cup {s} =>
           \E j \in (T \cup {w}) \cup U : p \in PagesOf(j)
    BY <1>5 DEF Tiled
  <2>4. (T \cup {w}) \cap U = {} BY <1>8 DEF Tiled
  <2>5. \A j, k \in T \cup {w} : ~Touch(j, k)
    <3>1. \A j, k \in T : ~Touch(j, k) BY DEF Tiled
    <3>2. \A j \in T : ~Touch(j, w) /\ ~Touch(w, j) BY <1>1, <1>2, <1>6 DEF Touch
    <3>3. ~Touch(w, w) BY <1>1, <1>2 DEF Touch
    <3> QED BY <3>1, <3>2, <3>3
  <2> QED BY <2>1, <2>2, <2>3, <2>4, <2>5 DEF Tiled
<1>10. e \in [kind : {"none", "free", "large", "run"}, len : 0 .. SegmentPages]
  BY <1>1
<1> HIDE DEF e, ext2
<1>11. /\ ext2 \in Extents
       /\ \A p \in Pages : ext2[p] = IF p \in Ends(w) THEN e ELSE ext[p]
  BY <1>3, <1>4, <1>10, HeadTailSet
<1>12. Ends(w) \subseteq PagesOf(w) /\ PagesOf(w) \subseteq Pages BY <1>3, Fitting
<1>13. \A j \in T \cup U : Ends(j) \subseteq PagesOf(j) BY EndsWithin
<1>14. \A p \in PagesOf(w) : ext[p] = NoExtent
  <2> SUFFICES ASSUME NEW p \in PagesOf(w)
               PROVE  ext[p] = NoExtent
    OBVIOUS
  <2>1. \A j \in T \cup U : p \notin PagesOf(j) BY <1>7
  <2> QED BY <1>12, <1>13, <2>1 DEF Marked
<1>15. Redone(ext, T, O, R, ext2, T \cup {w}, O, R, PagesOf(w))
  <2> DEFINE T2 == T \cup {w}
  <2>1. \A j \in T \cup O \cup T2 \cup O : Ends(j) \subseteq PagesOf(j) BY <1>12, <1>13
  <2>2. \A p \in Pages \ PagesOf(w) : ext2[p] = ext[p] BY <1>11, <1>12
  <2>3. \A j \in T2 : \/ j \in T /\ PagesOf(j) \cap PagesOf(w) = {}
                      \/ \A p \in Ends(j) : ext2[p] = [kind |-> "free", len |-> j.len]
    BY <1>2, <1>7, <1>11, <1>12 DEF e
  <2>4. \A j \in O \cup R : PagesOf(j) \cap PagesOf(w) = {} BY <1>7
  <2>5. \A p \in PagesOf(w) : p \in Ends(w) \/ ext2[p] = NoExtent BY <1>11, <1>12, <1>14
  <2>6. w \in T2 /\ T \subseteq T2 OBVIOUS
  <2> HIDE DEF T2
  <2>7. Redone(ext, T, O, R, ext2, T2, O, R, PagesOf(w))
    BY <2>1, <2>2, <2>3, <2>4, <2>5, <2>6 DEF Redone
  <2> QED BY <2>7 DEF T2
<1>16. Marked(ext2, T \cup {w}, O, R) BY <1>15, Remarked
<1> QED BY <1>2, <1>3, <1>8, <1>9, <1>11, <1>16 DEF w, ext2

-----------------------------------------------------------------------------
(* Extents of objects and runs. *)

\* A tile in use shows no marks but those of its kind.
LEMMA Unmarked ==
    ASSUME NEW segs, NEW T, NEW U, Tiled(segs, T, U), NEW i \in U,
           NEW O, NEW R, O \cup R \subseteq U, NEW ext, Marked(ext, T, O, R),
           NEW p \in PagesOf(i)
    PROVE  \/ i \in O /\ p \in Ends(i)
           \/ i \in R
           \/ ext[p] = NoExtent
<1>1. p \in Pages BY EndsWithin
<1>2. \A j \in T \cup U : p \in PagesOf(j) => j = i BY Disjoint
<1>3. \A j \in T \cup O : p \in Ends(j) => j = i BY <1>2, EndsWithin
<1>4. i \notin T BY DEF Tiled
<1> QED BY <1>1, <1>2, <1>3, <1>4 DEF Marked

LEMMA ObjectMarked ==
    ASSUME NEW segs, NEW T, NEW U, Tiled(segs, T, U), NEW i \in U,
           NEW O, NEW R, O \cup R \subseteq U \ {i}, NEW ext \in Extents, Marked(ext, T, O, R)
    PROVE  LET ext2 == InsertHeadTail(ext, i, "large") IN
           ext2 \in Extents /\ Marked(ext2, T, O \cup {i}, R)
<1> DEFINE e == [kind |-> "large", len |-> i.len]
           ext2 == InsertHeadTail(ext, i, "large")
           O2 == O \cup {i}
<1>1. Fits(i) /\ ext2 = SetHeadTail(ext, i, e) BY DEF Tiled, InsertHeadTail
<1>2. e \in [kind : {"none", "free", "large", "run"}, len : 0 .. SegmentPages]
  <2>1. i.len \in 0 .. SegmentPages BY <1>1, Fitting, Segmentation
  <2> QED BY <2>1
<1>3. \A j \in T \cup U : Ends(j) \subseteq PagesOf(j) /\ PagesOf(j) \subseteq Pages
  BY EndsWithin
<1>4. \A j \in T \cup U : j = i \/ PagesOf(j) \cap PagesOf(i) = {} BY Disjoint
<1>5. \A p \in PagesOf(i) : ext[p] = NoExtent BY Unmarked
<1>6. i \notin T /\ i \in O2 /\ O \subseteq O2 /\ \A j \in O2 : j \in O \/ j = i BY DEF Tiled
<1> HIDE DEF e, ext2, O2
<1>7. ext2 \in Extents /\ \A p \in Pages : ext2[p] = IF p \in Ends(i) THEN e ELSE ext[p]
  BY <1>1, <1>2, HeadTailSet
<1>8. Redone(ext, T, O, R, ext2, T, O2, R, PagesOf(i))
  <2>1. \A j \in T \cup O \cup T \cup O2 : Ends(j) \subseteq PagesOf(j) BY <1>3, <1>6
  <2>2. \A p \in Pages \ PagesOf(i) : ext2[p] = ext[p] BY <1>3, <1>7
  <2>3. \A j \in T : PagesOf(j) \cap PagesOf(i) = {} BY <1>4, <1>6
  <2>4. \A j \in O \cup R : PagesOf(j) \cap PagesOf(i) = {} BY <1>4
  <2>5. \A p \in Ends(i) : ext2[p] = [kind |-> "large", len |-> i.len] BY <1>3, <1>7 DEF e
  <2>6. \A p \in PagesOf(i) : p \in Ends(i) \/ ext2[p] = NoExtent BY <1>3, <1>5, <1>7
  <2> QED BY <1>6, <2>1, <2>2, <2>3, <2>4, <2>5, <2>6 DEF Redone
<1> QED BY <1>7, <1>8, Remarked DEF ext2, O2

LEMMA ObjectUnmarked ==
    ASSUME NEW segs, NEW T, NEW U, Tiled(segs, T, U), NEW i \in U,
           NEW O, NEW R, O \cup R \subseteq U, i \in O, i \notin R,
           NEW ext \in Extents, Marked(ext, T, O, R)
    PROVE  LET ext2 == RemoveHeadTail(ext, i) IN
           ext2 \in Extents /\ Marked(ext2, T, O \ {i}, R)
<1> DEFINE ext2 == RemoveHeadTail(ext, i)
           O2 == O \ {i}
<1>1. Fits(i) /\ ext2 = SetHeadTail(ext, i, NoExtent) BY DEF Tiled, RemoveHeadTail
<1>2. \A j \in T \cup U : Ends(j) \subseteq PagesOf(j) /\ PagesOf(j) \subseteq Pages
  BY EndsWithin
<1>3. \A j \in T \cup U : j = i \/ PagesOf(j) \cap PagesOf(i) = {} BY Disjoint
<1>4. \A p \in PagesOf(i) : p \in Ends(i) \/ ext[p] = NoExtent BY Unmarked
<1>5. i \notin T /\ i \notin O2 /\ O2 \subseteq O /\ \A j \in O : j \in O2 \/ j = i BY DEF Tiled
<1> HIDE DEF ext2, O2
<1>6. ext2 \in Extents /\ \A p \in Pages : ext2[p] = IF p \in Ends(i) THEN NoExtent ELSE ext[p]
  BY <1>1, HeadTailSet, NoExtentIs
<1>7. Redone(ext, T, O, R, ext2, T, O2, R, PagesOf(i))
  <2>1. \A j \in T \cup O \cup T \cup O2 : Ends(j) \subseteq PagesOf(j) BY <1>2, <1>5
  <2>2. \A p \in Pages \ PagesOf(i) : ext2[p] = ext[p] BY <1>2, <1>6
  <2>3. \A j \in T \cup O2 \cup R : PagesOf(j) \cap PagesOf(i) = {} BY <1>3, <1>5
  <2>4. \A p \in PagesOf(i) : ext2[p] = NoExtent BY <1>2, <1>4, <1>6
  <2> QED BY <1>5, <2>1, <2>2, <2>3, <2>4 DEF Redone
<1> QED BY <1>6, <1>7, Remarked DEF ext2, O2

LEMMA RunMarked ==
    ASSUME NEW segs, NEW T, NEW U, Tiled(segs, T, U), NEW r, Interval(r, RunPages) \in U,
           NEW O, NEW R, O \cup R \subseteq U, Interval(r, RunPages) \notin O,
           NEW ext \in Extents, Marked(ext, T, O, R)
    PROVE  LET ext2 == InsertExtentOfRun(ext, r) IN
           ext2 \in Extents /\ Marked(ext2, T, O, R \cup {Interval(r, RunPages)})
<1> DEFINE i == Interval(r, RunPages)
           e == [kind |-> "run", len |-> RunPages]
           ext2 == InsertExtentOfRun(ext, r)
           R2 == R \cup {i}
<1>1. ext2 = SetRun(ext, r, e) BY DEF InsertExtentOfRun
<1>2. e \in [kind : {"none", "free", "large", "run"}, len : 0 .. SegmentPages]
  <2>1. RunPages \in 0 .. SegmentPages BY Segmentation
  <2> QED BY <2>1
<1>3. \A j \in T \cup U : Ends(j) \subseteq PagesOf(j) /\ PagesOf(j) \subseteq Pages
  BY EndsWithin
<1> HIDE DEF e, ext2
<1>4. ext2 \in Extents /\ \A p \in Pages : ext2[p] = IF p \in PagesOf(i) THEN e ELSE ext[p]
  BY <1>1, <1>2, RunSet
<1>5. i \in R2 /\ R \subseteq R2 /\ (\A j \in R2 : j \in R \/ j = i) OBVIOUS
<1> HIDE DEF i, R2
<1>6. i \in U /\ i \notin T /\ i \notin O BY DEF Tiled, i
<1>7. \A j \in T \cup U : j = i \/ PagesOf(j) \cap PagesOf(i) = {} BY <1>6, Disjoint
<1>8. Redone(ext, T, O, R, ext2, T, O, R2, PagesOf(i))
  <2>1. \A j \in T \cup O : Ends(j) \subseteq PagesOf(j) BY <1>3
  <2>2. \A p \in Pages \ PagesOf(i) : ext2[p] = ext[p] BY <1>4
  <2>3. \A j \in T \cup O : PagesOf(j) \cap PagesOf(i) = {} BY <1>6, <1>7
  <2>4. \A p \in PagesOf(i) : ext2[p] = [kind |-> "run", len |-> RunPages]
    BY <1>3, <1>4, <1>6 DEF e
  <2>5. \A j \in R : j = i \/ PagesOf(j) \cap PagesOf(i) = {} BY <1>7
  <2>6. \A j \in R2 : \/ j \in R /\ PagesOf(j) \cap PagesOf(i) = {}
                      \/ \A p \in PagesOf(j) : ext2[p] = [kind |-> "run", len |-> RunPages]
    BY <1>5, <2>4, <2>5
  <2> QED BY <1>5, <2>1, <2>2, <2>3, <2>4, <2>6 DEF Redone
<1> QED BY <1>4, <1>8, Remarked DEF ext2, R2, i

LEMMA RunUnmarked ==
    ASSUME NEW segs, NEW T, NEW U, Tiled(segs, T, U), NEW r, Interval(r, RunPages) \in U,
           NEW O, NEW R, O \cup R \subseteq U, Interval(r, RunPages) \notin O,
           NEW ext \in Extents, Marked(ext, T, O, R)
    PROVE  LET ext2 == RemoveExtentOfRun(ext, r) IN
           ext2 \in Extents /\ Marked(ext2, T, O, R \ {Interval(r, RunPages)})
<1> DEFINE i == Interval(r, RunPages)
           ext2 == RemoveExtentOfRun(ext, r)
           R2 == R \ {i}
<1>1. ext2 = SetRun(ext, r, NoExtent) BY DEF RemoveExtentOfRun
<1>2. \A j \in T \cup U : Ends(j) \subseteq PagesOf(j) /\ PagesOf(j) \subseteq Pages
  BY EndsWithin
<1> HIDE DEF ext2
<1>3. ext2 \in Extents /\ \A p \in Pages : ext2[p] = IF p \in PagesOf(i) THEN NoExtent ELSE ext[p]
  BY <1>1, NoExtentIs, RunSet
<1>4. i \notin R2 /\ R2 \subseteq R /\ (\A j \in R : j \in R2 \/ j = i) OBVIOUS
<1> HIDE DEF i, R2
<1>5. i \in U /\ i \notin T /\ i \notin O BY DEF Tiled, i
<1>6. \A j \in T \cup U : j = i \/ PagesOf(j) \cap PagesOf(i) = {} BY <1>5, Disjoint
<1>7. Redone(ext, T, O, R, ext2, T, O, R2, PagesOf(i))
  <2>1. \A j \in T \cup O : Ends(j) \subseteq PagesOf(j) BY <1>2
  <2>2. \A p \in Pages \ PagesOf(i) : ext2[p] = ext[p] BY <1>3
  <2>3. \A j \in T \cup O \cup R2 : PagesOf(j) \cap PagesOf(i) = {} BY <1>4, <1>5, <1>6
  <2>4. \A p \in PagesOf(i) : ext2[p] = NoExtent BY <1>2, <1>3, <1>5
  <2> QED BY <1>4, <2>1, <2>2, <2>3, <2>4 DEF Redone
<1> QED BY <1>3, <1>7, Remarked DEF ext2, R2, i

-----------------------------------------------------------------------------
(* The cache of runs as the set of what it holds. *)

Held(q) == {q[k] : k \in DOMAIN q}

LEMMA CacheAppended ==
    ASSUME NEW q \in Seq(Pages), NEW r \in Pages, Distinct(q), r \notin Held(q)
    PROVE  /\ Append(q, r) \in Seq(Pages) /\ Distinct(Append(q, r))
           /\ Held(Append(q, r)) = Held(q) \cup {r}
<1> DEFINE t == Append(q, r)
<1>1. /\ t \in Seq(Pages) /\ Len(q) \in Nat /\ Len(t) = Len(q) + 1
      /\ DOMAIN t = 1 .. Len(t) /\ DOMAIN q = 1 .. Len(q)
      /\ \A k \in 1 .. Len(q) : t[k] = q[k]
      /\ t[Len(q) + 1] = r
  OBVIOUS
<1> HIDE DEF t
<1>2. \A k \in DOMAIN t : k \in DOMAIN q \/ k = Len(q) + 1 BY <1>1
<1>3. \A k \in DOMAIN q : k \in DOMAIN t /\ t[k] = q[k] BY <1>1
<1>4. Len(q) + 1 \in DOMAIN t BY <1>1
<1>5. Distinct(t) BY <1>1, <1>2, <1>3 DEF Distinct, Held
<1>6. Held(t) = Held(q) \cup {r} BY <1>1, <1>2, <1>3, <1>4 DEF Held
<1> QED BY <1>1, <1>5, <1>6 DEF t

LEMMA CacheHead ==
    ASSUME NEW q \in Seq(Pages), q # <<>>, Distinct(q)
    PROVE  /\ Tail(q) \in Seq(Pages) /\ Distinct(Tail(q))
           /\ Head(q) \in Pages /\ Head(q) \notin Held(Tail(q))
           /\ Held(q) = Held(Tail(q)) \cup {Head(q)}
<1> DEFINE t == Tail(q)
<1>1. /\ t \in Seq(Pages) /\ Len(q) \in Nat \ {0} /\ Len(t) = Len(q) - 1
      /\ DOMAIN t = 1 .. Len(t) /\ DOMAIN q = 1 .. Len(q)
      /\ \A k \in 1 .. Len(t) : t[k] = q[k + 1]
      /\ Head(q) = q[1] /\ q[1] \in Pages
  OBVIOUS
<1> HIDE DEF t
<1>2. \A k \in DOMAIN t : k + 1 \in DOMAIN q /\ k + 1 # 1 /\ t[k] = q[k + 1] /\ k \in Int BY <1>1
<1>3. 1 \in DOMAIN q BY <1>1
<1>4. \A k \in DOMAIN q : k = 1 \/ (k - 1 \in DOMAIN t /\ t[k - 1] = q[k]) BY <1>1
<1>5. Distinct(t)
  <2> SUFFICES ASSUME NEW k \in DOMAIN t, NEW l \in DOMAIN t, t[k] = t[l]
               PROVE  k = l
    BY DEF Distinct
  <2>1. k + 1 = l + 1 BY <1>2 DEF Distinct
  <2> QED BY <1>2, <2>1
<1>6. Head(q) \notin Held(t) BY <1>1, <1>2, <1>3 DEF Distinct, Held
<1>7. Held(q) = Held(t) \cup {Head(q)} BY <1>1, <1>2, <1>3, <1>4 DEF Held
<1> QED BY <1>1, <1>5, <1>6, <1>7 DEF t

-----------------------------------------------------------------------------
(* The heap's operations. *)

LEMMA IntervalsThatFit ==
    /\ \A j : Fits(j) /\ j.len # SegmentPages => j \in Intervals
    /\ \A j \in Intervals : j.len \in Nat /\ 1 <= j.len /\ j.len < SegmentPages
                            /\ j.start \in Pages /\ j = Interval(j.start, j.len)
    /\ \A r \in Pages : Interval(r, RunPages) \in Intervals
<1>1. ASSUME NEW j, Fits(j), j.len # SegmentPages
      PROVE  j \in Intervals
  <2>1. j \in [start : Pages, len : 1 .. SegmentPages] BY <1>1 DEF Fits
  <2>2. SegmentPages \in Nat BY Segmentation
  <2>3. j.len \in 1 .. SegmentPages - 1 BY <1>1, <2>1, <2>2
  <2> QED BY <2>1, <2>3 DEF Intervals
<1>2. ASSUME NEW j \in Intervals
      PROVE  /\ j.len \in Nat /\ 1 <= j.len /\ j.len < SegmentPages
             /\ j.start \in Pages /\ j = Interval(j.start, j.len)
  <2>1. j.start \in Pages /\ j.len \in 1 .. SegmentPages - 1 /\ SegmentPages \in Nat
    BY Segmentation DEF Intervals
  <2>2. j = Interval(j.start, j.len) BY DEF Intervals, Interval
  <2> QED BY <2>1, <2>2
<1>3. ASSUME NEW r \in Pages
      PROVE  Interval(r, RunPages) \in Intervals
  <2>1. RunPages \in 1 .. SegmentPages - 1 BY Segmentation
  <2> QED BY <2>1 DEF Intervals, Interval
<1> QED BY <1>1, <1>2, <1>3

LEMMA InitHolds ==
    ASSUME Init
    PROVE  IInv
<1>1. TypeOK
  <2>1. 0 \in 0 .. SegmentPages BY Segmentation
  <2>2. m_extents \in Extents BY NoExtentIs DEF Init, Extents
  <2> QED BY <2>2 DEF Init, TypeOK, Extents
<1>2. /\ m_intervalTree = {} /\ owned = {} /\ objects = {} /\ lost = {} /\ Kept = {} /\ Reserved = {}
      /\ Cached = {}
  BY DEF Init, Kept, Cached, AsRuns, Reserved
<1>3. Used = {} BY <1>2 DEF Used
<1>4. Tiled(owned, m_intervalTree, Used) BY <1>2, <1>3 DEF Tiled
<1>5. Marked(m_extents, m_intervalTree, objects, Kept) BY <1>2 DEF Init, Marked
<1>6. UsedOnce BY <1>2 DEF UsedOnce, Distinct, Init
<1>7. HandIsRun BY DEF HandIsRun, Init, Nothing
<1> QED BY <1>1, <1>2, <1>4, <1>5, <1>6, <1>7 DEF IInv

LEMMA ReserveKeeps ==
    ASSUME IInv, NEW kind \in {"large", "run"}, NEW size \in 1 .. SegmentPages - 1,
           kind = "run" => size = RunPages, Reserve(kind, size)
    PROVE  IInv'
<1>1. /\ TypeOK /\ owned \cap m_freeSegments = {} /\ UsedOnce
      /\ Tiled(owned, m_intervalTree, Used) /\ Marked(m_extents, m_intervalTree, objects, Kept)
  BY DEF IInv
<1>2. /\ m_intervalTree \subseteq Intervals /\ m_extents \in Extents
      /\ owned \subseteq Segments /\ m_freeSegments \subseteq Segments
  BY <1>1 DEF TypeOK, Extents
<1>3. SegmentPages \in Nat /\ size \in Nat /\ 1 <= size /\ size < SegmentPages
  BY Segmentation
<1>4. PICK start \in Pages :
         /\ ReserveFromTree(size, start) \/ ReserveFromSegment(size, start)
         /\ hand' = [kind |-> kind, start |-> start, len |-> size]
  BY DEF Reserve
<1>5. /\ hand = Nothing /\ UNCHANGED <<m_NVMRunCache, objects, runs, lost>>
  BY DEF Reserve
<1> DEFINE h == Interval(start, size)
<1>6. /\ hand' \in [kind : {"large", "run", "misplaced"}, start : Pages, len : 1 .. SegmentPages - 1]
      /\ Reserved' = {h} /\ Reserved = {} /\ HandIsRun'
  <2>1. hand'.len = size /\ hand'.start = start /\ hand'.kind = kind BY <1>4
  <2>2. hand' # Nothing BY <1>3, <2>1 DEF Nothing
  <2> QED BY <1>4, <1>5, <2>1, <2>2 DEF Reserved, HandIsRun
<1>7. Kept' = Kept /\ Cached' = Cached BY <1>5 DEF Kept, Cached
<1>8. Used' = Used \cup {h} BY <1>5, <1>6, <1>7 DEF Used
<1>9. objects \cup Kept \subseteq Used BY DEF Used
\* Taking the front of a free tile i of a heap that has the segments segs.
<1>10. ASSUME NEW segs, NEW T, NEW ext \in Extents, NEW i \in T, i.start = start, size <= i.len,
              Tiled(segs, T, Used), Marked(ext, T, objects, Kept),
              i.len <= SegmentPages, T \ {i} \subseteq Intervals,
              m_intervalTree' = (T \ {i}) \cup Rest(i, size),
              m_extents' = RemoveFreeSpace(ext, h), owned' = segs
       PROVE  /\ m_intervalTree' \subseteq Intervals /\ m_extents' \in Extents /\ h \notin Used
              /\ Tiled(owned', m_intervalTree', Used') /\ Marked(m_extents', m_intervalTree', objects, Kept)
  <2>1. Fits(i) BY <1>10 DEF Tiled
  <2>2. \A r \in Rest(i, size) : Fits(r) /\ r.len # SegmentPages
    <3>1. \A r \in Rest(i, size) : Fits(r) /\ r.start = i.start + size /\ r.start + r.len = i.start + i.len
      BY <1>3, <1>10, <2>1, Split
    <3>2. i.start \in Nat /\ i.len \in Nat BY <2>1, Fitting
    <3>3. \A r \in Rest(i, size) : r.start \in Nat /\ r.len \in Nat BY <3>1, Fitting
    <3> QED BY <1>3, <1>10, <3>1, <3>2, <3>3
  <2>3. m_intervalTree' \subseteq Intervals BY <1>10, <2>2, IntervalsThatFit
  <2>4. h \notin Used /\ Tiled(owned', m_intervalTree', Used') BY <1>3, <1>8, <1>10, SplitTiled
  <2>5. m_extents' \in Extents /\ Marked(m_extents', m_intervalTree', objects, Kept)
    BY <1>3, <1>9, <1>10, SplitMarked
  <2> QED BY <2>3, <2>4, <2>5
<1>11. /\ m_intervalTree' \subseteq Intervals /\ m_extents' \in Extents /\ h \notin Used
       /\ Tiled(owned', m_intervalTree', Used') /\ Marked(m_extents', m_intervalTree', objects, Kept)
       /\ owned' \subseteq Segments /\ m_freeSegments' \subseteq Segments
       /\ owned' \cap m_freeSegments' = {}
  <2>1. CASE ReserveFromTree(size, start)
    <3>1. PICK i \in BestFit(size) :
             start = i.start /\ m_intervalTree' = (m_intervalTree \ {i}) \cup Rest(i, size)
      BY <2>1 DEF ReserveFromTree
    <3>2. m_extents' = RemoveFreeSpace(m_extents, h) /\ UNCHANGED <<owned, m_freeSegments>>
      BY <2>1 DEF ReserveFromTree
    <3>3. i \in m_intervalTree /\ size <= i.len BY <1>2, <1>3, <3>1, IntervalsThatFit DEF BestFit
    <3>4. i.len <= SegmentPages /\ m_intervalTree \ {i} \subseteq Intervals
      BY <1>2, <1>3, <3>3, IntervalsThatFit
    <3> QED BY <1>1, <1>2, <1>10, <3>1, <3>2, <3>3, <3>4
  <2>2. CASE ReserveFromSegment(size, start)
    <3>1. PICK s \in m_freeSegments :
             LET whole == Interval(SegmentStart(s), SegmentPages) IN
             /\ start = whole.start
             /\ owned' = owned \cup {s}
             /\ m_freeSegments' = m_freeSegments \ {s}
             /\ m_intervalTree' = m_intervalTree \cup Rest(whole, size)
             /\ m_extents' = RemoveFreeSpace(InsertHeadTail(m_extents, whole, "free"), h)
      BY <2>2 DEF ReserveFromSegment
    <3> DEFINE w == Interval(SegmentStart(s), SegmentPages)
               T == m_intervalTree \cup {w}
               ext == InsertHeadTail(m_extents, w, "free")
    <3>2. s \in Segments \ owned BY <1>1, <1>2
    <3>3. /\ Fits(w) /\ w \notin m_intervalTree /\ w.len = SegmentPages
          /\ Tiled(owned \cup {s}, T, Used) /\ ext \in Extents /\ Marked(ext, T, objects, Kept)
      BY <1>1, <1>2, <1>9, <3>2, SegmentEnters
    <3>4. T \ {w} = m_intervalTree /\ w \in T BY <3>3
    <3> HIDE DEF w, T, ext
    <3>5. /\ w.start = start /\ owned' = owned \cup {s}
          /\ m_intervalTree' = m_intervalTree \cup Rest(w, size)
          /\ m_extents' = RemoveFreeSpace(ext, h)
      BY <3>1 DEF w, ext
    <3>6. T \ {w} \subseteq Intervals /\ m_intervalTree' = (T \ {w}) \cup Rest(w, size)
          /\ size <= w.len /\ w.len <= SegmentPages
      BY <1>2, <1>3, <3>3, <3>4, <3>5
    <3> HIDE DEF h
    <3>7. /\ m_intervalTree' \subseteq Intervals /\ m_extents' \in Extents /\ h \notin Used
          /\ Tiled(owned', m_intervalTree', Used') /\ Marked(m_extents', m_intervalTree', objects, Kept)
      BY <1>10, <3>3, <3>4, <3>5, <3>6
    <3> QED BY <1>1, <1>2, <3>1, <3>7
  <2> QED BY <1>4, <2>1, <2>2
<1>12. TypeOK' BY <1>1, <1>5, <1>6, <1>11 DEF TypeOK, Extents
<1>13. UsedOnce'
  <2>1. h \notin objects /\ h \notin Kept /\ h \notin lost BY <1>11 DEF Used
  <2> HIDE DEF h
  <2> QED BY <1>1, <1>5, <1>6, <1>7, <2>1 DEF UsedOnce
<1> QED BY <1>5, <1>6, <1>7, <1>11, <1>12, <1>13 DEF IInv


LEMMA WhatIsUsed ==
    ASSUME TypeOK
    PROVE  /\ Cached \subseteq Pages
           /\ Used \subseteq Intervals
           /\ \A r : r \in runs \cup Cached => Interval(r, RunPages) \in Kept
           /\ \A i \in Kept : \E r \in runs \cup Cached : i = Interval(r, RunPages)
           /\ \A q, r : Interval(q, RunPages) = Interval(r, RunPages) => q = r
<1>1. Cached \subseteq Pages BY DEF TypeOK, Cached
<1>2. Kept \subseteq Intervals BY <1>1, IntervalsThatFit DEF TypeOK, Kept, AsRuns
<1>3. Reserved \subseteq Intervals
  <2>1. hand # Nothing => hand.start \in Pages /\ hand.len \in 1 .. SegmentPages - 1 BY DEF TypeOK
  <2> QED BY <2>1 DEF Reserved, Interval, Intervals
<1>4. Used \subseteq Intervals BY <1>2, <1>3 DEF Used, TypeOK
<1>5. \A q, r : Interval(q, RunPages) = Interval(r, RunPages) => q = r
  <2>1. \A r : Interval(r, RunPages).start = r BY DEF Interval
  <2> QED BY <2>1
<1> QED BY <1>1, <1>4, <1>5 DEF Kept, AsRuns

\* Taking an interval i out of use, with what merging does.
LEMMA FreeKeeps ==
    ASSUME IInv, NEW i, NEW ext \in Extents,
           FreePages(ext, i), Marked(ext, m_intervalTree, objects', Kept'),
           i \in objects \cup Kept \cup Reserved,
           objects' \cup Kept' \cup Reserved' = (objects \cup Kept \cup Reserved) \ {i},
           objects' \subseteq objects, Kept' \subseteq Kept, Reserved' \subseteq Reserved,
           runs' \subseteq runs, m_NVMRunCache' = m_NVMRunCache,
           hand' = hand \/ hand' = Nothing
    PROVE  IInv'
<1>1. /\ TypeOK /\ owned \cap m_freeSegments = {} /\ UsedOnce /\ HandIsRun
      /\ Tiled(owned, m_intervalTree, Used)
  BY DEF IInv
<1>2. /\ m_intervalTree \subseteq Intervals /\ owned \subseteq Segments /\ m_freeSegments \subseteq Segments
  BY <1>1 DEF TypeOK
<1>3. i \in Used /\ i \in Intervals /\ i \notin lost
  BY <1>1, WhatIsUsed DEF Used, UsedOnce
<1>4. objects' \cup Kept' \subseteq Used \ {i} BY DEF Used
<1>5. /\ owned' \subseteq Segments /\ m_freeSegments' \subseteq Segments
      /\ owned' \cap m_freeSegments' = {}
      /\ m_intervalTree' \subseteq Intervals /\ m_extents' \in Extents
      /\ Marked(m_extents', m_intervalTree', objects', Kept')
      /\ \/ lost' = lost /\ Tiled(owned', m_intervalTree', Used \ {i})
         \/ lost' = lost \cup {i} /\ Tiled(owned', m_intervalTree', Used)
  BY <1>1, <1>2, <1>3, <1>4, Freed
<1>6. Tiled(owned', m_intervalTree', Used')
  <2>1. lost' = lost => Used' = Used \ {i} BY <1>3 DEF Used
  <2>2. lost' = lost \cup {i} => Used' = Used BY <1>3 DEF Used
  <2> QED BY <1>5, <2>1, <2>2
<1>7. TypeOK'
  <2>1. lost' \subseteq Intervals BY <1>1, <1>3, <1>5 DEF TypeOK
  <2>2. objects' \subseteq Intervals /\ runs' \subseteq Pages BY <1>1 DEF TypeOK
  <2> QED BY <1>1, <1>5, <2>1, <2>2 DEF TypeOK, Extents
<1>8. UsedOnce'
  <2>1. Cached' = Cached BY DEF Cached
  <2>2. i \notin objects' \cup Kept' \cup Reserved' OBVIOUS
  <2>3. lost' \subseteq lost \cup {i} BY <1>5
  <2> QED BY <1>1, <2>1, <2>2, <2>3 DEF UsedOnce
<1>9. HandIsRun' BY <1>1 DEF HandIsRun, Nothing
<1> QED BY <1>5, <1>6, <1>7, <1>8, <1>9 DEF IInv

LEMMA GiveUpKeeps ==
    ASSUME IInv, GiveUp
    PROVE  IInv'
<1> DEFINE h == Interval(hand.start, hand.len)
<1>1. hand # Nothing BY DEF GiveUp, Nothing
<1>2. Reserved = {h} /\ Reserved' = {} BY <1>1 DEF GiveUp, Reserved
<1>3. Kept' = Kept /\ objects' = objects BY DEF GiveUp, Kept, Cached
<1>4. m_extents \in Extents /\ Marked(m_extents, m_intervalTree, objects, Kept)
  BY DEF IInv, TypeOK, Extents
<1>5. h \notin objects \cup Kept BY <1>2 DEF IInv, UsedOnce
<1>6. FreePages(m_extents, h) BY DEF GiveUp
<1> HIDE DEF h
<1>7. /\ Marked(m_extents, m_intervalTree, objects', Kept')
      /\ objects' \cup Kept' \cup Reserved' = (objects \cup Kept \cup Reserved) \ {h}
      /\ objects' \subseteq objects /\ Kept' \subseteq Kept /\ Reserved' \subseteq Reserved
      /\ h \in objects \cup Kept \cup Reserved
  BY <1>2, <1>3, <1>4, <1>5
<1>8. runs' \subseteq runs /\ m_NVMRunCache' = m_NVMRunCache /\ hand' = Nothing BY DEF GiveUp
<1> QED BY <1>4, <1>6, <1>7, <1>8, FreeKeeps

LEMMA FreeLargeObjKeeps ==
    ASSUME IInv, NEW o \in objects, FreeLargeObj(o)
    PROVE  IInv'
<1>1. /\ TypeOK /\ UsedOnce /\ Tiled(owned, m_intervalTree, Used)
      /\ Marked(m_extents, m_intervalTree, objects, Kept) /\ m_extents \in Extents
  BY DEF IInv, TypeOK, Extents
<1>2. o \in Used /\ o \in Intervals BY <1>1, WhatIsUsed DEF Used
<1>3. o.start \in Pages /\ o = Interval(o.start, o.len) BY <1>2, IntervalsThatFit
<1>4. Interval(o.start, m_extents[o.start].len) = o
  <2>1. o.start \in Ends(o) BY DEF Ends
  <2>2. m_extents[o.start] = [kind |-> "large", len |-> o.len] BY <1>1, <1>3, <2>1 DEF Marked
  <2>3. m_extents[o.start].len = o.len BY <2>2
  <2> QED BY <1>3, <2>3
<1> DEFINE ext == RemoveHeadTail(m_extents, o)
<1>5. /\ hand = Nothing /\ FreePages(ext, o) /\ objects' = objects \ {o}
      /\ UNCHANGED <<m_NVMRunCache, hand, runs>>
  BY <1>4 DEF FreeLargeObj
<1>6. o \notin Kept /\ o \notin Reserved BY <1>1 DEF UsedOnce
<1>7. ext \in Extents /\ Marked(ext, m_intervalTree, objects \ {o}, Kept)
  <2>1. objects \cup Kept \subseteq Used BY DEF Used
  <2> QED BY <1>1, <1>2, <1>6, <2>1, ObjectUnmarked
<1> HIDE DEF ext
<1>8. Kept' = Kept /\ Reserved' = Reserved BY <1>5 DEF Kept, Cached, Reserved
<1>9. objects' \cup Kept' \cup Reserved' = (objects \cup Kept \cup Reserved) \ {o}
  BY <1>5, <1>6, <1>8
<1>10. /\ Marked(ext, m_intervalTree, objects', Kept') /\ objects' \subseteq objects
       /\ Kept' \subseteq Kept /\ Reserved' \subseteq Reserved /\ runs' \subseteq runs
       /\ o \in objects \cup Kept \cup Reserved /\ m_NVMRunCache' = m_NVMRunCache /\ hand' = hand
  BY <1>5, <1>7, <1>8
<1> QED BY <1>5, <1>7, <1>9, <1>10, FreeKeeps

LEMMA FreeRunKeeps ==
    ASSUME IInv, NEW r \in runs, FreeRun(r)
    PROVE  IInv'
<1>1. /\ TypeOK /\ UsedOnce /\ Tiled(owned, m_intervalTree, Used)
      /\ Marked(m_extents, m_intervalTree, objects, Kept) /\ m_extents \in Extents
  BY DEF IInv, TypeOK, Extents
<1> DEFINE i == Interval(r, RunPages)
           ext == RemoveExtentOfRun(m_extents, r)
<1>2. /\ FreePages(ext, i) /\ runs' = runs \ {r}
      /\ UNCHANGED <<m_NVMRunCache, hand, objects>>
  BY DEF FreeRun
<1>3. i \in Kept /\ i \in Used BY <1>1, WhatIsUsed DEF Used
<1>4. i \notin objects /\ i \notin Reserved BY <1>1, <1>3 DEF UsedOnce
<1>5. ext \in Extents /\ Marked(ext, m_intervalTree, objects, Kept \ {i})
  <2>1. objects \cup Kept \subseteq Used BY DEF Used
  <2> QED BY <1>1, <1>3, <1>4, <2>1, RunUnmarked
<1>6. Kept' = Kept \ {i} /\ Reserved' = Reserved
  <2>1. Cached' = Cached /\ r \notin Cached BY <1>1, <1>2 DEF Cached, UsedOnce
  <2>2. runs' \cup Cached' = (runs \cup Cached) \ {r} BY <1>2, <2>1
  <2>3. Kept' = AsRuns((runs \cup Cached) \ {r}) BY <2>2 DEF Kept, AsRuns
  <2>4. \A q : Interval(q, RunPages) = Interval(r, RunPages) => q = r BY <1>1, WhatIsUsed
  <2>5. AsRuns((runs \cup Cached) \ {r}) = Kept \ {i} BY <2>4 DEF Kept, AsRuns
  <2> QED BY <1>2, <2>3, <2>5 DEF Reserved
<1> HIDE DEF ext, i
<1>7. objects' \cup Kept' \cup Reserved' = (objects \cup Kept \cup Reserved) \ {i}
  BY <1>2, <1>4, <1>6
<1>8. /\ Marked(ext, m_intervalTree, objects', Kept') /\ objects' \subseteq objects
      /\ Kept' \subseteq Kept /\ Reserved' \subseteq Reserved /\ runs' \subseteq runs
      /\ i \in objects \cup Kept \cup Reserved /\ m_NVMRunCache' = m_NVMRunCache /\ hand' = hand
  BY <1>2, <1>3, <1>5, <1>6
<1> QED BY <1>2, <1>5, <1>7, <1>8, FreeKeeps

\* A step that neither takes pages nor gives any back.
LEMMA UseKeeps ==
    ASSUME IInv, UNCHANGED <<m_intervalTree, owned, m_freeSegments, lost>>,
           m_extents' \in Extents, Marked(m_extents', m_intervalTree, objects', Kept'),
           objects' \subseteq Intervals, runs' \subseteq Pages, m_NVMRunCache' \in Seq(Pages),
           hand' \in [kind : {"large", "run", "misplaced"}, start : Pages,
                      len : 1 .. SegmentPages - 1] \cup {Nothing},
           HandIsRun', UsedOnce',
           objects' \cup Kept' \cup Reserved' = objects \cup Kept \cup Reserved
    PROVE  IInv'
<1>1. Used' = Used BY DEF Used
<1>2. Tiled(owned', m_intervalTree', Used') BY <1>1 DEF IInv
<1>3. TypeOK' BY DEF IInv, TypeOK, Extents
<1> QED BY <1>2, <1>3 DEF IInv

LEMMA AllocLargeObjKeeps ==
    ASSUME IInv, AllocLargeObj
    PROVE  IInv'
<1>1. /\ TypeOK /\ UsedOnce /\ Tiled(owned, m_intervalTree, Used)
      /\ Marked(m_extents, m_intervalTree, objects, Kept) /\ m_extents \in Extents
  BY DEF IInv, TypeOK, Extents
<1> DEFINE h == Interval(hand.start, hand.len)
           ext == InsertHeadTail(m_extents, h, "large")
<1>2. hand # Nothing BY DEF AllocLargeObj, Nothing
<1>3. Reserved = {h} /\ Reserved' = {} BY <1>2 DEF AllocLargeObj, Reserved
<1>4. objects' = objects \cup {h} /\ hand' = Nothing /\ Kept' = Kept /\ Cached' = Cached
  BY DEF AllocLargeObj, Kept, Cached
<1>5. m_extents' = ext
  BY DEF AllocLargeObj, InsertHeadTail, SetHeadTail, Interval
<1>6. h \in Used /\ h \in Intervals /\ h \notin objects \cup Kept \cup lost
  BY <1>1, <1>3, WhatIsUsed DEF Used, UsedOnce
<1>7. objects \cup Kept \subseteq Used \ {h} BY <1>6 DEF Used
<1> HIDE DEF h
<1>8. ext \in Extents /\ Marked(ext, m_intervalTree, objects \cup {h}, Kept)
  BY <1>1, <1>6, <1>7, ObjectMarked
<1>9. UsedOnce' BY <1>1, <1>3, <1>4, <1>6 DEF UsedOnce, AllocLargeObj
<1>10. objects' \cup Kept' \cup Reserved' = objects \cup Kept \cup Reserved BY <1>3, <1>4
<1>11. HandIsRun' BY <1>4 DEF HandIsRun, Nothing
<1>12. objects' \subseteq Intervals BY <1>1, <1>4, <1>6 DEF TypeOK
<1>13. /\ UNCHANGED <<m_intervalTree, owned, m_freeSegments, lost>>
       /\ runs' \subseteq Pages /\ m_NVMRunCache' \in Seq(Pages)
  BY <1>1 DEF AllocLargeObj, TypeOK
<1>14. m_extents' \in Extents /\ Marked(m_extents', m_intervalTree, objects', Kept')
  BY <1>4, <1>5, <1>8
<1> QED BY <1>4, <1>9, <1>10, <1>11, <1>12, <1>13, <1>14, UseKeeps

LEMMA AllocRunKeeps ==
    ASSUME IInv, AllocRun
    PROVE  IInv'
<1>1. /\ TypeOK /\ UsedOnce /\ Tiled(owned, m_intervalTree, Used)
      /\ Marked(m_extents, m_intervalTree, objects, Kept) /\ m_extents \in Extents
  BY DEF IInv, TypeOK, Extents
<1> DEFINE r == hand.start
           h == Interval(r, RunPages)
           ext == InsertExtentOfRun(m_extents, r)
<1>2. hand # Nothing BY DEF AllocRun, Nothing
<1>3. hand.len = RunPages BY DEF AllocRun, IInv, HandIsRun
<1>4. Reserved = {h} /\ Reserved' = {} BY <1>2, <1>3 DEF AllocRun, Reserved
<1>5. r \in Pages BY <1>1, <1>2 DEF TypeOK
<1>6. /\ runs' = runs \cup {r} /\ hand' = Nothing /\ m_extents' = ext
      /\ UNCHANGED <<m_intervalTree, owned, m_freeSegments, m_NVMRunCache, objects, lost>>
  BY DEF AllocRun
<1>7. h \in Used /\ h \notin objects \cup Kept \cup lost
  BY <1>1, <1>4 DEF Used, UsedOnce
<1> HIDE DEF r
<1>8. Cached' = Cached /\ r \notin Cached BY <1>1, <1>6, <1>7, WhatIsUsed DEF Cached
<1>9. Kept' = Kept \cup {h} BY <1>6, <1>8 DEF Kept, AsRuns
<1>10. objects \cup Kept \subseteq Used BY DEF Used
<1>11. ext \in Extents /\ Marked(ext, m_intervalTree, objects, Kept \cup {h})
  BY <1>1, <1>7, <1>10, RunMarked
<1> HIDE DEF h, ext
<1>12. UsedOnce' BY <1>1, <1>4, <1>6, <1>7, <1>8, <1>9 DEF UsedOnce
<1>13. objects' \cup Kept' \cup Reserved' = objects \cup Kept \cup Reserved BY <1>4, <1>6, <1>9
<1>14. HandIsRun' BY <1>6 DEF HandIsRun, Nothing
<1>15. objects' \subseteq Intervals /\ runs' \subseteq Pages /\ m_NVMRunCache' \in Seq(Pages)
  BY <1>1, <1>5, <1>6 DEF TypeOK
<1>16. m_extents' \in Extents /\ Marked(m_extents', m_intervalTree, objects', Kept')
  BY <1>6, <1>9, <1>11
<1> QED BY <1>6, <1>12, <1>13, <1>14, <1>15, <1>16, UseKeeps

LEMMA MisplaceRunKeeps ==
    ASSUME IInv, MisplaceRun
    PROVE  IInv'
<1>1. TypeOK /\ UsedOnce /\ Marked(m_extents, m_intervalTree, objects, Kept)
  BY DEF IInv
<1>2. hand # Nothing BY DEF MisplaceRun, Nothing
<1>3. hand' = [kind |-> "misplaced", start |-> hand.start, len |-> hand.len]
  BY <1>1, <1>2 DEF MisplaceRun, TypeOK
<1>4. hand' # Nothing BY <1>3 DEF Nothing
<1>5. Reserved' = Reserved BY <1>2, <1>3, <1>4 DEF Reserved
<1>6. UNCHANGED <<m_intervalTree, m_extents, owned, m_freeSegments, m_NVMRunCache, objects, runs, lost>>
  BY DEF MisplaceRun, space
<1>7. Kept' = Kept /\ Cached' = Cached BY <1>6 DEF Kept, Cached
<1>8. UsedOnce' BY <1>1, <1>5, <1>6, <1>7 DEF UsedOnce
<1>9. HandIsRun' BY <1>3 DEF IInv, HandIsRun, MisplaceRun
<1>10. /\ hand' \in [kind : {"large", "run", "misplaced"}, start : Pages, len : 1 .. SegmentPages - 1]
       /\ objects' \subseteq Intervals /\ runs' \subseteq Pages /\ m_NVMRunCache' \in Seq(Pages)
       /\ m_extents' \in Extents
  BY <1>1, <1>2, <1>3, <1>6 DEF TypeOK, Extents
<1>11. /\ Marked(m_extents', m_intervalTree, objects', Kept')
       /\ objects' \cup Kept' \cup Reserved' = objects \cup Kept \cup Reserved
  BY <1>1, <1>5, <1>6, <1>7
<1> QED BY <1>6, <1>8, <1>9, <1>10, <1>11, UseKeeps

\* A run that moves between the cache and the slabs stays what it is.
LEMMA MoveKeeps ==
    ASSUME IInv, hand = Nothing,
           UNCHANGED <<m_intervalTree, owned, m_freeSegments, hand, objects, lost>>,
           m_NVMRunCache' \in Seq(Pages), Distinct(m_NVMRunCache'),
           runs' \subseteq Pages, runs' \cap Cached' = {},
           runs' \cup Cached' = runs \cup Cached,
           \/ m_extents' = m_extents
           \/ \E r \in runs \cup Cached : m_extents' = InsertExtentOfRun(m_extents, r)
    PROVE  IInv'
<1>1. /\ TypeOK /\ UsedOnce /\ Tiled(owned, m_intervalTree, Used)
      /\ Marked(m_extents, m_intervalTree, objects, Kept) /\ m_extents \in Extents
  BY DEF IInv, TypeOK, Extents
<1>2. Kept' = Kept BY DEF Kept, AsRuns
<1>3. Reserved' = Reserved BY DEF Reserved
<1>4. m_extents' \in Extents /\ Marked(m_extents', m_intervalTree, objects, Kept)
  <2>1. CASE m_extents' = m_extents BY <1>1, <2>1
  <2>2. ASSUME NEW r \in runs \cup Cached, m_extents' = InsertExtentOfRun(m_extents, r)
        PROVE  m_extents' \in Extents /\ Marked(m_extents', m_intervalTree, objects, Kept)
    <3> DEFINE i == Interval(r, RunPages)
    <3>1. i \in Kept BY <1>1, WhatIsUsed
    <3>2. i \in Used /\ i \notin objects /\ objects \cup Kept \subseteq Used
      BY <1>1, <3>1 DEF Used, UsedOnce
    <3>3. Kept \cup {i} = Kept BY <3>1
    <3> QED BY <1>1, <2>2, <3>2, <3>3, RunMarked
  <2> QED BY <2>1, <2>2
<1>5. UsedOnce' BY <1>1, <1>2, <1>3 DEF UsedOnce
<1>6. HandIsRun' BY DEF IInv, HandIsRun
<1>7. Marked(m_extents', m_intervalTree, objects', Kept') BY <1>2, <1>4
<1>8. objects' \subseteq Intervals /\ hand' = Nothing BY <1>1 DEF TypeOK
<1> QED BY <1>2, <1>3, <1>4, <1>5, <1>6, <1>7, <1>8, UseKeeps

LEMMA AllocCachedRunKeeps ==
    ASSUME IInv, AllocCachedRun
    PROVE  IInv'
<1> DEFINE q == m_NVMRunCache
<1>1. /\ q \in Seq(Pages) /\ q # <<>> /\ Distinct(q) /\ runs \subseteq Pages
      /\ runs \cap Cached = {} /\ Cached = Held(q) /\ Cached' = Held(q')
  BY DEF AllocCachedRun, IInv, TypeOK, UsedOnce, Cached, Held
<1>2. /\ hand = Nothing /\ q' = Tail(q) /\ runs' = runs \cup {Head(q)}
      /\ m_extents' = InsertExtentOfRun(m_extents, Head(q))
      /\ UNCHANGED <<m_intervalTree, owned, m_freeSegments, hand, objects, lost>>
  BY DEF AllocCachedRun
<1> HIDE DEF q
<1>3. /\ Tail(q) \in Seq(Pages) /\ Distinct(Tail(q))
      /\ Head(q) \in Pages /\ Head(q) \notin Held(Tail(q))
      /\ Held(q) = Held(Tail(q)) \cup {Head(q)}
  BY <1>1, CacheHead
<1>4. /\ runs' \subseteq Pages /\ runs' \cap Cached' = {} /\ runs' \cup Cached' = runs \cup Cached
      /\ Head(q) \in runs \cup Cached /\ q' \in Seq(Pages) /\ Distinct(q')
  BY <1>1, <1>2, <1>3
<1> QED BY <1>2, <1>4, MoveKeeps DEF q

LEMMA KeepCachedRunKeeps ==
    ASSUME IInv, KeepCachedRun
    PROVE  IInv'
<1> DEFINE q == m_NVMRunCache
<1>1. /\ q \in Seq(Pages) /\ q # <<>> /\ Distinct(q) /\ runs \subseteq Pages
      /\ runs \cap Cached = {} /\ Cached = Held(q) /\ Cached' = Held(q')
  BY DEF KeepCachedRun, IInv, TypeOK, UsedOnce, Cached, Held
<1>2. /\ hand = Nothing /\ q' = Append(Tail(q), Head(q))
      /\ UNCHANGED <<m_intervalTree, m_extents, owned, m_freeSegments, hand, objects, runs, lost>>
  BY DEF KeepCachedRun, space
<1> HIDE DEF q
<1>3. /\ Tail(q) \in Seq(Pages) /\ Distinct(Tail(q))
      /\ Head(q) \in Pages /\ Head(q) \notin Held(Tail(q))
      /\ Held(q) = Held(Tail(q)) \cup {Head(q)}
  BY <1>1, CacheHead
<1>4. q' \in Seq(Pages) /\ Distinct(q') /\ Held(q') = Held(q)
  BY <1>2, <1>3, CacheAppended
<1>5. runs' \subseteq Pages /\ runs' \cap Cached' = {} /\ runs' \cup Cached' = runs \cup Cached
  BY <1>1, <1>2, <1>4
<1> QED BY <1>2, <1>4, <1>5, MoveKeeps DEF q

LEMMA CacheRunKeeps ==
    ASSUME IInv, NEW r \in runs, CacheRun(r)
    PROVE  IInv'
<1> DEFINE q == m_NVMRunCache
<1>1. /\ q \in Seq(Pages) /\ Distinct(q) /\ runs \subseteq Pages
      /\ runs \cap Cached = {} /\ Cached = Held(q) /\ Cached' = Held(q')
  BY DEF IInv, TypeOK, UsedOnce, Cached, Held
<1>2. /\ hand = Nothing /\ q' = Append(q, r) /\ runs' = runs \ {r}
      /\ UNCHANGED <<m_intervalTree, m_extents, owned, m_freeSegments, hand, objects, lost>>
  BY DEF CacheRun, space
<1> HIDE DEF q
<1>3. r \in Pages /\ r \notin Held(q) BY <1>1
<1>4. q' \in Seq(Pages) /\ Distinct(q') /\ Held(q') = Held(q) \cup {r}
  BY <1>1, <1>2, <1>3, CacheAppended
<1>5. runs' \subseteq Pages /\ runs' \cap Cached' = {} /\ runs' \cup Cached' = runs \cup Cached
  BY <1>1, <1>2, <1>3, <1>4
<1> QED BY <1>2, <1>4, <1>5, MoveKeeps DEF q

LEMMA OtherHeapsKeep ==
    ASSUME IInv, OtherHeaps
    PROVE  IInv'
<1>1. UNCHANGED <<m_intervalTree, m_extents, owned, m_NVMRunCache, hand, objects, runs, lost>>
  BY DEF OtherHeaps
<1>2. UNCHANGED <<Kept, Used, Cached>>
  BY <1>1 DEF Kept, Used, Cached, Reserved
<1>3. m_freeSegments' \subseteq Segments /\ owned' \cap m_freeSegments' = {}
  BY <1>1 DEF OtherHeaps, IInv, TypeOK
<1>4. TypeOK' BY <1>1, <1>3 DEF IInv, TypeOK
<1>5. UsedOnce' BY <1>1, <1>2 DEF IInv, UsedOnce, Reserved
<1>6. /\ Tiled(owned', m_intervalTree', Used') /\ HandIsRun'
      /\ Marked(m_extents', m_intervalTree', objects', Kept')
  BY <1>1, <1>2 DEF IInv, HandIsRun
<1> QED BY <1>3, <1>4, <1>5, <1>6 DEF IInv

LEMMA StepKeeps ==
    ASSUME IInv, [Next]_vars
    PROVE  IInv'
<1>1. CASE UNCHANGED vars
  <2>1. UNCHANGED <<Kept, Used, Cached>> BY <1>1 DEF vars, Kept, Used, Cached, Reserved
  <2> QED BY <1>1, <2>1 DEF vars, IInv, TypeOK, UsedOnce, Reserved, HandIsRun
<1>2. CASE ReserveLargeObj
  <2>1. PICK size \in 1 .. MaxRequest : Reserve("large", size) BY <1>2 DEF ReserveLargeObj
  <2>2. MaxRequest \in 1 .. SegmentPages - 1 /\ SegmentPages \in Nat BY PagesAssumption
  <2>3. size \in 1 .. SegmentPages - 1 BY <2>2
  <2> QED BY <2>1, <2>3, ReserveKeeps
<1>3. CASE ReserveRun
  <2>1. RunPages \in 1 .. SegmentPages - 1 BY Segmentation
  <2>2. Reserve("run", RunPages) BY <1>3 DEF ReserveRun
  <2> QED BY <2>1, <2>2, ReserveKeeps
<1>4. CASE AllocLargeObj BY <1>4, AllocLargeObjKeeps
<1>5. CASE AllocRun BY <1>5, AllocRunKeeps
<1>6. CASE MisplaceRun BY <1>6, MisplaceRunKeeps
<1>7. CASE GiveUp BY <1>7, GiveUpKeeps
<1>8. CASE AllocCachedRun BY <1>8, AllocCachedRunKeeps
<1>9. CASE KeepCachedRun BY <1>9, KeepCachedRunKeeps
<1>10. CASE \E o \in objects : FreeLargeObj(o) BY <1>10, FreeLargeObjKeeps
<1>11. CASE \E r \in runs : CacheRun(r) \/ FreeRun(r) BY <1>11, CacheRunKeeps, FreeRunKeeps
<1>12. CASE OtherHeaps BY <1>12, OtherHeapsKeep
<1> QED
  BY <1>1, <1>2, <1>3, <1>4, <1>5, <1>6, <1>7, <1>8, <1>9, <1>10, <1>11, <1>12 DEF Next

\* The pages stay tiled and the extents stay in step, for segments, runs,
\* requests and caches of any size.
THEOREM Invariance == Spec => []IInv
<1>1. Init => IInv BY InitHolds
<1>2. IInv /\ [Next]_vars => IInv' BY StepKeeps
<1> QED BY <1>1, <1>2, PTL DEF Spec

-----------------------------------------------------------------------------
(* What the invariant says of the properties that the runs check. *)

LEMMA TwoTogether ==
    ASSUME NEW A, NEW B, IsFiniteSet(A), IsFiniteSet(B), A \cap B = {}
    PROVE  IsFiniteSet(A \cup B) /\ Cardinality(A \cup B) = Cardinality(A) + Cardinality(B)
<1>1. /\ IsFiniteSet(A \cup B)
      /\ Cardinality(A \cup B) = Cardinality(A) + Cardinality(B) - Cardinality(A \cap B)
  BY FS_Union
<1>2. Cardinality(A \cap B) = 0 BY FS_EmptySet
<1>3. Cardinality(A) \in Nat /\ Cardinality(B) \in Nat BY FS_CardinalityType
<1> QED BY <1>1, <1>2, <1>3

LEMMA FinitelyManyPages == IsFiniteSet(Pages)
<1>1. SegmentNum * SegmentPages - 1 \in Int BY PagesAssumption
<1> QED BY <1>1, FS_Interval DEF Pages

LEMMA FinitelyManyTiles ==
    ASSUME NEW segs, NEW T, NEW U, Tiled(segs, T, U)
    PROVE  IsFiniteSet(T \cup U)
<1> DEFINE V == T \cup U
           f == [i \in V |-> i.start]
<1>1. \A i \in V : i.start \in Pages /\ i.start \in PagesOf(i)
  <2> SUFFICES ASSUME NEW i \in V
               PROVE  i.start \in Pages /\ i.start \in PagesOf(i)
    OBVIOUS
  <2>1. Fits(i) BY DEF Tiled
  <2>2. i.start \in Pages /\ i.start \in Nat /\ i.len \in Nat /\ 1 <= i.len BY <2>1, Fitting
  <2> QED BY <2>2 DEF PagesOf
<1>2. \A i, j \in V : i.start = j.start => i = j BY <1>1, Disjoint
<1> HIDE DEF V
<1>3. f \in Injection(V, Pages) BY <1>1, <1>2 DEF Injection, IsInjective
<1> HIDE DEF f
<1>4. IsFiniteSet(V) BY <1>3, FinitelyManyPages, FS_Injection
<1> QED BY <1>4 DEF V

LEMMA AsManyRuns ==
    ASSUME NEW S, IsFiniteSet(S)
    PROVE  Cardinality(AsRuns(S)) = Cardinality(S)
<1> DEFINE f == [r \in S |-> Interval(r, RunPages)]
<1>1. \A r : Interval(r, RunPages).start = r BY DEF Interval
<1>2. f \in [S -> AsRuns(S)] /\ \A i \in AsRuns(S) : \E r \in S : f[r] = i BY DEF AsRuns
<1>3. \A q, r \in S : f[q] = f[r] => q = r
  <2> SUFFICES ASSUME NEW q \in S, NEW r \in S, f[q] = f[r]
               PROVE  q = r
    OBVIOUS
  <2>1. Interval(q, RunPages) = Interval(r, RunPages) OBVIOUS
  <2> HIDE DEF f
  <2> QED BY <1>1, <2>1
<1> HIDE DEF f
<1>4. f \in Bijection(S, AsRuns(S))
  BY <1>2, <1>3 DEF Bijection, Injection, Surjection, IsInjective
<1> QED BY <1>4, FS_Bijection DEF ExistsBijection

LEMMA AsManyCached ==
    ASSUME NEW q \in Seq(Pages), Distinct(q)
    PROVE  IsFiniteSet(Held(q)) /\ Cardinality(Held(q)) = Len(q)
<1>1. /\ Len(q) \in Nat /\ DOMAIN q = 1 .. Len(q)
      /\ q \in [1 .. Len(q) -> Held(q)] /\ \A r \in Held(q) : \E k \in 1 .. Len(q) : q[k] = r
  BY DEF Held
<1>2. q \in Bijection(1 .. Len(q), Held(q))
  BY <1>1 DEF Distinct, Bijection, Injection, Surjection, IsInjective
<1>3. IsFiniteSet(1 .. Len(q)) /\ Cardinality(1 .. Len(q)) = Len(q)
  <2>1. ASSUME NEW n \in Nat
        PROVE  IsFiniteSet(1 .. n) /\ Cardinality(1 .. n) = n
    <3> DEFINE c == Cardinality(1 .. n)
    <3>1. IsFiniteSet(1 .. n) /\ c = IF 1 > n THEN 0 ELSE n - 1 + 1 BY FS_Interval
    <3> HIDE DEF c
    <3>2. c = n BY <3>1
    <3> QED BY <3>1, <3>2 DEF c
  <2> QED BY <1>1, <2>1
<1> QED BY <1>2, <1>3, FS_Bijection DEF ExistsBijection

LEMMA TilesAre ==
    Tiles = m_intervalTree \cup Used
BY DEF Tiles, Used, Kept

LEMMA Counted ==
    ASSUME IInv
    PROVE  Cardinality(Tiles) = Cardinality(m_intervalTree) + Cardinality(objects)
                                + Cardinality(runs) + Len(m_NVMRunCache)
                                + Cardinality(lost) + Cardinality(Reserved)
<1> DEFINE T == m_intervalTree
           V == T \cup Used
<1>1. IsFiniteSet(V) /\ T \cap Used = {} BY FinitelyManyTiles DEF IInv, Tiled
<1>2. /\ IsFiniteSet(T) /\ IsFiniteSet(objects) /\ IsFiniteSet(Kept) /\ IsFiniteSet(lost)
      /\ IsFiniteSet(Reserved)
  <2>1. /\ T \in SUBSET V /\ objects \in SUBSET V /\ Kept \in SUBSET V /\ lost \in SUBSET V
        /\ Reserved \in SUBSET V
    BY DEF Used
  <2> HIDE DEF V
  <2> QED BY <1>1, <2>1, FS_Subset
<1>3. /\ Cardinality(T) \in Nat /\ Cardinality(objects) \in Nat /\ Cardinality(Kept) \in Nat
      /\ Cardinality(lost) \in Nat /\ Cardinality(Reserved) \in Nat
  BY <1>2, FS_CardinalityType
<1>4. /\ objects \cap (Kept \cup lost \cup Reserved) = {}
      /\ Kept \cap (lost \cup Reserved) = {} /\ lost \cap Reserved = {}
      /\ runs \cap Cached = {}
  BY DEF IInv, UsedOnce
<1> DEFINE W1 == lost \cup Reserved
           W2 == Kept \cup W1
           W3 == objects \cup W2
<1>5. IsFiniteSet(W1) /\ Cardinality(W1) = Cardinality(lost) + Cardinality(Reserved)
  BY <1>2, <1>4, TwoTogether
<1>6. IsFiniteSet(W2) /\ Cardinality(W2) = Cardinality(Kept) + Cardinality(W1)
  <2>1. Kept \cap W1 = {} BY <1>4
  <2> HIDE DEF W1
  <2> QED BY <1>2, <1>5, <2>1, TwoTogether
<1>7. IsFiniteSet(W3) /\ Cardinality(W3) = Cardinality(objects) + Cardinality(W2)
  <2>1. objects \cap W2 = {} BY <1>4
  <2> HIDE DEF W2
  <2> QED BY <1>2, <1>6, <2>1, TwoTogether
<1>8. W3 = Used BY DEF Used
<1> HIDE DEF W1, W2, W3
<1>9. Cardinality(Tiles) = Cardinality(T) + Cardinality(W3)
  BY <1>1, <1>2, <1>7, <1>8, TilesAre, TwoTogether
<1>10. Cardinality(Kept) = Cardinality(runs) + Len(m_NVMRunCache)
  <2>1. /\ m_NVMRunCache \in Seq(Pages) /\ runs \in SUBSET Pages /\ Distinct(m_NVMRunCache)
        /\ Cached = Held(m_NVMRunCache)
    BY DEF IInv, TypeOK, UsedOnce, Cached, Held
  <2>2. IsFiniteSet(Cached) /\ Cardinality(Cached) = Len(m_NVMRunCache) BY <2>1, AsManyCached
  <2>3. IsFiniteSet(runs) BY <2>1, FinitelyManyPages, FS_Subset
  <2>4. /\ IsFiniteSet(runs \cup Cached)
        /\ Cardinality(runs \cup Cached) = Cardinality(runs) + Cardinality(Cached)
    BY <1>4, <2>2, <2>3, TwoTogether
  <2> QED BY <2>2, <2>4, AsManyRuns DEF Kept
<1>11. Cardinality(runs) \in Nat /\ Len(m_NVMRunCache) \in Nat
  <2>1. runs \in SUBSET Pages /\ m_NVMRunCache \in Seq(Pages) BY DEF IInv, TypeOK
  <2>2. IsFiniteSet(runs) BY <2>1, FinitelyManyPages, FS_Subset
  <2> QED BY <2>1, <2>2, FS_CardinalityType
<1> HIDE DEF T, V
<1>12. Cardinality(Tiles) = Cardinality(T) + Cardinality(objects)
                            + Cardinality(runs) + Len(m_NVMRunCache)
                            + Cardinality(lost) + Cardinality(Reserved)
  BY <1>3, <1>5, <1>6, <1>7, <1>9, <1>10, <1>11
<1> QED BY <1>12 DEF T

\* A page is in one place.
LEMMA OnePlace ==
    ASSUME IInv
    PROVE  /\ \A i \in Tiles : Fits(i) /\ SegmentOf(i.start) \in owned
           /\ \A p : \A i, j \in Tiles : p \in PagesOf(i) /\ p \in PagesOf(j) => i = j
           /\ {p \in Pages : SegmentOf(p) \in owned} = UNION {PagesOf(i) : i \in Tiles}
<1>1. Tiled(owned, m_intervalTree, Used) /\ Tiles = m_intervalTree \cup Used
  BY TilesAre DEF IInv
<1>2. \A i \in Tiles : Fits(i) /\ SegmentOf(i.start) \in owned BY <1>1 DEF Tiled
<1>3. \A i \in Tiles : \A p \in PagesOf(i) : p \in Pages /\ SegmentOf(p) \in owned
  BY <1>2, Fitting
<1>4. \A p : \A i, j \in Tiles : p \in PagesOf(i) /\ p \in PagesOf(j) => i = j
  BY <1>1, <1>3 DEF Tiled
<1>5. \A p \in Pages : SegmentOf(p) \in owned => \E i \in Tiles : p \in PagesOf(i)
  BY <1>1 DEF Tiled
<1>6. {p \in Pages : SegmentOf(p) \in owned} = UNION {PagesOf(i) : i \in Tiles}
  BY <1>3, <1>5
<1> QED BY <1>2, <1>4, <1>6

LEMMA TilingHolds ==
    ASSUME IInv
    PROVE  Tiling
<1>1. \A i, j \in Tiles : i = j \/ PagesOf(i) \cap PagesOf(j) = {} BY OnePlace
<1>2. TypeOK /\ owned \cap m_freeSegments = {} BY DEF IInv
<1> QED BY <1>1, <1>2, OnePlace, Counted DEF Tiling

LEMMA ExtentsHold ==
    ASSUME IInv
    PROVE  ExtentsAgree
<1>1. /\ Marked(m_extents, m_intervalTree, objects, Kept)
      /\ Kept = AsRuns(runs \cup Cached)
      /\ m_intervalTree \cap Used = {}
  BY DEF IInv, Kept, Tiled
<1>2. /\ m_intervalTree \subseteq Tiles /\ objects \subseteq Tiles /\ Kept \subseteq Tiles
      /\ objects \subseteq Used /\ Kept \subseteq Used /\ objects \cap Kept = {}
  BY TilesAre DEF Used, IInv, UsedOnce
<1>3. \A i \in Tiles : Ends(i) \subseteq PagesOf(i) BY OnePlace, Fitting
<1>4. \A p : \A i, j \in Tiles : p \in PagesOf(i) /\ p \in PagesOf(j) => i = j BY OnePlace
<1> SUFFICES ASSUME NEW p \in Pages
             PROVE  m_extents[p] =
        CASE \E i \in m_intervalTree : p \in Ends(i) ->
                [kind |-> "free", len |-> (CHOOSE i \in m_intervalTree : p \in Ends(i)).len]
          [] \E i \in objects : p \in Ends(i) ->
                [kind |-> "large", len |-> (CHOOSE i \in objects : p \in Ends(i)).len]
          [] \E i \in Kept : p \in PagesOf(i) ->
                [kind |-> "run", len |-> RunPages]
          [] OTHER -> NoExtent
  BY <1>1 DEF ExtentsAgree
\* Two of the kinds do not meet at p.
<1>5. \A i \in m_intervalTree : i \notin objects /\ i \notin Kept BY <1>1, <1>2
<1>6. \A i \in Tiles : p \in Ends(i) => p \in PagesOf(i) BY <1>3
<1>7. \A i \in m_intervalTree, j \in objects : ~(p \in PagesOf(i) /\ p \in PagesOf(j))
  BY <1>2, <1>4, <1>5
<1>8. \A i \in m_intervalTree, j \in Kept : ~(p \in PagesOf(i) /\ p \in PagesOf(j))
  BY <1>2, <1>4, <1>5
<1>9. \A i \in objects, j \in Kept : ~(p \in PagesOf(i) /\ p \in PagesOf(j))
  BY <1>2, <1>4
<1>10. CASE \E i \in m_intervalTree : p \in Ends(i)
  <2>1. PICK i \in m_intervalTree : p \in Ends(i) BY <1>10
  <2>2. (CHOOSE j \in m_intervalTree : p \in Ends(j)) = i BY <1>2, <1>3, <1>4, <2>1
  <2>3. ~\E j \in objects : p \in Ends(j) BY <1>2, <1>6, <1>7, <1>8, <1>9, <2>1
  <2>4. ~\E j \in Kept : p \in PagesOf(j) BY <1>2, <1>6, <1>7, <1>8, <1>9, <2>1
  <2>5. m_extents[p] = [kind |-> "free", len |-> i.len] BY <1>1, <2>1 DEF Marked
  <2> QED BY <1>10, <2>2, <2>3, <2>4, <2>5
<1>11. CASE \E i \in objects : p \in Ends(i)
  <2>1. PICK i \in objects : p \in Ends(i) BY <1>11
  <2>2. (CHOOSE j \in objects : p \in Ends(j)) = i BY <1>2, <1>3, <1>4, <2>1
  <2>3. ~\E j \in m_intervalTree : p \in Ends(j) BY <1>2, <1>6, <1>7, <1>8, <1>9, <2>1
  <2>4. ~\E j \in Kept : p \in PagesOf(j) BY <1>2, <1>6, <1>7, <1>8, <1>9, <2>1
  <2>5. m_extents[p] = [kind |-> "large", len |-> i.len] BY <1>1, <2>1 DEF Marked
  <2> QED BY <1>11, <2>2, <2>3, <2>4, <2>5
<1>12. CASE \E i \in Kept : p \in PagesOf(i)
  <2>1. PICK i \in Kept : p \in PagesOf(i) BY <1>12
  <2>2. ~\E j \in m_intervalTree : p \in Ends(j) BY <1>2, <1>6, <1>7, <1>8, <1>9, <2>1
  <2>3. ~\E j \in objects : p \in Ends(j) BY <1>2, <1>6, <1>7, <1>8, <1>9, <2>1
  <2>4. m_extents[p] = [kind |-> "run", len |-> RunPages] BY <1>1, <2>1 DEF Marked
  <2> QED BY <1>12, <2>2, <2>3, <2>4
<1>13. CASE ~\E i \in m_intervalTree \cup objects : p \in Ends(i)
  <2>1. \A i \in m_intervalTree : p \notin Ends(i) BY <1>13
  <2>2. \A i \in objects : p \notin Ends(i) BY <1>13
  <2>3. CASE ~\E i \in Kept : p \in PagesOf(i)
    <3>1. m_extents[p] = NoExtent BY <1>1, <1>13, <2>3 DEF Marked
    <3> QED BY <2>1, <2>2, <2>3, <3>1
  <2> QED BY <1>12, <2>3
<1> QED BY <1>10, <1>11, <1>12, <1>13

LEMMA WholeHolds ==
    ASSUME IInv
    PROVE  FreeSpaceWhole
<1>1. \A i, j \in m_intervalTree :
          i.start + i.len = j.start => SegmentOf(i.start) # SegmentOf(j.start)
  BY DEF IInv, Tiled, Touch
<1>2. ASSUME NEW s \in owned
      PROVE  \E i \in Tiles \ m_intervalTree : SegmentOf(i.start) = s
  <2> SUFFICES ASSUME \A i \in Tiles : SegmentOf(i.start) = s => i \in m_intervalTree
               PROVE  FALSE
    OBVIOUS
  <2>1. s \in Segments BY DEF IInv, TypeOK
  <2> DEFINE first == SegmentStart(s)
  <2>2. /\ first \in Pages /\ first \in Nat /\ SegmentOf(first) = s /\ SegmentPages \in Nat \ {0}
    <3>1. first \in Pages /\ first \in Nat /\ SegmentPages \in Nat \ {0} BY <2>1, Segmentation
    <3>2. first <= first /\ first < first + SegmentPages BY <3>1
    <3> QED BY <2>1, <3>1, <3>2, Segmentation
  <2>3. \A p \in Pages : SegmentOf(p) = s => \E i \in Tiles : p \in PagesOf(i)
    BY OnePlace
  <2>4. \A i \in Tiles : \A p \in PagesOf(i) : p \in Pages /\ SegmentOf(p) = SegmentOf(i.start)
    BY OnePlace, Fitting
  <2>5. \A i \in Tiles : /\ i.start \in Nat /\ i.len \in Nat /\ 1 <= i.len
                         /\ SegmentStart(SegmentOf(i.start)) <= i.start
    BY OnePlace, Fitting
  <2> HIDE DEF first
  \* The tile at the segment's first page ends before the segment does.
  <2>6. PICK i \in Tiles : first \in PagesOf(i) BY <2>2, <2>3
  <2>7. i \in m_intervalTree /\ SegmentOf(i.start) = s BY <2>2, <2>4, <2>6
  <2>8. i.start = first
    <3>1. first <= i.start BY <2>5, <2>7 DEF first
    <3>2. i.start <= first BY <2>6 DEF PagesOf
    <3> QED BY <2>2, <2>5, <3>1, <3>2
  <2>9. i.len < SegmentPages
    <3>1. i \in Intervals BY <2>7 DEF IInv, TypeOK
    <3> QED BY <3>1, IntervalsThatFit
  \* The tile that follows is in the segment too, and touches it.
  <2> DEFINE next == i.start + i.len
  <2>10. next \in Pages /\ SegmentOf(next) = s
    <3>1. SegmentStart(s) <= next /\ next < SegmentStart(s) + SegmentPages /\ next \in Int
      BY <2>2, <2>5, <2>8, <2>9 DEF first
    <3> HIDE DEF next
    <3> QED BY <2>1, <3>1, Segmentation
  <2> HIDE DEF next
  <2>11. PICK j \in Tiles : next \in PagesOf(j) BY <2>3, <2>10
  <2>12. j \in m_intervalTree /\ SegmentOf(j.start) = s BY <2>4, <2>10, <2>11
  <2>13. j.start = next
    <3>1. j.start <= next /\ next < j.start + j.len BY <2>5, <2>11 DEF PagesOf
    <3>2. CASE j.start < next
      <4>1. first <= j.start BY <2>5, <2>12 DEF first
      <4>2. j.start \in PagesOf(i) BY <2>5, <2>8, <3>2, <4>1 DEF PagesOf, next
      <4>3. j.start \in PagesOf(j) BY <2>5 DEF PagesOf
      <4>4. i = j BY <4>2, <4>3, OnePlace
      <4> QED BY <2>5, <3>1, <4>4 DEF next
    <3> QED BY <2>5, <3>1, <3>2 DEF next
  <2>14. Touch(i, j) BY <2>7, <2>12, <2>13 DEF Touch, next
  <2> QED BY <2>7, <2>12, <2>14 DEF IInv, Tiled
<1> QED BY <1>1, <1>2 DEF FreeSpaceWhole

-----------------------------------------------------------------------------
\* Every page of a segment that the heap has is in exactly one place: free, in
\* one object, in one run, lost for want of a tree node, or reserved; nothing
\* lies in a segment of another heap or of the central heap.  Splitting in
\* alloc, merging in tryMergeAndFree and the return of whole segments keep it so.
THEOREM PagesAreTiled == Spec => []Tiling
BY Invariance, TilingHolds, PTL

\* CLNVMExtentFinder has at the ends of every free interval and large object,
\* and at every page of a run, what lies there, and nothing anywhere else:
\* a freed neighbour is found with its length, and free() finds its object.
THEOREM ExtentsAreRight == Spec => []ExtentsAgree
BY Invariance, ExtentsHold, PTL

\* tryMergeAndFree leaves no two free intervals of a segment that touch, and a
\* segment without anything in use is always back with the central heap.
THEOREM FreeSpaceIsWhole == Spec => []FreeSpaceWhole
BY Invariance, WholeHolds, PTL
=============================================================================
