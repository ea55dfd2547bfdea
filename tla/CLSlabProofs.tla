---------------------------- MODULE CLSlabProofs ----------------------------
(***************************************************************************)
(* Proofs about a slab, for any runs, any sizes and both kinds of run.     *)
(* The links of the runs are proved about as what they lead to (Chain);    *)
(* of each run, what it can still give and how often, is proved to be what *)
(* is not in use.                                                          *)
(***************************************************************************)
EXTENDS CLSlab, FiniteSetTheorems, WellFoundedInduction, TLAPS

Links == [half : Runs \cup {NULL}, full : Runs \cup {NULL},
          next : [Runs -> Runs \cup {NULL}], prev : [Runs -> Runs \cup {NULL}]]

Lists == {"half", "full"}

\* Whatever holds the head of a list and follows the links holds the list.
Closed(l, list, S) ==
    /\ l[list] \in S \cup {NULL}
    /\ \A n \in S : l.next[n] \in S \cup {NULL}

\* The runs of a list are linked both ways.
Linked(l, list) ==
    /\ l[list] # NULL => l.prev[l[list]] = NULL
    /\ \A r \in Chain(l, list) : l.next[r] # NULL => l.prev[l.next[r]] = r

\* No run is in both lists.
TwoLists(l) ==
    /\ l \in Links
    /\ \A list \in Lists : Linked(l, list)
    /\ Chain(l, "half") \cap Chain(l, "full") = {}

-----------------------------------------------------------------------------
(* The inductive invariant. *)

Taken == objects \cup Cached

\* Where the slots of a run begin.
Base == IF kind = "nvm" THEN 0 ELSE Header

\* A run, but for those that are leaked, gives what is not in use, each slot
\* once.  What was never used begins behind what was.
RunOK(r) ==
    /\ FreeSlots(r) = Slots \ {o.bit : o \in InUse(r)}
    /\ IsInjective(m_freeChunks[r])
    /\ m_freeCount[r] = MaxFree - Cardinality(InUse(r))
    /\ kind = "dram" =>
          /\ \E j \in Nat : m_tail[r] = Header + j * m_objSize
          /\ \A b \in ToSet(m_freeChunks[r]) : b < m_tail[r]

RunsOK == \A r \in Runs \ leaked : RunOK(r)

TakenOK ==
    /\ \A o \in Taken : o.bit + m_objSize <= RunSize
    /\ objects \cap Cached = {}
    /\ IsInjective(m_objCache)
    /\ \A r \in Runs : InUse(r) # {} <=> r \in known

ListsOK ==
    /\ TwoLists(lists)
    /\ ListOf("half") \cup ListOf("full") = known
    /\ \A r \in ListOf("full") : m_freeCount[r] = 0

\* Where an allocation is in its search.
SearchOK ==
    /\ cur = IF pc = "slab" THEN lists.half ELSE NULL
    /\ pc = "newRun" => lists.half = NULL
    /\ pc \in {"slab", "newRun"} => m_objCache = <<>>
    /\ pc # "idle" => ~recovering
    /\ recovering => kind = "nvm" /\ m_objCache = <<>> /\ leaked = {}

Good == RunsOK /\ TakenOK /\ ListsOK /\ SearchOK

IInv == TypeOK /\ (Unspoilt => Good)

-----------------------------------------------------------------------------
(* What a list's links lead to. *)

LEMMA ChainIs ==
    ASSUME NEW l \in Links, NEW list \in Lists
    PROVE  /\ Chain(l, list) \subseteq Runs /\ Closed(l, list, Chain(l, list))
           /\ \A S \in SUBSET Runs : Closed(l, list, S) => Chain(l, list) \subseteq S
<1>1. NULL \notin Runs BY SlabAssumption
<1>2. \A S \in SUBSET Runs : Closed(l, list, S) => Chain(l, list) \subseteq S
  BY DEF Chain, Closed
<1>3. l[list] \in Runs \cup {NULL} /\ \A r \in Runs : l.next[r] \in Runs \cup {NULL}
  BY DEF Links, Lists
<1>4. Closed(l, list, Chain(l, list)) BY <1>1, <1>3 DEF Chain, Closed
<1> QED BY <1>2, <1>4 DEF Chain

\* Where a run of a list stands.
LEMMA Neighbours ==
    ASSUME NEW l \in Links, NEW list \in Lists, Linked(l, list), NEW r \in Chain(l, list)
    PROVE  /\ l.next[r] # r
           /\ \/ r = l[list] /\ l.prev[r] = NULL
              \/ r # l[list] /\ l.prev[r] \in Chain(l, list) /\ l.next[l.prev[r]] = r
<1> DEFINE L == Chain(l, list)
<1>1. /\ NULL \notin Runs /\ L \subseteq Runs /\ Closed(l, list, L)
      /\ \A S \in SUBSET Runs : Closed(l, list, S) => L \subseteq S
  BY ChainIs, SlabAssumption
<1>2. \A n \in L : l.next[n] # NULL => l.prev[l.next[n]] = n BY DEF Linked
<1>3. r = l[list] => l.prev[r] = NULL BY <1>1 DEF Linked
<1> HIDE DEF L
<1>4. r \in L BY DEF L
<1>5. ASSUME r # l[list]
      PROVE  \E n \in L : n # r /\ l.next[n] = r
  <2> SUFFICES ASSUME \A n \in L : n # r => l.next[n] # r
               PROVE  FALSE
    OBVIOUS
  <2>1. Closed(l, list, L \ {r}) BY <1>1, <1>5 DEF Closed
  <2> QED BY <1>1, <1>4, <2>1
<1>6. CASE r = l[list]
  <2>1. l.next[r] # r BY <1>1, <1>2, <1>3, <1>4, <1>6
  <2> QED BY <1>3, <1>6, <2>1
<1>7. CASE r # l[list]
  <2>1. PICK n \in L : n # r /\ l.next[n] = r BY <1>5, <1>7
  <2>2. l.prev[r] = n BY <1>1, <1>2, <1>4, <2>1
  <2>3. l.next[r] # r BY <1>1, <1>2, <1>4, <2>1, <2>2
  <2> QED BY <1>7, <2>1, <2>2, <2>3 DEF L
<1> QED BY <1>6, <1>7

LEMMA ChainKept ==
    ASSUME NEW l \in Links, NEW m \in Links, NEW list \in Lists, m[list] = l[list],
           \A n \in Chain(l, list) : m.next[n] = l.next[n]
    PROVE  Chain(m, list) = Chain(l, list)
<1> DEFINE L == Chain(l, list)
           M == Chain(m, list)
<1>1. /\ L \subseteq Runs /\ Closed(l, list, L)
      /\ \A S \in SUBSET Runs : Closed(l, list, S) => L \subseteq S
  BY ChainIs
<1>2. /\ M \subseteq Runs /\ Closed(m, list, M)
      /\ \A S \in SUBSET Runs : Closed(m, list, S) => M \subseteq S
  BY ChainIs
<1>3. \A n \in L : m.next[n] = l.next[n] OBVIOUS
<1> HIDE DEF L, M
<1>4. Closed(m, list, L) BY <1>1, <1>3 DEF Closed
<1>5. M \subseteq L BY <1>1, <1>2, <1>4
<1>6. Closed(l, list, M) BY <1>2, <1>3, <1>5 DEF Closed
<1> QED BY <1>1, <1>2, <1>5, <1>6 DEF L, M

LEMMA LinkedKept ==
    ASSUME NEW l \in Links, NEW m \in Links, NEW list \in Lists, Linked(l, list),
           m[list] = l[list], \A n \in Chain(l, list) : m.next[n] = l.next[n],
           \A n \in Chain(l, list) : m.prev[n] = l.prev[n]
    PROVE  Chain(m, list) = Chain(l, list) /\ Linked(m, list)
<1> DEFINE L == Chain(l, list)
<1>1. Chain(m, list) = L BY ChainKept
<1>2. Closed(l, list, L) BY ChainIs
<1>3. /\ l[list] # NULL => l.prev[l[list]] = NULL
      /\ \A r \in L : l.next[r] # NULL => l.prev[l.next[r]] = r
      /\ \A n \in L : m.next[n] = l.next[n] /\ m.prev[n] = l.prev[n]
  BY DEF Linked
<1> HIDE DEF L
<1>4. /\ l[list] # NULL => l[list] \in L
      /\ \A r \in L : l.next[r] # NULL => l.next[r] \in L
  BY <1>2 DEF Closed
<1>5. Linked(m, list) BY <1>1, <1>3, <1>4 DEF Linked
<1> QED BY <1>1, <1>5 DEF L

LEMMA PushIs ==
    ASSUME NEW l \in Links, NEW list \in Lists, NEW r \in Runs
    PROVE  LET m == Push(l, list, r) IN
           /\ m \in Links /\ m[list] = r
           /\ \A other \in Lists : other # list => m[other] = l[other]
           /\ \A n \in Runs : m.next[n] = IF n = r THEN l[list] ELSE l.next[n]
           /\ \A n \in Runs : m.prev[n] = IF n = r THEN NULL
                                          ELSE IF n = l[list] THEN r ELSE l.prev[n]
<1>1. CASE list = "half" BY <1>1 DEF Push, Links, Lists
<1>2. CASE list = "full" BY <1>2 DEF Push, Links, Lists
<1> QED BY <1>1, <1>2 DEF Lists

LEMMA EraseIs ==
    ASSUME NEW l \in Links, NEW list \in Lists, NEW r \in Runs
    PROVE  LET m == Erase(l, list, r) IN
           /\ m \in Links
           /\ m[list] = IF l.prev[r] = NULL THEN l.next[r] ELSE l[list]
           /\ \A other \in Lists : other # list => m[other] = l[other]
           /\ \A n \in Runs : m.next[n] = IF n = l.prev[r] THEN l.next[r] ELSE l.next[n]
           /\ \A n \in Runs : m.prev[n] = IF n = l.next[r] THEN l.prev[r] ELSE l.prev[n]
<1>1. CASE list = "half" BY <1>1 DEF Erase, Links, Lists
<1>2. CASE list = "full" BY <1>2 DEF Erase, Links, Lists
<1> QED BY <1>1, <1>2 DEF Lists

LEMMA ForgottenIs ==
    ASSUME NEW l \in Links, NEW r \in Runs
    PROVE  LET m == Forgotten(l, r) IN
           /\ m \in Links
           /\ \A list \in Lists : m[list] = l[list]
           /\ \A n \in Runs : n # r => m.next[n] = l.next[n] /\ m.prev[n] = l.prev[n]
BY DEF Forgotten, Links, Lists

LEMMA OtherList ==
    ASSUME NEW l, TwoLists(l), NEW list \in Lists, NEW other \in Lists, other # list
    PROVE  Chain(l, list) \cap Chain(l, other) = {}
BY DEF TwoLists, Lists

LEMMA Pushed ==
    ASSUME NEW l, TwoLists(l), NEW list \in Lists, NEW other \in Lists, other # list,
           NEW r \in Runs, r \notin Chain(l, list) \cup Chain(l, other)
    PROVE  LET m == Push(l, list, r) IN
           /\ TwoLists(m)
           /\ Chain(m, list) = Chain(l, list) \cup {r}
           /\ Chain(m, other) = Chain(l, other)
           /\ m[list] = r /\ m[other] = l[other]
<1> DEFINE m == Push(l, list, r)
           L == Chain(l, list)
           O == Chain(l, other)
           M == Chain(m, list)
<1>1. /\ l \in Links /\ Linked(l, list) /\ Linked(l, other) /\ NULL \notin Runs
  BY SlabAssumption DEF TwoLists
<1>2. /\ m \in Links /\ m[list] = r /\ m[other] = l[other]
      /\ \A n \in Runs : m.next[n] = IF n = r THEN l[list] ELSE l.next[n]
      /\ \A n \in Runs : m.prev[n] = IF n = r THEN NULL
                                     ELSE IF n = l[list] THEN r ELSE l.prev[n]
  BY <1>1, PushIs
<1>3. L \cap O = {} /\ r \notin L /\ r \notin O BY OtherList
<1>4. /\ L \subseteq Runs /\ Closed(l, list, L)
      /\ \A S \in SUBSET Runs : Closed(l, list, S) => L \subseteq S
      /\ O \subseteq Runs /\ Closed(l, other, O)
  BY <1>1, ChainIs
<1> HIDE DEF m
<1>5. /\ M \subseteq Runs /\ Closed(m, list, M)
      /\ \A S \in SUBSET Runs : Closed(m, list, S) => M \subseteq S
  BY <1>2, ChainIs
<1>6. /\ l[list] # NULL => l[list] \in L /\ l.prev[l[list]] = NULL
      /\ \A n \in L : l.next[n] # NULL => l.next[n] \in L /\ l.prev[l.next[n]] = n
  BY <1>1, <1>4 DEF Linked, Closed
<1>7. Chain(m, other) = O /\ Linked(m, other)
  <2>1. \A n \in O : n \in Runs /\ n # r /\ n # l[list] BY <1>3, <1>4, <1>6, <1>1
  <2>2. \A n \in O : m.next[n] = l.next[n] /\ m.prev[n] = l.prev[n] BY <1>2, <2>1
  <2> QED BY <1>1, <1>2, <2>2, LinkedKept
<1> HIDE DEF L, O, M
<1>8. M = L \cup {r}
  <2>1. Closed(m, list, L \cup {r})
    <3>1. \A n \in L : m.next[n] = l.next[n] BY <1>2, <1>3, <1>4
    <3>2. m.next[r] = l[list] BY <1>2
    <3> QED BY <1>2, <1>4, <3>1, <3>2 DEF Closed
  <2>2. r \in M BY <1>1, <1>2, <1>5 DEF Closed
  <2>3. Closed(l, list, L \cap M)
    <3>1. \A n \in L \cap M : l.next[n] \in M \cup {NULL} BY <1>2, <1>3, <1>4, <1>5 DEF Closed
    <3>2. l[list] \in M \cup {NULL} BY <1>2, <1>5, <2>2 DEF Closed
    <3> QED BY <1>4, <3>1, <3>2 DEF Closed
  <2>4. L \subseteq M BY <1>4, <2>3
  <2> QED BY <1>4, <1>5, <2>1, <2>2, <2>4
<1>9. Linked(m, list)
  <2>1. m[list] # NULL => m.prev[m[list]] = NULL BY <1>2
  <2>2. m.next[r] # NULL => m.prev[m.next[r]] = r BY <1>2, <1>3, <1>4, <1>6
  <2>3. ASSUME NEW n \in L, m.next[n] # NULL
        PROVE  m.prev[m.next[n]] = n
    <3>1. m.next[n] = l.next[n] /\ l.next[n] \in L /\ l.prev[l.next[n]] = n
      BY <1>2, <1>3, <1>4, <1>6, <2>3
    <3>2. l.next[n] # r /\ l.next[n] # l[list] BY <1>1, <1>3, <1>4, <1>6, <3>1
    <3> QED BY <1>2, <1>4, <3>1, <3>2
  <2>4. \A n \in M : m.next[n] # NULL => m.prev[m.next[n]] = n BY <1>8, <2>2, <2>3
  <2> QED BY <2>1, <2>4 DEF Linked, M
<1>10. TwoLists(m)
  <2>1. \A any \in Lists : any = list \/ any = other BY DEF Lists
  <2>2. Chain(m, list) \cap Chain(m, other) = {} BY <1>3, <1>7, <1>8 DEF M
  <2>3. Chain(m, "half") \cap Chain(m, "full") = {} BY <2>1, <2>2 DEF Lists
  <2> QED BY <1>2, <1>7, <1>9, <2>1, <2>3 DEF TwoLists
<1> QED BY <1>2, <1>7, <1>8, <1>10 DEF m, L, O, M

LEMMA Erased ==
    ASSUME NEW l, TwoLists(l), NEW list \in Lists, NEW other \in Lists, other # list,
           NEW r \in Chain(l, list)
    PROVE  LET m == Erase(l, list, r) IN
           /\ TwoLists(m)
           /\ Chain(m, list) = Chain(l, list) \ {r}
           /\ Chain(m, other) = Chain(l, other)
           /\ r = l[list] => m[list] = l.next[r]
           /\ m[other] = l[other]
<1> DEFINE m == Erase(l, list, r)
           L == Chain(l, list)
           O == Chain(l, other)
           M == Chain(m, list)
           p == l.prev[r]
           q == l.next[r]
<1>1. /\ l \in Links /\ Linked(l, list) /\ Linked(l, other) /\ NULL \notin Runs
  BY SlabAssumption DEF TwoLists
<1>2. /\ L \subseteq Runs /\ Closed(l, list, L)
      /\ \A S \in SUBSET Runs : Closed(l, list, S) => L \subseteq S
      /\ O \subseteq Runs /\ Closed(l, other, O)
  BY <1>1, ChainIs
<1>3. /\ m \in Links /\ m[other] = l[other]
      /\ m[list] = IF p = NULL THEN q ELSE l[list]
      /\ \A n \in Runs : m.next[n] = IF n = p THEN q ELSE l.next[n]
      /\ \A n \in Runs : m.prev[n] = IF n = q THEN p ELSE l.prev[n]
  BY <1>1, <1>2, EraseIs
<1>4. L \cap O = {} /\ r \in L BY OtherList
<1>5. /\ q # r
      /\ \/ r = l[list] /\ p = NULL
         \/ r # l[list] /\ p \in L /\ l.next[p] = r
  BY <1>1, Neighbours
<1> HIDE DEF m, p, q
<1>6. /\ l[list] # NULL => l[list] \in L /\ l.prev[l[list]] = NULL
      /\ \A n \in L : l.next[n] # NULL => l.next[n] \in L /\ l.prev[l.next[n]] = n
  BY <1>1, <1>2 DEF Linked, Closed
<1>7. (q # NULL => q \in L /\ l.prev[q] = r) /\ (p # NULL => p \in L /\ p # r)
  BY <1>1, <1>2, <1>4, <1>5, <1>6 DEF q
<1>8. /\ M \subseteq Runs /\ Closed(m, list, M)
      /\ \A S \in SUBSET Runs : Closed(m, list, S) => M \subseteq S
  BY <1>3, ChainIs
<1>9. Chain(m, other) = O /\ Linked(m, other)
  <2>1. \A n \in O : n \in Runs /\ n # p /\ n # q BY <1>1, <1>2, <1>4, <1>7
  <2>2. \A n \in O : m.next[n] = l.next[n] /\ m.prev[n] = l.prev[n] BY <1>3, <2>1
  <2> QED BY <1>1, <1>3, <2>2, LinkedKept
<1> HIDE DEF L, O, M
\* Of the runs left only the one before r leads to r.
<1>10. \A n \in L \ {r} : l.next[n] = r => n = p
  BY <1>1, <1>2, <1>4, <1>6 DEF p
<1>11. M = L \ {r}
  <2>1. Closed(m, list, L \ {r})
    <3>1. \A n \in L \ {r} : m.next[n] \in (L \ {r}) \cup {NULL}
      BY <1>2, <1>3, <1>5, <1>6, <1>7, <1>10
    <3>2. m[list] \in (L \ {r}) \cup {NULL} BY <1>1, <1>3, <1>5, <1>6, <1>7
    <3> QED BY <3>1, <3>2 DEF Closed
  <2>2. M \subseteq L \ {r} BY <1>2, <1>8, <2>1
  <2>3. CASE p = NULL \/ p \in M
    <3>1. Closed(l, list, M \cup {r})
      <4>1. l[list] \in M \cup {r} \cup {NULL}
        BY <1>1, <1>2, <1>3, <1>5, <1>8, <2>3 DEF Closed
      <4>2. q \in M \cup {NULL}
        BY <1>3, <1>8, <2>3 DEF Closed
      <4>3. \A n \in M : l.next[n] \in M \cup {r} \cup {NULL}
        <5>1. \A n \in M : n # p => l.next[n] \in M \cup {NULL} BY <1>3, <1>8 DEF Closed
        <5>2. p \in M => l.next[p] = r BY <1>1, <1>5, <1>8
        <5> QED BY <5>1, <5>2
      <4> QED BY <4>1, <4>2, <4>3 DEF Closed, q
    <3> QED BY <1>2, <1>4, <1>8, <2>2, <3>1
  <2>4. CASE p # NULL /\ p \notin M
    <3>1. Closed(l, list, M) BY <1>3, <1>8, <2>4 DEF Closed
    <3> QED BY <1>2, <1>8, <2>2, <1>4, <3>1
  <2> QED BY <2>3, <2>4
<1>12. Linked(m, list)
  <2>1. ASSUME m[list] # NULL
        PROVE  m.prev[m[list]] = NULL
    <3>1. CASE p = NULL BY <1>2, <1>3, <1>7, <2>1, <3>1
    <3>2. CASE p # NULL
      <4>1. m[list] = l[list] /\ l[list] \in L /\ l.prev[l[list]] = NULL BY <1>3, <1>6, <2>1, <3>2
      <4>2. l[list] # q BY <1>1, <1>2, <1>4, <1>7, <4>1
      <4> QED BY <1>2, <1>3, <4>1, <4>2
    <3> QED BY <3>1, <3>2
  <2>2. ASSUME NEW n \in L \ {r}, m.next[n] # NULL
        PROVE  m.prev[m.next[n]] = n
    <3>1. CASE n = p BY <1>2, <1>3, <1>7, <2>2, <3>1
    <3>2. CASE n # p
      <4>1. m.next[n] = l.next[n] /\ l.next[n] \in L /\ l.prev[l.next[n]] = n
        BY <1>2, <1>3, <1>6, <2>2, <3>2
      <4>2. l.next[n] # q BY <1>7, <2>2, <4>1
      <4> QED BY <1>2, <1>3, <4>1, <4>2
    <3> QED BY <3>1, <3>2
  <2> QED BY <1>11, <2>1, <2>2 DEF Linked, M
<1>13. TwoLists(m)
  <2>1. \A any \in Lists : any = list \/ any = other BY DEF Lists
  <2>2. Chain(m, list) \cap Chain(m, other) = {} BY <1>4, <1>9, <1>11 DEF M
  <2>3. Chain(m, "half") \cap Chain(m, "full") = {} BY <2>1, <2>2 DEF Lists
  <2> QED BY <1>3, <1>9, <1>12, <2>1, <2>3 DEF TwoLists
<1>14. r = l[list] => m[list] = q BY <1>3, <1>5
<1> QED BY <1>3, <1>9, <1>11, <1>13, <1>14 DEF m, L, O, M, q

LEMMA Forgetting ==
    ASSUME NEW l, TwoLists(l), NEW r \in Runs, \A list \in Lists : r \notin Chain(l, list)
    PROVE  LET m == Forgotten(l, r) IN
           /\ TwoLists(m)
           /\ \A list \in Lists : Chain(m, list) = Chain(l, list) /\ m[list] = l[list]
<1> DEFINE m == Forgotten(l, r)
<1>1. l \in Links /\ \A list \in Lists : Linked(l, list) BY DEF TwoLists
<1>2. /\ m \in Links
      /\ \A list \in Lists : m[list] = l[list]
      /\ \A n \in Runs : n # r => m.next[n] = l.next[n] /\ m.prev[n] = l.prev[n]
  BY <1>1, ForgottenIs
<1> HIDE DEF m
<1>3. ASSUME NEW list \in Lists
      PROVE  Chain(m, list) = Chain(l, list) /\ Linked(m, list)
  <2>1. Chain(l, list) \subseteq Runs BY <1>1, ChainIs
  <2>2. \A n \in Chain(l, list) : m.next[n] = l.next[n] /\ m.prev[n] = l.prev[n]
    BY <1>2, <2>1
  <2> QED BY <1>1, <1>2, <2>2, LinkedKept
<1>4. Chain(m, "half") \cap Chain(m, "full") = {} BY <1>3 DEF Lists, TwoLists
<1> QED BY <1>2, <1>3, <1>4 DEF TwoLists, m

-----------------------------------------------------------------------------
(* The slots of a run. *)

LEMMA Multiples ==
    ASSUME NEW z \in Nat \ {0}, NEW a \in Int, NEW b \in Int
    PROVE  /\ a * z \in Int
           /\ (a + 1) * z = a * z + z
           /\ a * z < b * z => a < b
           /\ a < b => a * z + z <= b * z
<1>1. (a + 1) * z = a * z + z OBVIOUS
<1>2. ASSUME NEW c \in Int, NEW d \in Int, c < d
      PROVE  (c + 1) * z <= d * z
  <2> DEFINE e == d - (c + 1)
  <2>1. e \in Nat BY <1>2
  <2>2. e * z >= 0 BY <2>1
  <2>3. d * z = (c + 1) * z + e * z OBVIOUS
  <2> QED BY <2>2, <2>3
<1>3. a * z < b * z => a < b
  <2>1. ASSUME b < a PROVE (b + 1) * z <= a * z BY <1>2, <2>1
  <2>2. (b + 1) * z = b * z + z OBVIOUS
  <2> QED BY <2>1, <2>2
<1> QED BY <1>1, <1>2, <1>3

LEMMA Division ==
    ASSUME NEW z \in Nat \ {0}, NEW n \in Int
    PROVE  n \div z \in Int /\ (n \div z) * z <= n /\ n < (n \div z) * z + z
OBVIOUS

LEMMA Remainder ==
    ASSUME NEW z \in Nat \ {0}, NEW n \in Nat, n % z = 0
    PROVE  n \div z \in Nat /\ n = (n \div z) * z
<1>1. n \div z \in Nat OBVIOUS
<1>2. n % z = n - (n \div z) * z OBVIOUS
<1>3. (n \div z) * z \in Nat BY <1>1
<1> QED BY <1>1, <1>2, <1>3

\* How often z goes into n.
LEMMA HowMany ==
    ASSUME NEW z \in Nat \ {0}, NEW n \in Int, NEW k \in Int
    PROVE  k < n \div z <=> k * z + z <= n
<1> DEFINE d == n \div z
<1>1. d \in Int /\ d * z <= n /\ n < d * z + z BY Division
<1> HIDE DEF d
<1>2. d * z \in Int /\ k * z \in Int BY <1>1
<1>3. k < d => k * z + z <= d * z BY <1>1, Multiples
<1>4. d < k + 1 => d * z + z <= (k + 1) * z BY <1>1, Multiples
<1>5. (k + 1) * z = k * z + z BY Multiples
<1>6. k < d => k * z + z <= n BY <1>1, <1>2, <1>3
<1>7. ~(k < d) => d < k + 1 BY <1>1
<1>8. ~(k < d) => ~(k * z + z <= n) BY <1>1, <1>2, <1>4, <1>5, <1>7
<1> QED BY <1>6, <1>8 DEF d

Sizes == kind \in {"nvm", "dram"} /\ m_objSize \in ObjSizes

LEMMA Numbers ==
    ASSUME Sizes
    PROVE  /\ m_objSize \in Nat \ {0} /\ RunSize \in Nat \ {0} /\ RunSize <= 65536
           /\ Header \in Nat \ {0} /\ WordBits \in Nat \ {0} /\ Base \in Nat
           /\ MaxFree \in Nat /\ MaxFree >= 2 /\ MaxFree <= 65536
           /\ MaxFree = (RunSize - Base) \div m_objSize
<1>1. /\ m_objSize \in Nat \ {0} /\ RunSize \in Nat \ {0} /\ RunSize <= 65536
      /\ Header \in Nat \ {0} /\ WordBits \in Nat \ {0} /\ Base \in Nat /\ Base <= Header
      /\ (RunSize - Header) \div m_objSize >= 2
  BY SlabAssumption DEF Sizes, Base
<1>2. MaxFree = (RunSize - Base) \div m_objSize BY <1>1 DEF MaxFree, Base, Sizes
<1>3. MaxFree \in Int BY <1>1, <1>2, Division
<1> HIDE DEF MaxFree
<1>4. MaxFree >= 2
  <2>1. 1 * m_objSize + m_objSize <= RunSize - Header BY <1>1, HowMany
  <2>2. 1 * m_objSize + m_objSize <= RunSize - Base BY <1>1, <2>1
  <2>3. 1 < MaxFree BY <1>1, <1>2, <2>2, HowMany
  <2> QED BY <1>3, <2>3
<1>5. MaxFree <= 65536
  <2>1. MaxFree * m_objSize <= RunSize - Base BY <1>1, <1>2, Division
  <2>2. MaxFree <= MaxFree * m_objSize
    <3>1. MaxFree * (m_objSize - 1) >= 0 BY <1>1, <1>3, <1>4
    <3>2. MaxFree * m_objSize = MaxFree * (m_objSize - 1) + MaxFree BY <1>1, <1>3
    <3>3. MaxFree * (m_objSize - 1) \in Int BY <1>1, <1>3
    <3> QED BY <1>3, <3>1, <3>2, <3>3
  <2>3. MaxFree * m_objSize \in Int BY <1>1, <1>3
  <2> QED BY <1>1, <1>3, <2>1, <2>2, <2>3
<1> QED BY <1>1, <1>2, <1>3, <1>4, <1>5

\* Slots are a whole number of objects apart.
LEMMA SlotsAre ==
    ASSUME Sizes
    PROVE  /\ \A b \in Slots : /\ b \in Nat /\ Base <= b /\ b < RunSize
                               /\ \E k \in Nat : b = Base + k * m_objSize
           /\ \A k \in Nat : Base + k * m_objSize + m_objSize <= RunSize =>
                 Base + k * m_objSize \in Slots
           /\ \A b, c \in Slots : b < c => b + m_objSize <= c
           /\ kind = "dram" => \A b \in Slots : b + m_objSize <= RunSize
<1> DEFINE z == m_objSize
<1>1. /\ z \in Nat \ {0} /\ RunSize \in Nat \ {0} /\ Base \in Nat /\ Header \in Nat
      /\ MaxFree \in Nat /\ MaxFree = (RunSize - Base) \div z
  BY Numbers
<1>2. /\ kind = "nvm" => Base = 0 /\ Slots = {b \in 0 .. RunSize - 1 : b % z = 0}
      /\ kind = "dram" => Base = Header /\ Slots = {Header + k * z : k \in 0 .. MaxFree - 1}
  BY DEF Base, Slots, BitmapSlots
<1>3. kind = "nvm" \/ kind = "dram" BY DEF Sizes
<1> HIDE DEF z
<1>4. \A k \in Nat : k * z \in Nat BY <1>1
<1>5. \A k \in Nat : k < MaxFree <=> k * z + z <= RunSize - Base BY <1>1, HowMany
<1>6. ASSUME NEW b \in Slots
      PROVE  /\ b \in Nat /\ Base <= b /\ b < RunSize
             /\ \E k \in Nat : b = Base + k * z
             /\ kind = "dram" => b + z <= RunSize
  <2>1. CASE kind = "nvm"
    <3>1. b \in Nat /\ b < RunSize /\ b % z = 0 BY <1>1, <1>2, <2>1
    <3>2. b \div z \in Nat /\ b = (b \div z) * z BY <1>1, <3>1, Remainder
    <3> QED BY <1>2, <2>1, <3>1, <3>2
  <2>2. CASE kind = "dram"
    <3>1. PICK k \in 0 .. MaxFree - 1 : b = Header + k * z BY <1>2, <2>2
    <3>2. k \in Nat /\ k < MaxFree BY <1>1
    <3>3. k * z \in Nat /\ k * z + z <= RunSize - Base BY <1>4, <1>5, <3>2
    <3> QED BY <1>1, <1>2, <2>2, <3>1, <3>2, <3>3
  <2> QED BY <1>3, <2>1, <2>2
<1>7. ASSUME NEW k \in Nat, Base + k * z + z <= RunSize
      PROVE  Base + k * z \in Slots
  <2>1. k * z \in Nat BY <1>4
  <2>2. CASE kind = "nvm"
    <3>1. (k * z) % z = 0 BY <1>1
    <3>2. k * z \in 0 .. RunSize - 1 BY <1>1, <1>2, <1>7, <2>1, <2>2
    <3> QED BY <1>2, <2>1, <2>2, <3>1, <3>2
  <2>3. CASE kind = "dram"
    <3>1. k < MaxFree BY <1>1, <1>5, <1>7, <2>1
    <3>2. k \in 0 .. MaxFree - 1 BY <1>1, <3>1
    <3>3. Header + k * z \in {Header + l * z : l \in 0 .. MaxFree - 1} BY <3>2
    <3> QED BY <1>2, <2>3, <3>3
  <2> QED BY <1>3, <2>2, <2>3
<1>8. ASSUME NEW b \in Slots, NEW c \in Slots, b < c
      PROVE  b + z <= c
  <2>1. PICK k \in Nat : b = Base + k * z BY <1>6
  <2>2. PICK l \in Nat : c = Base + l * z BY <1>6
  <2>3. k * z \in Nat /\ l * z \in Nat BY <1>4
  <2>4. k * z < l * z BY <1>1, <1>8, <2>1, <2>2, <2>3
  <2>5. k * z + z <= l * z BY <1>1, <2>4, Multiples
  <2> QED BY <1>1, <2>1, <2>2, <2>3, <2>5
<1> QED BY <1>6, <1>7, <1>8 DEF z

\* The objects in use of a run can be counted, and there are not too many.
LEMMA Countable ==
    ASSUME Sizes, NEW r, NEW X,
           \A o \in X : o \in Objects /\ o.run = r /\ o.bit + m_objSize <= RunSize
    PROVE  IsFiniteSet(X) /\ Cardinality(X) \in Nat /\ Cardinality(X) <= MaxFree
<1> DEFINE z == m_objSize
           f == [o \in X |-> (o.bit - Base) \div z]
<1>1. /\ z \in Nat \ {0} /\ RunSize \in Nat /\ Base \in Nat
      /\ MaxFree \in Nat /\ MaxFree = (RunSize - Base) \div z
  BY Numbers
<1>2. ASSUME NEW o \in X
      PROVE  /\ f[o] \in 0 .. MaxFree - 1 /\ o.bit = Base + f[o] * z
             /\ o = [run |-> r, bit |-> o.bit]
  <2>1. o \in Objects /\ o.run = r /\ o.bit + z <= RunSize OBVIOUS
  <2>2. o.bit \in Slots /\ o = [run |-> r, bit |-> o.bit] BY <2>1 DEF Objects
  <2>3. PICK k \in Nat : o.bit = Base + k * z BY <2>2, SlotsAre
  <2> HIDE DEF z
  <2>4. k * z \in Nat BY <1>1
  <2>5. o.bit - Base = k * z BY <1>1, <2>3, <2>4
  <2>6. (k * z) \div z = k BY <1>1
  <2>7. f[o] = k BY <2>5, <2>6
  <2>8. k < MaxFree BY <1>1, <2>1, <2>3, <2>4, HowMany
  <2> HIDE DEF f
  <2> QED BY <1>1, <2>2, <2>3, <2>7, <2>8
<1> HIDE DEF f, z
<1>3. f \in [X -> 0 .. MaxFree - 1]
  <2>1. f = [o \in X |-> f[o]] BY DEF f
  <2> QED BY <1>2, <2>1
<1>4. \A o, p \in X : f[o] = f[p] => o = p BY <1>2
<1>5. f \in Injection(X, 0 .. MaxFree - 1) BY <1>3, <1>4 DEF Injection, IsInjective
<1>6. IsFiniteSet(0 .. MaxFree - 1) /\ Cardinality(0 .. MaxFree - 1) = MaxFree
  <2>1. MaxFree - 1 \in Int /\ 0 \in Int BY <1>1
  <2> DEFINE e == MaxFree - 1
  <2>2. IsFiniteSet(0 .. e) /\ Cardinality(0 .. e) = IF 0 > e THEN 0 ELSE e - 0 + 1
    BY <2>1, FS_Interval
  <2>3. (IF 0 > e THEN 0 ELSE e - 0 + 1) = MaxFree BY <1>1
  <2> QED BY <2>2, <2>3
<1>7. IsFiniteSet(X) /\ Cardinality(X) <= MaxFree BY <1>5, <1>6, FS_Injection
<1> QED BY <1>7, FS_CardinalityType

LEMMA Least ==
    ASSUME NEW S, S # {}, \A n \in S : n \in Nat
    PROVE  Min(S) \in S
<1> DEFINE R == StrictSubsetOrdering(Nat)
           upTo(n) == 0 .. n
           T == {upTo(n) : n \in S}
<1>1. IsWellFoundedOn(R, FiniteSubsetsOf(Nat)) BY FS_StrictSubsetOrderingWellFounded
<1>2. T \subseteq FiniteSubsetsOf(Nat)
  <2>1. \A n \in S : upTo(n) \subseteq Nat /\ IsFiniteSet(upTo(n)) BY FS_Interval
  <2> QED BY <2>1 DEF FiniteSubsetsOf
<1>3. PICK x \in T : \A y \in T : ~(<<y, x>> \in R)
  <2> HIDE DEF R, T
  <2>1. T # {} BY DEF T
  <2> QED BY <1>1, <1>2, <2>1, WFMin
<1> PICK k \in S : x = upTo(k) OBVIOUS
<1>4. \A n \in S : k <= n
  <2> SUFFICES ASSUME NEW n \in S, n < k PROVE FALSE OBVIOUS
  <2>1. upTo(n) \subseteq upTo(k) /\ k \in upTo(k) /\ k \notin upTo(n) OBVIOUS
  <2>2. upTo(n) \in SUBSET Nat /\ upTo(k) \in SUBSET Nat OBVIOUS
  <2> HIDE DEF upTo
  <2>3. <<upTo(n), upTo(k)>> \in R BY <2>1, <2>2 DEF StrictSubsetOrdering
  <2> QED BY <1>3, <2>3
<1> QED BY <1>4 DEF Min

LEMMA WordsOfRun ==
    /\ Words \in Nat \ {0}
    /\ \A b \in 0 .. RunSize - 1 : b \div WordBits \in 0 .. Words - 1
<1>1. WordBits \in Nat \ {0} /\ RunSize \in Nat \ {0} /\ RunSize % WordBits = 0
  BY SlabAssumption
<1>2. RunSize \div WordBits \in Nat /\ RunSize = (RunSize \div WordBits) * WordBits
  BY <1>1, Remainder
<1>3. Words \in Nat /\ RunSize = Words * WordBits BY <1>2 DEF Words
<1>4. Words # 0 BY <1>1, <1>3
<1>5. ASSUME NEW b \in 0 .. RunSize - 1
      PROVE  b \div WordBits \in 0 .. Words - 1
  <2> DEFINE w == b \div WordBits
  <2>1. b \in Nat /\ b < RunSize BY <1>1
  <2>2. w \in Nat BY <1>1, <2>1
  <2>3. w * WordBits <= b BY <1>1, <2>1, Division
  <2> HIDE DEF w
  <2>4. w * WordBits \in Nat /\ Words * WordBits \in Nat BY <1>1, <1>3, <2>2
  <2>5. w * WordBits < Words * WordBits BY <1>1, <1>3, <2>1, <2>3, <2>4
  <2>6. w < Words BY <1>1, <1>3, <2>2, <2>5, Multiples
  <2> QED BY <1>3, <2>2, <2>6 DEF w
<1> QED BY <1>3, <1>4, <1>5

\* getAndSet finds a free slot if there is one.
LEMMA SlotFound ==
    ASSUME NEW free, free # {}, \A b \in free : b \in 0 .. RunSize - 1,
           NEW pos \in 0 .. Words - 1
    PROVE  NextSlot(free, pos) \in free
<1> DEFINE inWord(i) == {b \in free : b \div WordBits = (pos + i) % Words}
           I == {i \in 1 .. Words : inWord(i) # {}}
<1>1. Words \in Nat \ {0} BY WordsOfRun
<1>2. I # {}
  <2>1. PICK b \in free : TRUE OBVIOUS
  <2> DEFINE w == b \div WordBits
  <2>2. w \in 0 .. Words - 1 BY WordsOfRun
  <2> DEFINE i == IF w > pos THEN w - pos ELSE w - pos + Words
  <2> HIDE DEF w
  <2>3. i \in 1 .. Words BY <1>1, <2>2
  <2>4. pos + i = w \/ pos + i = w + Words BY <1>1, <2>2
  <2>5. w % Words = w /\ (w + Words) % Words = w BY <1>1, <2>2
  <2>6. (pos + i) % Words = w BY <2>4, <2>5
  <2> HIDE DEF i
  <2>7. b \in inWord(i) BY <2>6 DEF w
  <2> QED BY <2>3, <2>7
<1>3. Min(I) \in I
  <2>1. \A i \in I : i \in Nat BY <1>1
  <2> HIDE DEF I
  <2> QED BY <1>2, <2>1, Least
<1> DEFINE n == Min(I)
<1>4. inWord(n) # {} BY <1>3
<1>5. \A b \in inWord(n) : b \in free /\ b \in Nat
  <2>1. \A b \in free : b \in Nat OBVIOUS
  <2> QED BY <2>1
<1>6. Min(inWord(n)) \in inWord(n)
  <2> HIDE DEF inWord, n
  <2> QED BY <1>4, <1>5, Least
<1>7. NextSlot(free, pos) = Min(inWord(n)) BY DEF NextSlot
<1> QED BY <1>5, <1>6, <1>7

-----------------------------------------------------------------------------
(* Sequences in which nothing occurs twice. *)

LEMMA HeadTaken ==
    ASSUME NEW S, NEW s \in Seq(S), s # <<>>, IsInjective(s)
    PROVE  /\ Tail(s) \in Seq(S) /\ IsInjective(Tail(s))
           /\ Head(s) \in S /\ Head(s) \in ToSet(s)
           /\ ToSet(Tail(s)) = ToSet(s) \ {Head(s)}
<1> DEFINE t == Tail(s)
<1>1. /\ Len(s) \in Nat \ {0} /\ DOMAIN s = 1 .. Len(s) /\ Head(s) = s[1]
      /\ \A i \in 1 .. Len(s) : s[i] \in S
  OBVIOUS
<1>2. /\ t \in Seq(S) /\ DOMAIN t = 1 .. Len(s) - 1
      /\ \A i \in 1 .. Len(s) - 1 : t[i] = s[i + 1]
  BY <1>1
<1> HIDE DEF t
<1>3. \A i, j \in 1 .. Len(s) : s[i] = s[j] => i = j BY <1>1 DEF IsInjective
<1>4. IsInjective(t)
  <2>1. ASSUME NEW i \in 1 .. Len(s) - 1, NEW j \in 1 .. Len(s) - 1, t[i] = t[j]
        PROVE  i = j
    <3>1. i + 1 \in 1 .. Len(s) /\ j + 1 \in 1 .. Len(s) BY <1>1
    <3>2. i + 1 = j + 1 BY <1>2, <1>3, <2>1, <3>1
    <3> QED BY <1>1, <3>2
  <2> QED BY <1>2, <2>1 DEF IsInjective
<1>5. ToSet(t) = ToSet(s) \ {Head(s)}
  <2>1. ASSUME NEW i \in 1 .. Len(s) - 1
        PROVE  t[i] \in ToSet(s) /\ t[i] # Head(s)
    <3>1. i + 1 \in 1 .. Len(s) /\ 1 \in 1 .. Len(s) /\ i + 1 # 1 BY <1>1
    <3> QED BY <1>1, <1>2, <1>3, <3>1 DEF ToSet
  <2>2. ASSUME NEW i \in 1 .. Len(s), s[i] # Head(s)
        PROVE  s[i] \in ToSet(t)
    <3>1. i # 1 BY <1>1, <2>2
    <3>2. i - 1 \in 1 .. Len(s) - 1 /\ (i - 1) + 1 = i BY <1>1, <3>1
    <3>3. t[i - 1] = s[i] BY <1>2, <3>2
    <3> QED BY <1>2, <3>2, <3>3 DEF ToSet
  <2> QED BY <1>1, <1>2, <2>1, <2>2 DEF ToSet
<1>6. Head(s) \in S /\ Head(s) \in ToSet(s) BY <1>1 DEF ToSet
<1> QED BY <1>2, <1>4, <1>5, <1>6 DEF t

LEMMA Appended ==
    ASSUME NEW S, NEW s \in Seq(S), NEW x \in S, IsInjective(s), x \notin ToSet(s)
    PROVE  /\ Append(s, x) \in Seq(S) /\ IsInjective(Append(s, x))
           /\ ToSet(Append(s, x)) = ToSet(s) \cup {x}
<1> DEFINE t == Append(s, x)
           n == Len(s)
<1>1. n \in Nat /\ DOMAIN s = 1 .. n OBVIOUS
<1>2. /\ t \in Seq(S) /\ DOMAIN t = 1 .. n + 1 /\ t[n + 1] = x
      /\ \A i \in 1 .. n : t[i] = s[i]
  OBVIOUS
<1> HIDE DEF t, n
<1>3. \A i \in 1 .. n + 1 : i \in 1 .. n \/ i = n + 1 BY <1>1
<1>4. \A i \in 1 .. n : s[i] # x BY <1>1 DEF ToSet
<1>5. \A i, j \in 1 .. n : s[i] = s[j] => i = j BY <1>1 DEF IsInjective
<1>6. \A i, j \in 1 .. n + 1 : t[i] = t[j] => i = j BY <1>2, <1>3, <1>4, <1>5
<1>7. IsInjective(t) BY <1>2, <1>6 DEF IsInjective
<1>8. ToSet(t) = ToSet(s) \cup {x}
  <2>1. 1 .. n \subseteq 1 .. n + 1 /\ n + 1 \in 1 .. n + 1 BY <1>1
  <2> QED BY <1>1, <1>2, <1>3, <2>1 DEF ToSet
<1> QED BY <1>2, <1>7, <1>8 DEF t

LEMMA Prepended ==
    ASSUME NEW S, NEW s \in Seq(S), NEW x \in S, IsInjective(s), x \notin ToSet(s)
    PROVE  /\ <<x>> \o s \in Seq(S) /\ IsInjective(<<x>> \o s)
           /\ ToSet(<<x>> \o s) = ToSet(s) \cup {x}
<1> DEFINE t == <<x>> \o s
           n == Len(s)
<1>1. n \in Nat /\ DOMAIN s = 1 .. n OBVIOUS
<1>2. /\ t \in Seq(S) /\ DOMAIN t = 1 .. n + 1 /\ t[1] = x
      /\ \A i \in 2 .. n + 1 : t[i] = s[i - 1]
  OBVIOUS
<1> HIDE DEF t, n
<1>3. \A i \in 1 .. n + 1 : i = 1 \/ (i \in 2 .. n + 1 /\ i - 1 \in 1 .. n) BY <1>1
<1>4. \A i \in 1 .. n : i + 1 \in 2 .. n + 1 /\ i + 1 \in 1 .. n + 1 /\ (i + 1) - 1 = i BY <1>1
<1>5. \A i \in 1 .. n : s[i] # x BY <1>1 DEF ToSet
<1>6. \A i, j \in 1 .. n : s[i] = s[j] => i = j BY <1>1 DEF IsInjective
<1>7. ASSUME NEW i \in 1 .. n + 1, NEW j \in 1 .. n + 1, t[i] = t[j]
      PROVE  i = j
  <2>1. CASE i = 1 \/ j = 1 BY <1>2, <1>3, <1>5, <1>7, <2>1
  <2>2. CASE i # 1 /\ j # 1
    <3>1. i - 1 = j - 1 BY <1>2, <1>3, <1>6, <1>7, <2>2
    <3> QED BY <1>1, <3>1
  <2> QED BY <2>1, <2>2
<1>8. IsInjective(t) BY <1>2, <1>7 DEF IsInjective
<1>9. ToSet(t) = ToSet(s) \cup {x}
  <2>1. ASSUME NEW i \in 1 .. n + 1
        PROVE  t[i] \in ToSet(s) \cup {x}
    <3>1. CASE i = 1 BY <1>2, <3>1
    <3>2. CASE i # 1
      <4>1. i - 1 \in 1 .. n /\ t[i] = s[i - 1] BY <1>2, <1>3, <3>2
      <4> QED BY <1>1, <4>1 DEF ToSet
    <3> QED BY <3>1, <3>2
  <2>2. ASSUME NEW i \in 1 .. n
        PROVE  s[i] \in ToSet(t)
    <3>1. t[i + 1] = s[i] BY <1>2, <1>4
    <3> QED BY <1>2, <1>4, <3>1 DEF ToSet
  <2>3. x \in ToSet(t)
    <3>1. 1 \in 1 .. n + 1 BY <1>1
    <3> QED BY <1>2, <3>1 DEF ToSet
  <2> QED BY <1>1, <1>2, <2>1, <2>2, <2>3 DEF ToSet
<1> QED BY <1>2, <1>8, <1>9 DEF t

-----------------------------------------------------------------------------
(* A run gives and takes back. *)

LEMMA ObjectsAre ==
    /\ \A o \in Objects : o.run \in Runs /\ o.bit \in Slots /\ o = Object(o.run, o.bit)
    /\ \A r \in Runs, b \in Slots :
          Object(r, b) \in Objects /\ Object(r, b).run = r /\ Object(r, b).bit = b
    /\ \A o, p \in Objects : o.run = p.run /\ o.bit = p.bit => o = p
BY DEF Objects, Object

LEMMA TakenAre ==
    ASSUME TypeOK
    PROVE  Taken \subseteq Objects /\ Cached = ToSet(m_objCache)
<1>1. Cached = ToSet(m_objCache) BY DEF Cached, ToSet
<1>2. \A k \in DOMAIN m_objCache : m_objCache[k] \in Objects BY DEF TypeOK
<1> QED BY <1>1, <1>2 DEF Taken, Cached, TypeOK

\* What a DRAM run has not used yet, and what it has.
LEMMA Frontier ==
    ASSUME Sizes, kind = "dram", NEW r, NEW j \in Nat, m_tail[r] = Header + j * m_objSize
    PROVE  /\ Unused(r) => /\ m_tail[r] \in Slots
                           /\ \A b \in Slots : b >= m_tail[r] + m_objSize <=>
                                 b >= m_tail[r] /\ b # m_tail[r]
           /\ ~Unused(r) => \A b \in Slots : b < m_tail[r]
           /\ m_tail[r] \in Nat
<1>1. /\ m_objSize \in Nat \ {0} /\ RunSize \in Nat /\ Header \in Nat
      /\ Base = Header /\ j * m_objSize \in Nat
  BY Numbers DEF Base
<1>2. \A b \in Slots : b \in Nat /\ b + m_objSize <= RunSize BY SlotsAre
<1>3. ASSUME Unused(r)
      PROVE  m_tail[r] \in Slots
    BY <1>1, <1>3, SlotsAre DEF Unused
<1>4. ASSUME m_tail[r] \in Slots, NEW b \in Slots
      PROVE  b >= m_tail[r] + m_objSize <=> b >= m_tail[r] /\ b # m_tail[r]
  <2>1. m_tail[r] < b => m_tail[r] + m_objSize <= b BY <1>4, SlotsAre
  <2> QED BY <1>1, <1>2, <1>4, <2>1
<1>5. ASSUME ~Unused(r), NEW b \in Slots
      PROVE  b < m_tail[r]
    BY <1>1, <1>2, <1>5 DEF Unused
<1> QED BY <1>1, <1>3, <1>4, <1>5

\* allocObj of a run gives one of its free slots.
LEMMA GivesFree ==
    ASSUME TypeOK, NEW r \in Runs, RunOK(r), HasFree(r)
    PROVE  NextOf(r) \in FreeSlots(r) /\ NextOf(r) \in Slots
<1>1. Sizes /\ r \in Runs BY DEF TypeOK, Sizes
<1>2. FreeSlots(r) \subseteq Slots BY DEF RunOK
<1>3. CASE kind = "nvm"
  <2>1. m_bitmap[r] # {} /\ NextOf(r) = NextSlot(m_bitmap[r], lastAccessPos[r])
    BY <1>3 DEF HasFree, NextOf
  <2>2. lastAccessPos[r] \in 0 .. Words - 1 BY DEF TypeOK
  <2>3. \A b \in m_bitmap[r] : b \in 0 .. RunSize - 1 BY DEF TypeOK, BitmapSlots
  <2>4. NextOf(r) \in m_bitmap[r] BY <2>1, <2>2, <2>3, SlotFound
  <2> QED BY <1>2, <1>3, <2>4 DEF FreeSlots
<1>4. CASE kind = "dram"
  <2>1. PICK j \in Nat : m_tail[r] = Header + j * m_objSize BY <1>4 DEF RunOK
  <2>2. CASE Unused(r)
    <3>1. NextOf(r) = m_tail[r] BY <1>4, <2>2 DEF NextOf
    <3>2. m_tail[r] \in Slots /\ m_tail[r] \in Nat BY <1>1, <1>4, <2>1, <2>2, Frontier
    <3> QED BY <1>4, <3>1, <3>2 DEF FreeSlots
  <2>3. CASE ~Unused(r)
    <3>1. NextOf(r) = Head(m_freeChunks[r]) /\ m_freeChunks[r] # <<>>
      BY <1>4, <2>3 DEF NextOf, HasFree
    <3>2. m_freeChunks[r] \in Seq(Slots) BY DEF TypeOK
    <3>3. NextOf(r) \in ToSet(m_freeChunks[r]) BY <3>1, <3>2, HeadTaken DEF RunOK
    <3> QED BY <1>2, <1>4, <3>3 DEF FreeSlots
  <2> QED BY <2>2, <2>3
<1> QED BY <1>1, <1>3, <1>4 DEF Sizes

Fits(o) == o.bit + m_objSize <= RunSize

\* One more object of run r is in use, and the run can still count it.
LEMMA OneMore ==
    ASSUME TypeOK, NEW r \in Runs, RunOK(r), \A p \in Taken : Fits(p),
           NEW o \in Objects, o.run = r, o \notin Taken, Fits(o)
    PROVE  /\ m_freeCount[r] \in Nat /\ m_freeCount[r] >= 1 /\ m_freeCount[r] <= MaxFree
           /\ m_freeCount[r] - 1 = MaxFree - Cardinality(InUse(r) \cup {o})
           /\ (m_freeCount[r] - 1) % 65536 = m_freeCount[r] - 1
           /\ m_freeCount[r] - 1 \in 0 .. MaxFree
<1>1. Sizes /\ Taken \subseteq Objects BY TakenAre DEF TypeOK, Sizes
<1>2. MaxFree \in Nat /\ MaxFree <= 65536 BY <1>1, Numbers
<1> DEFINE X == InUse(r)
           Y == X \cup {o}
<1>3. \A p \in Y : p \in Objects /\ p.run = r /\ p.bit + m_objSize <= RunSize
  BY <1>1 DEF InUse, Taken, Fits
<1>4. o \notin X BY DEF InUse, Taken
<1> HIDE DEF X
<1>5. IsFiniteSet(X) /\ Cardinality(X) \in Nat BY <1>1, <1>3, Countable
<1>6. Cardinality(Y) = Cardinality(X) + 1 BY <1>4, <1>5, FS_AddElement
<1>7. Cardinality(Y) \in Nat /\ Cardinality(Y) <= MaxFree BY <1>1, <1>3, Countable
<1>8. m_freeCount[r] = MaxFree - Cardinality(X) BY DEF RunOK, X
<1> HIDE DEF Y
<1>9. /\ m_freeCount[r] \in Nat /\ m_freeCount[r] >= 1 /\ m_freeCount[r] <= MaxFree
      /\ m_freeCount[r] - 1 = MaxFree - Cardinality(Y)
  BY <1>2, <1>5, <1>6, <1>7, <1>8
<1>10. m_freeCount[r] - 1 \in Nat /\ m_freeCount[r] - 1 < 65536 BY <1>2, <1>9
<1>11. \A n \in Nat : n < 65536 => n % 65536 = n OBVIOUS
<1>12. m_freeCount[r] - 1 \in 0 .. MaxFree BY <1>2, <1>9
<1>13. (m_freeCount[r] - 1) % 65536 = m_freeCount[r] - 1 BY <1>10, <1>11
<1> QED BY <1>9, <1>12, <1>13 DEF X, Y

\* The states from which a step goes on.
Sound == TypeOK /\ Unspoilt /\ Good

LEMMA SoundIs ==
    ASSUME Sound
    PROVE  /\ Sizes /\ Taken \subseteq Objects /\ \A p \in Taken : Fits(p)
           /\ m_freeCount \in [Runs -> 0 .. MaxFree]
           /\ \A r \in Runs \ leaked : RunOK(r)
<1>1. TypeOK /\ Unspoilt /\ RunsOK /\ TakenOK BY DEF Sound, Good
<1>2. Sizes /\ m_freeCount \in [Runs -> 0 .. MaxFree] BY <1>1 DEF TypeOK, Sizes
<1>3. Taken \subseteq Objects BY <1>1, TakenAre
<1> QED BY <1>1, <1>2, <1>3 DEF RunsOK, TakenOK, Fits

LEMMA SlabKept ==
    ASSUME UNCHANGED slab
    PROVE  /\ kind' = kind /\ m_objSize' = m_objSize
           /\ Slots' = Slots /\ BitmapSlots' = BitmapSlots /\ MaxFree' = MaxFree
           /\ Objects' = Objects
<1>1. kind' = kind /\ m_objSize' = m_objSize BY DEF slab
<1> QED BY <1>1 DEF Slots, BitmapSlots, MaxFree, Objects

\* Nothing of run n changes.
LEMMA RunUntouched ==
    ASSUME NEW n, RunOK(n), UNCHANGED slab, InUse(n)' = InUse(n),
           m_bitmap'[n] = m_bitmap[n], m_freeCount'[n] = m_freeCount[n],
           m_tail'[n] = m_tail[n], m_freeChunks'[n] = m_freeChunks[n]
    PROVE  RunOK(n)'
<1>1. /\ kind' = kind /\ m_objSize' = m_objSize /\ Slots' = Slots /\ MaxFree' = MaxFree
  BY SlabKept
<1>2. FreeSlots(n)' = FreeSlots(n) BY <1>1 DEF FreeSlots
<1> QED BY <1>1, <1>2 DEF RunOK

\* A slot of a run with a bitmap is taken, by an allocation or by recovery.
LEMMA SlotTaken ==
    ASSUME Sound, kind = "nvm", NEW r \in Runs \ leaked,
           NEW o \in Objects, o.run = r, o \notin Taken, Fits(o),
           TakeSlot(r, o.bit), UNCHANGED <<slab, m_freeChunks>>,
           InUse(r)' = InUse(r) \cup {o}
    PROVE  RunOK(r)' /\ m_freeCount'[r] \in 0 .. MaxFree /\ m_freeCount[r] >= 1
<1>1. TypeOK /\ m_freeCount \in [Runs -> 0 .. MaxFree] /\ RunOK(r) /\ \A p \in Taken : Fits(p)
  BY SoundIs DEF Sound
<1>2. /\ kind' = kind /\ m_objSize' = m_objSize /\ m_freeChunks' = m_freeChunks
      /\ Slots' = Slots /\ MaxFree' = MaxFree
  BY SlabKept
<1>3. /\ m_freeCount[r] - 1 = MaxFree - Cardinality(InUse(r) \cup {o})
      /\ (m_freeCount[r] - 1) % 65536 = m_freeCount[r] - 1
      /\ m_freeCount[r] - 1 \in 0 .. MaxFree /\ m_freeCount[r] >= 1
  BY <1>1, OneMore
<1>4. m_freeCount'[r] = m_freeCount[r] - 1
  <2>1. m_freeCount' = [m_freeCount EXCEPT ![r] = (@ - 1) % 65536] BY DEF TakeSlot
  <2> QED BY <1>1, <1>3, <2>1
<1>5. m_bitmap'[r] = m_bitmap[r] \ {o.bit}
  <2>1. m_bitmap' = [m_bitmap EXCEPT ![r] = @ \ {o.bit}] BY DEF TakeSlot
  <2>2. r \in DOMAIN m_bitmap BY <1>1 DEF TypeOK
  <2> QED BY <2>1, <2>2
<1>6. FreeSlots(r)' = FreeSlots(r) \ {o.bit} BY <1>2, <1>5 DEF FreeSlots
<1>7. FreeSlots(r)' = Slots' \ {p.bit : p \in InUse(r)'} BY <1>1, <1>2, <1>6 DEF RunOK
<1>8. m_freeCount'[r] = MaxFree' - Cardinality(InUse(r)') BY <1>2, <1>3, <1>4
<1>9. IsInjective(m_freeChunks[r])' BY <1>1, <1>2 DEF RunOK
<1>10. kind' # "dram" BY <1>2
<1> QED BY <1>3, <1>4, <1>7, <1>8, <1>9, <1>10 DEF RunOK

\* A DRAM run gives a chunk it has not used, or the one given back last.
LEMMA ChunkTaken ==
    ASSUME Sound, kind = "dram", NEW r \in Runs \ leaked, HasFree(r),
           NEW o \in Objects, o.run = r, o.bit = NextOf(r), o \notin Taken, Fits(o),
           TakeChunk(r), UNCHANGED slab,
           InUse(r)' = InUse(r) \cup {o}
    PROVE  /\ RunOK(r)' /\ m_freeCount'[r] \in 0 .. MaxFree
           /\ m_tail'[r] \in Header .. RunSize
           /\ m_freeChunks'[r] \in Seq(Slots)
<1>1. /\ TypeOK /\ m_freeCount \in [Runs -> 0 .. MaxFree] /\ RunOK(r) /\ Sizes
      /\ \A p \in Taken : Fits(p)
  BY SoundIs DEF Sound
<1>2. /\ kind' = kind /\ m_objSize' = m_objSize /\ Slots' = Slots /\ MaxFree' = MaxFree
  BY SlabKept
<1>3. /\ m_freeCount[r] - 1 = MaxFree - Cardinality(InUse(r) \cup {o})
      /\ m_freeCount[r] - 1 \in 0 .. MaxFree
  BY <1>1, OneMore
<1>4. m_freeCount'[r] = m_freeCount[r] - 1
  <2>1. m_freeCount' = [m_freeCount EXCEPT ![r] = @ - 1] BY DEF TakeChunk
  <2> QED BY <1>1, <2>1
<1>5. /\ m_tail \in [Runs -> Header .. RunSize] /\ m_freeChunks \in [Runs -> Seq(Slots)]
  BY <1>1 DEF TypeOK
<1>6. PICK j \in Nat : m_tail[r] = Header + j * m_objSize BY <1>1 DEF RunOK
<1>7. /\ m_objSize \in Nat \ {0} /\ Header \in Nat /\ RunSize \in Nat /\ j * m_objSize \in Nat
  BY <1>1, Numbers
<1>8. /\ IsInjective(m_freeChunks[r]) /\ \A b \in ToSet(m_freeChunks[r]) : b < m_tail[r]
      /\ ToSet(m_freeChunks[r]) \subseteq Slots
      /\ FreeSlots(r) = {b \in Slots : b >= m_tail[r]} \cup ToSet(m_freeChunks[r])
      /\ FreeSlots(r) = Slots \ {p.bit : p \in InUse(r)}
  BY <1>1 DEF RunOK, FreeSlots
<1>9. \A b \in Slots : b \in Nat BY <1>1, SlotsAre
<1>10. CASE Unused(r)
  <2>1. o.bit = m_tail[r] /\ m_tail[r] \in Slots /\ m_tail[r] + m_objSize <= RunSize
    BY <1>1, <1>6, <1>10, Frontier DEF NextOf, Unused
  <2>2. m_tail'[r] = m_tail[r] + m_objSize /\ m_freeChunks'[r] = m_freeChunks[r]
    BY <1>5, <1>10 DEF TakeChunk
  <2>3. \A b \in Slots : b >= m_tail[r] + m_objSize <=> b >= m_tail[r] /\ b # m_tail[r]
    BY <1>1, <1>6, <1>10, Frontier
  <2>4. FreeSlots(r)' = {b \in Slots : b >= m_tail'[r]} \cup ToSet(m_freeChunks'[r])
    BY <1>2 DEF FreeSlots
  <2>5. o.bit \notin ToSet(m_freeChunks[r]) BY <1>8, <1>9, <2>1
  <2>6. FreeSlots(r)' = FreeSlots(r) \ {o.bit} BY <1>8, <2>1, <2>2, <2>3, <2>4, <2>5
  <2>7. m_tail'[r] = Header + (j + 1) * m_objSize /\ j + 1 \in Nat
    BY <1>6, <1>7, <2>2, Multiples
  <2>8. \A b \in ToSet(m_freeChunks'[r]) : b < m_tail'[r]
    BY <1>7, <1>8, <1>9, <2>1, <2>2
  <2>9. m_tail'[r] \in Header .. RunSize BY <1>5, <1>7, <2>1, <2>2
  <2>10. FreeSlots(r)' = Slots' \ {p.bit : p \in InUse(r)'} BY <1>2, <1>8, <2>6
  <2>11. m_freeCount'[r] = MaxFree' - Cardinality(InUse(r)') BY <1>2, <1>3, <1>4
  <2>12. \E k \in Nat : m_tail'[r] = Header + k * m_objSize' BY <1>2, <2>7
  <2>13. IsInjective(m_freeChunks'[r]) BY <1>8, <2>2
  <2>14. RunOK(r)' BY <2>8, <2>10, <2>11, <2>12, <2>13 DEF RunOK
  <2> QED BY <1>3, <1>4, <1>5, <2>2, <2>9, <2>14
<1>11. CASE ~Unused(r)
  <2>1. o.bit = Head(m_freeChunks[r]) /\ m_freeChunks[r] # <<>>
    BY <1>11 DEF NextOf, HasFree
  <2>2. m_tail'[r] = m_tail[r] /\ m_freeChunks'[r] = Tail(m_freeChunks[r])
    BY <1>5, <1>11 DEF TakeChunk
  <2>3. /\ m_freeChunks'[r] \in Seq(Slots) /\ IsInjective(m_freeChunks'[r])
        /\ ToSet(m_freeChunks'[r]) = ToSet(m_freeChunks[r]) \ {o.bit}
        /\ o.bit \in ToSet(m_freeChunks[r])
    <3>1. m_freeChunks[r] \in Seq(Slots) BY <1>5
    <3> QED BY <1>8, <2>1, <2>2, <3>1, HeadTaken
  <2>4. FreeSlots(r)' = {b \in Slots : b >= m_tail[r]} \cup ToSet(m_freeChunks'[r])
    BY <1>2, <2>2 DEF FreeSlots
  <2>5. ~(o.bit >= m_tail[r]) BY <1>5, <1>7, <1>8, <1>9, <2>3
  <2>6. FreeSlots(r)' = FreeSlots(r) \ {o.bit} BY <1>8, <2>3, <2>4, <2>5
  <2>7. FreeSlots(r)' = Slots' \ {p.bit : p \in InUse(r)'} BY <1>2, <1>8, <2>6
  <2>8. m_freeCount'[r] = MaxFree' - Cardinality(InUse(r)') BY <1>2, <1>3, <1>4
  <2>9. \E k \in Nat : m_tail'[r] = Header + k * m_objSize' BY <1>2, <1>6, <2>2
  <2>10. \A b \in ToSet(m_freeChunks'[r]) : b < m_tail'[r] BY <1>8, <2>2, <2>3
  <2>11. RunOK(r)' BY <2>3, <2>7, <2>8, <2>9, <2>10 DEF RunOK
  <2> QED BY <1>3, <1>4, <1>5, <2>2, <2>3, <2>11
<1> QED BY <1>10, <1>11

\* One object more, or one less, in the program's hands.
LEMMA OneInUse ==
    ASSUME NEW o, objects' = objects \cup {o}, m_objCache' = m_objCache
    PROVE  /\ Taken' = Taken \cup {o} /\ Cached' = Cached
           /\ InUse(o.run)' = InUse(o.run) \cup {o}
           /\ \A n : n # o.run => InUse(n)' = InUse(n)
<1>1. Cached' = Cached BY DEF Cached
<1> QED BY <1>1 DEF Taken, InUse

LEMMA OneNotInUse ==
    ASSUME NEW o, o \notin Cached, objects' = objects \ {o}, m_objCache' = m_objCache
    PROVE  /\ Taken' = Taken \ {o} /\ Cached' = Cached
           /\ InUse(o.run)' = InUse(o.run) \ {o}
           /\ \A n : n # o.run => InUse(n)' = InUse(n)
<1>1. Cached' = Cached BY DEF Cached
<1> QED BY <1>1 DEF Taken, InUse

LEMMA SameInUse ==
    ASSUME Taken' = Taken
    PROVE  \A n : InUse(n)' = InUse(n)
BY DEF InUse, Taken

\* An object goes back to a run that goes on.
LEMMA SlotBack ==
    ASSUME Sound, NEW o \in objects, o.run \in Runs \ leaked,
           GiveSlot(o), UNCHANGED slab, InUse(o.run)' = InUse(o.run) \ {o}
    PROVE  /\ RunOK(o.run)'
           /\ m_freeCount' = [m_freeCount EXCEPT ![o.run] = @ + 1]
           /\ m_freeCount'[o.run] \in 0 .. MaxFree
           /\ m_bitmap' \in [Runs -> SUBSET BitmapSlots]
           /\ m_freeChunks' \in [Runs -> Seq(Slots)]
           /\ \A n \in Runs : n # o.run => /\ m_bitmap'[n] = m_bitmap[n]
                                           /\ m_freeChunks'[n] = m_freeChunks[n]
<1> DEFINE r == o.run
           X == InUse(r)
<1>1. /\ TypeOK /\ m_freeCount \in [Runs -> 0 .. MaxFree] /\ RunOK(r) /\ Sizes
      /\ Taken \subseteq Objects /\ \A p \in Taken : Fits(p)
      /\ r \in Runs
  BY SoundIs DEF Sound
<1>2. /\ kind' = kind /\ m_objSize' = m_objSize /\ Slots' = Slots /\ MaxFree' = MaxFree
  BY SlabKept
<1>3. /\ o \in X /\ o \in Objects /\ o.bit \in Slots
      /\ \A p \in X : p \in Objects /\ p.run = r /\ p.bit + m_objSize <= RunSize
  BY <1>1, ObjectsAre DEF InUse, Taken, Fits
<1>4. \A p \in X : p.bit = o.bit => p = o BY <1>3, ObjectsAre
<1>5. IsFiniteSet(X) /\ Cardinality(X) \in Nat /\ Cardinality(X) <= MaxFree BY <1>1, <1>3, Countable
<1>6. /\ Cardinality(X \ {o}) = Cardinality(X) - 1
      /\ Cardinality(X \ {o}) \in Nat
  BY <1>3, <1>5, FS_RemoveElement, FS_CardinalityType
<1>7. m_freeCount[r] = MaxFree - Cardinality(X) BY <1>1 DEF RunOK
<1>8. MaxFree \in Nat BY <1>1, Numbers
<1>9. /\ m_freeCount' = [m_freeCount EXCEPT ![r] = @ + 1] /\ m_tail' = m_tail BY DEF GiveSlot
<1>10. m_freeCount'[r] = m_freeCount[r] + 1 BY <1>1, <1>9
<1>11. m_freeCount'[r] = MaxFree' - Cardinality(InUse(r)') /\ m_freeCount'[r] \in 0 .. MaxFree
  <2>1. m_freeCount'[r] = MaxFree - Cardinality(X \ {o})
    <3> HIDE DEF X
    <3> QED BY <1>5, <1>6, <1>7, <1>8, <1>10
  <2>2. m_freeCount'[r] \in 0 .. MaxFree
    <3> HIDE DEF X
    <3> QED BY <1>5, <1>6, <1>8, <2>1
  <2> QED BY <1>2, <2>1, <2>2
<1>12. /\ m_bitmap \in [Runs -> SUBSET BitmapSlots] /\ m_freeChunks \in [Runs -> Seq(Slots)]
       /\ m_tail \in [Runs -> Header .. RunSize]
  BY <1>1 DEF TypeOK
<1>13. /\ IsInjective(m_freeChunks[r])
       /\ FreeSlots(r) = Slots \ {p.bit : p \in X}
  BY <1>1 DEF RunOK
<1>14. {p.bit : p \in InUse(r)'} = {p.bit : p \in X} \ {o.bit} BY <1>4
<1>15. Slots' \ {p.bit : p \in InUse(r)'} = FreeSlots(r) \cup {o.bit} BY <1>2, <1>3, <1>13, <1>14
<1>16. CASE kind = "nvm"
  <2>1. /\ m_bitmap' = [m_bitmap EXCEPT ![r] = @ \cup {o.bit}] /\ m_freeChunks' = m_freeChunks
    BY <1>16 DEF GiveSlot
  <2>2. Slots = BitmapSlots BY <1>16 DEF Slots
  <2>3. m_bitmap' \in [Runs -> SUBSET BitmapSlots] BY <1>3, <1>12, <2>1, <2>2
  <2>4. m_bitmap'[r] = m_bitmap[r] \cup {o.bit} BY <1>12, <1>1, <2>1
  <2>5. FreeSlots(r)' = FreeSlots(r) \cup {o.bit} BY <1>2, <1>16, <2>4 DEF FreeSlots
  <2>6. kind' # "dram" BY <1>2, <1>16
  <2>7. FreeSlots(r)' = Slots' \ {p.bit : p \in InUse(r)'} BY <1>15, <2>5
  <2>8. IsInjective(m_freeChunks'[r]) BY <1>13, <2>1
  <2>9. RunOK(r)' BY <1>11, <2>6, <2>7, <2>8 DEF RunOK
  <2> QED BY <1>9, <1>11, <1>12, <2>1, <2>3, <2>9
<1>17. CASE kind = "dram"
  <2>1. /\ m_freeChunks' = [m_freeChunks EXCEPT ![r] = <<o.bit>> \o @] /\ m_bitmap' = m_bitmap
    BY <1>17 DEF GiveSlot
  <2>2. PICK j \in Nat : m_tail[r] = Header + j * m_objSize BY <1>1, <1>17 DEF RunOK
  <2>3. /\ FreeSlots(r) = {b \in Slots : b >= m_tail[r]} \cup ToSet(m_freeChunks[r])
        /\ \A b \in ToSet(m_freeChunks[r]) : b < m_tail[r]
    BY <1>1, <1>17 DEF FreeSlots, RunOK
  <2>4. o.bit \notin FreeSlots(r) BY <1>3, <1>13
  <2>5. o.bit < m_tail[r] /\ o.bit \notin ToSet(m_freeChunks[r])
    <3>1. o.bit \in Nat BY <1>1, <1>3, SlotsAre
    <3>2. m_tail[r] \in Nat BY <1>1, <1>17, <2>2, Frontier
    <3> QED BY <1>3, <2>3, <2>4, <3>1, <3>2
  <2>6. m_freeChunks[r] \in Seq(Slots) BY <1>1, <1>12
  <2> DEFINE c == <<o.bit>> \o m_freeChunks[r]
  <2>7. c \in Seq(Slots) /\ IsInjective(c) /\ ToSet(c) = ToSet(m_freeChunks[r]) \cup {o.bit}
    BY <1>3, <1>13, <2>5, <2>6, Prepended
  <2> HIDE DEF c
  <2>8. m_freeChunks'[r] = c BY <1>1, <1>12, <2>1 DEF c
  <2>9. m_freeChunks' \in [Runs -> Seq(Slots)] BY <1>12, <2>1, <2>7 DEF c
  <2>10. FreeSlots(r)' = {b \in Slots : b >= m_tail[r]} \cup ToSet(c)
    BY <1>2, <1>9, <1>17, <2>8 DEF FreeSlots
  <2>11. FreeSlots(r)' = FreeSlots(r) \cup {o.bit} BY <2>3, <2>7, <2>10
  <2>12. FreeSlots(r)' = Slots' \ {p.bit : p \in InUse(r)'} BY <1>15, <2>11
  <2>13. \A b \in ToSet(m_freeChunks'[r]) : b < m_tail'[r] BY <1>9, <2>3, <2>5, <2>7, <2>8
  <2>14. \E k \in Nat : m_tail'[r] = Header + k * m_objSize' BY <1>2, <1>9, <2>2
  <2>15. IsInjective(m_freeChunks'[r]) BY <2>7, <2>8
  <2>16. RunOK(r)' BY <1>11, <2>12, <2>13, <2>14, <2>15 DEF RunOK
  <2> QED BY <1>9, <1>11, <1>12, <2>1, <2>9, <2>16
<1>18. kind = "nvm" \/ kind = "dram" BY <1>1 DEF Sizes
<1> QED BY <1>16, <1>17, <1>18

RunTypes ==
    /\ m_bitmap \in [Runs -> SUBSET BitmapSlots]
    /\ lastAccessPos \in [Runs -> 0 .. Words - 1]
    /\ m_tail \in [Runs -> Header .. RunSize]
    /\ m_freeChunks \in [Runs -> Seq(Slots)]

\* An allocation from run r.
LEMMA Taking ==
    ASSUME Sound, NEW r \in Runs \ leaked, HasFree(r),
           Take(r, NextOf(r)), HandOut(Object(r, NextOf(r))), UNCHANGED <<slab, m_objCache>>
    PROVE  /\ objects' \subseteq Objects' /\ Taken' \subseteq Objects' /\ Cached' = Cached
           /\ InUse(r)' # {} /\ \A n : n # r => InUse(n)' = InUse(n)
           /\ RunTypes' /\ leaked' = leaked
           /\ spoilt' \subseteq {"beyond", "filled", "twice"}
           /\ spoilt' = {} => /\ RunsOK'
                              /\ m_freeCount' \in [Runs -> 0 .. MaxFree']
                              /\ \A n \in Runs : n # r => m_freeCount'[n] = m_freeCount[n]
                              /\ \A p \in Taken' : Fits(p)'
                              /\ objects' \cap Cached' = {}
<1> DEFINE o == Object(r, NextOf(r))
<1>1. /\ TypeOK /\ m_freeCount \in [Runs -> 0 .. MaxFree] /\ RunOK(r) /\ Sizes
      /\ Taken \subseteq Objects /\ \A p \in Taken : Fits(p)
      /\ \A n \in Runs \ leaked : RunOK(n)
      /\ r \in Runs
  BY SoundIs DEF Sound
<1>2. /\ kind' = kind /\ m_objSize' = m_objSize /\ Slots' = Slots /\ MaxFree' = MaxFree
      /\ BitmapSlots' = BitmapSlots /\ Objects' = Objects
  BY SlabKept
<1>3. NextOf(r) \in FreeSlots(r) /\ NextOf(r) \in Slots BY <1>1, GivesFree
<1>4. o \in Objects /\ o.run = r /\ o.bit = NextOf(r) BY <1>1, <1>3, ObjectsAre
<1>5. o \notin Taken
  <2>1. o.bit \notin {p.bit : p \in InUse(r)} BY <1>1, <1>3, <1>4 DEF RunOK
  <2>2. o \notin InUse(r) BY <2>1
  <2> QED BY <1>4, <2>2 DEF InUse, Taken
<1>6. /\ objects' = objects \cup {o} /\ m_objCache' = m_objCache
      /\ spoilt' = IF o.bit + m_objSize > RunSize THEN {"beyond"} ELSE {}
  BY DEF HandOut
<1> HIDE DEF o
<1>7. /\ Taken' = Taken \cup {o} /\ Cached' = Cached
      /\ InUse(r)' = InUse(r) \cup {o}
      /\ \A n : n # r => InUse(n)' = InUse(n)
  BY <1>4, <1>6, OneInUse
<1>8. /\ RunTypes /\ objects \subseteq Objects /\ objects \cap Cached = {}
  BY <1>1 DEF TypeOK, RunTypes, Sound, Good, TakenOK
<1>9. o.bit \in Nat /\ o.bit < RunSize /\ m_objSize \in Nat /\ RunSize \in Nat
  BY <1>1, <1>3, <1>4, SlotsAre, Numbers
<1>10. spoilt' = {} => Fits(o) BY <1>6, <1>9 DEF Fits
\* What else there is to show, once it is shown for r.
<1>11. ASSUME \A n \in Runs : n # r => /\ m_bitmap'[n] = m_bitmap[n]
                                       /\ m_freeCount'[n] = m_freeCount[n]
                                       /\ m_tail'[n] = m_tail[n]
                                       /\ m_freeChunks'[n] = m_freeChunks[n],
              leaked' = leaked, spoilt' = {} => RunOK(r)'
       PROVE  spoilt' = {} => /\ RunsOK'
                              /\ \A p \in Taken' : Fits(p)'
                              /\ objects' \cap Cached' = {}
  <2> SUFFICES ASSUME spoilt' = {} PROVE  /\ RunsOK'
                                          /\ \A p \in Taken' : Fits(p)'
                                          /\ objects' \cap Cached' = {}
    OBVIOUS
  <2>1. ASSUME NEW n \in Runs \ leaked, n # r PROVE RunOK(n)'
    BY <1>1, <1>7, <1>11, <2>1, RunUntouched
  <2>2. RunsOK' BY <1>11, <2>1 DEF RunsOK
  <2>3. \A p \in Taken' : Fits(p)' BY <1>1, <1>2, <1>7, <1>10 DEF Fits
  <2>4. objects' \cap Cached' = {} BY <1>5, <1>6, <1>7, <1>8 DEF Taken
  <2> QED BY <2>2, <2>3, <2>4
<1>12. CASE kind = "nvm"
  <2>1. /\ TakeSlot(r, o.bit) /\ UNCHANGED dram
        /\ lastAccessPos' = [lastAccessPos EXCEPT ![r] = o.bit \div WordBits]
    BY <1>4, <1>12 DEF Take
  <2>2. m_tail' = m_tail /\ m_freeChunks' = m_freeChunks /\ leaked' = leaked BY <2>1 DEF dram
  <2>3. /\ m_bitmap' = [m_bitmap EXCEPT ![r] = @ \ {o.bit}]
        /\ m_freeCount' = [m_freeCount EXCEPT ![r] = (@ - 1) % 65536]
    BY <2>1 DEF TakeSlot
  <2>4. RunTypes'
    <3>1. m_bitmap' \in [Runs -> SUBSET BitmapSlots] BY <1>8, <2>3 DEF RunTypes
    <3>2. o.bit \div WordBits \in 0 .. Words - 1 BY <1>9, WordsOfRun
    <3>3. lastAccessPos' \in [Runs -> 0 .. Words - 1] BY <1>8, <2>1, <3>2 DEF RunTypes
    <3> QED BY <1>2, <1>8, <2>2, <3>1, <3>3 DEF RunTypes
  <2>5. ASSUME spoilt' = {}
        PROVE  RunOK(r)' /\ m_freeCount'[r] \in 0 .. MaxFree
    BY <1>4, <1>5, <1>7, <1>10, <1>12, <2>1, <2>2, <2>5, SlotTaken
  <2>6. \A n \in Runs : n # r => m_freeCount'[n] = m_freeCount[n] BY <1>1, <2>3
  <2>7. \A n \in Runs : n # r => m_bitmap'[n] = m_bitmap[n] BY <1>8, <2>3 DEF RunTypes
  <2>8. spoilt' = {} => m_freeCount' \in [Runs -> 0 .. MaxFree] BY <1>1, <2>3, <2>5
  <2>9. spoilt' = {} => /\ RunsOK'
                        /\ \A p \in Taken' : Fits(p)'
                        /\ objects' \cap Cached' = {}
    BY <1>11, <2>2, <2>5, <2>6, <2>7
  <2> QED BY <1>1, <1>2, <1>4, <1>6, <1>7, <1>8, <2>2, <2>4, <2>6, <2>8, <2>9
<1>13. CASE kind = "dram"
  <2>1. TakeChunk(r) /\ UNCHANGED <<nvm, leaked>> BY <1>13 DEF Take
  <2>2. m_bitmap' = m_bitmap /\ lastAccessPos' = lastAccessPos /\ leaked' = leaked
    BY <2>1 DEF nvm
  <2>3. o.bit + m_objSize <= RunSize BY <1>1, <1>3, <1>4, <1>13, SlotsAre
  <2>4. spoilt' = {} /\ Fits(o) BY <1>6, <1>9, <2>3 DEF Fits
  <2>5. /\ RunOK(r)' /\ m_freeCount'[r] \in 0 .. MaxFree
        /\ m_tail'[r] \in Header .. RunSize
        /\ m_freeChunks'[r] \in Seq(Slots)
    BY <1>4, <1>5, <1>7, <1>13, <2>1, <2>4, ChunkTaken
  <2>6. /\ m_freeCount' = [m_freeCount EXCEPT ![r] = @ - 1]
        /\ m_tail' = [m_tail EXCEPT ![r] = @ + m_objSize] \/ m_tail' = m_tail
        /\ m_freeChunks' = [m_freeChunks EXCEPT ![r] = Tail(@)] \/ m_freeChunks' = m_freeChunks
    BY <2>1 DEF TakeChunk
  <2>7. /\ m_tail \in [Runs -> Header .. RunSize] /\ m_freeChunks \in [Runs -> Seq(Slots)]
        /\ m_bitmap \in [Runs -> SUBSET BitmapSlots]
        /\ lastAccessPos \in [Runs -> 0 .. Words - 1]
    BY <1>8 DEF RunTypes
  <2>8. m_tail' \in [Runs -> Header .. RunSize]
        /\ \A n \in Runs : n # r => m_tail'[n] = m_tail[n]
    BY <2>5, <2>6, <2>7
  <2>9. m_freeChunks' \in [Runs -> Seq(Slots)]
        /\ \A n \in Runs : n # r => m_freeChunks'[n] = m_freeChunks[n]
    BY <2>5, <2>6, <2>7
  <2>10. m_freeCount' \in [Runs -> 0 .. MaxFree]
         /\ \A n \in Runs : n # r => m_freeCount'[n] = m_freeCount[n]
    BY <1>1, <2>5, <2>6
  <2>11. RunTypes' BY <1>2, <2>2, <2>7, <2>8, <2>9 DEF RunTypes
  <2>12. /\ RunsOK'
         /\ \A p \in Taken' : Fits(p)'
         /\ objects' \cap Cached' = {}
    BY <1>11, <2>2, <2>4, <2>5, <2>8, <2>9, <2>10
  <2> QED BY <1>1, <1>2, <1>4, <1>6, <1>7, <1>8, <2>2, <2>4, <2>10, <2>11, <2>12
<1>14. kind = "nvm" \/ kind = "dram" BY <1>1 DEF Sizes
<1> QED BY <1>12, <1>13, <1>14

-----------------------------------------------------------------------------
(* Steps that leave the runs alone. *)

LEMMA Moved ==
    ASSUME NEW l, TwoLists(l), NEW from \in Lists, NEW to \in Lists, to # from,
           NEW r \in Chain(l, from)
    PROVE  LET m == Push(Erase(l, from, r), to, r) IN
           /\ TwoLists(m)
           /\ Chain(m, from) = Chain(l, from) \ {r}
           /\ Chain(m, to) = Chain(l, to) \cup {r}
           /\ r = l[from] => m[from] = l.next[r]
<1> DEFINE e == Erase(l, from, r)
           m == Push(e, to, r)
<1>1. /\ TwoLists(e) /\ Chain(e, from) = Chain(l, from) \ {r} /\ Chain(e, to) = Chain(l, to)
      /\ r = l[from] => e[from] = l.next[r]
  BY Erased
<1>2. r \in Runs BY ChainIs DEF TwoLists
<1>3. r \notin Chain(l, to) BY OtherList
<1>4. r \notin Chain(e, to) \cup Chain(e, from) BY <1>1, <1>3
<1> HIDE DEF e
<1>5. /\ TwoLists(m) /\ Chain(m, to) = Chain(e, to) \cup {r}
      /\ Chain(m, from) = Chain(e, from) /\ m[from] = e[from]
  BY <1>1, <1>2, <1>4, Pushed
<1> HIDE DEF m
<1> QED BY <1>1, <1>5 DEF e, m

LEMMA Quiet ==
    ASSUME Sound, UNCHANGED <<slab, run, known>>, Taken' = Taken
    PROVE  /\ Sizes' /\ RunTypes' /\ known' \subseteq Runs /\ leaked' \subseteq Runs \ known'
           /\ Objects' = Objects /\ m_freeCount' = m_freeCount
           /\ m_freeCount' \in [Runs -> 0 .. MaxFree']
           /\ RunsOK'
           /\ \A p \in Taken' : Fits(p)'
           /\ \A r \in Runs : InUse(r)' # {} <=> r \in known'
<1>1. /\ TypeOK /\ m_freeCount \in [Runs -> 0 .. MaxFree] /\ Sizes
      /\ \A p \in Taken : Fits(p)
      /\ \A n \in Runs \ leaked : RunOK(n)
      /\ \A r \in Runs : InUse(r) # {} <=> r \in known
  BY SoundIs DEF Sound, Good, TakenOK
<1>2. /\ kind' = kind /\ m_objSize' = m_objSize /\ Slots' = Slots /\ MaxFree' = MaxFree
      /\ BitmapSlots' = BitmapSlots /\ Objects' = Objects
  BY SlabKept
<1>3. /\ m_freeCount' = m_freeCount /\ m_bitmap' = m_bitmap /\ lastAccessPos' = lastAccessPos
      /\ m_tail' = m_tail /\ m_freeChunks' = m_freeChunks /\ leaked' = leaked /\ known' = known
  BY DEF run, nvm, dram
<1>4. \A n : InUse(n)' = InUse(n) BY SameInUse
<1>5. \A n \in Runs \ leaked : RunOK(n)' BY <1>1, <1>3, <1>4, RunUntouched
<1>6. RunsOK' BY <1>3, <1>5 DEF RunsOK
<1>7. RunTypes' BY <1>1, <1>2, <1>3 DEF RunTypes, TypeOK
<1>8. Sizes' BY <1>1, <1>2 DEF Sizes
<1>9. known' \subseteq Runs /\ leaked' \subseteq Runs \ known' BY <1>1, <1>3 DEF TypeOK
<1>10. \A p \in Taken' : Fits(p)' BY <1>1, <1>2 DEF Fits
<1> QED BY <1>1, <1>2, <1>3, <1>4, <1>6, <1>7, <1>8, <1>9, <1>10

\* What has come back are objects.
LEMMA ReturnedTyped ==
    ASSUME TypeOK, UNCHANGED slab,
           returned' \in {returned, {}} \/ \E o \in objects : returned' = returned \cup {o}
    PROVE  returned' \subseteq Objects'
<1>1. Objects' = Objects BY SlabKept
<1> QED BY <1>1 DEF TypeOK

LEMMA AllocFromCacheKeeps ==
    ASSUME Sound, AllocFromCache
    PROVE  IInv'
<1> DEFINE o == Head(m_objCache)
<1>1. /\ TypeOK /\ TakenOK /\ ListsOK /\ SearchOK /\ Unspoilt
  BY DEF Sound, Good
<1>2. /\ m_objCache \in Seq(Objects) /\ m_objCache # <<>> /\ IsInjective(m_objCache)
      /\ Cached = ToSet(m_objCache) /\ objects \cap Cached = {} /\ objects \subseteq Objects
  BY <1>1, TakenAre DEF TypeOK, TakenOK, AllocFromCache
<1>3. /\ objects' = objects \cup {o} /\ m_objCache' = Tail(m_objCache)
      /\ UNCHANGED <<slab, run, known, recovering, pc, cur, lists, returned, spoilt>>
  BY DEF AllocFromCache
<1>4. /\ Tail(m_objCache) \in Seq(Objects) /\ IsInjective(Tail(m_objCache))
      /\ o \in Objects /\ o \in Cached
      /\ ToSet(Tail(m_objCache)) = Cached \ {o}
  BY <1>2, HeadTaken
<1>5. Cached' = ToSet(m_objCache') BY DEF Cached, ToSet
<1> HIDE DEF o
<1>6. Cached' = Cached \ {o} BY <1>3, <1>4, <1>5
<1>7. Taken' = Taken BY <1>3, <1>4, <1>6 DEF Taken
<1>8. /\ Sizes' /\ RunTypes' /\ known' \subseteq Runs /\ leaked' \subseteq Runs \ known'
      /\ Objects' = Objects /\ m_freeCount' = m_freeCount
      /\ m_freeCount' \in [Runs -> 0 .. MaxFree']
      /\ RunsOK'
      /\ \A p \in Taken' : Fits(p)'
      /\ \A r \in Runs : InUse(r)' # {} <=> r \in known'
  BY <1>3, <1>7, Quiet
<1>9. TakenOK' BY <1>2, <1>3, <1>4, <1>6, <1>8 DEF TakenOK, Fits
<1>10. ListsOK' BY <1>1, <1>3, <1>8 DEF ListsOK, ListOf
<1>11. SearchOK' BY <1>1, <1>3 DEF SearchOK, AllocFromCache, Calm
<1>12. Good' BY <1>8, <1>9, <1>10, <1>11 DEF Good
<1>13. /\ recovering' \in BOOLEAN /\ pc' \in {"idle", "slab", "newRun", "clean"}
       /\ cur' \in Runs \cup {NULL}
       /\ lists' \in Links /\ spoilt' \subseteq {"beyond", "filled", "twice"}
  BY <1>1, <1>3 DEF TypeOK, Links
<1>14. /\ m_objCache' \in Seq(Objects') /\ objects' \subseteq Objects'
       /\ returned' \subseteq Objects'
  <2>1. returned' \subseteq Objects' BY <1>1, <1>2, <1>3, ReturnedTyped
  <2> QED BY <1>2, <1>3, <1>4, <1>8, <2>1
<1> QED BY <1>8, <1>12, <1>13, <1>14 DEF IInv, TypeOK, Sizes, RunTypes, Links

LEMMA FreeToCacheKeeps ==
    ASSUME Sound, NEW o, FreeToCache(o)
    PROVE  IInv'
<1>1. /\ TypeOK /\ TakenOK /\ ListsOK /\ SearchOK /\ Unspoilt
  BY DEF Sound, Good
<1>2. /\ m_objCache \in Seq(Objects) /\ IsInjective(m_objCache)
      /\ Cached = ToSet(m_objCache) /\ objects \cap Cached = {} /\ objects \subseteq Objects
      /\ o \in objects /\ o \in Objects /\ kind = "nvm"
  BY <1>1, TakenAre DEF TypeOK, TakenOK, FreeToCache, Cacheable, Frees
<1>3. /\ objects' = objects \ {o} /\ m_objCache' = Append(m_objCache, o)
      /\ UNCHANGED <<slab, run, known, recovering, pc, cur, lists, spoilt>>
      /\ returned' = IF pc = "clean" THEN returned \cup {o} ELSE returned
  BY DEF FreeToCache, Frees
<1>4. /\ Append(m_objCache, o) \in Seq(Objects) /\ IsInjective(Append(m_objCache, o))
      /\ ToSet(Append(m_objCache, o)) = Cached \cup {o}
  <2>1. o \notin ToSet(m_objCache) BY <1>2
  <2> QED BY <1>2, <2>1, Appended
<1>5. Cached' = ToSet(m_objCache') BY DEF Cached, ToSet
<1>6. Cached' = Cached \cup {o} BY <1>3, <1>4, <1>5
<1>7. Taken' = Taken BY <1>2, <1>3, <1>6 DEF Taken
<1>8. /\ Sizes' /\ RunTypes' /\ known' \subseteq Runs /\ leaked' \subseteq Runs \ known'
      /\ Objects' = Objects /\ m_freeCount' = m_freeCount
      /\ m_freeCount' \in [Runs -> 0 .. MaxFree']
      /\ RunsOK'
      /\ \A p \in Taken' : Fits(p)'
      /\ \A r \in Runs : InUse(r)' # {} <=> r \in known'
  BY <1>3, <1>7, Quiet
<1>9. TakenOK' BY <1>2, <1>3, <1>4, <1>6, <1>8 DEF TakenOK, Fits
<1>10. ListsOK' BY <1>1, <1>3, <1>8 DEF ListsOK, ListOf
<1>11. SearchOK' BY <1>1, <1>3 DEF SearchOK, FreeToCache, Frees
<1>12. Good' BY <1>8, <1>9, <1>10, <1>11 DEF Good
<1>13. /\ recovering' \in BOOLEAN /\ pc' \in {"idle", "slab", "newRun", "clean"}
       /\ cur' \in Runs \cup {NULL}
       /\ lists' \in Links /\ spoilt' \subseteq {"beyond", "filled", "twice"}
  BY <1>1, <1>3 DEF TypeOK, Links
<1>14. /\ m_objCache' \in Seq(Objects') /\ objects' \subseteq Objects'
       /\ returned' \subseteq Objects'
  <2>1. returned' \subseteq Objects' BY <1>1, <1>2, <1>3, ReturnedTyped
  <2> QED BY <1>2, <1>3, <1>4, <1>8, <2>1
<1> QED BY <1>8, <1>12, <1>13, <1>14 DEF IInv, TypeOK, Sizes, RunTypes, Links

\* Only the search, and perhaps the lists, move on.
LEMMA OnlySearch ==
    ASSUME Sound, UNCHANGED <<slab, run, known, m_objCache, objects, spoilt>>,
           recovering' \in BOOLEAN, pc' \in {"idle", "slab", "newRun", "clean"},
           cur' \in Runs \cup {NULL}, returned' \in {returned, {}}, ListsOK', SearchOK'
    PROVE  IInv'
<1>1. TypeOK /\ TakenOK /\ Unspoilt BY DEF Sound, Good
<1>2. Cached' = Cached /\ Taken' = Taken BY DEF Cached, Taken
<1>3. /\ Sizes' /\ RunTypes' /\ known' \subseteq Runs /\ leaked' \subseteq Runs \ known'
      /\ Objects' = Objects /\ m_freeCount' = m_freeCount
      /\ m_freeCount' \in [Runs -> 0 .. MaxFree']
      /\ RunsOK'
      /\ \A p \in Taken' : Fits(p)'
      /\ \A r \in Runs : InUse(r)' # {} <=> r \in known'
  BY <1>2, Quiet
<1>4. TakenOK' BY <1>1, <1>2, <1>3 DEF TakenOK, Fits
<1>5. Good' BY <1>3, <1>4 DEF Good
<1>6. lists' \in Links BY DEF ListsOK, TwoLists
<1>7. /\ spoilt' \subseteq {"beyond", "filled", "twice"}
      /\ m_objCache' \in Seq(Objects') /\ objects' \subseteq Objects'
  BY <1>1, <1>3 DEF TypeOK
<1>8. returned' \subseteq Objects' BY <1>1, ReturnedTyped
<1> QED BY <1>3, <1>5, <1>6, <1>7, <1>8 DEF IInv, TypeOK, Sizes, RunTypes, Links

LEMMA ListsStay ==
    ASSUME ListsOK, UNCHANGED <<lists, known, run>>
    PROVE  ListsOK'
<1>1. m_freeCount' = m_freeCount BY DEF run
<1> QED BY <1>1 DEF ListsOK, ListOf

LEMMA SearchSteps ==
    ASSUME Sound,
           \/ AllocStart \/ SlabExhausted \/ StartClean \/ AllocFails
           \/ EndRecover \/ UNCHANGED vars
    PROVE  IInv'
<1>1. /\ TypeOK /\ Unspoilt /\ ListsOK /\ SearchOK
      /\ recovering \in BOOLEAN /\ pc \in {"idle", "slab", "newRun", "clean"}
      /\ cur \in Runs \cup {NULL}
      /\ lists.half \in Runs \cup {NULL}
  BY DEF Sound, Good, TypeOK
<1>2. /\ UNCHANGED <<slab, run, known, m_objCache, objects, spoilt, lists>>
      /\ returned' \in {returned, {}}
  BY DEF AllocStart, SlabExhausted, StartClean, AllocFails, EndRecover, vars
<1>3. ListsOK' BY <1>1, <1>2, ListsStay
<1>4. CASE AllocStart
  <2>1. SearchOK' BY <1>1, <1>4 DEF AllocStart, SearchOK, Calm
  <2>2. /\ recovering' \in BOOLEAN /\ pc' \in {"idle", "slab", "newRun", "clean"}
        /\ cur' \in Runs \cup {NULL}
    BY <1>1, <1>4 DEF AllocStart
  <2> QED BY <1>2, <1>3, <2>1, <2>2, OnlySearch
<1>5. CASE SlabExhausted
  <2>1. SearchOK' BY <1>1, <1>5 DEF SlabExhausted, SearchOK
  <2>2. /\ recovering' \in BOOLEAN /\ pc' \in {"idle", "slab", "newRun", "clean"}
        /\ cur' \in Runs \cup {NULL}
    BY <1>1, <1>5 DEF SlabExhausted
  <2> QED BY <1>2, <1>3, <2>1, <2>2, OnlySearch
<1>6. CASE AllocFails
  <2>1. SearchOK' BY <1>1, <1>6 DEF AllocFails, SearchOK, NeedsRun
  <2>2. /\ recovering' \in BOOLEAN /\ pc' \in {"idle", "slab", "newRun", "clean"}
        /\ cur' \in Runs \cup {NULL}
    BY <1>1, <1>6 DEF AllocFails
  <2> QED BY <1>2, <1>3, <2>1, <2>2, OnlySearch
<1>7. CASE EndRecover
  <2>1. SearchOK' BY <1>1, <1>7 DEF EndRecover, SearchOK
  <2>2. /\ recovering' \in BOOLEAN /\ pc' \in {"idle", "slab", "newRun", "clean"}
        /\ cur' \in Runs \cup {NULL}
    BY <1>1, <1>7 DEF EndRecover
  <2> QED BY <1>2, <1>3, <2>1, <2>2, OnlySearch
<1>8. CASE UNCHANGED vars
  <2>1. UNCHANGED <<recovering, pc, cur, slab, leaked>> BY <1>8 DEF vars, run, dram
  <2>2. SearchOK' BY <1>1, <1>2, <2>1 DEF SearchOK, slab
  <2>3. /\ recovering' \in BOOLEAN /\ pc' \in {"idle", "slab", "newRun", "clean"}
        /\ cur' \in Runs \cup {NULL}
    BY <1>1, <2>1
  <2> QED BY <1>2, <1>3, <2>2, <2>3, OnlySearch
<1>9. CASE StartClean
  <2>1. SearchOK' BY <1>1, <1>9 DEF StartClean, SearchOK
  <2>2. /\ recovering' \in BOOLEAN /\ pc' \in {"idle", "slab", "newRun", "clean"}
        /\ cur' \in Runs \cup {NULL}
    BY <1>1, <1>9 DEF StartClean
  <2> QED BY <1>2, <1>3, <2>1, <2>2, OnlySearch
<1> QED BY <1>4, <1>5, <1>6, <1>7, <1>8, <1>9

\* The first of a list belongs to it.
LEMMA FirstOf ==
    ASSUME NEW l, TwoLists(l), NEW list \in Lists, l[list] # NULL
    PROVE  l[list] \in Chain(l, list) /\ l[list] \in Runs
BY ChainIs DEF TwoLists, Closed

LEMMA NoFirst ==
    ASSUME NEW l, TwoLists(l), NEW list \in Lists, l[list] = NULL
    PROVE  Chain(l, list) = {}
<1>1. Closed(l, list, {}) BY DEF Closed
<1> QED BY <1>1, ChainIs DEF TwoLists

\* The first of the half-empty runs goes to the full ones.
LEMMA FirstToFull ==
    ASSUME ListsOK, lists.half # NULL
    PROVE  LET m == ToFull(lists.half) IN
           /\ TwoLists(m)
           /\ Chain(m, "half") = ListOf("half") \ {lists.half}
           /\ Chain(m, "full") = ListOf("full") \cup {lists.half}
           /\ Chain(m, "half") \cup Chain(m, "full") = known
           /\ m.half = lists.next[lists.half]
           /\ lists.half \in known /\ lists.half \in Runs
           /\ lists.half \notin ListOf("full")
<1> DEFINE r == lists.half
<1>1. TwoLists(lists) /\ ListOf("half") \cup ListOf("full") = known BY DEF ListsOK
<1>2. "half" \in Lists /\ "full" \in Lists /\ "half" # "full" BY DEF Lists
<1>3. r = lists["half"] OBVIOUS
<1>4. r \in ListOf("half") /\ r \in Runs BY <1>1, <1>2, FirstOf DEF ListOf
<1>5. r \notin ListOf("full") BY <1>1, <1>4 DEF TwoLists, ListOf
<1>6. LET m == ToFull(r) IN
      /\ TwoLists(m)
      /\ Chain(m, "half") = ListOf("half") \ {r}
      /\ Chain(m, "full") = ListOf("full") \cup {r}
      /\ m["half"] = lists.next[r]
  BY <1>1, <1>2, <1>3, <1>4, Moved DEF ToFull, ListOf
<1> HIDE DEF r
<1> QED BY <1>1, <1>4, <1>5, <1>6 DEF r

LEMMA SlabMovesOnKeeps ==
    ASSUME Sound, SlabMovesOn
    PROVE  IInv'
<1>1. /\ ListsOK /\ SearchOK /\ recovering \in BOOLEAN /\ lists \in Links
      /\ m_freeCount \in [Runs -> 0 .. MaxFree]
  BY SoundIs DEF Sound, Good, TypeOK, Links
<1>2. /\ pc = "slab" /\ cur = lists.half /\ cur # NULL /\ m_freeCount[cur] = 0
      /\ lists' = ToFull(cur) /\ cur' = lists.next[cur]
      /\ UNCHANGED <<slab, recovering, pc, run, known, m_objCache, objects, returned, spoilt>>
  BY <1>1 DEF SlabMovesOn, SearchOK, Filled
<1> DEFINE r == lists.half
           m == ToFull(r)
<1>3. /\ TwoLists(m)
      /\ Chain(m, "half") = ListOf("half") \ {r}
      /\ Chain(m, "full") = ListOf("full") \cup {r}
      /\ Chain(m, "half") \cup Chain(m, "full") = known
      /\ m.half = lists.next[r]
      /\ r \in Runs
  BY <1>1, <1>2, FirstToFull
<1> HIDE DEF m
<1>4. lists' = m /\ m_freeCount' = m_freeCount /\ m_freeCount[r] = 0 BY <1>2 DEF m, run
<1>5. ListsOK' BY <1>1, <1>2, <1>3, <1>4 DEF ListsOK, ListOf
<1>6. SearchOK' BY <1>1, <1>2, <1>3, <1>4 DEF SearchOK, slab
<1>7. cur' \in Runs \cup {NULL} BY <1>1, <1>2, <1>3 DEF Links
<1>8. pc' \in {"idle", "slab", "newRun", "clean"} /\ recovering' \in BOOLEAN BY <1>1, <1>2
<1> QED BY <1>2, <1>5, <1>6, <1>7, <1>8, OnlySearch

-----------------------------------------------------------------------------
(* Steps that take from a run, or give one back. *)

LEMMA SlabTakesKeeps ==
    ASSUME Sound, SlabTakes
    PROVE  IInv'
<1>1. /\ TypeOK /\ ListsOK /\ SearchOK /\ TakenOK /\ known \subseteq Runs
      /\ leaked \subseteq Runs \ known
      /\ recovering \in BOOLEAN /\ Sizes
      /\ \A r \in Runs : InUse(r) # {} <=> r \in known
  BY SoundIs DEF Sound, Good, TypeOK, TakenOK
<1>2. /\ pc = "slab" /\ cur = lists.half /\ cur # NULL /\ HasFree(cur) /\ ~recovering
      /\ Take(cur, NextOf(cur)) /\ HandOut(Object(cur, NextOf(cur)))
      /\ lists' = IF m_freeCount'[cur] = 0 THEN ToFull(cur) ELSE lists
      /\ pc' = "idle" /\ cur' = NULL
      /\ UNCHANGED <<slab, recovering, known, m_objCache, returned>>
  BY <1>1 DEF SlabTakes, SearchOK, Filled
<1>3. PICK r \in Runs :
         /\ r = lists.half /\ TwoLists(ToFull(r))
         /\ Chain(ToFull(r), "half") \cup Chain(ToFull(r), "full") = known
         /\ Chain(ToFull(r), "full") = ListOf("full") \cup {r}
         /\ r \in known /\ r \notin ListOf("full")
  BY <1>1, <1>2, FirstToFull
<1> DEFINE m == ToFull(r)
<1> HIDE DEF m
<1>4. /\ HasFree(r) /\ Take(r, NextOf(r)) /\ HandOut(Object(r, NextOf(r)))
       /\ UNCHANGED <<slab, m_objCache>>
  BY <1>2, <1>3
<1>5. r \in Runs \ leaked BY <1>1, <1>3
<1>6. /\ objects' \subseteq Objects' /\ Taken' \subseteq Objects' /\ Cached' = Cached
      /\ InUse(r)' # {} /\ \A n : n # r => InUse(n)' = InUse(n)
      /\ RunTypes' /\ leaked' = leaked
      /\ spoilt' \subseteq {"beyond", "filled", "twice"}
      /\ spoilt' = {} => /\ RunsOK'
                         /\ m_freeCount' \in [Runs -> 0 .. MaxFree']
                         /\ \A n \in Runs : n # r => m_freeCount'[n] = m_freeCount[n]
                         /\ \A p \in Taken' : Fits(p)'
                         /\ objects' \cap Cached' = {}
  BY <1>5, <1>4, Taking
<1>7. kind' = kind /\ m_objSize' = m_objSize /\ Objects' = Objects /\ Sizes'
  BY <1>1, <1>2, SlabKept DEF Sizes
<1>8. lists' = IF m_freeCount'[r] = 0 THEN m ELSE lists BY <1>2, <1>3 DEF m
<1>9. /\ TwoLists(lists) /\ ListOf("half") \cup ListOf("full") = known
      /\ ListOf("full") \subseteq Runs
      /\ \A n \in ListOf("full") : m_freeCount[n] = 0
  BY <1>1 DEF ListsOK
<1>10. spoilt' = {} => ListsOK'
  <2> SUFFICES ASSUME spoilt' = {} PROVE ListsOK' OBVIOUS
  <2>1. \A n \in ListOf("full") : m_freeCount'[n] = 0 BY <1>3, <1>6, <1>9
  <2>2. CASE m_freeCount'[r] = 0
    <3>1. lists' = m /\ known' = known BY <1>2, <1>8, <2>2
    <3> QED BY <1>3, <2>1, <2>2, <3>1 DEF ListsOK, ListOf, m
  <2>3. CASE m_freeCount'[r] # 0
    <3>1. lists' = lists /\ known' = known BY <1>2, <1>8, <2>3
    <3> QED BY <1>9, <2>1, <3>1 DEF ListsOK, ListOf
  <2> QED BY <2>2, <2>3
<1>11. lists' \in Links
  <2>1. m \in Links /\ lists \in Links BY <1>3, <1>9 DEF TwoLists, m
  <2> QED BY <1>8, <2>1
<1>12. spoilt' = {} => TakenOK'
  <2>1. IsInjective(m_objCache)' BY <1>1, <1>2 DEF TakenOK
  <2>2. \A n \in Runs : InUse(n)' # {} <=> n \in known' BY <1>1, <1>2, <1>3, <1>6
  <2> QED BY <1>6, <1>7, <2>1, <2>2 DEF TakenOK, Fits
<1>13. SearchOK' BY <1>1, <1>2 DEF SearchOK
<1>14. spoilt' = {} => Good' BY <1>6, <1>10, <1>12, <1>13 DEF Good
<1>15. m_objCache' \in Seq(Objects') /\ returned' \subseteq Objects'
  BY <1>1, <1>2, <1>7 DEF TypeOK
<1>16. known' \subseteq Runs /\ leaked' \subseteq Runs \ known' BY <1>1, <1>2, <1>6
<1>17. Unspoilt' => spoilt' = {} BY DEF Unspoilt
<1> QED BY <1>1, <1>2, <1>6, <1>7, <1>11, <1>14, <1>15, <1>16, <1>17
        DEF IInv, TypeOK, Sizes, RunTypes, Links

\* A run of which nothing is in use has something to give.
LEMMA SomeFree ==
    ASSUME TypeOK, NEW r \in Runs, RunOK(r), InUse(r) = {}
    PROVE  HasFree(r)
<1>1. Sizes BY DEF TypeOK, Sizes
<1>2. /\ m_objSize \in Nat \ {0} /\ RunSize \in Nat /\ Base \in Nat
      /\ MaxFree >= 2 /\ MaxFree \in Nat /\ MaxFree = (RunSize - Base) \div m_objSize
  BY <1>1, Numbers
<1>3. 0 * m_objSize + m_objSize <= RunSize - Base BY <1>2, HowMany
<1>4. Base + 0 * m_objSize + m_objSize <= RunSize BY <1>2, <1>3
<1>5. Slots # {} BY <1>1, <1>4, SlotsAre
<1>6. FreeSlots(r) = Slots BY DEF RunOK
<1>7. CASE kind = "nvm" BY <1>5, <1>6, <1>7 DEF FreeSlots, HasFree
<1>8. CASE kind = "dram"
  <2> SUFFICES ASSUME ~Unused(r), m_freeChunks[r] = <<>> PROVE FALSE
    BY <1>8 DEF HasFree
  <2>1. PICK j \in Nat : m_tail[r] = Header + j * m_objSize BY <1>8 DEF RunOK
  <2>2. \A b \in Slots : b < m_tail[r] /\ m_tail[r] \in Nat /\ b \in Nat
    BY <1>1, <1>8, <2>1, Frontier, SlotsAre
  <2>3. ToSet(m_freeChunks[r]) = {} BY DEF ToSet
  <2>4. FreeSlots(r) = {b \in Slots : b >= m_tail[r]} BY <1>8, <2>3 DEF FreeSlots
  <2> QED BY <1>5, <1>6, <2>2, <2>4
<1> QED BY <1>1, <1>7, <1>8 DEF Sizes

LEMMA AllocNewRunKeeps ==
    ASSUME Sound, NEW r \in Runs, AllocNewRun(r)
    PROVE  IInv'
<1>1. /\ TypeOK /\ ListsOK /\ SearchOK /\ TakenOK /\ known \subseteq Runs
      /\ leaked \subseteq Runs \ known
      /\ recovering \in BOOLEAN /\ Sizes
      /\ \A n \in Runs : InUse(n) # {} <=> n \in known
      /\ \A n \in Runs \ leaked : RunOK(n)
  BY SoundIs DEF Sound, Good, TypeOK, TakenOK
<1>2. /\ cur = NULL /\ ~recovering /\ r \notin known /\ r \in Runs \ leaked
      /\ Take(r, NextOf(r)) /\ HandOut(Object(r, NextOf(r)))
      /\ lists' = Push(lists, "half", r) /\ known' = known \cup {r}
      /\ pc' = "idle" /\ cur' = NULL /\ returned' = {}
      /\ UNCHANGED <<slab, recovering, m_objCache>>
  BY <1>1 DEF AllocNewRun, NeedsRun, AddRun, SearchOK
<1>3. HasFree(r)
  <2>1. InUse(r) = {} BY <1>1, <1>2
  <2> QED BY <1>1, <1>2, <2>1, SomeFree
<1>4. /\ TwoLists(lists) /\ ListOf("half") \cup ListOf("full") = known
      /\ \A n \in ListOf("full") : m_freeCount[n] = 0
  BY <1>1 DEF ListsOK
<1> DEFINE m == Push(lists, "half", r)
<1>5. /\ TwoLists(m) /\ Chain(m, "half") = ListOf("half") \cup {r}
      /\ Chain(m, "full") = ListOf("full")
  <2>1. "half" \in Lists /\ "full" \in Lists /\ "full" # "half" BY DEF Lists
  <2>2. r \notin Chain(lists, "half") \cup Chain(lists, "full") BY <1>2, <1>4 DEF ListOf
  <2> QED BY <1>4, <2>1, <2>2, Pushed DEF ListOf
<1> HIDE DEF m
<1>6. lists' = m BY <1>2 DEF m
<1>7. /\ objects' \subseteq Objects' /\ Taken' \subseteq Objects' /\ Cached' = Cached
      /\ InUse(r)' # {} /\ \A n : n # r => InUse(n)' = InUse(n)
      /\ RunTypes' /\ leaked' = leaked
      /\ spoilt' \subseteq {"beyond", "filled", "twice"}
      /\ spoilt' = {} => /\ RunsOK'
                         /\ m_freeCount' \in [Runs -> 0 .. MaxFree']
                         /\ \A n \in Runs : n # r => m_freeCount'[n] = m_freeCount[n]
                         /\ \A p \in Taken' : Fits(p)'
                         /\ objects' \cap Cached' = {}
  BY <1>2, <1>3, Taking
<1>8. kind' = kind /\ m_objSize' = m_objSize /\ Objects' = Objects /\ Sizes'
  BY <1>1, <1>2, SlabKept DEF Sizes
<1>9. spoilt' = {} => ListsOK'
  <2> SUFFICES ASSUME spoilt' = {} PROVE ListsOK' OBVIOUS
  <2>1. \A n \in ListOf("full") : m_freeCount'[n] = 0 BY <1>1, <1>2, <1>4, <1>7
  <2> QED BY <1>2, <1>4, <1>5, <1>6, <2>1 DEF ListsOK, ListOf
<1>10. lists' \in Links BY <1>5, <1>6 DEF TwoLists
<1>11. spoilt' = {} => TakenOK'
  <2>1. IsInjective(m_objCache)' BY <1>1, <1>2 DEF TakenOK
  <2>2. \A n \in Runs : InUse(n)' # {} <=> n \in known' BY <1>1, <1>2, <1>7
  <2> QED BY <1>7, <1>8, <2>1, <2>2 DEF TakenOK, Fits
<1>12. SearchOK' BY <1>1, <1>2 DEF SearchOK
<1>13. spoilt' = {} => Good' BY <1>7, <1>9, <1>11, <1>12 DEF Good
<1>14. m_objCache' \in Seq(Objects') /\ returned' \subseteq Objects'
  BY <1>1, <1>2, <1>8 DEF TypeOK
<1>15. known' \subseteq Runs /\ leaked' \subseteq Runs \ known' BY <1>1, <1>2, <1>7
<1>16. Unspoilt' => spoilt' = {} BY DEF Unspoilt
<1> QED BY <1>1, <1>2, <1>7, <1>8, <1>10, <1>13, <1>14, <1>15, <1>16
        DEF IInv, TypeOK, Sizes, RunTypes, Links

\* A run goes back, and with it what was kept about it; a DRAM run is leaked.
LEMMA Released ==
    ASSUME Sound, NEW r \in Runs, Release(r), UNCHANGED slab,
           InUse(r)' = {}, \A n : n # r => InUse(n)' = InUse(n)
    PROVE  /\ RunTypes' /\ RunsOK' /\ known' = known \ {r}
           /\ leaked \subseteq leaked' /\ leaked' \subseteq leaked \cup {r}
           /\ m_freeCount' \in [Runs -> 0 .. MaxFree']
           /\ \A n \in Runs : n # r => m_freeCount'[n] = m_freeCount[n]
<1>1. /\ TypeOK /\ m_freeCount \in [Runs -> 0 .. MaxFree] /\ Sizes
      /\ \A n \in Runs \ leaked : RunOK(n)
  BY SoundIs DEF Sound
<1>2. /\ kind' = kind /\ m_objSize' = m_objSize /\ Slots' = Slots /\ MaxFree' = MaxFree
      /\ BitmapSlots' = BitmapSlots
  BY SlabKept
<1>3. RunTypes BY <1>1 DEF RunTypes, TypeOK
<1>4. known' = known \ {r} BY DEF Release
<1>5. MaxFree \in Nat /\ Words \in Nat \ {0} BY <1>1, Numbers, WordsOfRun
<1>6. CASE kind = "nvm"
  <2>1. /\ m_bitmap' = [m_bitmap EXCEPT ![r] = Slots]
        /\ m_freeCount' = [m_freeCount EXCEPT ![r] = MaxFree]
        /\ lastAccessPos' = [lastAccessPos EXCEPT ![r] = Words - 1]
        /\ m_tail' = m_tail /\ m_freeChunks' = m_freeChunks /\ leaked' = leaked
    BY <1>6 DEF Release, dram
  <2>2. Slots = BitmapSlots BY <1>6 DEF Slots
  <2>3. m_bitmap' \in [Runs -> SUBSET BitmapSlots]
        /\ m_bitmap'[r] = Slots
        /\ \A n \in Runs : n # r => m_bitmap'[n] = m_bitmap[n]
    BY <1>3, <2>1, <2>2 DEF RunTypes
  <2>4. m_freeCount' \in [Runs -> 0 .. MaxFree]
        /\ m_freeCount'[r] = MaxFree
        /\ \A n \in Runs : n # r => m_freeCount'[n] = m_freeCount[n]
    BY <1>1, <1>5, <2>1
  <2>5. lastAccessPos' \in [Runs -> 0 .. Words - 1] BY <1>3, <1>5, <2>1 DEF RunTypes
  <2>6. RunTypes' BY <1>2, <1>3, <2>1, <2>3, <2>5 DEF RunTypes
  <2>7. ASSUME NEW n \in Runs \ leaked, n # r PROVE RunOK(n)'
    BY <1>1, <2>1, <2>3, <2>4, <2>7, RunUntouched
  <2>8. ASSUME r \notin leaked PROVE RunOK(r)'
    <3>1. RunOK(r) BY <1>1, <2>8
    <3>2. FreeSlots(r)' = Slots' BY <1>2, <1>6, <2>3 DEF FreeSlots
    <3>3. Cardinality(InUse(r)') = 0 BY FS_EmptySet
    <3>4. m_freeCount'[r] = MaxFree' - Cardinality(InUse(r)') BY <1>2, <1>5, <2>4, <3>3
    <3>5. FreeSlots(r)' = Slots' \ {p.bit : p \in InUse(r)'} BY <3>2
    <3>6. IsInjective(m_freeChunks'[r]) BY <2>1, <3>1 DEF RunOK
    <3>7. kind' # "dram" BY <1>2, <1>6
    <3> QED BY <3>4, <3>5, <3>6, <3>7 DEF RunOK
  <2>9. RunsOK' BY <2>1, <2>7, <2>8 DEF RunsOK
  <2> QED BY <1>2, <1>4, <2>1, <2>4, <2>6, <2>9
<1>7. CASE kind = "dram"
  <2>1. /\ leaked' = leaked \cup {r}
        /\ m_freeCount' = m_freeCount /\ m_bitmap' = m_bitmap /\ lastAccessPos' = lastAccessPos
        /\ m_tail' = m_tail /\ m_freeChunks' = m_freeChunks
    BY <1>7 DEF Release, nvm
  <2>2. RunTypes' BY <1>2, <1>3, <2>1 DEF RunTypes
  <2>3. ASSUME NEW n \in Runs \ leaked, n # r PROVE RunOK(n)'
    BY <1>1, <2>1, <2>3, RunUntouched
  <2>4. RunsOK' BY <2>1, <2>3 DEF RunsOK
  <2> QED BY <1>1, <1>2, <1>4, <2>1, <2>2, <2>4
<1> QED BY <1>1, <1>6, <1>7 DEF Sizes

\* The object that is freed, and whether it is the last of its run.
LEMMA FreedIs ==
    ASSUME Sound, NEW o \in objects
    PROVE  /\ o \in Objects /\ o \notin Cached
           /\ o.run \in known /\ o.run \in Runs \ leaked
           /\ m_freeCount[o.run] + 1 = MaxFree <=> InUse(o.run) \ {o} = {}
           /\ m_freeCount[o.run] = 0 => InUse(o.run) \ {o} # {}
<1>1. /\ TypeOK /\ TakenOK /\ Sizes /\ m_freeCount \in [Runs -> 0 .. MaxFree]
      /\ Taken \subseteq Objects /\ \A p \in Taken : Fits(p)
      /\ \A n \in Runs \ leaked : RunOK(n)
  BY SoundIs DEF Sound, Good
<1>2. o \in Taken /\ o \in Objects /\ o \notin Cached BY <1>1 DEF Taken, TakenOK
<1> DEFINE r == o.run
           X == InUse(r)
<1>3. r \in Runs /\ o \in X BY <1>2, ObjectsAre DEF InUse
<1>4. r \in known BY <1>1, <1>3 DEF TakenOK
<1>5. r \in Runs \ leaked BY <1>1, <1>3, <1>4 DEF TypeOK
<1>6. m_freeCount[r] = MaxFree - Cardinality(X) BY <1>1, <1>5 DEF RunOK
<1>7. \A p \in X : p \in Objects /\ p.run = r /\ p.bit + m_objSize <= RunSize
  BY <1>1 DEF InUse, Taken, Fits
<1>8. IsFiniteSet(X) /\ Cardinality(X) \in Nat BY <1>1, <1>7, Countable
<1>9. MaxFree \in Nat /\ MaxFree >= 2 BY <1>1, Numbers
<1> HIDE DEF X
<1>10. /\ IsFiniteSet(X \ {o}) /\ Cardinality(X \ {o}) = Cardinality(X) - 1
  BY <1>3, <1>8, FS_RemoveElement
<1>11. Cardinality(X \ {o}) = 0 <=> X \ {o} = {} BY <1>10, FS_EmptySet
<1>12. m_freeCount[r] + 1 = MaxFree <=> X \ {o} = {} BY <1>6, <1>8, <1>9, <1>10, <1>11
<1>13. m_freeCount[r] = 0 => X \ {o} # {} BY <1>6, <1>8, <1>9, <1>10, <1>11
<1> QED BY <1>2, <1>4, <1>5, <1>12, <1>13 DEF X

\* What an object that goes back changes about its run, and leaves.
LEMMA Returned ==
    ASSUME Sound, NEW o \in objects, GiveSlot(o), UNCHANGED <<slab, m_objCache>>,
           objects' = objects \ {o}
    PROVE  /\ RunTypes' /\ RunsOK' /\ known' = known /\ leaked' = leaked
           /\ m_freeCount' \in [Runs -> 0 .. MaxFree']
           /\ \A n \in Runs : n # o.run => m_freeCount'[n] = m_freeCount[n]
<1>1. /\ TypeOK /\ m_freeCount \in [Runs -> 0 .. MaxFree] /\ Sizes
      /\ \A n \in Runs \ leaked : RunOK(n)
  BY SoundIs DEF Sound
<1>2. /\ kind' = kind /\ m_objSize' = m_objSize /\ Slots' = Slots /\ MaxFree' = MaxFree
      /\ BitmapSlots' = BitmapSlots
  BY SlabKept
<1>3. o \notin Cached /\ o.run \in Runs \ leaked BY FreedIs
<1>4. InUse(o.run)' = InUse(o.run) \ {o} /\ \A n : n # o.run => InUse(n)' = InUse(n)
  BY <1>3, OneNotInUse
<1>5. /\ RunOK(o.run)'
      /\ m_freeCount' = [m_freeCount EXCEPT ![o.run] = @ + 1]
      /\ m_freeCount'[o.run] \in 0 .. MaxFree
      /\ m_bitmap' \in [Runs -> SUBSET BitmapSlots]
      /\ m_freeChunks' \in [Runs -> Seq(Slots)]
      /\ \A n \in Runs : n # o.run => /\ m_bitmap'[n] = m_bitmap[n]
                                      /\ m_freeChunks'[n] = m_freeChunks[n]
  BY <1>3, <1>4, SlotBack
<1>6. UNCHANGED <<lastAccessPos, m_tail, leaked, known>> BY DEF GiveSlot
<1>7. RunTypes' BY <1>1, <1>2, <1>5, <1>6 DEF RunTypes, TypeOK
<1>8. m_freeCount' \in [Runs -> 0 .. MaxFree] BY <1>1, <1>5
<1>9. \A n \in Runs : n # o.run => m_freeCount'[n] = m_freeCount[n] BY <1>1, <1>5
<1>10. ASSUME NEW n \in Runs \ leaked, n # o.run PROVE RunOK(n)'
  BY <1>1, <1>4, <1>5, <1>6, <1>9, <1>10, RunUntouched
<1>11. RunsOK' BY <1>5, <1>6, <1>10 DEF RunsOK
<1> QED BY <1>2, <1>6, <1>7, <1>8, <1>9, <1>11

\* A run leaves the half-empty ones, and its structure is gone.
LEMMA Dropped ==
    ASSUME NEW l, TwoLists(l), NEW r \in Chain(l, "half")
    PROVE  LET m == Forgotten(Erase(l, "half", r), r) IN
           /\ TwoLists(m) /\ Chain(m, "half") = Chain(l, "half") \ {r}
           /\ Chain(m, "full") = Chain(l, "full")
<1> DEFINE e == Erase(l, "half", r)
           m == Forgotten(e, r)
<1>1. "half" \in Lists /\ "full" \in Lists /\ "full" # "half" /\ r \in Runs
  BY ChainIs DEF Lists, TwoLists
<1>2. TwoLists(e) /\ Chain(e, "half") = Chain(l, "half") \ {r} /\ Chain(e, "full") = Chain(l, "full")
  BY <1>1, Erased
<1>3. r \notin Chain(l, "full") BY <1>1, OtherList
<1>4. \A list \in Lists : r \notin Chain(e, list) BY <1>2, <1>3 DEF Lists
<1> HIDE DEF e
<1>5. TwoLists(m) /\ \A list \in Lists : Chain(m, list) = Chain(e, list)
  BY <1>1, <1>2, <1>4, Forgetting
<1> HIDE DEF m
<1> QED BY <1>1, <1>2, <1>5 DEF e, m

LEMMA FreeToSlabKeeps ==
    ASSUME Sound, NEW o, FreeToSlab(o)
    PROVE  IInv'
<1> DEFINE r == o.run
<1>1. /\ TypeOK /\ ListsOK /\ SearchOK /\ TakenOK /\ known \subseteq Runs
      /\ leaked \subseteq Runs \ known
      /\ recovering \in BOOLEAN /\ Sizes
      /\ \A n \in Runs : InUse(n) # {} <=> n \in known
      /\ \A p \in Taken : Fits(p)
  BY SoundIs DEF Sound, Good, TypeOK, TakenOK
<1>2. /\ o \in objects /\ pc \in {"idle", "clean"} /\ cur = NULL /\ ~recovering
      /\ returned' = IF pc = "clean" THEN returned \cup {o} ELSE returned
      /\ IF m_freeCount[r] = 0 THEN FreeOfFull(o) ELSE FreeOfUnfilled(o)
      /\ objects' = objects \ {o}
      /\ UNCHANGED <<slab, recovering, pc, cur, m_objCache>>
  BY <1>1 DEF FreeToSlab, Filled, Frees, SearchOK
<1>3. /\ o \in Objects /\ o \notin Cached
      /\ r \in known /\ r \in Runs \ leaked
      /\ m_freeCount[r] + 1 = MaxFree <=> InUse(r) \ {o} = {}
      /\ m_freeCount[r] = 0 => InUse(r) \ {o} # {}
  BY <1>2, FreedIs
<1> HIDE DEF r
<1>4. /\ Taken' = Taken \ {o} /\ Cached' = Cached
      /\ InUse(r)' = InUse(r) \ {o}
      /\ \A n : n # r => InUse(n)' = InUse(n)
  BY <1>2, <1>3, OneNotInUse DEF r
<1>5. kind' = kind /\ m_objSize' = m_objSize /\ Objects' = Objects /\ Sizes'
  BY <1>1, <1>2, SlabKept DEF Sizes
<1>6. /\ TwoLists(lists) /\ ListOf("half") \cup ListOf("full") = known
      /\ \A n \in ListOf("full") : m_freeCount[n] = 0
      /\ lists \in Links
  BY <1>1 DEF ListsOK, TwoLists
<1>7. ListOf("half") \cap ListOf("full") = {} BY <1>6 DEF TwoLists, ListOf
\* What the three cases come to.
<1>8. ASSUME RunTypes', lists' \in Links, known' \subseteq Runs, leaked' \subseteq Runs \ known',
             spoilt' \subseteq {"beyond", "filled", "twice"},
             spoilt' = {} => /\ RunsOK' /\ ListsOK'
                             /\ m_freeCount' \in [Runs -> 0 .. MaxFree']
                             /\ \A n \in Runs : InUse(n)' # {} <=> n \in known'
      PROVE  IInv'
  <2>1. /\ m_objCache' \in Seq(Objects') /\ objects' \subseteq Objects'
        /\ pc' \in {"idle", "slab", "newRun", "clean"} /\ cur' \in Runs \cup {NULL}
        /\ recovering' \in BOOLEAN
    BY <1>1, <1>2, <1>5 DEF TypeOK
  <2>6. returned' \subseteq Objects' BY <1>1, <1>2, ReturnedTyped
  <2>2. spoilt' = {} => TakenOK'
    <3>1. objects' \cap Cached' = {} BY <1>1, <1>2, <1>4 DEF TakenOK
    <3>2. \A p \in Taken' : p.bit + m_objSize' <= RunSize BY <1>1, <1>4, <1>5 DEF Fits
    <3>3. IsInjective(m_objCache') BY <1>1, <1>2 DEF TakenOK
    <3> QED BY <1>8, <3>1, <3>2, <3>3 DEF TakenOK
  <2>3. SearchOK' BY <1>1, <1>2, <1>5 DEF SearchOK
  <2>4. spoilt' = {} => Good' BY <1>8, <2>2, <2>3 DEF Good
  <2>5. Unspoilt' => spoilt' = {} BY DEF Unspoilt
  <2> QED BY <1>5, <1>8, <2>1, <2>4, <2>5, <2>6 DEF IInv, TypeOK, Sizes, RunTypes, Links
<1>9. CASE m_freeCount[r] = 0
  <2>1. /\ GiveSlot(o)
        /\ lists' = Push(Erase(lists, "full", r), "half", r)
        /\ spoilt' = IF r \in ListOf("full") THEN {} ELSE {"filled"}
    BY <1>2, <1>9 DEF FreeOfFull, r
  <2>2. /\ RunTypes' /\ RunsOK' /\ known' = known /\ leaked' = leaked
        /\ m_freeCount' \in [Runs -> 0 .. MaxFree']
        /\ \A n \in Runs : n # r => m_freeCount'[n] = m_freeCount[n]
    BY <1>2, <2>1, Returned DEF r
  <2> DEFINE m == Push(Erase(lists, "full", r), "half", r)
  <2>3. "half" \in Lists /\ "full" \in Lists /\ "full" # "half" BY DEF Lists
  <2>4. m \in Links
    <3> DEFINE e == Erase(lists, "full", r)
    <3>1. e \in Links BY <1>3, <1>6, <2>3, EraseIs
    <3> HIDE DEF e
    <3>2. Push(e, "half", r) \in Links BY <1>3, <2>3, <3>1, PushIs
    <3> QED BY <3>2 DEF e
  <2>5. ASSUME r \in ListOf("full")
        PROVE  /\ TwoLists(m) /\ Chain(m, "half") = ListOf("half") \cup {r}
               /\ Chain(m, "full") = ListOf("full") \ {r}
    BY <1>6, <2>3, <2>5, Moved DEF ListOf
  <2> HIDE DEF m
  <2>6. lists' = m BY <2>1 DEF m
  <2>7. ASSUME spoilt' = {}
        PROVE  ListsOK'
    <3>1. r \in ListOf("full") BY <2>1, <2>7
    <3>2. Chain(m, "half") \cup Chain(m, "full") = known BY <1>6, <2>5, <3>1
    <3>3. \A n \in Chain(m, "full") : m_freeCount'[n] = 0 BY <1>1, <1>6, <2>2, <2>5, <3>1
    <3> QED BY <2>2, <2>5, <2>6, <3>1, <3>2, <3>3 DEF ListsOK, ListOf
  <2>8. \A n \in Runs : InUse(n)' # {} <=> n \in known'
    <3>1. InUse(r)' # {} BY <1>3, <1>4, <1>9
    <3> QED BY <1>1, <1>3, <1>4, <2>2, <3>1
  <2>9. spoilt' \subseteq {"beyond", "filled", "twice"} BY <2>1
  <2>10. known' \subseteq Runs /\ leaked' \subseteq Runs \ known' BY <1>1, <2>2
  <2> QED BY <1>8, <2>2, <2>4, <2>6, <2>7, <2>8, <2>9, <2>10
<1>10. ASSUME m_freeCount[r] # 0
       PROVE  /\ r \in ListOf("half") /\ r \notin ListOf("full")
              /\ \A n \in ListOf("full") : n \in Runs /\ n # r
  BY <1>1, <1>3, <1>6, <1>10
<1>11. CASE m_freeCount[r] # 0 /\ m_freeCount[r] + 1 = MaxFree
  <2>1. /\ Release(r) /\ lists' = Forgotten(Erase(lists, "half", r), r) /\ spoilt' = spoilt
    BY <1>2, <1>11 DEF FreeOfUnfilled, r
  <2>2. InUse(r)' = {} BY <1>3, <1>4, <1>11
  <2>3. /\ RunTypes' /\ RunsOK' /\ known' = known \ {r}
        /\ leaked' \subseteq leaked \cup {r}
        /\ m_freeCount' \in [Runs -> 0 .. MaxFree']
        /\ \A n \in Runs : n # r => m_freeCount'[n] = m_freeCount[n]
    BY <1>2, <1>3, <1>4, <2>1, <2>2, Released
  <2> DEFINE m == Forgotten(Erase(lists, "half", r), r)
  <2>4. /\ TwoLists(m) /\ Chain(m, "half") = ListOf("half") \ {r}
        /\ Chain(m, "full") = ListOf("full")
    BY <1>6, <1>10, <1>11, Dropped DEF ListOf
  <2> HIDE DEF m
  <2>5. lists' = m BY <2>1 DEF m
  <2>6. ListsOK'
    <3>1. Chain(m, "half") \cup Chain(m, "full") = known' BY <1>6, <1>10, <1>11, <2>3, <2>4
    <3>2. \A n \in Chain(m, "full") : m_freeCount'[n] = 0 BY <1>6, <1>10, <1>11, <2>3, <2>4
    <3> QED BY <2>4, <2>5, <3>1, <3>2 DEF ListsOK, ListOf
  <2>7. \A n \in Runs : InUse(n)' # {} <=> n \in known' BY <1>1, <1>4, <2>2, <2>3
  <2>8. spoilt' \subseteq {"beyond", "filled", "twice"} BY <1>1, <2>1 DEF TypeOK
  <2>9. known' \subseteq Runs /\ leaked' \subseteq Runs \ known' BY <1>1, <1>3, <2>3
  <2>10. lists' \in Links BY <2>4, <2>5 DEF TwoLists
  <2> QED BY <1>8, <2>3, <2>6, <2>7, <2>8, <2>9, <2>10
<1>12. CASE m_freeCount[r] # 0 /\ m_freeCount[r] + 1 # MaxFree
  <2>1. GiveSlot(o) /\ lists' = lists /\ spoilt' = spoilt
    BY <1>2, <1>12 DEF FreeOfUnfilled, r
  <2>2. /\ RunTypes' /\ RunsOK' /\ known' = known /\ leaked' = leaked
        /\ m_freeCount' \in [Runs -> 0 .. MaxFree']
        /\ \A n \in Runs : n # r => m_freeCount'[n] = m_freeCount[n]
    BY <1>2, <2>1, Returned DEF r
  <2>3. ListsOK'
    <3>1. \A n \in ListOf("full") : m_freeCount'[n] = 0 BY <1>6, <1>10, <1>12, <2>2
    <3> QED BY <1>6, <2>1, <2>2, <3>1 DEF ListsOK, ListOf
  <2>4. \A n \in Runs : InUse(n)' # {} <=> n \in known' BY <1>1, <1>3, <1>4, <1>12, <2>2
  <2>5. spoilt' \subseteq {"beyond", "filled", "twice"} BY <1>1, <2>1 DEF TypeOK
  <2>6. known' \subseteq Runs /\ leaked' \subseteq Runs \ known' BY <1>1, <2>2
  <2> QED BY <1>6, <1>8, <2>1, <2>2, <2>3, <2>4, <2>5, <2>6
<1> QED BY <1>9, <1>11, <1>12

LEMMA RecoverAtKeeps ==
    ASSUME Sound, NEW o \in Objects, RecoverAt(o)
    PROVE  IInv'
<1> DEFINE r == o.run
<1>1. /\ TypeOK /\ ListsOK /\ SearchOK /\ TakenOK /\ known \subseteq Runs
      /\ recovering \in BOOLEAN /\ Sizes
      /\ \A n \in Runs : InUse(n) # {} <=> n \in known
      /\ \A p \in Taken : Fits(p)
      /\ \A n \in Runs \ leaked : RunOK(n)
      /\ m_freeCount \in [Runs -> 0 .. MaxFree]
      /\ m_bitmap \in [Runs -> SUBSET BitmapSlots]
  BY SoundIs DEF Sound, Good, TypeOK, TakenOK
<1>2. /\ recovering /\ kind = "nvm" /\ m_objCache = <<>> /\ leaked = {}
      /\ Fits(o) /\ r \in Runs /\ o.bit \in Slots
      /\ TakeSlot(r, o.bit)
      /\ IF r \in known THEN UNCHANGED <<lists, known>>
         ELSE lists' = Push(lists, "half", r) /\ known' = known \cup {r}
      /\ objects' = objects \cup {o}
      /\ spoilt' = IF o \in objects THEN {"twice"} ELSE {}
      /\ UNCHANGED <<slab, recovering, pc, cur, lastAccessPos, dram, m_objCache, returned>>
  BY <1>1, ObjectsAre DEF RecoverAt, AddRun, SearchOK, Fits
<1>3. UNCHANGED <<m_tail, m_freeChunks, leaked>> BY <1>2 DEF dram
<1>4. /\ kind' = kind /\ m_objSize' = m_objSize /\ Slots' = Slots /\ MaxFree' = MaxFree
      /\ BitmapSlots' = BitmapSlots /\ Objects' = Objects
  BY <1>2, SlabKept
<1>5. /\ m_bitmap' = [m_bitmap EXCEPT ![r] = @ \ {o.bit}]
      /\ m_freeCount' = [m_freeCount EXCEPT ![r] = (@ - 1) % 65536]
  BY <1>2 DEF TakeSlot
<1>6. RunTypes' BY <1>1, <1>2, <1>3, <1>4, <1>5 DEF RunTypes, TypeOK
<1>7. /\ Taken' = Taken \cup {o} /\ Cached' = Cached
      /\ InUse(r)' = InUse(r) \cup {o}
      /\ \A n : n # r => InUse(n)' = InUse(n)
  BY <1>2, OneInUse
<1> HIDE DEF r
<1>8. /\ TwoLists(lists) /\ ListOf("half") \cup ListOf("full") = known
      /\ \A n \in ListOf("full") : m_freeCount[n] = 0
  BY <1>1 DEF ListsOK
<1>9. ASSUME r \notin known
      PROVE  LET m == Push(lists, "half", r) IN
             /\ TwoLists(m) /\ Chain(m, "half") = ListOf("half") \cup {r}
             /\ Chain(m, "full") = ListOf("full")
  <2>1. "half" \in Lists /\ "full" \in Lists /\ "full" # "half" BY DEF Lists
  <2>2. r \notin Chain(lists, "half") \cup Chain(lists, "full") BY <1>8, <1>9 DEF ListOf
  <2> QED BY <1>2, <1>8, <2>1, <2>2, Pushed DEF ListOf
<1>10. /\ TwoLists(lists') /\ Chain(lists', "half") \cup Chain(lists', "full") = known'
       /\ Chain(lists', "full") = ListOf("full")
  <2>1. CASE r \in known BY <1>2, <1>8, <2>1 DEF ListOf
  <2>2. CASE r \notin known
    <3> DEFINE m == Push(lists, "half", r)
    <3>1. /\ TwoLists(m) /\ Chain(m, "half") = ListOf("half") \cup {r}
          /\ Chain(m, "full") = ListOf("full")
      BY <1>9, <2>2
    <3>2. lists' = m /\ known' = known \cup {r} BY <1>2, <2>2
    <3> HIDE DEF m
    <3> QED BY <1>8, <3>1, <3>2
  <2> QED BY <2>1, <2>2
<1>11. lists' \in Links BY <1>10 DEF TwoLists
<1>12. ASSUME spoilt' = {}
       PROVE  Good' /\ m_freeCount' \in [Runs -> 0 .. MaxFree']
  <2>1. o \notin Taken
    <3>1. Cached = {} BY <1>2 DEF Cached
    <3> QED BY <1>2, <1>12, <3>1 DEF Taken
  <2>2. RunOK(r)' /\ m_freeCount'[r] \in 0 .. MaxFree /\ m_freeCount[r] >= 1
    <3>1. UNCHANGED <<slab, m_freeChunks>> /\ r \in Runs \ leaked BY <1>2, <1>3
    <3> QED BY <1>2, <1>7, <2>1, <3>1, SlotTaken DEF r
  <2>3. \A n \in Runs : n # r => m_freeCount'[n] = m_freeCount[n] /\ m_bitmap'[n] = m_bitmap[n]
    BY <1>1, <1>5
  <2>4. ASSUME NEW n \in Runs \ leaked, n # r PROVE RunOK(n)'
    BY <1>1, <1>2, <1>3, <1>7, <2>3, <2>4, RunUntouched
  <2>5. RunsOK' BY <1>3, <2>2, <2>4 DEF RunsOK
  <2>6. m_freeCount' \in [Runs -> 0 .. MaxFree']
    <3>1. \A n \in Runs : m_freeCount'[n] \in 0 .. MaxFree BY <1>1, <2>2, <2>3
    <3> DEFINE v == (m_freeCount[r] - 1) % 65536
    <3>2. m_freeCount' = [m_freeCount EXCEPT ![r] = v] BY <1>5
    <3> HIDE DEF v
    <3>3. m_freeCount' = [n \in Runs |-> m_freeCount'[n]] BY <1>1, <3>2
    <3> QED BY <1>4, <3>1, <3>3
  <2>7. ListsOK'
    <3>1. ASSUME NEW n \in ListOf("full")
          PROVE  m_freeCount'[n] = 0
      <4>1. n \in Runs /\ m_freeCount[n] = 0 BY <1>1, <1>8
      <4>2. CASE n # r BY <2>3, <4>1, <4>2
      <4>3. CASE n = r BY <2>2, <4>1, <4>3
      <4> QED BY <4>2, <4>3
    <3> QED BY <1>10, <3>1 DEF ListsOK, ListOf
  <2>8. TakenOK'
    <3>1. \A p \in Taken' : p.bit + m_objSize' <= RunSize BY <1>1, <1>2, <1>4, <1>7 DEF Fits
    <3>2. objects' \cap Cached' = {} /\ IsInjective(m_objCache')
      <4>1. Cached' = {} /\ m_objCache' = m_objCache BY <1>2, <1>7 DEF Cached
      <4> QED BY <1>1, <4>1 DEF TakenOK
    <3>3. \A n \in Runs : InUse(n)' # {} <=> n \in known' BY <1>1, <1>2, <1>7
    <3> QED BY <3>1, <3>2, <3>3 DEF TakenOK
  <2>9. SearchOK' BY <1>1, <1>2, <1>3, <1>4 DEF SearchOK
  <2> QED BY <2>5, <2>6, <2>7, <2>8, <2>9 DEF Good
<1>13. /\ m_objCache' \in Seq(Objects') /\ objects' \subseteq Objects'
       /\ returned' \subseteq Objects'
       /\ spoilt' \subseteq {"beyond", "filled", "twice"}
       /\ recovering' \in BOOLEAN /\ pc' \in {"idle", "slab", "newRun", "clean"}
       /\ cur' \in Runs \cup {NULL} /\ Sizes'
  BY <1>1, <1>2, <1>4 DEF TypeOK, Sizes
<1>14. known' \subseteq Runs /\ leaked' \subseteq Runs \ known' BY <1>1, <1>2, <1>3
<1>15. Unspoilt' => spoilt' = {} BY DEF Unspoilt
<1> QED BY <1>6, <1>11, <1>12, <1>13, <1>14, <1>15
        DEF IInv, TypeOK, Sizes, RunTypes, Links

-----------------------------------------------------------------------------
(* The inductive invariant. *)

LEMMA InitHolds ==
    ASSUME Init
    PROVE  IInv
<1>1. Sizes BY DEF Init, Sizes
<1>2. /\ m_objSize \in Nat \ {0} /\ RunSize \in Nat /\ Header \in Nat /\ MaxFree \in Nat
      /\ Base \in Nat /\ MaxFree >= 2 /\ MaxFree = (RunSize - Base) \div m_objSize
      /\ Words \in Nat \ {0}
  BY <1>1, Numbers, WordsOfRun
<1>3. Header <= RunSize
  <2>1. m_objSize \in ObjSizes BY <1>1 DEF Sizes
  <2>2. (RunSize - Header) \div m_objSize >= 2 BY <2>1, SlabAssumption
  <2>3. 0 * m_objSize + m_objSize <= RunSize - Header
    <3>1. 0 < (RunSize - Header) \div m_objSize BY <1>2, <2>2, Division
    <3> QED BY <1>2, <3>1, HowMany
  <2> QED BY <1>2, <2>3
<1>4. /\ kind \in {"nvm", "dram"} /\ recovering = (kind = "nvm")
      /\ pc = "idle" /\ cur = NULL
      /\ lists = [half |-> NULL, full |-> NULL,
                  next |-> [r \in Runs |-> NULL], prev |-> [r \in Runs |-> NULL]]
      /\ m_objCache = <<>> /\ objects = {} /\ known = {} /\ leaked = {} /\ returned = {}
      /\ spoilt = {}
  BY DEF Init
<1>5. Cached = {} /\ Taken = {} /\ \A r : InUse(r) = {} BY <1>4 DEF Cached, Taken, InUse
<1>6. RunTypes BY <1>2, <1>3 DEF Init, RunTypes
<1>7. m_freeCount \in [Runs -> 0 .. MaxFree] BY <1>2 DEF Init
<1>8. RunsOK
  <2> SUFFICES ASSUME NEW r \in Runs PROVE RunOK(r) BY DEF RunsOK
  <2>1. /\ m_bitmap[r] = BitmapSlots /\ m_freeCount[r] = MaxFree /\ m_tail[r] = Header
        /\ m_freeChunks[r] = <<>>
    BY DEF Init
  <2>2. ToSet(m_freeChunks[r]) = {} /\ IsInjective(m_freeChunks[r])
    BY <2>1 DEF ToSet, IsInjective
  <2>3. FreeSlots(r) = Slots
    <3>1. CASE kind = "nvm" BY <2>1, <3>1 DEF FreeSlots, Slots
    <3>2. CASE kind = "dram"
      <4>1. \A b \in Slots : b >= Header
        <5>1. \A b \in Slots : b \in Nat /\ Header <= b BY <1>1, <3>2, SlotsAre DEF Base
        <5> QED BY <1>2, <5>1
      <4> QED BY <2>1, <2>2, <3>2, <4>1 DEF FreeSlots
    <3> QED BY <1>4, <3>1, <3>2
  <2>4. m_freeCount[r] = MaxFree - Cardinality(InUse(r))
    <3>1. Cardinality(InUse(r)) = 0 BY <1>5, FS_EmptySet
    <3> QED BY <1>2, <2>1, <3>1
  <2>5. \E j \in Nat : m_tail[r] = Header + j * m_objSize
    <3>1. m_tail[r] = Header + 0 * m_objSize BY <1>2, <2>1
    <3> QED BY <3>1
  <2>6. FreeSlots(r) = Slots \ {o.bit : o \in InUse(r)} BY <1>5, <2>3
  <2> QED BY <2>2, <2>4, <2>5, <2>6 DEF RunOK
<1>9. TakenOK BY <1>4, <1>5 DEF TakenOK, IsInjective
<1>10. ListsOK
  <2>1. lists \in Links /\ \A list \in Lists : lists[list] = NULL
    BY <1>4 DEF Links, Lists
  <2>2. \A list \in Lists : Closed(lists, list, {}) BY <2>1 DEF Closed
  <2>3. \A list \in Lists : Chain(lists, list) = {} BY <2>1, <2>2, ChainIs
  <2>4. TwoLists(lists) BY <2>1, <2>3 DEF TwoLists, Linked, Lists
  <2> QED BY <1>4, <2>3, <2>4 DEF ListsOK, ListOf, Lists
<1>11. SearchOK BY <1>4 DEF SearchOK
<1>12. Good BY <1>8, <1>9, <1>10, <1>11 DEF Good
<1>13. m_objCache \in Seq(Objects) BY <1>4
<1>14. lists \in Links BY <1>10 DEF ListsOK, TwoLists
<1> QED BY <1>1, <1>4, <1>6, <1>7, <1>12, <1>13, <1>14
        DEF IInv, TypeOK, Sizes, RunTypes, Links

LEMMA NextKeeps ==
    ASSUME IInv, [Next]_vars
    PROVE  IInv'
<1>1. CASE Unspoilt
  <2>1. Sound BY <1>1 DEF Sound, IInv
  <2>2. CASE AllocFromCache BY <2>1, <2>2, AllocFromCacheKeeps
  <2>3. CASE AllocStart \/ SlabExhausted \/ StartClean \/ AllocFails BY <2>1, <2>3, SearchSteps
  <2>4. CASE SlabTakes BY <2>1, <2>4, SlabTakesKeeps
  <2>5. CASE SlabMovesOn BY <2>1, <2>5, SlabMovesOnKeeps
  <2>6. ASSUME NEW r \in Runs, AllocNewRun(r) PROVE IInv' BY <2>1, <2>6, AllocNewRunKeeps
  <2>7. ASSUME NEW o \in Objects, FreeToCache(o) PROVE IInv' BY <2>1, <2>7, FreeToCacheKeeps
  <2>8. ASSUME NEW o \in Objects, FreeToSlab(o) PROVE IInv' BY <2>1, <2>8, FreeToSlabKeeps
  <2>9. ASSUME NEW o \in Objects, RecoverAt(o) PROVE IInv' BY <2>1, <2>9, RecoverAtKeeps
  <2>10. CASE EndRecover BY <2>1, <2>10, SearchSteps
  <2>11. CASE UNCHANGED vars BY <2>1, <2>11, SearchSteps
  <2> QED BY <2>2, <2>3, <2>4, <2>5, <2>6, <2>7, <2>8, <2>9, <2>10, <2>11 DEF Next, Alloc
\* A spoilt slab takes no step.
<1>2. CASE ~Unspoilt
  <2>1. UNCHANGED vars
    <3>1. ~Alloc
      BY <1>2 DEF Alloc, AllocFromCache, AllocStart, SlabTakes, SlabMovesOn, SlabExhausted,
                  StartClean, AllocFails, NeedsRun, Calm
    <3>2. \A r \in Runs : ~AllocNewRun(r) BY <1>2 DEF AllocNewRun, NeedsRun
    <3>3. \A o \in Objects : ~FreeToCache(o) /\ ~FreeToSlab(o) /\ ~RecoverAt(o)
      BY <1>2 DEF FreeToCache, FreeToSlab, RecoverAt, Frees
    <3>4. ~EndRecover BY <1>2 DEF EndRecover
    <3> QED BY <3>1, <3>2, <3>3, <3>4 DEF Next
  <2>2. TypeOK /\ UNCHANGED <<slab, recovering, pc, cur, lists, known, m_objCache, objects>>
        /\ UNCHANGED <<m_bitmap, lastAccessPos, m_tail, m_freeChunks, leaked, returned, spoilt>>
    BY <2>1 DEF IInv, vars, run, nvm, dram
  <2>3. ~Unspoilt' BY <1>2, <2>2 DEF Unspoilt
  <2>4. /\ kind' = kind /\ m_objSize' = m_objSize /\ Slots' = Slots
        /\ BitmapSlots' = BitmapSlots /\ Objects' = Objects
    BY <2>2, SlabKept
  <2> QED BY <2>2, <2>3, <2>4 DEF IInv, TypeOK
<1> QED BY <1>1, <1>2

LEMMA Invariance == Spec => []IInv
BY InitHolds, NextKeeps, PTL DEF Spec

-----------------------------------------------------------------------------
(* The properties follow. *)

LEMMA ListsHold ==
    ASSUME IInv
    PROVE  ListsIntact
<1> SUFFICES ASSUME Unspoilt
             PROVE  /\ ListOf("half") \cap ListOf("full") = {}
                    /\ ListOf("half") \cup ListOf("full") = known
                    /\ \A r \in known : LET n == lists.next[r] IN
                          n # NULL => n # r /\ lists.prev[n] = r
                    /\ \A list \in {"half", "full"} :
                          lists[list] # NULL => lists.prev[lists[list]] = NULL
                    /\ \A r \in ListOf("full") : m_freeCount[r] = 0
  BY DEF IInv, ListsIntact
<1>1. /\ TwoLists(lists) /\ ListOf("half") \cup ListOf("full") = known
      /\ \A r \in ListOf("full") : m_freeCount[r] = 0
  BY DEF IInv, Good, ListsOK
<1>2. /\ lists \in Links /\ \A list \in Lists : Linked(lists, list)
      /\ ListOf("half") \cap ListOf("full") = {}
  BY <1>1 DEF TwoLists, ListOf
<1>3. ASSUME NEW r \in known, lists.next[r] # NULL
      PROVE  lists.next[r] # r /\ lists.prev[lists.next[r]] = r
  <2>1. PICK list \in Lists : r \in Chain(lists, list) BY <1>1 DEF ListOf, Lists
  <2>2. lists.next[r] # r BY <1>2, <2>1, Neighbours
  <2> QED BY <1>2, <1>3, <2>1, <2>2 DEF Linked
<1>4. \A list \in {"half", "full"} : lists[list] # NULL => lists.prev[lists[list]] = NULL
  BY <1>2 DEF Linked, Lists
<1> QED BY <1>1, <1>2, <1>3, <1>4

\* As many as a sequence in which nothing occurs twice is long.
LEMMA Counted ==
    ASSUME NEW S, NEW s \in Seq(S), IsInjective(s)
    PROVE  Cardinality(ToSet(s)) = Len(s)
<1>1. Len(s) \in Nat /\ DOMAIN s = 1 .. Len(s) OBVIOUS
<1>2. s \in [1 .. Len(s) -> ToSet(s)] BY <1>1 DEF ToSet
<1>3. s \in Injection(1 .. Len(s), ToSet(s)) BY <1>1, <1>2 DEF Injection, IsInjective
<1>4. s \in Surjection(1 .. Len(s), ToSet(s)) BY <1>1, <1>2 DEF Surjection, ToSet
<1>5. ExistsBijection(1 .. Len(s), ToSet(s)) BY <1>3, <1>4 DEF ExistsBijection, Bijection
<1> QED BY <1>1, <1>5, FS_CountingElements

LEMMA CountsHold ==
    ASSUME IInv
    PROVE  CountsAgree
<1> SUFFICES ASSUME Unspoilt
             PROVE  /\ \A r \in known :
                         /\ FreeSlots(r) = Slots \ {o.bit : o \in InUse(r)}
                         /\ IsInjective(m_freeChunks[r])
                         /\ m_freeCount[r] = MaxFree - Cardinality(InUse(r))
                         /\ InUse(r) # {}
                    /\ \A r \in leaked : InUse(r) = {}
                    /\ objects \cap Cached = {}
                    /\ Cardinality(Cached) = Len(m_objCache)
  BY DEF CountsAgree
<1>1. TypeOK /\ RunsOK /\ TakenOK BY DEF IInv, Good
<1>2. known \subseteq Runs /\ leaked \subseteq Runs \ known BY <1>1 DEF TypeOK
<1>3. \A r \in known : RunOK(r) /\ InUse(r) # {} BY <1>1, <1>2 DEF RunsOK, TakenOK
<1>4. \A r \in leaked : InUse(r) = {} BY <1>1, <1>2 DEF TakenOK
<1>5. Cardinality(Cached) = Len(m_objCache)
  <2>1. m_objCache \in Seq(Objects) /\ IsInjective(m_objCache) BY <1>1 DEF TypeOK, TakenOK
  <2>2. Cached = ToSet(m_objCache) BY <1>1, TakenAre
  <2> QED BY <2>1, <2>2, Counted
<1>6. objects \cap Cached = {} BY <1>1 DEF TakenOK
<1> QED BY <1>3, <1>4, <1>5, <1>6 DEF RunOK

LEMMA ApartHolds ==
    ASSUME IInv
    PROVE  Apart
<1> SUFFICES ASSUME Unspoilt, NEW o \in Taken, NEW p \in Taken
             PROVE  /\ o.bit + m_objSize <= RunSize
                    /\ kind = "dram" => o.bit >= Header
                    /\ o.run = p.run /\ o.bit < p.bit => o.bit + m_objSize <= p.bit
  BY DEF Apart, Taken
<1>1. Sizes /\ Taken \subseteq Objects BY TakenAre DEF IInv, TypeOK, Sizes
<1>2. o.bit \in Slots /\ p.bit \in Slots BY <1>1, ObjectsAre
<1>3. o.bit + m_objSize <= RunSize BY DEF IInv, Good, TakenOK
<1>4. kind = "dram" => o.bit >= Header
  <2>1. o.bit \in Nat /\ Base <= o.bit BY <1>1, <1>2, SlotsAre
  <2>2. Header \in Nat BY <1>1, Numbers
  <2> QED BY <2>1, <2>2 DEF Base
<1>5. o.bit < p.bit => o.bit + m_objSize <= p.bit BY <1>1, <1>2, SlotsAre
<1> QED BY <1>3, <1>4, <1>5

-----------------------------------------------------------------------------
(* What is free as an allocation waits for a new run came back on its way. *)

ReturnedOK == pc \in {"newRun", "clean"} => FreeObjects \subseteq returned

\* With every run of the slab full and the cache empty nothing is free.
LEMMA NothingFree ==
    ASSUME IInv, Unspoilt, lists.half = NULL, m_objCache = <<>>
    PROVE  FreeObjects = {}
<1>1. /\ TypeOK /\ RunsOK /\ TakenOK /\ ListsOK /\ Sizes
      /\ known \subseteq Runs /\ leaked \subseteq Runs \ known /\ Taken \subseteq Objects
  BY TakenAre DEF IInv, Good, TypeOK, Sizes
<1>2. Cached = {} BY DEF Cached
<1>3. ListOf("half") = {}
  <2>1. "half" \in Lists /\ lists["half"] = NULL BY DEF Lists
  <2> QED BY <1>1, <2>1, NoFirst DEF ListsOK, ListOf
<1>4. ASSUME NEW o \in Objects, o.run \in known, o.bit \in FreeSlots(o.run),
             o.bit + m_objSize <= RunSize
      PROVE  FALSE
  <2> DEFINE r == o.run
             X == InUse(r)
  <2>1. RunOK(r) /\ m_freeCount[r] = 0 BY <1>1, <1>3, <1>4 DEF RunsOK, ListsOK
  <2>2. \A p \in X : p \in Objects /\ p.run = r /\ p.bit + m_objSize <= RunSize
    BY <1>1 DEF InUse, Taken, TakenOK
  <2>3. o \notin X BY <1>4, <2>1 DEF RunOK
  <2>4. MaxFree - Cardinality(X) = 0 BY <2>1 DEF RunOK
  <2> HIDE DEF X
  <2>5. IsFiniteSet(X) /\ Cardinality(X) \in Nat BY <1>1, <2>2, Countable
  <2>6. Cardinality(X \cup {o}) = Cardinality(X) + 1 BY <2>3, <2>5, FS_AddElement
  <2>7. \A p \in X \cup {o} : p \in Objects /\ p.run = r /\ p.bit + m_objSize <= RunSize
    BY <1>4, <2>2
  <2>8. Cardinality(X \cup {o}) <= MaxFree BY <1>1, <2>7, Countable
  <2>9. MaxFree \in Nat BY <1>1, Numbers
  <2> QED BY <2>4, <2>5, <2>6, <2>8, <2>9
<1> QED BY <1>2, <1>4 DEF FreeObjects

\* An object that is freed is all that becomes free.
LEMMA OneMoreFree ==
    ASSUME IInv, IInv', Unspoilt, Unspoilt', UNCHANGED slab, known' \subseteq known, NEW o,
           Cached' \subseteq Cached \cup {o}, \A n : InUse(n) \subseteq InUse(n)' \cup {o}
    PROVE  FreeObjects' \subseteq FreeObjects \cup {o}
<1>1. /\ RunsOK /\ RunsOK' /\ known \subseteq Runs \ leaked /\ known' \subseteq Runs \ leaked'
      /\ Taken \subseteq Objects
  BY TakenAre DEF IInv, Good, TypeOK
<1>2. Slots' = Slots /\ Objects' = Objects /\ m_objSize' = m_objSize BY SlabKept
<1> SUFFICES ASSUME NEW x \in FreeObjects', x \notin Cached', x # o
             PROVE  x \in FreeObjects
  BY DEF FreeObjects
<1>3. /\ x \in Objects /\ x.run \in known' /\ x.bit \in FreeSlots(x.run)'
      /\ x.bit + m_objSize <= RunSize
  BY <1>2 DEF FreeObjects
<1>4. x.bit \in Slots /\ x.bit \notin {p.bit : p \in InUse(x.run)'}
  BY <1>1, <1>2, <1>3 DEF RunsOK, RunOK
<1>5. ASSUME NEW p \in InUse(x.run), p.bit = x.bit
      PROVE  FALSE
  <2>1. p \in Objects /\ p.run = x.run BY <1>1 DEF InUse, Taken
  <2>2. p = x BY <1>3, <1>5, <2>1, ObjectsAre
  <2> QED BY <1>4, <1>5, <2>2
<1>6. x.bit \in FreeSlots(x.run) BY <1>1, <1>3, <1>4, <1>5 DEF RunsOK, RunOK
<1> QED BY <1>3, <1>6 DEF FreeObjects

LEMMA ReturnedKept ==
    ASSUME IInv, IInv', Unspoilt => ReturnedOK, [Next]_vars
    PROVE  Unspoilt' => ReturnedOK'
<1> SUFFICES ASSUME Unspoilt', pc' \in {"newRun", "clean"}
             PROVE  FreeObjects' \subseteq returned'
  BY DEF ReturnedOK
<1>1. ASSUME UNCHANGED <<slab, run, known, m_objCache, returned>>
      PROVE  FreeObjects' = FreeObjects /\ returned' = returned
  <2>1. Slots' = Slots /\ Objects' = Objects /\ m_objSize' = m_objSize /\ kind' = kind
    BY <1>1, SlabKept
  <2>2. UNCHANGED <<m_bitmap, m_tail, m_freeChunks, known, m_objCache>>
    BY <1>1 DEF run, nvm, dram
  <2>3. \A r : FreeSlots(r)' = FreeSlots(r) BY <2>1, <2>2 DEF FreeSlots
  <2>4. Cached' = Cached BY <2>2 DEF Cached
  <2> QED BY <1>1, <2>1, <2>2, <2>3, <2>4 DEF FreeObjects
<1>2. CASE SlabExhausted
  <2>1. /\ Unspoilt /\ pc = "slab" /\ cur = NULL
        /\ UNCHANGED <<slab, run, known, m_objCache, returned>>
    BY <1>2 DEF SlabExhausted
  <2>2. lists.half = NULL /\ m_objCache = <<>> BY <2>1 DEF IInv, Good, SearchOK
  <2> QED BY <1>1, <2>1, <2>2, NothingFree
<1>3. CASE StartClean
  <2>1. Unspoilt /\ pc = "newRun" /\ UNCHANGED <<slab, run, known, m_objCache, returned>>
    BY <1>3 DEF StartClean
  <2> QED BY <1>1, <2>1 DEF ReturnedOK
<1>4. CASE UNCHANGED vars
  <2>1. UNCHANGED <<slab, run, known, m_objCache, returned, pc, spoilt>> BY <1>4 DEF vars
  <2> QED BY <1>1, <2>1 DEF ReturnedOK, Unspoilt
<1>5. ASSUME NEW o \in Objects, FreeToCache(o) \/ FreeToSlab(o)
      PROVE  FreeObjects' \subseteq returned'
  <2>1. /\ Unspoilt /\ o \in objects /\ pc' = pc /\ UNCHANGED slab /\ pc \in {"idle", "clean"}
        /\ returned' = IF pc = "clean" THEN returned \cup {o} ELSE returned
        /\ objects' = objects \ {o}
    BY <1>5 DEF FreeToCache, FreeToSlab, Frees
  <2>2. FreeObjects \subseteq returned /\ returned' = returned \cup {o}
    BY <2>1 DEF ReturnedOK
  <2>3. known' \subseteq known /\ Cached \subseteq Cached' /\ Cached' \subseteq Cached \cup {o}
    <3>1. CASE FreeToCache(o)
      <4>1. known' = known /\ m_objCache' = Append(m_objCache, o) BY <3>1 DEF FreeToCache
      <4>2. m_objCache \in Seq(Objects) BY DEF IInv, TypeOK
      <4>3. /\ DOMAIN m_objCache' = 1 .. Len(m_objCache) + 1 /\ Len(m_objCache) \in Nat
            /\ DOMAIN m_objCache = 1 .. Len(m_objCache)
            /\ m_objCache'[Len(m_objCache) + 1] = o
            /\ \A k \in 1 .. Len(m_objCache) : m_objCache'[k] = m_objCache[k]
        BY <4>1, <4>2
      <4>4. \A k \in 1 .. Len(m_objCache) + 1 : k \in 1 .. Len(m_objCache)
                                                  \/ k = Len(m_objCache) + 1
        BY <4>3
      <4>5. 1 .. Len(m_objCache) \subseteq 1 .. Len(m_objCache) + 1 BY <4>3
      <4> QED BY <4>1, <4>3, <4>4, <4>5 DEF Cached
    <3>2. CASE FreeToSlab(o)
      <4>1. m_objCache' = m_objCache BY <3>2 DEF FreeToSlab
      <4>2. known' \subseteq known
        BY <3>2 DEF FreeToSlab, FreeOfFull, FreeOfUnfilled, GiveSlot, Release
      <4> QED BY <4>1, <4>2 DEF Cached
    <3> QED BY <1>5, <3>1, <3>2
  <2>4. \A n : InUse(n) \subseteq InUse(n)' \cup {o} BY <2>1, <2>3 DEF InUse
  <2>5. FreeObjects' \subseteq FreeObjects \cup {o} BY <2>1, <2>3, <2>4, OneMoreFree
  <2> QED BY <2>2, <2>5
\* No other step leads to, or stays with, an allocation that waits for a run.
<1>6. ASSUME \/ AllocFromCache \/ AllocStart \/ SlabTakes \/ SlabMovesOn \/ AllocFails
             \/ \E r \in Runs : AllocNewRun(r)
             \/ \E o \in Objects : RecoverAt(o)
             \/ EndRecover
      PROVE  FALSE
  <2>1. ~AllocFromCache /\ ~AllocStart /\ ~SlabTakes /\ ~SlabMovesOn /\ ~AllocFails
    BY DEF AllocFromCache, AllocStart, SlabTakes, SlabMovesOn, AllocFails, Calm
  <2>2. \A r \in Runs : ~AllocNewRun(r) BY DEF AllocNewRun
  <2>3. recovering /\ Unspoilt => pc = "idle" BY DEF IInv, Good, SearchOK
  <2>4. \A o \in Objects : ~RecoverAt(o) BY <2>3 DEF RecoverAt
  <2>5. ~EndRecover BY <2>3 DEF EndRecover
  <2> QED BY <1>6, <2>1, <2>2, <2>4, <2>5
<1> QED BY <1>2, <1>3, <1>4, <1>5, <1>6 DEF Next, Alloc

LEMMA ReturnedHolds == Spec => [](IInv /\ (Unspoilt => ReturnedOK))
<1>1. Init => IInv /\ (Unspoilt => ReturnedOK)
  <2>1. Init => pc = "idle" BY DEF Init
  <2> QED BY <2>1, InitHolds DEF ReturnedOK
<1>2. /\ IInv /\ (Unspoilt => ReturnedOK) /\ [Next]_vars
      => IInv' /\ (Unspoilt' => ReturnedOK')
  BY NextKeeps, ReturnedKept
<1> QED BY <1>1, <1>2, PTL DEF Spec

\* The structures of a run come with its first object only.
LEMMA NewRunStep ==
    ASSUME IInv, Unspoilt => ReturnedOK, [Next]_vars, ~recovering,
           known' # known, known \subseteq known'
    PROVE  FreeObjects \subseteq returned
<1>1. \E r \in Runs : AllocNewRun(r)
  <2>1. ~Alloc
    BY DEF Alloc, AllocFromCache, AllocStart, SlabTakes, SlabMovesOn, SlabExhausted, StartClean,
           AllocFails
  <2>2. \A o \in Objects : ~FreeToCache(o) BY DEF FreeToCache
  <2>3. \A o \in Objects : ~FreeToSlab(o)
    BY DEF FreeToSlab, FreeOfFull, FreeOfUnfilled, GiveSlot, Release
  <2>4. \A o \in Objects : ~RecoverAt(o) BY DEF RecoverAt
  <2>5. ~EndRecover BY DEF EndRecover
  <2>6. ~UNCHANGED vars BY DEF vars
  <2> QED BY <2>1, <2>2, <2>3, <2>4, <2>5, <2>6 DEF Next
<1>2. Unspoilt /\ pc \in {"newRun", "clean"} BY <1>1 DEF AllocNewRun, NeedsRun
<1> QED BY <1>2 DEF ReturnedOK

-----------------------------------------------------------------------------
\* Through CLDoubleLinkList's pushes and erases, whichever list erase is told,
\* each run with a structure is in exactly one of a slab's lists, linked both
\* ways, and only full runs are with the full ones.
THEOREM ListsAreIntact == Spec => []ListsIntact
BY Invariance, ListsHold, PTL

\* CLBitMap, or a DRAM run's chunks, and the 16-bit count of a run agree with
\* what the program and the object cache hold of it; no object is given out
\* twice, by an allocation or by recovery, and no run in use goes back.
THEOREM CountsAreRight == Spec => []CountsAgree
BY Invariance, CountsHold, PTL

\* For every size of run and of object: what a slab gives out lies in its run,
\* behind a DRAM run's header, and overlaps nothing else that is in use.
THEOREM ObjectsAreApart == Spec => []Apart
BY Invariance, ApartHolds, PTL

\* allocFromSlab takes a new run only when nothing was free as it searched its
\* cache and its slab: whatever is free came back in doChannelClean, on the way.
THEOREM NewRunsAreNeeded == Spec => NewRunOnlyWhenNeeded
<1>1. IInv /\ (Unspoilt => ReturnedOK) /\ [Next]_vars =>
        [(~recovering /\ known' # known /\ known \subseteq known') =>
           FreeObjects \subseteq returned]_vars
  BY NewRunStep
<1> QED BY <1>1, ReturnedHolds, PTL DEF Spec, NewRunOnlyWhenNeeded
=============================================================================
